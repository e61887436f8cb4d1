------------------------------ MODULE MCIndexer ------------------------------
(* Small instances of Indexer for TLC. *)
EXTENDS Indexer, TLC

\* Two contents of a file that share a chunk, except as text; a new version of a
\* chunker moves the boundaries.  The opaque chunker has no chunks.
MCSplit(c, chunker, v) ==
  LET first == IF c = "c1" THEN v ELSE v + 1 IN
  CASE chunker = "opaque" -> {}
    [] chunker = "text"   -> {first}
    [] OTHER              -> {first, first + 1}

MCChunks == 1..(MaxVersion + 2)

\* As released: code 4, text 2, the others 1.  Only whether a file's two versions
\* are equal matters, that of its kind's chunker and that of the one that ran, so
\* small numbers stand for them.
MCInitialVersion ==
  [code |-> 2, markdown |-> 1, text |-> 2, opaque |-> 1, pdf |-> 1]

\* One root has most of the files; the other, if there is one, has these.
CONSTANT Apart

MCRootOf == [f \in Files |-> IF f \in Apart THEN "r2" ELSE "r1"]

Alike == Permutations(Files \ Apart)

AllCode == [f \in Files |-> "code"]

Index == [space |-> "s1", scope |-> None, force |-> FALSE, dry |-> FALSE,
          allow |-> FALSE]

\* What a run may delete: everything behind both brakes, or one root's files
\* without the second.
DeletingRuns == {Index, [Index EXCEPT !.allow = TRUE, !.scope = "r1"]}

\* What a run makes of a file.
LadderRuns == {Index, [Index EXCEPT !.force = TRUE], [Index EXCEPT !.dry = TRUE]}

RecoveryRuns == {Index, [Index EXCEPT !.force = TRUE]}

JustIndex == {Index}

\* The embedding model is switched, and switched back.
SwapRuns == {Index, [Index EXCEPT !.space = "s2"]}

=============================================================================
