------------------------------ MODULE MCWatcher ------------------------------
(* A small tree for Watcher: src with a subdirectory that comes and goes and   *)
(* with our own files, and a second tree, docs.                               *)
EXTENDS Watcher

Below == {"src/new", "src/data", "src/state"}

MCParent ==
  [d \in Dirs |-> IF d \in Below THEN "src" ELSE None]

MCWithin ==
  [d \in Dirs |-> IF d \in Below THEN {d, "src"} ELSE {d}]

\* One workspace has both trees, the other shares the first.
MCRoots ==
  [w \in Workspaces |-> IF w = "w1" THEN {"src", "docs"} \cap Dirs ELSE {"src"}]

\* The user excludes nothing, or the subdirectory.
MCExcludes == {{}, {"src/new"} \cap Dirs}

=============================================================================
