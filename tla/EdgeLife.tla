------------------------------ MODULE EdgeLife ------------------------------
(***************************************************************************)
(* The life of an import edge, whatever pass a run is in and wherever runs *)
(* stop: it comes with the manifest's row of its file, undecided, and goes *)
(* with it.  In between it is answered by itself, a path being that of a   *)
(* file which has a row by then, and a path or a refusal is final; only an *)
(* answer by namespace is taken back, since the files that declare one may *)
(* go.  (The imports table of src/workspace_indexer/state/schema.sql and   *)
(* what manifest.py says of set_resolved_path, mark_declined and           *)
(* clear_namespace_resolution.)                                            *)
(***************************************************************************)
CONSTANTS
  Files,     \* the files a workspace can hold
  Nothing,   \* no row, no target, no answer
  Near       \* pairs of files of which the first may reach the second

VARIABLES
  records,   \* [Files -> the manifest's row or Nothing]
  edges      \* [file, edge, to, by] records

lifeVars == <<records, edges>>

Of(table, f) == {e \in table : e.file = f}

Undecided(e) == e.to = Nothing /\ e.by = Nothing

LifeInit == \A e \in edges : Undecided(e)

\* Rows of any number of files change: with a row go all its edges.
Record ==
  \A f \in Files :
    IF records'[f] = records[f]
    THEN Of(edges', f) = Of(edges, f)
    ELSE \A e \in Of(edges', f) : Undecided(e) /\ records'[f] # Nothing

Become(e, x) == edges' = (edges \ {e}) \cup {x}

FollowPath(e, g) ==
  /\ Undecided(e)
  /\ <<e.file, g>> \in Near /\ records[g] # Nothing
  /\ Become(e, [e EXCEPT !.to = g, !.by = "path"])

FollowNamespace(e) == Undecided(e) /\ Become(e, [e EXCEPT !.by = "namespace"])

Decline(S) ==
  /\ \A e \in S : Undecided(e)
  /\ edges' = (edges \ S) \cup {[e EXCEPT !.by = "declined"] : e \in S}

\* The edges of one file, by whatever keyword they name the namespace.
Reopen(S) ==
  /\ \A e \in S : e.by = "namespace"
  /\ \A e, x \in S : e.file = x.file
  /\ edges' = (edges \ S) \cup {[e EXCEPT !.by = Nothing] : e \in S}

Settle ==
  /\ UNCHANGED records
  /\ \/ \E e \in edges : (\E g \in Files : FollowPath(e, g)) \/ FollowNamespace(e)
     \/ \E S \in SUBSET edges : Decline(S) \/ Reopen(S)

LifeNext == Record \/ Settle

LifeSpec == LifeInit /\ [][LifeNext]_lifeVars

=============================================================================
