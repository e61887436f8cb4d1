------------------------------ MODULE MCServices ------------------------------
(***************************************************************************)
(* Instances of Chunking, Stores, Search and Registry, side by side: they  *)
(* share no state, so in each behaviour one of them moves, the one that    *)
(* `focus` names, and the others stay where they started.                  *)
(***************************************************************************)
EXTENDS Chunking, Stores, Search, Registry

VARIABLE focus

servicesVars == <<focus, chunkingVars, storesVars, searchVars, registryVars>>

Init ==
  /\ focus \in {"chunking", "stores", "search", "registry"}
  /\ ChunkingInit /\ StoresInit /\ SearchInit /\ RegistryInit
  /\ focus # "chunking" => format = "text"
  /\ focus # "search" =>
       /\ setup = [backend |-> "qdrant", fusion |-> "hybrid", reranker |-> "none"]
       /\ ~hasTree /\ \A p \in Paths : disk["main"][p] # Absent
  /\ focus # "registry" => command = "serve" /\ backing = "server"

Next ==
  /\ UNCHANGED focus
  /\ \/ /\ focus = "chunking" /\ ChunkingNext
        /\ UNCHANGED <<storesVars, searchVars, registryVars>>
     \/ /\ focus = "stores" /\ StoresNext
        /\ UNCHANGED <<chunkingVars, searchVars, registryVars>>
     \/ /\ focus = "search" /\ SearchNext
        /\ UNCHANGED <<chunkingVars, storesVars, registryVars>>
     \/ /\ focus = "registry" /\ RegistryNext
        /\ UNCHANGED <<chunkingVars, storesVars, searchVars>>

Spec == Init /\ [][Next]_servicesVars

TypesOK ==
  ChunkingTypeOK /\ StoresTypeOK /\ SearchTypeOK /\ RegistryTypeOK

-----------------------------------------------------------------------------
(* Chunking: three tokens of four bytes to a chunk, which two words fill,  *)
(* a word and an open fence exceed by the line between them, and a long    *)
(* line exceeds by itself.                                                 *)

MCBytesOf == [empty |-> 0, word |-> 5, long |-> 15, title |-> 3, fence |-> 3, info |-> 5,
              item |-> 2]
MCLineSet == DOMAIN MCBytesOf
MCDepthOf == [line \in MCLineSet |-> IF line = "title" THEN 1 ELSE 0]

(* Stores: two files, cut into one chunk or another, or withheld.          *)

MCFiles   == {"f", "g"}
MCChunksOf == [r1 |-> {1}, r2 |-> {2}, r3 |-> {1, 2}]
MCIdOrder == << <<"f", 1>>, <<"g", 1>>, <<"f", 2>>, <<"g", 2>> >>

(* Search: a guide and a test that grow by a paragraph; the test may not   *)
(* have been written yet.                                                  *)

MCPaths       == {"a", "t"}
MCFirstPaths  == {{"a"}, {"a", "t"}}
MCTextsOf     == [v1 |-> {"x"}, v2 |-> {"x", "y"}]
MCDocType     == [a |-> "guide", t |-> "test"]
MCRepoOf      == [a |-> "one", t |-> "two"]
MCPathsEnding == [a |-> {"t"}, t |-> {}]
MCDenseOrder  == << <<"t", "x">>, <<"a", "x">>, <<"t", "y">>, <<"a", "y">> >>
MCTextOrder   == << <<"t", "x">>, <<"a", "y">> >>
MCCostOf      == [x |-> 2, y |-> 4]

(* Registry: three workspaces.                                             *)

MCOrder == <<"w1", "w2", "w3">>

=============================================================================
