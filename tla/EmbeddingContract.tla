-------------------------- MODULE EmbeddingContract --------------------------
(***************************************************************************)
(* What the indexer is promised by EmbeddingService.embed_documents        *)
(* (src/workspace_indexer/embedding/embedding_service.py): "vectors        *)
(* aligned one-to-one with texts, in the same order", or an exception, and *)
(* one of the two in the end.  A text stands for its vector.  The promise  *)
(* is of one vector per text in each batch: where a batch was answered     *)
(* with more, the caller may get as many vectors as texts, and others.     *)
(***************************************************************************)
EXTENDS Sequences

CONSTANTS
  Texts,
  Requests,   \* sequences of texts that are asked for
  Nothing     \* no request, no reply; none of the former

VARIABLES
  asked,      \* the texts of the call under way, or Nothing
  overrun,    \* the provider's: a batch of it was answered with too many
  reply       \* the last call's vectors, or Nothing: none yet, or it raised

contractVars == <<asked, reply>>

ContractInit == asked = Nothing /\ reply = Nothing

Ask(texts) ==
  /\ asked = Nothing
  /\ asked' = texts /\ reply' = Nothing

Deliver ==
  /\ asked # Nothing
  /\ reply' \in IF overrun THEN [DOMAIN asked -> Texts] ELSE {asked}
  /\ asked' = Nothing

\* An exception, or the end of the process.
GiveUp ==
  /\ asked # Nothing
  /\ reply' = Nothing /\ asked' = Nothing

\* A new process knows nothing of the last reply.
Forget == asked = Nothing /\ asked' = Nothing /\ reply' = Nothing

ContractNext == (\E texts \in Requests : Ask(texts)) \/ Deliver \/ GiveUp \/ Forget

ContractSpec ==
  /\ ContractInit /\ [][ContractNext]_contractVars
  /\ WF_contractVars(Deliver \/ GiveUp)

=============================================================================
