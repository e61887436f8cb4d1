------------------------------ MODULE MCEmbedding ------------------------------
(***************************************************************************)
(* An instance of Embedding: batches of two texts, three tokens, two at a  *)
(* time; the code's own count of tokens is mostly too high.                *)
(***************************************************************************)
EXTENDS Embedding

MCRequests == {<<"a", "a", "b">>, <<"b", "c">>}
MCTokensOf == [a |-> 1, b |-> 2, c |-> 4]
MCChargeOf == [a |-> 1, b |-> 1, c |-> 3]

Spec == EmbeddingSpec /\ EmbeddingFairness

=============================================================================
