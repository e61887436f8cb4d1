------------------------------ MODULE Embedding ------------------------------
(***************************************************************************)
(* The embedding service                                                   *)
(* (src/workspace_indexer/embedding/embedding_service.py, retry_policy.py, *)
(* pydantic_ai_backend.py) and the index runs that pay for it.             *)
(*                                                                         *)
(* embed_documents cuts its texts into batches, and gathers one task per   *)
(* batch.  A task waits for a permit, sends its request, and on an error   *)
(* that is worth it sleeps and sends again, permit in hand.  The provider  *)
(* may serve a request whose answer is lost on the way.  gather raises as  *)
(* soon as one task does and cancels none: the others go on, and are still *)
(* counted, while the process starts its next run.                         *)
(***************************************************************************)
EXTENDS Naturals, FiniteSets, SequencesExt

CONSTANTS
  Requests,         \* sequences of texts that a flush embeds
  TokensOf,         \* [texts -> Nat]: what the code takes a text to cost
  ChargeOf,         \* [texts -> Nat]: what the provider charges for it
  Nothing,
  BatchSize,        \* texts per request (64)
  MaxBatchTokens,   \* tokens per request (100 000)
  MaxConcurrency,   \* permits (4)
  MaxAttempts,      \* requests sent for one batch (5)
  MaxCalls,         \* bound: calls of embed_documents
  MaxRuns,          \* bound: runs finished by one process
  MaxProcesses      \* bound: processes, one after the other

ASSUME EmbeddingAssumption ==
  /\ Nothing \notin Requests
  /\ \A r \in Requests : r \in Seq(DOMAIN TokensOf)
  /\ \A t \in DOMAIN TokensOf : TokensOf[t] \in Nat /\ ChargeOf[t] \in Nat
  /\ BatchSize \in Nat \ {0} /\ MaxBatchTokens \in Nat \ {0}
  /\ MaxConcurrency \in Nat \ {0} /\ MaxAttempts \in Nat \ {0}
  /\ MaxCalls \in Nat /\ MaxRuns \in Nat /\ MaxProcesses \in Nat \ {0}

VARIABLES
  running,   \* an index run is under way
  asked,     \* the texts of its embed_documents call, or Nothing
  call,      \* calls made so far
  tasks,     \* the batches sent or to be sent, of this call and earlier ones
  slots,     \* permits of the semaphore
  reply,     \* what the last call returned
  meter,     \* EmbeddingStats.tokens of the process
  estimated, \* EmbeddingStats.estimated_token_requests
  ledger,    \* the runs table: tokens of each run this process finished
  billed,    \* what the provider charged it (read by no step)
  process    \* processes so far

stats == <<meter, estimated>>

embeddingVars ==
  <<running, asked, call, tasks, slots, reply, stats, ledger, billed, process>>

TaskStates == {"waiting", "calling", "sleeping", "done", "raised"}

EmbeddingTypeOK ==
  /\ running \in BOOLEAN
  /\ asked \in Requests \cup {Nothing}
  /\ call \in 0..MaxCalls
  /\ \A t \in tasks :
       /\ t.call \in 1..call /\ t.index \in Nat \ {0}
       /\ t.state \in TaskStates /\ t.attempt \in 0..MaxAttempts
       /\ Range(t.answer) \subseteq Range(t.texts)
  /\ slots \in 0..MaxConcurrency
  /\ slots + Cardinality({t \in tasks : t.state \in {"calling", "sleeping"}})
       = MaxConcurrency
  /\ meter \in Nat /\ estimated \in Nat /\ billed \in Nat
  /\ ledger \in Seq(Nat)
  /\ process \in 1..MaxProcesses

-----------------------------------------------------------------------------
(* Tokens, and batches.                                                    *)

Count(cost, texts) == FoldLeft(LAMBDA n, t : n + cost[t], 0, texts)

\* The provider's count, and estimate_tokens, the code's own.
Charged(texts) == Count(ChargeOf, texts)
Tokens(texts)  == Count(TokensOf, texts)

Concat(seqs) == FoldLeft(\o, <<>>, seqs)

Fits(batch, text) ==
  /\ Len(batch) < BatchSize
  /\ batch = <<>> \/ Tokens(batch) + TokensOf[text] <= MaxBatchTokens

\* Mutant: the first text of a batch is not exempt, and goes into no batch.
AddToBatchesStrict(batches, text) ==
  LET current == Last(batches) IN
  IF Len(current) < BatchSize /\ Tokens(current) + TokensOf[text] <= MaxBatchTokens
  THEN Front(batches) \o <<Append(current, text)>>
  ELSE IF TokensOf[text] > MaxBatchTokens THEN batches
  ELSE Append(batches, <<text>>)

AddToBatches(batches, text) ==
  IF Fits(Last(batches), text)
  THEN Front(batches) \o <<Append(Last(batches), text)>>
  ELSE Append(batches, <<text>>)

\* _batch: each text joins the last batch, or opens the next.
Batches(texts) ==
  IF texts = <<>> THEN <<>> ELSE FoldLeft(AddToBatches, <<<<>>>>, texts)

-----------------------------------------------------------------------------

EmbeddingInit ==
  /\ running = FALSE /\ asked = Nothing /\ call = 0 /\ tasks = {}
  /\ slots = MaxConcurrency
  /\ reply = Nothing
  /\ meter = 0 /\ estimated = 0 /\ ledger = <<>> /\ billed = 0 /\ process = 1

Mine(t) == t.call = call

Over(t) == t.state \in {"done", "raised"}

\* A task that is over is of use only to the call that waits for it.
Become(t, u) ==
  tasks' = (tasks \ {t}) \cup (IF Over(u) /\ (t.call # call \/ asked = Nothing)
                              THEN {} ELSE {u})

Leave == tasks' = {t \in tasks : ~Over(t)}

Bill(n) == billed' = billed + n

\* Indexer.run.
BeginRun ==
  /\ ~running
  /\ call < MaxCalls /\ Len(ledger) < MaxRuns
  /\ running' = TRUE
  /\ UNCHANGED <<asked, call, tasks, slots, reply, stats, ledger, billed, process>>

\* embed_documents, up to gather.
EmbedDocuments(texts) ==
  /\ running /\ asked = Nothing
  /\ call < MaxCalls
  /\ asked' = texts /\ call' = call + 1 /\ reply' = Nothing
  /\ tasks' = tasks \cup
       {[call |-> call + 1, index |-> i, texts |-> Batches(texts)[i],
         state |-> "waiting", attempt |-> 0, answer |-> <<>>] :
          i \in DOMAIN Batches(texts)}
  /\ UNCHANGED <<running, slots, stats, ledger, billed, process>>

\* asyncio.Semaphore: first come, first served.
Acquire(t) ==
  /\ t \in tasks /\ t.state = "waiting" /\ slots > 0
  /\ \A u \in tasks : u.state = "waiting" =>
       u.call > t.call \/ (u.call = t.call /\ u.index >= t.index)
  /\ slots' = slots - 1
  /\ Become(t, [t EXCEPT !.state = "calling", !.attempt = 1])
  /\ UNCHANGED <<running, asked, call, reply, stats, ledger, billed, process>>

\* The provider's answer: all of the vectors, or one too few, or one twice.
Answers(t) ==
  {t.texts}
    \cup {RemoveAt(t.texts, i) : i \in DOMAIN t.texts}
    \cup {InsertAt(t.texts, i, t.texts[i]) : i \in DOMAIN t.texts}

\* _tokens_for: the provider's count where it gave one, the code's otherwise.
Meter(texts, reported) ==
  /\ meter' = meter + (IF reported THEN Charged(texts) ELSE Tokens(texts))
  /\ estimated' = estimated + (IF reported THEN 0 ELSE 1)

\* A request that is answered: what the provider reported last is read before
\* anything else can run, and the permit goes back.
Serve(t, answer, reported) ==
  /\ t \in tasks /\ t.state = "calling"
  /\ Become(t, [t EXCEPT !.state = "done", !.answer = answer])
  /\ slots' = slots + 1
  /\ Meter(t.texts, reported)
  /\ Bill(Charged(t.texts))
  /\ UNCHANGED <<running, asked, call, reply, ledger, process>>

\* Vectors of the wrong width: paid for, and not counted.
ServeNarrow(t) ==
  /\ t \in tasks /\ t.state = "calling"
  /\ Become(t, [t EXCEPT !.state = "raised"])
  /\ slots' = slots + 1
  /\ Bill(Charged(t.texts))
  /\ UNCHANGED <<running, asked, call, reply, stats, ledger, process>>

ShouldRetry(t) == t.attempt < MaxAttempts

\* Mutant: the request that was lost is counted as well as its repetition.
RetryCounts(t, charge) ==
  /\ t \in tasks /\ t.state = "calling" /\ ShouldRetry(t)
  /\ Become(t, [t EXCEPT !.state = "sleeping"])
  /\ Meter(t.texts, TRUE)
  /\ Bill(charge)
  /\ UNCHANGED <<running, asked, call, slots, reply, ledger, process>>

\* A status worth retrying, or an answer that never came.
Retry(t, charge) ==
  /\ t \in tasks /\ t.state = "calling" /\ ShouldRetry(t)
  /\ Become(t, [t EXCEPT !.state = "sleeping"])
  /\ Bill(charge)
  /\ UNCHANGED <<running, asked, call, slots, reply, stats, ledger, process>>

\* The delay is over.
Wake(t) ==
  /\ t \in tasks /\ t.state = "sleeping"
  /\ Become(t, [t EXCEPT !.state = "calling", !.attempt = @ + 1])
  /\ UNCHANGED <<running, asked, call, slots, reply, stats, ledger, billed, process>>

\* A status that no retry helps, or the last attempt.
Fail(t, charge, final) ==
  /\ t \in tasks /\ t.state = "calling"
  /\ final \/ ~ShouldRetry(t)
  /\ Become(t, [t EXCEPT !.state = "raised"])
  /\ slots' = slots + 1
  /\ Bill(charge)
  /\ UNCHANGED <<running, asked, call, reply, stats, ledger, process>>

Batch(i) == CHOOSE t \in tasks : Mine(t) /\ t.index = i

\* Mutant: in the order in which they came back, whatever it was.
GatheredAnyhow ==
  Concat([i \in DOMAIN Batches(asked) |-> Batch(Len(Batches(asked)) + 1 - i).answer])

\* The vectors of the batches, in the order of the batches.
Gathered == Concat([i \in DOMAIN Batches(asked) |-> Batch(i).answer])

AllDone == \A t \in tasks : Mine(t) => t.state = "done"

Return ==
  /\ asked # Nothing /\ AllDone
  /\ Len(Gathered) = Len(asked)
  /\ reply' = Gathered /\ asked' = Nothing
  /\ Leave
  /\ UNCHANGED <<running, call, slots, stats, ledger, billed, process>>

\* The exception leaves the run, which records no result.  What the other
\* batches of the call are doing, they go on doing.
Raise ==
  /\ asked # Nothing
  /\ \/ \E t \in tasks : Mine(t) /\ t.state = "raised"
     \/ AllDone /\ Len(Gathered) # Len(asked)
  /\ asked' = Nothing /\ running' = FALSE
  /\ Leave
  /\ UNCHANGED <<call, slots, reply, stats, ledger, billed, process>>

\* finish_run: the totals of the process.
EndRun ==
  /\ running /\ asked = Nothing
  /\ running' = FALSE
  /\ ledger' = Append(ledger, meter)
  /\ UNCHANGED <<asked, call, tasks, slots, reply, stats, billed, process>>

\* The process ends, whatever it was doing, and another one is started.
NewProcess ==
  /\ process < MaxProcesses
  /\ process' = process + 1
  /\ running' = FALSE /\ asked' = Nothing /\ tasks' = {} /\ reply' = Nothing
  /\ slots' = MaxConcurrency
  /\ meter' = 0 /\ estimated' = 0 /\ ledger' = <<>> /\ billed' = 0
  /\ UNCHANGED call

\* What a request comes to in the end.
Settle ==
  \E t \in tasks :
    \/ Acquire(t) \/ Wake(t)
    \/ \E a \in Answers(t), reported \in BOOLEAN : Serve(t, a, reported)
    \/ ServeNarrow(t)
    \/ \E charge \in {0, Charged(t.texts)} :
         Retry(t, charge) \/ Fail(t, charge, FALSE)
    \/ Fail(t, 0, TRUE)

EmbeddingNext ==
  \/ BeginRun \/ EndRun \/ NewProcess
  \/ \E texts \in Requests : EmbedDocuments(texts)
  \/ Settle \/ Return \/ Raise

EmbeddingSpec == EmbeddingInit /\ [][EmbeddingNext]_embeddingVars

\* The event loop runs what is ready, and a provider answers or times out.
EmbeddingFairness == WF_embeddingVars(Settle \/ Return \/ Raise)

-----------------------------------------------------------------------------
(* Properties.                                                             *)

\* A batch of the call was answered with a vector too many.
Overrun == \E t \in tasks : Mine(t) /\ Len(t.answer) > Len(t.texts)

Contract ==
  INSTANCE EmbeddingContract
    WITH Texts <- DOMAIN TokensOf, asked <- asked, reply <- reply, overrun <- Overrun

(* embed_documents is the call that EmbeddingContract describes: whatever  *)
(* is retried, lost or answered out of order, and whatever earlier calls   *)
(* left running, it returns the vectors of exactly its texts in their      *)
(* order, or it raises, and it does one of the two.  The exception is a    *)
(* call of which a batch was answered with a vector too many: only the     *)
(* total is checked, so such a batch may make up for a short one, and what *)
(* is returned has the right number of vectors and not the right ones.     *)
(* (embed_documents, _with_retry)                                          *)
AlignedOrRaised == Contract!ContractSpec

(* The batches of a call are its texts in order; none is empty, none is    *)
(* above a limit that one text alone does not exceed, and none could have  *)
(* taken the text that opens the next.  (_batch)                           *)
BatchesFillUp ==
  asked # Nothing =>
    LET cut == Batches(asked) IN
    /\ Concat(cut) = asked
    /\ \A i \in DOMAIN cut :
         /\ Len(cut[i]) \in 1..BatchSize
         /\ Len(cut[i]) > 1 => Tokens(cut[i]) <= MaxBatchTokens
         /\ i < Len(cut) => ~Fits(cut[i], Head(cut[i + 1]))

(* What a process counts as spent was spent, as long as the provider       *)
(* reported every count: the meter never runs ahead of the provider's,     *)
(* even while batches of a failed call are still coming in, and no run on  *)
(* record claims more than the whole.  One count of the code's own and     *)
(* nothing is claimed: it runs high.  (_tokens_for, finish_run)            *)
MeterIsAFloor ==
  estimated = 0 =>
    /\ meter <= billed
    /\ \A i \in DOMAIN ledger : ledger[i] <= billed

=============================================================================
