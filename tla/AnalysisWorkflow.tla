--------------------------- MODULE AnalysisWorkflow ---------------------------
(***************************************************************************)
(* POST /analyze in the AI service: app/main.py, internal_auth.py,         *)
(* analysis_runner.py, workflow.py and openai_provider.py.  A run is one   *)
(* HTTP request, of one attempt of one analysis; the Java client decides   *)
(* which runs there are (module AiBoundary).                               *)
(*                                                                         *)
(* A run awaits the retrieval (the load lock and the embedding provider)   *)
(* and the chat model, and nothing else: everything between is one step of *)
(* its coroutine.  Its deadline can cancel it at either place.  Snapshots  *)
(* and artifacts behind a retrieval are LiveRetrieval's.                   *)
(***************************************************************************)
EXTENDS AnalysisAnswer, Integers

CONSTANTS
  Caller,       \* analyses, one call of the Java client each
  MaxAttempts,  \* ai.service.retry-max-attempts
  Overhead,     \* PYTHON_OVERHEAD_SECONDS, in ticks
  Margin,       \* UPSTREAM_MARGIN_SECONDS, in ticks
  Scenes        \* the environments of the two services

\* The schemas of the settings and of a model's draft, and the hits of a search: no
\* corpus has two chunks of one id (reject_duplicate_chunk_ids).
IsScene(s) ==
  /\ s.settings \in [mode : {"live", "auto", "mock"}, key : BOOLEAN, chat : BOOLEAN,
                     embedding : BOOLEAN, retries : Int]
  /\ s.budget \in [provider : Nat, processing : Nat, retries : Nat, java : Nat,
                    client : Nat]
  /\ s.timed \in BOOLEAN
  /\ \A hits \in s.hits :
       /\ hits \in Seq([chunk : STRING, fresh : BOOLEAN])
       /\ \A i, j \in DOMAIN hits : hits[i].chunk = hits[j].chunk => i = j
  /\ s.drafts \subseteq [sufficient : BOOLEAN, category : STRING, priority : STRING,
                         text : {{"model"}}, cites : Seq(Nat)]

\* AiServiceProperties admits one or two attempts.
ASSUME WorkflowAssumption ==
  /\ MaxAttempts \in 1 .. 2
  /\ Overhead \in Nat /\ Margin \in Nat
  /\ \A s \in Scenes : IsScene(s)

VARIABLES
  scene,   \* what surrounds the two services; never changes
  run,     \* run[k]: the HTTP request of attempt k = <<caller, number>>
  served,  \* the release of the corpus the AI service serves
  ready    \* RuntimeDependencyReadiness

python == <<run, served, ready>>

Runs == Caller \X (1 .. MaxAttempts)

\* What a failed call of a provider is called in the answer.
EmbeddingFailures == {"embedding_connection_timeout", "embedding_response_timeout",
  "embedding_api_error"}
GenerationFailures == {"structured_generation_connection_timeout",
  "structured_generation_response_timeout", "structured_generation_api_error",
  "invalid_model_response"}

\* HTTP answers that are neither a valid 200 nor a failure; the last one stands for
\* a 200 that is no answer to this analysis, or a status without meaning.
Malformed == 299
Rejections == {400, 401, 403, 409, 422, Malformed}

Reply(code) == [code |-> code]
NoRun == [at |-> "none", age |-> 0, wait |-> 0, hits |-> <<>>, reply |-> Reply(0)]

\* A run the AI service is working on.
Processing(k) == run[k].at \in {"retrieving", "generating"}

----------------------------------------------------------------------------
(* Settings. *)

LiveReady(settings) == settings.key /\ settings.chat /\ settings.embedding

\* validate_live_mode() and validate_openai_max_retries()
Valid(settings) ==
  /\ settings.mode = "live" => LiveReady(settings)
  /\ settings.retries \in 0 .. 1

Live ==
  \/ scene.settings.mode = "live"
  \/ scene.settings.mode = "auto" /\ LiveReady(scene.settings)

Larger(a, b) == IF a > b THEN a ELSE b

\* Mutant: the client's deadline may follow the service's at once.
SafeWithoutMargin(b) ==
  /\ b.processing > Larger(b.provider * (b.retries + 1), b.provider * 3) + Overhead
  /\ b.java > b.processing
  /\ b.client > b.java + Margin

\* validate_timeout_budget(): each layer outlives the one below it.
SafeBudget(b) ==
  /\ b.processing > Larger(b.provider * (b.retries + 1), b.provider * 3) + Overhead
  /\ b.java > b.processing + Margin
  /\ b.client > b.java + Margin

----------------------------------------------------------------------------
(* Steps of a run. *)

\* The run answers; it has no hits and no clock any more.
Respond(k, reply) ==
  run' = [run EXCEPT ![k] = [NoRun EXCEPT !.at = "replied", !.reply = reply]]

RespondWith(k, answer) == Respond(k, [code |-> 200, answer |-> answer])

SameRelease == served = scene.release

\* Live retrieval failed: embedding provider and index both look down.
RetrievalDown == [ready EXCEPT !.embedding = FALSE, !.index = FALSE]

\* _fallback_after_error(): a local search of the corpus served by now, which may
\* be another one than the run began with, and only text that a policy binds.
FallBack(k, reason) ==
  \/ ~SameRelease /\ Respond(k, Reply(409))
  \/ /\ SameRelease
     /\ \E hits \in scene.hits :
          LET local == LocalDraft(scene.ticket, hits)
              draft == IF Unconstrained(scene.ticket, local, hits)
                       THEN Insufficient(local)
                       ELSE Constrain(scene.ticket, local, hits)
          IN  RespondWith(k,
                Answer("fallback", reason, draft, hits, ~draft.sufficient, TRUE))

\* Mock mode answers from the local search without awaiting anything.
MockAnswer(hits) ==
  LET draft == LocalDraft(scene.ticket, hits)
  IN  IF hits = <<>>
      THEN Answer("fallback", "insufficient_evidence", draft, hits, TRUE, FALSE)
      ELSE Answer("mock", "none", draft, hits, FALSE, FALSE)

\* The request passes the service token, the schema and the release check, or is
\* refused by the first of them that fails.
Arrive(k) ==
  /\ run[k].at = "sent"
  /\ \/ ~scene.token /\ Respond(k, Reply(401))
     \/ scene.token /\ ~scene.body /\ Respond(k, Reply(422))
     \/ /\ scene.token /\ scene.body
        /\ \/ ~SameRelease /\ Respond(k, Reply(409))
           \/ /\ SameRelease /\ Live
              /\ run' = [run EXCEPT ![k] = [NoRun EXCEPT !.at = "retrieving"]]
           \/ /\ SameRelease /\ ~Live
              /\ \E hits \in scene.hits : RespondWith(k, MockAnswer(hits))
  /\ UNCHANGED <<scene, served, ready>>

\* Hits go to the chat model; without one the local draft admits that evidence
\* is missing, and no model is asked.
Retrieve(k) ==
  /\ run[k].at = "retrieving"
  /\ \E hits \in scene.hits :
       IF hits = <<>>
       THEN RespondWith(k, Answer("fallback", "insufficient_evidence",
              Insufficient(LocalDraft(scene.ticket, hits)), hits, TRUE, FALSE))
       ELSE run' = [run EXCEPT ![k].at = "generating", ![k].hits = hits, ![k].wait = 0]
  /\ ready' = [ready EXCEPT !.embedding = TRUE, !.index = TRUE]
  /\ UNCHANGED <<scene, served>>

\* APITimeoutError and OpenAIError of the embedding provider.
RetrievalFails(k) ==
  /\ run[k].at = "retrieving"
  /\ "embedding" \in scene.faults
  /\ \E reason \in EmbeddingFailures : FallBack(k, reason)
  /\ ready' = RetrievalDown
  /\ UNCHANGED <<scene, served>>

\* EmbeddingArtifactError is no RecoverableAiError: the request ends as a 500.
ArtifactUnusable(k) ==
  /\ run[k].at = "retrieving"
  /\ "artifact" \in scene.faults
  /\ Respond(k, Reply(500))
  /\ ready' = [ready EXCEPT !.index = FALSE]
  /\ UNCHANGED <<scene, served>>

\* A draft that holds, constrained by the policies it falls under.
ModelAnswer(draft, hits) ==
  LET kept == IF draft.sufficient THEN Constrain(scene.ticket, draft, hits) ELSE draft
  IN  IF kept.sufficient
      THEN Answer("live", "none", kept, hits, FALSE, FALSE)
      ELSE Answer("fallback", "insufficient_evidence", Insufficient(kept), hits, TRUE, FALSE)

\* Mutant: citations are not looked at.
DraftParses(draft, hits) == Parses(draft)

\* The parsed draft is acceptable: the schema, and citations of the hits shown.
DraftHolds(draft, hits) ==
  /\ Parses(draft)
  /\ draft.sufficient => CitationsHold(draft.cites, hits)

\* The model answers; a draft whose citations fail is a failed generation, and one
\* that parses counts as a success of the provider first.
Generate(k) ==
  /\ run[k].at = "generating"
  /\ \E draft \in scene.drafts :
       \/ /\ DraftHolds(draft, run[k].hits)
          /\ RespondWith(k, ModelAnswer(draft, run[k].hits))
          /\ ready' = [ready EXCEPT !.generation = TRUE]
       \/ /\ ~DraftHolds(draft, run[k].hits)
          /\ FallBack(k, "invalid_model_response")
          /\ ready' = [ready EXCEPT !.generation = FALSE]
  /\ UNCHANGED <<scene, served>>

\* The provider fails, or returns no choice, a refusal or nothing parsed.
GenerationFails(k) ==
  /\ run[k].at = "generating"
  /\ "generation" \in scene.faults
  /\ \E reason \in GenerationFailures : FallBack(k, reason)
  /\ ready' = [ready EXCEPT !.generation = FALSE]
  /\ UNCHANGED <<scene, served>>

\* The cancel scope of AnalysisRunner: 504 AI_PROCESSING_TIMEOUT.
ProcessingDeadline(k) ==
  /\ Processing(k)
  /\ run[k].age >= scene.budget.processing
  /\ Respond(k, Reply(504))
  /\ UNCHANGED <<scene, served, ready>>

\* Another corpus is loaded while runs are under way.
Reload ==
  /\ "reload" \in scene.faults
  /\ SameRelease
  /\ served' = "another"
  /\ ready' = [ready EXCEPT !.index = TRUE]
  /\ UNCHANGED <<scene, run>>

PythonStep(k) ==
  \/ Arrive(k) \/ Retrieve(k) \/ RetrievalFails(k) \/ ArtifactUnusable(k)
  \/ Generate(k) \/ GenerationFails(k) \/ ProcessingDeadline(k)

PythonInit ==
  /\ scene \in Scenes
  /\ Valid(scene.settings)
  /\ SafeBudget(scene.budget)
  /\ run = [k \in Runs |-> NoRun]
  /\ served = scene.release
  /\ ready = [embedding |-> TRUE, generation |-> TRUE, index |-> ~Live]
===============================================================================
