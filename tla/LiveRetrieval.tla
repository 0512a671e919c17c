---------------------------- MODULE LiveRetrieval ----------------------------
(***************************************************************************)
(* Analyses in the AI service beside reloads and index switches:           *)
(* app/workflow.py on app/knowledge.py, live_vector_index.py and           *)
(* readiness.py, in live mode.                                             *)
(*                                                                         *)
(* A process serves from a snapshot: a corpus and a LiveVectorIndex, whose *)
(* artifact is loaded, or under the policy build-if-missing built, by the  *)
(* first search that needs it.  A reload reads the files again in worker   *)
(* threads and installs a new snapshot.  A request keeps the snapshot it   *)
(* took, except that its fallback searches the current one.  A process     *)
(* runs one coroutine at a time; requests change places where they await   *)
(* the load lock, the embedding provider or the chat model.                *)
(***************************************************************************)
EXTENDS ArtifactStore, Naturals, Sequences

CONSTANTS
  Process,
  Request,
  Operator,        \* people at the command line
  ProcessOf,       \* ProcessOf[r]: the process that serves r
  BuiltFor,        \* BuiltFor[c]: what a process's settings build for corpus c
  BuildIfMissing,  \* embedding_artifact_build_policy
  MaxSnapshots     \* bound: snapshots of one process

ASSUME LiveAssumption ==
  /\ Editor = Operator \cup Request
  /\ Operator \cap Request = {}
  /\ ProcessOf \in [Request -> Process]
  /\ \A c \in Corpus : BuiltFor[c] \in Artifact /\ CorpusOf[BuiltFor[c]] = c
  /\ BuildIfMissing \in BOOLEAN
  /\ MaxSnapshots \in Nat \ {0}

VARIABLES
  corpusFile,      \* the knowledge file
  provenanceFile,  \* the corpus the provenance file describes
  snapshots,       \* snapshots[p]: those p has served from, the current one last
  reload,          \* reload[p]: how far a reload is, and what it has read
  ready,           \* ready[p]: RuntimeDependencyReadiness
  stage,           \* stage[r]: how far a request is
  access,          \* access[r]: the release the request names
  held,            \* held[r]: the snapshot the request took
  evidence         \* evidence[r]: the corpora its hits stem from

files == <<corpusFile, provenanceFile>>
asked == <<access, held>>
vars == <<store, files, snapshots, reload, ready, stage, asked, evidence>>

Awaiting == {"locking", "building", "embedding", "generating"}
\* Steps of one coroutine between two awaits.
Blocking == {"activating", "activated"}
Answered == {"succeeded", "insufficient", "fallback"}
Ended == Answered \cup {"mismatch", "unusable", "timeout"}

Snapshot == [corpus : Corpus, artifact : Artifact \cup {None}]
Idle == [at |-> "idle", corpus |-> None, artifact |-> None]
Readiness == [embedding : BOOLEAN, generation : BOOLEAN,
              index : {"up", "unverified", "provider", "artifact", "vector"}]

LiveTypeOK ==
  /\ StoreTypeOK
  /\ corpusFile \in Corpus /\ provenanceFile \in Corpus
  /\ \A p \in Process :
       /\ snapshots[p] \in Seq(Snapshot)
       /\ Len(snapshots[p]) \in 1 .. MaxSnapshots
       /\ ready[p] \in Readiness
       /\ reload[p].at \in {"idle", "started", "read", "checked", "loaded"}
  /\ stage \in [Request -> {"new"} \cup Awaiting \cup Blocking \cup Ended]
  /\ \A r \in Request :
       /\ access[r] \in Corpus \cup {None}
       /\ held[r] \in 0 .. Len(snapshots[ProcessOf[r]])
       /\ evidence[r] \subseteq Corpus

Init ==
  /\ StoreInit
  /\ corpusFile \in Corpus
  /\ provenanceFile = corpusFile
  /\ snapshots = [p \in Process |-> <<[corpus |-> corpusFile, artifact |-> None]>>]
  /\ reload = [p \in Process |-> Idle]
  /\ ready = [p \in Process |->
       [embedding |-> TRUE, generation |-> TRUE, index |-> "unverified"]]
  /\ stage = [r \in Request |-> "new"]
  /\ access = [r \in Request |-> None]
  /\ held = [r \in Request |-> 0]
  /\ evidence = [r \in Request |-> {}]

Current(p) == snapshots[p][Len(snapshots[p])]

\* The snapshot a request took, and the corpus in it.
Held(r) == snapshots[ProcessOf[r]][held[r]]

Goto(r, place) == stage' = [stage EXCEPT ![r] = place]

Observe(p, state) == ready' = [ready EXCEPT ![p] = state]

RetrievalFailure(p) == [ready[p] EXCEPT !.embedding = FALSE, !.index = "provider"]
RetrievalSuccess(p) == [ready[p] EXCEPT !.embedding = TRUE, !.index = "up"]
IndexFailure(p, reason) == [ready[p] EXCEPT !.index = reason]

----------------------------------------------------------------------------
(* The operator: files, artifacts and the pointer. *)

WriteCorpus(c) ==
  /\ corpusFile' = c
  /\ UNCHANGED <<store, provenanceFile, snapshots, reload, ready, stage, asked, evidence>>

WriteProvenance(c) ==
  /\ provenanceFile' = c
  /\ UNCHANGED <<store, corpusFile, snapshots, reload, ready, stage, asked, evidence>>

Manage(o) ==
  /\ \/ \E a \in Artifact : Build(a)
     \/ \E a \in Artifact, c \in Corpus : ReadToActivate(o, a, c)
     \/ \E c \in Corpus : ReadToRollBack(o, c)
     \/ Replace(o)
     \/ Abandon(o)
  /\ UNCHANGED <<files, snapshots, reload, ready, stage, asked, evidence>>

----------------------------------------------------------------------------
(* A request takes the snapshot. *)

Take(r, c) ==
  /\ stage[r] = "new"
  /\ access' = [access EXCEPT ![r] = c]
  /\ held' = [held EXCEPT ![r] = Len(snapshots[ProcessOf[r]])]
  /\ UNCHANGED <<store, files, snapshots, reload>>

\* _require_active_release: 409.
Mismatch(r, c) ==
  /\ Take(r, c)
  /\ Current(ProcessOf[r]).corpus # c
  /\ Goto(r, "mismatch")
  /\ UNCHANGED <<ready, evidence>>

\* No row is in the allowed scopes: zero hits, before the artifact is needed,
\* recorded as a successful retrieval.
EmptyScope(r, c) ==
  /\ Take(r, c)
  /\ Current(ProcessOf[r]).corpus = c
  /\ Observe(ProcessOf[r], RetrievalSuccess(ProcessOf[r]))
  /\ Goto(r, "insufficient")
  /\ UNCHANGED evidence

Accept(r, c) ==
  /\ Take(r, c)
  /\ Current(ProcessOf[r]).corpus = c
  /\ Goto(r, "locking")
  /\ UNCHANGED <<ready, evidence>>

----------------------------------------------------------------------------
(* _get_artifact *)

UseLoaded(r) ==
  /\ stage[r] = "locking"
  /\ Held(r).artifact # None
  /\ Goto(r, "embedding")
  /\ UNCHANGED <<store, files, snapshots, reload, ready, asked, evidence>>

\* The request gets the load lock of its snapshot, and finds nothing loaded.
Enters(r) ==
  /\ stage[r] = "locking"
  /\ Held(r).artifact = None
  /\ \A q \in Request :
       ProcessOf[q] = ProcessOf[r] /\ held[q] = held[r] =>
         stage[q] \notin Blocking \cup {"building"}

\* load_active, before or after a build.
LoadActive(r) ==
  /\ Enters(r) \/ stage[r] = "activated"
  /\ pointer # None
  /\ Loadable(pointer.active, Held(r).corpus)
  /\ snapshots' = [snapshots EXCEPT ![ProcessOf[r]][held[r]].artifact = pointer.active]
  /\ Goto(r, "embedding")
  /\ UNCHANGED <<store, files, reload, ready, asked, evidence>>

\* The error is not recoverable: it becomes neither a fallback nor a build.
LoadFails(r) ==
  /\ Enters(r) \/ stage[r] = "activated"
  /\ IF pointer = None THEN ~BuildIfMissing
     ELSE ~Loadable(pointer.active, Held(r).corpus)
  /\ Observe(ProcessOf[r], IndexFailure(ProcessOf[r], "artifact"))
  /\ Goto(r, "unusable")
  /\ UNCHANGED <<store, files, snapshots, reload, asked, evidence>>

StartBuild(r) ==
  /\ Enters(r)
  /\ pointer = None
  /\ BuildIfMissing
  /\ Goto(r, "building")
  /\ UNCHANGED <<store, files, snapshots, reload, ready, asked, evidence>>

\* The vectors are there, or the artifact was on disk already; it is published
\* and activate reads the pointer.
Built(r) ==
  LET a == BuiltFor[Held(r).corpus] IN
  /\ stage[r] = "building"
  /\ artifacts' = artifacts \cup {a}
  /\ IF pointer # None /\ pointer.active = a
     THEN Goto(r, "activated") /\ UNCHANGED edit
     ELSE Goto(r, "activating") /\ edit' = [edit EXCEPT ![r] = Activation(a)]
  /\ UNCHANGED <<pointer, files, snapshots, reload, ready, asked, evidence>>

Activated(r) ==
  /\ stage[r] = "activating"
  /\ Replace(r)
  /\ Goto(r, "activated")
  /\ UNCHANGED <<files, snapshots, reload, ready, asked, evidence>>

----------------------------------------------------------------------------
(* The provider, the model, and the fallback. *)

\* The rows are scored in the artifact and looked up in the corpus.
Hits(r) == {CorpusOf[Held(r).artifact], Held(r).corpus}

Found(r) ==
  /\ stage[r] = "embedding"
  /\ Observe(ProcessOf[r], RetrievalSuccess(ProcessOf[r]))
  /\ \/ Goto(r, "generating") /\ evidence' = [evidence EXCEPT ![r] = Hits(r)]
     \/ Goto(r, "insufficient") /\ UNCHANGED evidence
  /\ UNCHANGED <<store, files, snapshots, reload, asked>>

\* The vectors of the query, or of the documents of a build, are malformed.
InvalidVector(r) ==
  /\ \/ stage[r] = "embedding"
     \/ stage[r] = "building" /\ BuiltFor[Held(r).corpus] \notin artifacts
  /\ Observe(ProcessOf[r], IndexFailure(ProcessOf[r], "vector"))
  /\ Goto(r, "unusable")
  /\ UNCHANGED <<store, files, snapshots, reload, asked, evidence>>

Generated(r) ==
  /\ stage[r] = "generating"
  /\ Observe(ProcessOf[r], [ready[ProcessOf[r]] EXCEPT !.generation = TRUE])
  /\ Goto(r, "succeeded") \/ Goto(r, "insufficient")
  /\ UNCHANGED <<store, files, snapshots, reload, asked, evidence>>

\* Mutant: the fallback does not compare releases again.
FallbackUnchecked(r) ==
  /\ Goto(r, "fallback")
  /\ evidence' = [evidence EXCEPT ![r] = {Current(ProcessOf[r]).corpus}]

\* _fallback_after_error: a local search of the current snapshot.
Fallback(r) ==
  IF Current(ProcessOf[r]).corpus = access[r]
  THEN /\ Goto(r, "fallback")
       /\ evidence' = [evidence EXCEPT ![r] = {Current(ProcessOf[r]).corpus}]
  ELSE Goto(r, "mismatch") /\ evidence' = [evidence EXCEPT ![r] = {}]

\* The embedding provider fails for the documents of a build or for the query.
EmbeddingFails(r) ==
  /\ \/ stage[r] = "embedding"
     \/ stage[r] = "building" /\ BuiltFor[Held(r).corpus] \notin artifacts
  /\ Observe(ProcessOf[r], RetrievalFailure(ProcessOf[r]))
  /\ Fallback(r)
  /\ UNCHANGED <<store, files, snapshots, reload, asked>>

GenerationFails(r) ==
  /\ stage[r] = "generating"
  /\ Observe(ProcessOf[r], [ready[ProcessOf[r]] EXCEPT !.generation = FALSE])
  /\ Fallback(r)
  /\ UNCHANGED <<store, files, snapshots, reload, asked>>

\* AnalysisRunner cancels the request where it awaits; its locks are released.
Deadline(r) ==
  /\ stage[r] \in Awaiting
  /\ Goto(r, "timeout")
  /\ UNCHANGED <<store, files, snapshots, reload, ready, asked, evidence>>

----------------------------------------------------------------------------
(* reload_index *)

Advance(p, place, c, a) ==
  reload' = [reload EXCEPT ![p] = [at |-> place, corpus |-> c, artifact |-> a]]

StartReload(p) ==
  /\ reload[p].at = "idle"
  /\ Len(snapshots[p]) < MaxSnapshots
  /\ Advance(p, "started", None, None)
  /\ UNCHANGED <<store, files, snapshots, ready, stage, asked, evidence>>

ReadCorpus(p) ==
  /\ reload[p].at = "started"
  /\ Advance(p, "read", corpusFile, None)
  /\ UNCHANGED <<store, files, snapshots, ready, stage, asked, evidence>>

\* The provenance must describe the file as it is now, and what was read.
Proven(p) == provenanceFile = corpusFile /\ provenanceFile = reload[p].corpus

CheckCorpus(p) ==
  /\ reload[p].at = "read"
  /\ IF Proven(p) THEN Advance(p, "checked", reload[p].corpus, None)
     ELSE reload' = [reload EXCEPT ![p] = Idle]
  /\ UNCHANGED <<store, files, snapshots, ready, stage, asked, evidence>>

ReloadActive(p) ==
  /\ reload[p].at = "checked"
  /\ IF pointer # None /\ Loadable(pointer.active, reload[p].corpus)
     THEN Advance(p, "loaded", reload[p].corpus, pointer.active)
     ELSE reload' = [reload EXCEPT ![p] = Idle]
  /\ UNCHANGED <<store, files, snapshots, ready, stage, asked, evidence>>

Installed(p) == [corpus |-> reload[p].corpus, artifact |-> reload[p].artifact]

Install(p) ==
  /\ reload[p].at = "loaded"
  /\ snapshots' = [snapshots EXCEPT ![p] = Append(@, Installed(p))]
  /\ Observe(p, IndexFailure(p, "up"))
  /\ reload' = [reload EXCEPT ![p] = Idle]
  /\ UNCHANGED <<store, files, stage, asked, evidence>>

----------------------------------------------------------------------------

\* No other coroutine of the process is between two awaits.
LoopFree(p, r) ==
  \A q \in Request \ {r} : ProcessOf[q] = p => stage[q] \notin Blocking

Serve(r) ==
  /\ LoopFree(ProcessOf[r], r)
  /\ \/ \E c \in Corpus : Mismatch(r, c) \/ EmptyScope(r, c) \/ Accept(r, c)
     \/ UseLoaded(r) \/ LoadActive(r) \/ LoadFails(r)
     \/ StartBuild(r) \/ Built(r) \/ Activated(r)
     \/ Found(r) \/ InvalidVector(r) \/ Generated(r)
     \/ EmbeddingFails(r) \/ GenerationFails(r) \/ Deadline(r)

Reload(p) ==
  \/ ReadCorpus(p) \/ CheckCorpus(p) \/ ReloadActive(p)
  \/ LoopFree(p, None) /\ (StartReload(p) \/ Install(p))

Next ==
  \/ \E c \in Corpus : WriteCorpus(c) \/ WriteProvenance(c)
  \/ \E o \in Operator : Manage(o)
  \/ \E r \in Request : Serve(r)
  \/ \E p \in Process : Reload(p)

Spec == Init /\ [][Next]_vars

----------------------------------------------------------------------------
(* Properties *)

\* knowledge.py:27-31, 126-129: however reloads, switches and fallbacks fall,
\* the hits of an answer are scored and looked up in the release the request
\* names; a mixed pair never answers.
EvidenceIsTheNamedRelease ==
  \A r \in Request : evidence[r] \subseteq {access[r]}

\* README.md:372: build-if-missing "不能静默替换不兼容 artifact" - a lazy build
\* never replaces an active artifact that is incompatible with it.
LazyBuildReplacesNothing ==
  [][\A r \in Request :
       stage[r] = "activating" /\ stage'[r] = "activated" /\ pointer # None =>
         CorpusOf[pointer.active] = CorpusOf[pointer'.active]]_vars

=============================================================================
