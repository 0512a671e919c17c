# Support Copilot: formal models

TLA+ modules that model Support Copilot, TLC configurations that check them on
small instances, and TLAPS proofs. All paths below are relative to `src/`; `J`
stands for
`services/support-copilot-api/src/main/java/com/cyagent/supportcopilot`, `P`
for `services/support-copilot-ai/app` and `E` for
`services/support-copilot-ai/evaluation`.

## 1. The system

Support Copilot is a workbench for support agents. A React page (`apps/support-copilot-web`)
talks to a Java API (`services/support-copilot-api`, Spring, MySQL or H2), which
owns tickets, analyses, reviews, knowledge releases and the audit. The API calls
a Python service (`services/support-copilot-ai`, FastAPI) that retrieves
knowledge and drafts an analysis; that service keeps its corpus and its vector
index in files. There may be several API instances over one database and several
AI processes over one artifact directory. Around them, commands build the corpus,
measure retrieval (for money), and leave evidence of dependency and image scans.

### Inventory

| Component | State | Operations | Interacts with | What is hard | What makes it correct |
|---|---|---|---|---|---|
| Command idempotency (`J/idempotency`) | table `command_idempotency`: status, fingerprint, owner token, lease, response | resolve, insert, claim, wait, heartbeat, complete, fail | wraps create, analyze, review | insert race, expired leases under a live owner, crash after commit, late heartbeat | one effect per key; a success is the effect; stale owners are harmless |
| Analysis command (`J/analysis`) | map of flights in one JVM; `analysis_runs`; ticket version | join or lead a flight, call the AI, persist | idempotency, tickets, AI client | the version is read before a call of seconds; joiners; takeover by a retry on the same JVM | one run per version; run and key commit together; joiners are released |
| AI client (`J/analysis/AiServiceClient.java`) | breaker, bulkhead, worker threads | call under a deadline, retry, fall back | AI service | which failure is retried, counted or turned into a fallback; a worker that outlives its caller | a refusal is never a fallback; who gave up first is reported; permits come back |
| Tickets (`J/ticket`) | `tickets` (status, assignee, version), `ticket_notes` | create, patch, claim, unassign, note | audit, analyses | read, check and flush without a lock; claim in two transactions; retried notes | no lost update; finished tickets stay finished |
| Reviews (`J/analysis/review`) | `analysis_reviews` | accept or edit, reject | tickets, runs | reads before the lock on the ticket; skewed stamps | a decision is about the current analysis |
| Knowledge releases (`J/knowledge`) | `knowledge_releases`, the single active pointer | bootstrap, create, approve, publish, rollback; readers | audit, every analysis | snapshot older than the pointer's lock; stale pages; two instances starting | the pointer's release is the published one |
| Audit (`J/audit`) | `audit_events` | append in the transaction of the change; queries | all of the above | rollback | audit = what happened |
| Analysis workflow (`P/main.py`, `workflow.py`, `analysis_runner.py`, `timeout_budget.py`) | none between requests | stages, fallback | retrieval, model | deadlines; a reload between retrieval and fallback | an answer or a fallback in time, of the named release |
| Model and grounding adapters (`P/openai_provider.py`, `local_analysis.py`, `grounded_reply_policy.py`) | none | draft, check citations, bind promises to sources | workflow | positions of citations through reordering and fallback | cites what it shows; promises what its sources say |
| Retrieval (`P/knowledge.py`, `live_vector_index.py`, `readiness.py`) | corpus and index snapshot, readiness | search, reload, lazy load or build | artifact files | reload beside searches; stale observations | one release per answer |
| Embedding artifact (`P/embedding_artifact.py`) | artifact directories, pointer file | build, load, activate, rollback | retrieval, rebuild | read-modify-write of the pointer | pointer names complete artifacts |
| Index rebuild (`P/index_rebuild*.py`) | lock file, status files, worker threads | POST, GET, worker, recovery | artifact store, embedding provider | crashes between writes, saves that raise after their rename, GET against worker | one rebuild at a time; settled is final; calls are recorded first |
| Corpus build (`P/corpus_build*.py`) | lock file, status files, child process | POST, GET, child, recovery | rebuild reads its result | the child outlives its parent and holds the lock | as above; the root comes free |
| Knowledge ingestion (`P/knowledge_ingestion.py`, `knowledge_source.py`) | corpus and provenance files | build in place, load | inputs of an operator; retrieval | two writes that are not atomic, second reads of the inputs | the loader accepts one build or none |
| Ticket workflow of the workbench (`apps/support-copilot-web/.../useTicketWorkflow.ts`) | queue, cursor, epoch, selected tickets | query, load more, refresh, open, command | API | answers out of order; a retry of an unchanged query | the queue answers its query; newer snapshots win; loading ends |
| Paid evaluation and retrieval experiments (`E/retrieval_only.py`, `retrieval_evidence.py`, `hybrid_retrieval.py`, `gold_rank.py`) | output directories | plan, execute, verify; rank, fuse, diagnose | provider, artifacts | runs that overlap, die half-way and are repeated; ties | paid once; evidence of one execution; measurements agree |
| Dependency scan evidence (`scripts/publish_scan_evidence.py`, `validate_scan_evidence.py`) | evidence root | claim a label, write, clean up; validate | operators | a cleanup that meets another's directory, between its check and its use of the label too | accepted evidence is one publication; a cleanup loses no file |
| Image scan (`scripts/scan-pilot-images.sh`, `validate_pilot_image_scan.py`) | result directory, Docker | scan, seal, verify, trap | Docker, scanner | a trap that writes into what is sealed, signals whose exit status is that of the last command | sealed stays verifiable; without a signal the exit status is the verdict |
| Reads, metrics, quality, identity, configuration (`J`), views and services of the web, other evaluation programs and scripts | none of their own | reads, reports | | none | not modelled, see 6 |

## 2. Modules

| Module | Models | Source |
|---|---|---|
| `CommandIdentity` | constants: requests, their keys, fingerprints and nodes | `J/idempotency/CommandRequestFactory.java` |
| `IdempotentCommand` | abstract: a key is bound once, its effect happens once, a success is that effect | (specification) |
| `CommandIdempotency` | the store, the coordinator, the heartbeat and the completion | `J/idempotency` |
| `AnalysisCommand` | EXTENDS `CommandIdempotency`: the operation an owner runs | `J/analysis` |
| `TicketLifecycle` | one ticket, its notes, analyses, reviews and audit | `J/ticket`, `J/analysis/review` |
| `TicketQueueView` | a page of the workbench and its requests under way | `useTicketWorkflow.ts` |
| `KnowledgeRelease` | releases, pointer, starting instances, readers | `J/knowledge` |
| `DurableTask` | abstract: a background task is started alone, settled by its worker or declared interrupted once | (specification) |
| `IndexRebuild` | rebuild tasks, their files, lock, workers and pollers | `P/index_rebuild*.py` |
| `CorpusBuild` | corpus builds, their lock, workers, generator processes and pollers | `P/corpus_build*.py` |
| `KnowledgeIngestion` | overlapping ingestions of one output, and the loader | `P/knowledge_ingestion.py`, `knowledge_source.py` |
| `ArtifactStore` | artifact directory and pointer file: build, activate, rollback | `P/embedding_artifact.py` |
| `LiveRetrieval` | EXTENDS `ArtifactStore`: live analyses, snapshots, lazy builds, reloads, readiness | `P/knowledge.py`, `live_vector_index.py`, `readiness.py`, `workflow.py` |
| `AnalysisAnswer` | operators: local rules, policies bound to sources, checks of drafts | `P/local_analysis.py`, `grounded_reply_policy.py`, `openai_provider.py` |
| `AnalysisWorkflow` | EXTENDS `AnalysisAnswer`: one HTTP request in the AI service | `P/main.py`, `workflow.py`, `analysis_runner.py`, `timeout_budget.py` |
| `AiBoundary` | EXTENDS `AnalysisWorkflow`: the Java client over the service | `J/analysis/AiServiceClient.java` |
| `RetrievalRanking` | operators and one measurement: ranks, fusion, diagnosis | `P/live_vector_index.py`, `E` |
| `PaidEvaluation` | paid runs over output directories, and the gate of their evidence | `E/retrieval_only.py`, `retrieval_evidence.py` |
| `ScanEvidence` | publishers, validators and a keeper of one label | `scripts/*scan_evidence.py` |
| `ImageScan` | one scan of some images, its trap, sealing and verification | `scripts/scan-pilot-images.sh`, `validate_pilot_image_scan.py` |
| `...Proofs` | theorems about the module they extend | |
| `MC...` | small instances of the modules they extend | |

Operators that begin with the comment "Mutant" are deliberately wrong variants
of the definition that follows them. No specification uses them; each stands for
a plausible bug that the property it is paired with in `PROJECT.json` detects.

Type predicates (`TypeOK`, `CallTypeOK`, `LifecycleTypeOK`, `ReleaseTypeOK`,
`RebuildTypeOK`, `BuildTypeOK`, `LiveTypeOK`, ...) are stated in the modules;
those of the modules with proofs are proved rather than checked.

### CommandIdempotency

`row[k]` is the table row of key `k`. `stage[r]` is where request `r` is in
`CommandIdempotencyCoordinator.execute`: resolving, inserting, pending, running
its operation, committed, failing, done or dead. One database transaction on an
existing row is one step, because the row is read `FOR UPDATE` or changed by a
conditional `UPDATE`. A missing row is not locked, so the read that misses
(`ResolveAbsent`) and the insert (`InsertOwned`, `InsertCollides`) are two steps;
`retry` and `reinsert` are the store's single second attempt. Owner tokens are
fresh UUIDs and a request owns a key at most once, so the request is its token.
Time is abstracted to whether a lease has run out (`LeaseExpires`, any moment:
instances compare leases with their own clocks and may pause) and whether a wait
deadline has passed (`DeadlinePasses`). `heartbeat[r]` tells an armed task from a
renewal under way and from one that was under way when the task was cancelled.
`RenewThrows` is the executor's rule that a fixed-delay task that throws is not
run again. `Crash(n)` ends every request of an instance. The operation itself is
any code that commits once through `complete`, fails, or returns what another
owner committed.

### AnalysisCommand

The operation of the ANALYZE_TICKET command: read the ticket's version, join or
lead a flight of this JVM, call the AI, persist, publish the shared future, leave
the map. `Persist` is the one transaction that stores the run, bumps the ticket
and completes the key. `RespectsIdempotency` says that this composition is an
implementation of `CommandIdempotency`: everything proved about the layer holds
of the analysis command.

### TicketLifecycle

One ticket and a few commands of any kind. A transaction that uses `findById` is
a read step and a flush step conditional on the version; one that starts with
`findByIdForUpdate` is one step. A review reads its run first, which fixes the
snapshot of its later plain reads under REPEATABLE READ, and then locks the
ticket. An analysis takes any stamp of `Stamp`, because the AI service and each
instance stamp with their own clock. `ActorOf` is who sends a command: a note that is
repeated must be of the same agent.

### TicketQueueView

One page, its queue (`filter`, `cursor`, epoch), the ticket on the screen, and
the requests it has under way: two fetches of the queue and one request per slot.
The server changes tickets meanwhile, and answers arrive or are lost in any
order. A handler, the effects of the render it causes and the answer that caused
it are one step. A ticket is its version; what a query matches is a filter.

### KnowledgeRelease

An administrator's command is its first read (`Check`, which fixes the snapshot)
and the rest of its transaction behind the pointer's lock, in which nothing can
come between. `level` is the isolation level of a behaviour, one of `Levels`:
under MySQL's default plain reads come from the snapshot, under READ COMMITTED
they are current: nothing but `CommandIdempotencyStore` sets a level. Hibernate
sends an `UPDATE` only for a dirty entity (`Dirty`), which is what makes the
finding below possible. A reader of the active release is two plain reads without a
lock: its first fixes the snapshot in which, under REPEATABLE READ, it finds the
release (`Found`); the release may be superseded when the reader ends, so under a
snapshot `ReaderSeesOneMoment` promises a consistent read, not a current one. A reader
inside an older transaction is a reader that began with it. The bootstrap's two inserts are one transaction; the
second instance fails, or finds the rows.

### DurableTask, IndexRebuild, CorpusBuild

`DurableTask` is the contract of both kinds of background tasks: a record per
task and the task whose worker is at work. A task starts when nothing else runs,
only its own worker settles it while that worker is there, and what says RUNNING
afterwards is declared interrupted, once. A record that cannot be read again
(`UNREADABLE`) is one of the outcomes.

In `IndexRebuild`, `file[t]` is `status.json`, `known[t]` the worker's
`RebuildProgress.status`, and `lock` the owner of `rebuild.lock`. Every save is a
step with three outcomes: it succeeds; it raises and left the old file; it raises
and the new file is in place (the directory is fsynced after the rename). The
worker looks for an existing artifact, records each call before it makes it, and
publishes the artifact by a rename before it reports success. `Die(p)` ends a
process, which frees its lock and leaves its files. `BuildElsewhere` is the lazy
build of `LiveVectorIndex`, which publishes without the lock. The choice of the
corpus and the reasons to refuse a request are one outcome, `PrepareFails`.

In `CorpusBuild` the lock belongs to an open file, which the generator process
inherits: `OpenBy(t)` is the worker or the generator of task `t`, and a death of
the parent (`Die`) leaves the generator running and the root locked.
`GeneratorEnds` gives it any exit status and files of any content; `Validate`
compares them with the request. In the tasks of `Stepped` the clock steps back
during the build, so that their record ends before it starts.

### KnowledgeIngestion

Runs of the ingestion command with one manifest and one output read the manifest
and the sources, each a second time for its digest, check the chunks, and write
the corpus and after it the provenance, in place. They may overlap, fail or die at
any write while an operator edits manifest and sources. `Empty`, `Garbled` and
`Unreadable` are what other readers may find. The loader, which service start,
reload and rebuild share, reads the corpus, the provenance and the corpus again
and accepts what matches.

### ArtifactStore and LiveRetrieval

`artifacts` is the set of complete artifact directories, `pointer` is
`active.json`, and `edit[e]` the pointer that an activation or a rollback has
computed from the one it read and not written yet: the file is replaced
atomically, the read and the replacement are two steps without a lock. An
artifact stands for one corpus (`CorpusOf`); `Loadable` is the verification that
compares release, checksum and every row.

`LiveRetrieval` adds AI processes in live mode. `snapshots[p]` are the
`RetrievalState` objects of a process, the current one last; a request holds the
index of the one it took. The stages of a request are the places where its
coroutine awaits (`Awaiting`); between two awaits no other coroutine of the
process runs (`LoopFree`), but the worker threads of a reload, operators and
other processes do. `EmptyScope` is the early return of a search whose scopes
match no row, `Fallback` the second, local search after a recoverable failure.
A reload reads the corpus, checks it against the provenance, verifies the active
artifact and installs the pair, one step each. `ready[p].index` is the reason
readiness reports, or "up". A corpus stands for its release, version and
checksum.

### AnalysisAnswer, AnalysisWorkflow and AiBoundary

`AnalysisAnswer` turns a ticket, the hits and a draft into an answer: the keyword
rules in their order, the policies bound to a chunk and its unchanged text, the
reordering of evidence that follows, the checks on a model's draft. A ticket's
text is the set of the words the rules look for, a reply the set of its
paragraphs.

`AnalysisWorkflow` is one HTTP request of the AI service: refusals before the work
(`Arrive`), retrieval, generation, the fallback that searches what is served by
then, the deadline that cancels it where it awaits. `AiBoundary` puts the Java
client on top: one deadline for the analysis and below it, on a worker thread, a
bulkhead around a circuit breaker around a retry around the call. The deadline
answers the caller and interrupts the worker, which lets go of its permits when
it notices (`Unwind`); the service goes on. An interrupt of the waiting caller does
the same (`GivesUp`). `Malformed` stands for a 200 whose payload breaks the response
contract and for statuses without a meaning: a refusal, from a proxy if not from the
service. Resilience4j is external and modelled
from the configuration and the exceptions the client gives it. A `Scene` is an
environment: who calls, the settings of the service, the budget of timeouts, the
possible hits, drafts and faults.

### RetrievalRanking, PaidEvaluation, ScanEvidence and ImageScan

`RetrievalRanking` translates the rankings (cosine and BM25 enter by their order,
ties as the code breaks them), the weighted and the reciprocal fusion, and the
diagnosis of the rank of the gold chunk; `Measure` runs the search and the programs
over the same queries. Of the fusion's configurations the two are measured that the
experiment compares: `Compare` counts what the one gains and loses against the other
and rounds the p value of the exact test as the report shows it.

`PaidEvaluation`: a run of the command plans its queries in a directory, claims
the execution, embeds one query per provider call and writes results, vectors and
manifest, each file created exclusively and then filled. Runs overlap, fail and
are killed between any two of these; an operator replaces inputs, corpus and
active artifact. `HashesMatch` is the gate that later reports read evidence
through.

`ScanEvidence`: a publisher claims a label by `mkdir`, opens what the label names by
then (`Open`), works through that descriptor and writes `COMPLETE` last. When it fails
it unlinks every name it knows through the descriptor, compares the identity of the
label (`Stat`) and removes the label by its name (`RemoveDirectory`): three steps,
between which the label may be replaced. SIGKILL leaves everything. A directory is
named by the publisher whose `mkdir` made it, so that the label and the directory
behind a descriptor can differ, and two publishers may have opened the same one. The
keeper moves directories away, empty ones and those under work too, and merges their
files; validators read file after file meanwhile.

`ImageScan`: the script scans image after image, cleans Docker up, seals and
verifies the directory, and exits 0 only for a clean result; a signal or a failed
step runs the cleanup as a trap, and a cleanup that fails appends to a log that
the manifest binds. The trap exits with the status of the last command that ended,
which after a signal may be 0 (`Signal`); the exit of a trap that a signal started runs
it once more. A write of `finalize` that fails or dies after its exclusive open leaves
a torn file (`Tears`). A disturbance afterwards changes one file of a sealed directory.

## 3. Runs

Runs whose instance sends finitely many commands set `CHECK_DEADLOCK FALSE`: the
system comes to rest. (The real one waits for more requests.) In `LiveRetrieval`
the operator never stops, so its runs check deadlock.

| Run | Instance | What it shows |
|---|---|---|
| `idempotency` | 2 retries of a command and 1 request with another fingerprint, one key, 2 nodes, fair | one effect, refinement of `IdempotentCommand`, no key stays locked by a request that has ended |
| `analysis` | retries of one key, and requests of two keys, on one JVM and one ticket, fair | one run per version; run and key together; the composition implements the layer; joiners are released |
| `tickets` | 3 commands of any kind, every initial status, skewed stamps; and a page of one ticket over a queue of two | no lost update, finished tickets, current reviews, due refusals; the queue answers its query, waits only for what it will take, and goes back only on a late creation |
| `releases` | 3 releases, 5 commands, 2 starting nodes, 1 reader, both isolation levels | pointer, audit, readers without a lock |
| `release_repeatable_read` | 3 releases, 5 commands | violation, see 5 |
| `index_rebuild` | 3 tasks, 2 processes, 1 poller, 2 batches, fair | refinement of `DurableTask`, recorded calls, success is published, the lock returns |
| `corpus_build` | 3 tasks, 2 processes, 1 poller, fair; and 2 ingestions of 2 documents | refinement of `DurableTask`, complete results, the root comes free; the loader accepts one build |
| `live_retrieval` | 2 requests, 1 process, 1 operator, 2 corpora, 3 artifacts, 1 reload, build-if-missing | evidence from the named release, pointer integrity |
| `lazy_build` | as `live_retrieval` | violation, see 5 |
| `ai_boundary` | one analysis with every content, refused, or against the clock; and 2 or 3 at once, fair | citations, promises, which failures are fallbacks, who gave up first, permits come back |
| `program_error_fallback` | as `ai_boundary` | violation, see 5 |
| `evidence` | 4 chunks; 2 paid runs over 2 directories; 2 publishers of one label, 1 validator and the keeper; 2 images | measurements agree with each other and with the search; a significant comparison has enough cases; paid once; evidence of one execution, publication and scan; no race for a label loses a file; a scan that ends by itself exits 0 only for what it verified |

Where a run has two or more components beside each other (`tickets`,
`corpus_build`, `evidence`), these share no state. Its MC module lets one of them
move in a behaviour while the others stay in a first state: every behaviour of
each component is there, only the product of their state spaces is not.

### Bounds

- `idempotency`: the takeover of an expired lease needs two requests, and so do
  the insert race and its retry; a third, with another fingerprint, meets the key
  in every status. The proofs remove the bound.
- `analysis`: `AtMostTwo` lets `r1` meet either its retry `r2` or `r3` with a key of
  its own, not both; `MaxVersion`, in the guard of `EditTicket` only, stops other
  writers at version 1. The proofs remove both for the invariants and the refinement.
- `tickets`: three commands are one that reads early and two that change the
  ticket under it. The page has two slots, pages of one ticket, at most three acts
  of its user (`MaxActs`) and tickets of versions up to two (`MaxVersion`): enough to
  change a query, load more and refresh while both fetches and both requests are
  under way.
- `releases`: the race that defeats the snapshot of a publication needs three
  releases and five commands (approve and publish one, approve another, roll back
  to the baseline, publish the other) and occurs. `TwoOverlap` admits two
  transactions at a time, with any number of whole ones in between. `MaxVersion`
  stops new requests for a release that has reached it.
- `index_rebuild`, `corpus_build`: two batches separate the first call of a rebuild
  from later ones, and three tasks allow an abandoned one, a running one and a
  refused one; one task is authorized for fewer calls than it needs, one sees the
  clock step back. Ingestion: the first edit of the operator is the only one
  (`MaxEdits`), at any moment.
- `live_retrieval`: two releases are enough to mix two, and two artifacts of one of
  them to roll back within it; one reload gives a process an old and a new
  snapshot (`MaxSnapshots`, in the guard of `StartReload` only).
- `ai_boundary`: a tick is 5 s. The defaults of 20 s for the provider, 90 s for the
  service and 105 s for Java would be 4, 18 and 21 ticks; the scenes have 1, 4 or
  5, and 6 to 9, on both sides of what `validate_timeout_budget` admits, with
  `Overhead` and `Margin` as in the code. `Latency` is one tick, longer messages are
  lost. The breaker counts 3 calls, opens from 2 on at half of them, and lets one
  call through when half open, where the library's default, which the client does
  not change, is 10. The bulkhead admits 2 of 3 callers.
- `evidence`: two runs per directory are an execution and its repetition; two
  images an earlier log that is bound and a later one that is open. `Queries` is two, so
  that a run dies between two calls. A measurement is one query of every shape, or a
  comparison with 0 to 6 gained and 0 to 6 lost cases: every one on the near side of
  the threshold of six, and those beyond it. Two publishers suffice for the races, since the
  keeper moves directories at any moment, empty ones and those under work: one publisher
  is in its cleanup, or between its `mkdir` and its `open`, while the other claims the
  label it lost. Three have too many states for a run; the proofs hold for any number.

Symmetry is used only over interchangeable commands, slots, runs and directories,
and only in runs without liveness properties.

### Fairness

- `CommandIdempotency!Fairness`: request threads, the heartbeat pool and clocks
  advance. Nothing is assumed of the operation: a transaction or a call may hang,
  so `OrphanedLeaseLapses` holds for owners that have ended.
- `CallFairSpec` adds that an operation takes its next step, since the AI client
  bounds its call by a deadline. `JoinerReleased` needs it, and `EveryWorkerLeaves`
  shows that the client does.
- `IndexRebuild!Fairness`: a thread that holds the lock goes on; the embedding
  client has a timeout and no retries. Clients are not assumed to post or poll.
- `CorpusBuild!Fairness`: the same, and a generator ends, whatever has become of
  its parent: its main thread only waits for its own timer.
- `AiBoundary!Fairness`: threads and coroutines run, messages travel, time passes.
  Nothing is assumed of a fault, of a reload or of the pause of the breaker.

## 4. Proofs

The theorems hold for every value of the constants that the named assumptions of
the modules admit. Most only say that identities are distinct from `None` (or from
`Absent`, `Unfilled`, `Torn`), that maps have their domains and that bounds are
numbers; none of them restricts a number of actors. Three say more of the world:
`IngestionAssumption`, that the documents are numbered, that there is one, and that a
text is a sequence of pieces; `WorkflowAssumption`, that a call has one or two attempts,
as `AiServiceProperties` validates, and that every environment is typed as the schemas
of settings, budgets, hits and drafts are, with no chunk twice among the hits
(`IsScene`); and `BoundaryAssumption`, that a message and its answer fit into the
margin of `validate_timeout_budget`. `RankingAssumption` takes scores as integers: only
their order matters, and the fusion's fractions are compared exactly.

Each module proves `Init => IInv` and `IInv /\ [Next]_vars => IInv'` for an inductive
invariant, action by action, and reads the properties off it; action properties
and refinements are then steps of one action each.

**`CommandProofs`**, the layer: `TypeCorrect`; the invariants `AtMostOnce`,
`Durability`, `FaithfulAnswers`, `RetrySuffices`, `OwnFingerprint`; the action
properties `LiveLeases`, `StaleOwners`; and `Implements`: the layer implements
`IdempotentCommand`, with a key's fingerprint as its binding and the row's response
as its effect. The properties are not inductive as they stand: that an answer is
the effect needs `AnswerInForce` (the row an answer was read from still says so),
that needs rows to name only requests of their own key and fingerprint
(`RowNamesItsRequests`), and at most one effect follows from `EffectIffCompleted`,
since two effects of one key would both be the response of its one row.
`OneRetrySuffices` rests on `RetryFindsRow`: rows are never deleted.

Its second part, the analysis command, is built on it: `Respects` shows that each step of the
composition is one of the layer or leaves it alone, so the layer's theorems hold
of the analysis command, and `OneRunAKey` is one of them carried over.
`RunsAreCommitted` follows from the layer's invariant and the runs that `Persist`
adds with a completed key; `OneRunAVersion` needs that every run is of an earlier
version than the ticket's.

**`TicketProofs`**, the ticket: `EveryVersionIsTold` (the changes in the audit are, in
order, the versions of the ticket, which needs that what a writer has read is the
ticket unless its version has moved), `FinishedStays`, `ReviewsAreCurrent` and `RefusalsAreDue`. The
last two are about the run a review read before it locked the ticket: the
invariant keeps that run in the transaction's snapshot, and tells runs apart by their
source version, so that the run of the version before the ticket's is the one that
made it what it is.

Its second part, the page: `AnswersTheQuery`, `NobodyWaitsForNothing`,
`SnapshotsAdvance`. The invariant speaks of the answers under way: an answer of the
current epoch was asked for with the query of the page, and what is loading has
such an answer.

**`KnowledgeReleaseProofs`**: `PointerIsPublished`, `AuditIsTrue`,
`ReadsAreConsistent`, for either level, each saying which part depends on it. Under
current reads the published releases are exactly the pointer's,
under snapshots the pointer's is published: the strengthening relates a command's
snapshot to the table by version, so that a flush of a stale row fails.
`CurrentReadsArchive` says of `level = "READ COMMITTED"` that a switch archives what
it replaces: the property that the run `release_repeatable_read` finds violated
fails for the snapshot alone.

**`IndexRebuildProofs`**: `Recorded` (what is billed is recorded, through every save
that raises), `SuccessIsPublished`, and `Implements`: rebuilds implement
`DurableTask`. The strengthening is who owns the lock: only its holder works, and a
task that is at work says RUNNING in its file with the counts of its worker.

**`CorpusBuildProofs`**: `SuccessIsSelectable` and `Implements`, from the same
abstract contract. Here the lock is not a variable; the invariant `Exclusive` says
that whoever has the lock file open, a worker, an orphaned generator or a GET, is
alone, and `Local` that a running generator's record says RUNNING.

Its second part, the ingestion: `IngestionTypeCorrect` and `AcceptsOneBuild`. The
invariant says of every run that its chunks are those of the entries it lists so far,
also between the two steps that add the chunks and the entry of a document (`Gathered`);
of the provenance file that, when it can be read, it describes the chunks its checksum is
of (`Sound`), although the corpus beside it may be another run's; and of the loader what
it has read and compared (`Loaded`). The loader reads two files that two runs may
replace in between: what it accepts is one build because the checksum ties the chunks
to the entries, whoever wrote them. The lemma it rests on, `FlattenAppend`, says that
flattening a sequence with one more adds its elements at the end; it is
proved by a least counterexample, since the library's induction takes an operator.

**`LiveRetrievalProofs`**: `PointerHolds` and `EvidenceHolds`. A pointer is `Whole`
when it names two different artifacts on disk. Neither editor holds a lock, so the
invariant must hold of the pointers still to be written as well; it does, whatever
the pointer they were computed from has become, since artifacts are never
removed. For the evidence, every snapshot's artifact has the rows of its corpus,
also of one that a request loads into a snapshot long replaced, and a request
under way holds a snapshot of the release it names.

**`AiBoundaryProofs`**: `AiTypeCorrect`, `CitesEvidence`, `PromisesSources`,
`FallsBackForFailures` and `DeadlinesAttributed`, for any environments, any number of
callers and any drafts of the model. Lemmas about pure answers come first: what the
constraints of `AnalysisAnswer` leave of a draft cites hits only, a fallback cites what it
was given, and a policy speaks only where it applies and its unchanged chunk is cited. The invariant then says that every
reply, one that is on its way as well as one that was heard, is sound, and of each call
what its breaker permit and its worker are doing (`ControlOf`), what it has heard
(`HearingOf`), and how long it has taken, by where its request is (`ClockOf`). The last
is what the deadlines need: with one attempt and an admitted budget, each step of the
service has spent no more than its share, so that the caller's deadline passes first only
when the request, or its answer, was lost (`DeadlineOf`).

**`EvidenceProofs`**, the paid runs: `PaysOnce` and `AcceptsOneExecution`. The claim of
a directory is a file that is created and filled in two steps, and a run may fail in
between: the invariant speaks of who has created the claim (`OnePayer`) and the plan
(`OnePlanner`) as far as it still shows, of what a run holds at each step, and says that
a complete manifest is the last thing its run wrote.

The dependency scan: `AcceptsOnePublication` and `KeepsTheClaim`. The invariant says of
the directories that one with a file is at the label or aside, and was opened by a
publisher or merged into; this is why a `rmdir` by name, even of
another's directory, loses only an empty one. Of a publisher that is alone in its
directory it gives, by the file it is at, which of its files exist and which is torn;
and of a validator, by the file it is at, which it has read so far. That the marker fits
is kept from the moment it was compared, so that the digests at the end tie every file to
the publisher of the provenance, whatever the keeper merged meanwhile.

The image scan: `SealedVerifiesAlways` and `VerdictsAgree`. The
invariant follows the script: what is collected before the reports are read, what is
left to clean up, which files of `finalize` exist and whether one is torn, and, for a
script that no signal reached, what its exit status was decided from. That a sealed
directory stays verifiable needs `CleanedUp`: once `COMPLETE` is there nothing is left
for the trap, whose failing cleanup would append to a sealed log.

The measurements: `DiagnosisBounds`. Sorting is stated by `Sorted` over the community
modules' `SetToSeqs`, since the prover has no definition of `SortSeq`. The lemmas: every
strict order of the rows has its sequence, where a row's place is one more than the number
of rows before it; a fusion without weight for BM25 orders rows by score; so its first
gold row has the best score of the gold, and every row that the diagnosis counts is in
front of it, whatever scores are equal. For the search, the rows in front of one that it
shows are among the first `TopN` by score, whatever the category moved afterwards.

Only model-checked: liveness, that is `OrphanedLeaseLapses`, `JoinerReleased`,
`LockIsReleased`, `RootComesFree` and `EveryWorkerLeaves`, since fairness and `ENABLED`
are outside what the proof system handles; and `SignificantIsConclusive`, whose binomial
coefficients are defined by recursion: the run computes them. Every other safety
invariant, action property and refinement that a passing run checks is also proved.

## 5. Findings

- `release_repeatable_read`: under REPEATABLE READ, `publish` reads the release
  it is to archive from a snapshot older than its lock on the pointer. If a
  rollback has made that release PUBLISHED again meanwhile, `archive()` changes
  nothing, no `UPDATE` is sent, and two releases stay PUBLISHED, although
  `README.md:341` says that publishing archives the previous one. Readers follow
  the pointer, so the second release is never granted for being PUBLISHED: a reader
  is granted what the pointer named at its first or its last read
  (`ReaderSeesOneMoment`). `CurrentReadsArchive`
  proves that current reads repair it.
- `lazy_build`: under build-if-missing a search that finds no pointer waits for
  the provider and then activates its artifact over whatever the pointer names
  by then; `README.md:372` says that the policy cannot silently replace an
  incompatible artifact. No answer mixes two releases because of it
  (`EvidenceIsTheNamedRelease`), and a rollback restores the replaced artifact.
- `program_error_fallback`: the AI service answers an unknown exception with 500,
  which the client takes for a transient failure: it retries and then stores a
  fallback. `docs/STATUS.md:313` and `README.md:158` say that a program error is not
  disguised as a fallback.

Observations that no run states as a property:

- `docs/contracts/analysis-single-flight-contract.md:11-13,29-30` gives ticket,
  version and policy as the business key of a flight; the code's key also has the
  command identity (`AnalysisSingleFlightCoordinator.java:69-75`), so two analyses
  with different keys both call the AI. The second result is refused by the version
  check (`OneRunPerVersion`).
- A search whose scopes match no row is recorded as a successful retrieval
  (`P/knowledge.py:149`), so readiness reports the index up although nothing was
  verified; `README.md:374` names `artifact-unverified` until then. Other documents
  allow it.
- The answer to a creation puts version 1 in front of a newer snapshot of the same
  ticket (`useTicketWorkflow.ts:234`): the exception in `OlderOnlyByCreation`.
- Asking for the same query again while it loads (`App.tsx:79`) drops the answer
  under way and fetches nothing, so that the queue stays loading until the query
  changes or a command ends: the exception in `LoadingIsAnswered`.
- Two overlapping equal review decisions are both recorded; with clocks that
  disagree a fresh analysis may be refused as stale, which `RefusedOnlyWhenStale`
  names as its only exception.
- `README.md:407` says that only 429 and 5xx but 504 are retried; connection
  failures are, too. An AI service that hangs never opens the breaker, since the
  deadline interrupts the worker and an interrupted call is not counted.
- `validate_timeout_budget` is enforced by `scripts/check-live-rag.sh` only; without it
  `DeadlinesAreAttributed` does not hold. The deadline of the AI service cannot
  interrupt a worker thread.
- An ingestion takes digests from a second read of its inputs, so an edit between
  the two describes other inputs than were used; blanks around a release id are
  stripped in the corpus but not in the provenance.
- Scan evidence: a publisher that fails between `mkdir` and its `open`, or is killed,
  keeps the label for ever, by hand to be removed. The cleanup of one that fails compares
  the identity of the label by `stat` and then removes the label by its name
  (`scripts/publish_scan_evidence.py:175-180`): if the label is replaced in between, a
  directory that another publisher has just claimed is removed, but only while it is
  empty; its owner's next file then fails. `scripts/tests/test_publish_scan_evidence.py:120`
  has a replacement survive that holds a file, as `ClaimIsKept` says of all of them. Publishers that come to share a
  directory, because the label was replaced between a `mkdir` and its `open`, may both
  report success for evidence that the validator then refuses. A script of the image
  scan that is signalled can exit 0 without `COMPLETE`
  (`scripts/scan-pilot-images.sh:77,91`); no document says otherwise, and the verifier
  looks for `COMPLETE`. An inputs file that is replaced
  between `read_inputs` and the hash of the plan makes `inputsSha256` name other inputs.
- A GET that holds the lock of the tasks makes a concurrent POST answer 409.

## 6. Not modelled

- Read-only queries, metrics and quality, identity and configuration of the API, the
  views and HTTP services of the web: no state of their own that two actors share.
  The keys a client reuses after an uncertain answer are the retries of
  `CommandIdempotency`.
- The isolated benchmark (`E/isolated_*.py`): a bounded counter in one process; its
  counts start over with the process, which no document excludes.
- Other evaluation programs, reports and document checks: sequential programs over
  fixed files. Backup and restore are the database's own tools.
- Text processing: prompts, detection of languages, redaction, the extraction of
  sections, BM25 and cosine arithmetic, formats of HTTP and of audit details.
- Mock mode of the retrieval awaits nothing and is one step of `AnalysisWorkflow`.
- Spring Data's `save` of an entity with an assigned id is a merge; the bootstrap
  race is modelled with the primary key deciding, not with the select of that
  merge. The pool of heartbeats has two threads: that a lease lapses behind a full
  pool is covered by `LeaseExpires`, how many owners two threads can serve is not.
- A switch of the Java pointer and of the Python corpus as a pair (ADR-0002) is not
  implemented in the code; `EvidenceIsTheNamedRelease` and `FallbackOnlyForFailures`
  say what an analysis sees in between. A second signal inside the trap of the image
  scan is left out.
