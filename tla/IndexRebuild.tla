------------------------------ MODULE IndexRebuild ------------------------------
(***************************************************************************)
(* Index rebuild tasks of the AI service (app/index_rebuild*.py): a POST   *)
(* takes the flock of the artifact root, settles what earlier processes    *)
(* left behind, stores a RUNNING status file and hands the lock to a       *)
(* worker thread; the worker embeds the corpus in batches, publishes the   *)
(* artifact and settles the status; a GET settles a task whose worker is   *)
(* gone.  The lock dies with its process, the files survive it.            *)
(*                                                                         *)
(* A status file is replaced by a rename, so reads are atomic.  A save     *)
(* that raises may have replaced the file before (the fsync of the         *)
(* directory follows the rename) or not.  A request whose lock file or     *)
(* first read fails ends without an effect and is left out.                *)
(***************************************************************************)
EXTENDS Naturals

CONSTANTS
  Task,       \* POST requests, and the tasks they create
  Query,      \* clients that poll GET
  Process,    \* processes of the AI service over one artifact root
  Corpus,     \* corpora, each the identity of one artifact
  None,
  ProcessOf,  \* the process each POST or GET is served by
  CorpusOf,   \* the corpus each task embeds
  Budget,     \* max_embedding_calls of each task
  Batches     \* estimated_embedding_calls: ceil(chunks / BATCH_SIZE)

ASSUME RebuildAssumption ==
  /\ Task \cap Query = {}
  /\ None \notin Task \cup Query
  /\ ProcessOf \in [Task \cup Query -> Process]
  /\ CorpusOf \in [Task -> Corpus]
  /\ Budget \in [Task -> Nat \ {0}]
  /\ Batches \in Nat \ {0}

VARIABLES
  file,       \* file[t]: status.json of task t
  known,      \* known[t]: the counts in RebuildProgress.status, the worker's memory
  lock,       \* the POST or GET that holds rebuild.lock, or None
  pc,         \* pc[t]: how far the POST and its worker are
  query,      \* query[q]: how far a GET is, and for which task
  published,  \* the corpora whose artifact directory is in place
  billed      \* billed[t]: calls that reached the embedding provider

vars == <<file, known, lock, pc, query, published, billed>>

Counts == [calls : 0 .. Batches, done : 0 .. Batches]
Start == [calls |-> 0, done |-> 0]

\* INTERRUPTED is FAILED with the failure code REBUILD_INTERRUPTED.
Settled == {"SUCCEEDED", "FAILED", "INTERRUPTED"}
File == [status : Settled \cup {"RUNNING"}, calls : 0 .. Batches, done : 0 .. Batches]
NoFile == [status |-> "ABSENT", calls |-> 0, done |-> 0]

\* The places of a worker; "failing" is on its way to _fail.
Working ==
  {"ready", "embed", "calling", "received", "publish", "finish", "failing"}
Holding == Working \cup {"prepare", "release"}
Idle == [at |-> "idle", task |-> None]

RebuildTypeOK ==
  /\ file \in [Task -> File \cup {NoFile}]
  /\ known \in [Task -> Counts]
  /\ lock \in Task \cup Query \cup {None}
  /\ pc \in [Task -> {"idle", "end"} \cup Holding]
  /\ query \in [Query -> [at : {"read", "locked"}, task : Task] \cup {Idle}]
  /\ published \in SUBSET Corpus
  /\ billed \in [Task -> Nat]
  /\ \A t \in Task : pc[t] \in Holding => lock = t
  /\ \A q \in Query : query[q].at = "locked" => lock = q

Init ==
  /\ file = [t \in Task |-> NoFile]
  /\ known = [t \in Task |-> Start]
  /\ lock = None
  /\ pc = [t \in Task |-> "idle"]
  /\ query = [q \in Query |-> Idle]
  /\ published = {}
  /\ billed = [t \in Task |-> 0]

Goto(t, place) == pc' = [pc EXCEPT ![t] = place]

\* The status a worker writes: its own counts, with another state.
Record(status, counts) ==
  [status |-> status, calls |-> counts.calls, done |-> counts.done]

Write(t, new) == file' = [file EXCEPT ![t] = new]

\* RebuildProgress.save: on success the worker knows the new counts and goes
\* on; a save that raises sends it to _fail with the counts it knew.
SaveProgress(t, counts, place) ==
  \/ /\ Write(t, Record("RUNNING", counts))
     /\ known' = [known EXCEPT ![t] = counts]
     /\ Goto(t, place)
  \/ /\ file' = file \/ Write(t, Record("RUNNING", counts))
     /\ Goto(t, "failing")
     /\ UNCHANGED known

Interrupted(t) == [file[t] EXCEPT !.status = "INTERRUPTED"]

----------------------------------------------------------------------------
(* POST: admission. *)

Acquire(t) ==
  /\ pc[t] = "idle"
  /\ lock = None
  /\ lock' = t
  /\ Goto(t, "prepare")
  /\ UNCHANGED <<file, known, query, published, billed>>

\* 409 REBUILD_ALREADY_RUNNING.
Busy(t) ==
  /\ pc[t] = "idle"
  /\ lock # None
  /\ Goto(t, "end")
  /\ UNCHANGED <<file, known, lock, query, published, billed>>

\* recover(): one save per task that still says RUNNING.
Recover(t) ==
  /\ pc[t] = "prepare"
  /\ \E u \in Task : file[u].status = "RUNNING" /\ Write(u, Interrupted(u))
  /\ UNCHANGED <<known, lock, pc, query, published, billed>>

\* Everything is recovered and the request is within its budget: the status is
\* saved, and the worker takes the lock over.
Admit(t) ==
  /\ pc[t] = "prepare"
  /\ \A u \in Task : file[u].status # "RUNNING"
  /\ Batches <= Budget[t]
  /\ Write(t, Record("RUNNING", Start))
  /\ Goto(t, "ready")
  /\ UNCHANGED <<known, lock, query, published, billed>>

\* An unreadable or unwritable status, a corpus that is not the authorized one,
\* or a budget below the estimate: the lock is given back.  The save of the new
\* status may raise when its file is already in place.
PrepareFails(t) ==
  /\ pc[t] = "prepare"
  /\ \/ file' = file
     \/ /\ \A u \in Task : file[u].status # "RUNNING"
        /\ Batches <= Budget[t]
        /\ Write(t, Record("RUNNING", Start))
  /\ lock' = None
  /\ Goto(t, "end")
  /\ UNCHANGED <<known, query, published, billed>>

----------------------------------------------------------------------------
(* The worker. *)

\* The worker could not be started, or the build raised between two saves.
Falter(t) ==
  /\ pc[t] \in Working \ {"failing"}
  /\ Goto(t, "failing")
  /\ UNCHANGED <<file, known, lock, query, published, billed>>

\* If the artifact of this corpus exists and loads, nothing is embedded.
FindArtifact(t) ==
  /\ pc[t] = "ready"
  /\ Goto(t, IF CorpusOf[t] \in published THEN "finish" ELSE "embed")
  /\ UNCHANGED <<file, known, lock, query, published, billed>>

\* Mutant: the call is counted together with its result.
AttemptUnrecorded(t) ==
  /\ pc[t] = "embed"
  /\ Goto(t, "calling")
  /\ UNCHANGED <<file, known, lock, query, published, billed>>

\* attempted(): the next call is recorded before it is made.
Attempt(t) ==
  /\ pc[t] = "embed"
  /\ known[t].calls < Budget[t]
  /\ SaveProgress(t, [known[t] EXCEPT !.calls = @ + 1], "calling")
  /\ UNCHANGED <<lock, query, published, billed>>

\* The provider is called; it may fail, time out, or answer with the wrong shape.
Call(t) ==
  /\ pc[t] = "calling"
  /\ billed' = [billed EXCEPT ![t] = @ + 1]
  /\ \E place \in {"received", "failing"} : Goto(t, place)
  /\ UNCHANGED <<file, known, lock, query, published>>

\* completed(): the batch counts.
Complete(t) ==
  /\ pc[t] = "received"
  /\ SaveProgress(t, [known[t] EXCEPT !.done = @ + 1],
                  IF known[t].done + 1 = Batches THEN "publish" ELSE "embed")
  /\ UNCHANGED <<lock, query, published, billed>>

\* Mutant: the verified candidate is left in the task's directory.
KeepCandidate(t) ==
  /\ pc[t] = "publish"
  /\ \E place \in {"finish", "failing"} : Goto(t, place)
  /\ UNCHANGED <<file, known, lock, query, published, billed>>

\* The candidate is written, verified and renamed to its final place, where an
\* equal artifact may be already; the fsync after the rename may still fail.
Publish(t) ==
  /\ pc[t] = "publish"
  /\ published' = published \cup {CorpusOf[t]}
  /\ \E place \in {"finish", "failing"} : Goto(t, place)
  /\ UNCHANGED <<file, known, lock, query, billed>>

\* finish(artifact_id), with the two ways its save may raise.
Finish(t) ==
  /\ pc[t] = "finish"
  /\ LET new == [status |-> "SUCCEEDED", calls |-> known[t].calls, done |-> Batches]
     IN  \/ Write(t, new) /\ Goto(t, "release")
         \/ (file' = file \/ Write(t, new)) /\ Goto(t, "failing")
  /\ UNCHANGED <<known, lock, query, published, billed>>

\* Mutant: a failure does not give the lock back.
FailWithoutRelease(t) ==
  /\ pc[t] = "failing"
  /\ file' = file \/ Write(t, Record("FAILED", known[t]))
  /\ Goto(t, "end")
  /\ UNCHANGED <<known, lock, query, published, billed>>

\* _fail: finish(None, code); an error of this save is only logged.
Fail(t) ==
  /\ pc[t] = "failing"
  /\ file' = file \/ Write(t, Record("FAILED", known[t]))
  /\ Goto(t, "release")
  /\ UNCHANGED <<known, lock, query, published, billed>>

\* with prepared.ownership: the lock file is closed when the thread is through.
Release(t) ==
  /\ pc[t] = "release"
  /\ lock' = None
  /\ Goto(t, "end")
  /\ UNCHANGED <<file, known, query, published, billed>>

\* LiveVectorIndex builds a missing artifact of its own accord and without the
\* lock, if the deployment's build policy says so.
BuildElsewhere(c) ==
  /\ c \notin published
  /\ published' = published \cup {c}
  /\ UNCHANGED <<file, known, lock, pc, query, billed>>

----------------------------------------------------------------------------
(* GET. *)

\* The first read takes no lock; only a RUNNING status needs more.
Ask(q) ==
  /\ query[q] = Idle
  /\ \E t \in Task :
       /\ file[t].status = "RUNNING"
       /\ query' = [query EXCEPT ![q] = [at |-> "read", task |-> t]]
  /\ UNCHANGED <<file, known, lock, pc, published, billed>>

\* Somebody holds the lock: the answer is RUNNING.
StillRunning(q) ==
  /\ query[q].at = "read"
  /\ lock # None
  /\ query' = [query EXCEPT ![q] = Idle]
  /\ UNCHANGED <<file, known, lock, pc, published, billed>>

\* Mutant: the task is recovered without the lock.
InspectUnlocked(q) ==
  /\ query[q].at = "read"
  /\ lock # None
  /\ file[query[q].task].status = "RUNNING"
  /\ Write(query[q].task, Interrupted(query[q].task))
  /\ query' = [query EXCEPT ![q] = Idle]
  /\ UNCHANGED <<known, lock, pc, published, billed>>

Inspect(q) ==
  /\ query[q].at = "read"
  /\ lock = None
  /\ lock' = q
  /\ query' = [query EXCEPT ![q].at = "locked"]
  /\ UNCHANGED <<file, known, pc, published, billed>>

\* recover_task reads again under the lock; its save may raise.
RecoverTask(q) ==
  /\ query[q].at = "locked"
  /\ \/ file' = file
     \/ /\ file[query[q].task].status = "RUNNING"
        /\ Write(query[q].task, Interrupted(query[q].task))
  /\ lock' = None
  /\ query' = [query EXCEPT ![q] = Idle]
  /\ UNCHANGED <<known, pc, published, billed>>

----------------------------------------------------------------------------

\* A process dies with its requests and workers; the kernel frees its lock.
Die(p) ==
  /\ \/ \E t \in Task : ProcessOf[t] = p /\ pc[t] \in Holding
     \/ \E q \in Query : ProcessOf[q] = p /\ query[q] # Idle
  /\ pc' = [t \in Task |->
              IF ProcessOf[t] = p /\ pc[t] \in Holding THEN "end" ELSE pc[t]]
  /\ query' = [q \in Query |-> IF ProcessOf[q] = p THEN Idle ELSE query[q]]
  /\ lock' = IF lock # None /\ ProcessOf[lock] = p THEN None ELSE lock
  /\ UNCHANGED <<file, known, published, billed>>

Prepare(t) == Acquire(t) \/ Busy(t) \/ Recover(t) \/ Admit(t) \/ PrepareFails(t)

Work(t) ==
  \/ Falter(t) \/ FindArtifact(t) \/ Attempt(t) \/ Call(t) \/ Complete(t)
  \/ Publish(t) \/ Finish(t) \/ Fail(t) \/ Release(t)

Poll(q) == Ask(q) \/ StillRunning(q) \/ Inspect(q) \/ RecoverTask(q)

Next ==
  \/ \E t \in Task : Prepare(t) \/ Work(t)
  \/ \E c \in Corpus : BuildElsewhere(c)
  \/ \E q \in Query : Poll(q)
  \/ \E p \in Process : Die(p)

Spec == Init /\ [][Next]_vars

(***************************************************************************)
(* Threads are scheduled, and a provider call ends: the SDK client has a   *)
(* timeout and no retries.  Clients need not post or poll.                 *)
(***************************************************************************)
Fairness ==
  /\ \A t \in Task : WF_vars((Prepare(t) \/ Work(t)) /\ pc[t] \in Holding)
  /\ \A q \in Query : WF_vars(RecoverTask(q))

FairSpec == Spec /\ Fairness

----------------------------------------------------------------------------
(* Properties. *)

\* RebuildProgress: the durable count is ahead of the provider, through every
\* failed save and crash, and never above the authorized budget.
CallsAreRecorded ==
  \A t \in Task : billed[t] <= file[t].calls /\ file[t].calls <= Budget[t]

\* A task that reports success has its artifact in place, although the rename
\* of the artifact and the save of the status are separate steps.
SucceededIsPublished ==
  \A t \in Task : file[t].status = "SUCCEEDED" => CorpusOf[t] \in published

\* The task contract: a task is declared interrupted only when its worker is
\* gone, a GET that read RUNNING before the worker ended does not overwrite what
\* it wrote, and a settled status is final, but for the worker itself, which may
\* turn a success whose save raised into a failure.
Contract == INSTANCE DurableTask WITH
  record <- [t \in Task |-> file[t].status],
  owner <- IF \E t \in Task : pc[t] \in Working
             THEN CHOOSE t \in Task : pc[t] \in Working ELSE None

KeepsTaskContract == Contract!TaskSpec

\* The lock always comes back, whatever fails inside the worker.
LockIsReleased == \A h \in Task \cup Query : lock = h ~> lock # h
=============================================================================
