------------------------------ MODULE CorpusBuild ------------------------------
(***************************************************************************)
(* Corpus build tasks of the AI service (app/corpus_build*.py): a POST     *)
(* takes the flock of the build root, settles what earlier processes left  *)
(* behind, stores a RUNNING record and hands the lock to a worker thread;  *)
(* the thread runs the Node generator in a child process that inherits the *)
(* lock, checks what it wrote and renames it into place.  A GET settles a  *)
(* task whose lock nobody holds any more.                                  *)
(*                                                                         *)
(* A flock belongs to the open file: it is held until the last process     *)
(* that has the descriptor closes it, so a generator whose parent died     *)
(* keeps the root locked.  The generator is external and may write         *)
(* anything; its own timer ends it.  A save that raises may have replaced  *)
(* the record before (the fsync of the directory follows the rename).      *)
(***************************************************************************)
EXTENDS Naturals

CONSTANTS
  Task,       \* POST requests, and the tasks they create
  Query,      \* clients that poll GET
  Process,    \* processes of the AI service over one build root
  None,
  ProcessOf,  \* the process each POST or GET is served by
  Stepped     \* tasks during which the clock steps back behind started_at

ASSUME CorpusAssumption ==
  /\ Task \cap Query = {}
  /\ None \notin Task
  /\ ProcessOf \in [Task \cup Query -> Process]
  /\ Stepped \subseteq Task

VARIABLES
  file,   \* file[t]: the state status.json of task t reports
  place,  \* place[t]: the directory that holds the generator's files
  made,   \* made[t]: whether those files match the request of the task
  pc,     \* pc[t]: how far the POST and its worker are
  child,  \* child[t]: the generator process of the task
  query   \* query[q]: how far a GET is, and for which task

vars == <<file, place, made, pc, child, query>>

\* INTERRUPTED is FAILED with the failure code CORPUS_BUILD_INTERRUPTED;
\* read() refuses an UNREADABLE record.
Settled == {"SUCCEEDED", "FAILED", "INTERRUPTED", "UNREADABLE"}

\* How a generator ended: exit status 0, 124 (its own timer), anything else.
Exits == {"done", "late", "broken"}

Working == {"ready", "spawn", "wait", "check", "place", "succeed", "fail"}
Holding == Working \cup {"prepare", "release"}
Idle == [at |-> "idle", task |-> None]

BuildTypeOK ==
  /\ file \in [Task -> Settled \cup {"ABSENT", "RUNNING"}]
  /\ place \in [Task -> {"none", "candidate", "result"}]
  /\ made \in [Task -> {"partial", "wrong", "right"}]
  /\ pc \in [Task -> {"idle", "end"} \cup Holding]
  /\ child \in [Task -> {"none", "running"} \cup Exits]
  /\ query \in [Query -> [at : {"read", "locked"}, task : Task] \cup {Idle}]

Init ==
  /\ file = [t \in Task |-> "ABSENT"]
  /\ place = [t \in Task |-> "none"]
  /\ made = [t \in Task |-> "partial"]
  /\ pc = [t \in Task |-> "idle"]
  /\ child = [t \in Task |-> "none"]
  /\ query = [q \in Query |-> Idle]

Goto(t, step) == pc' = [pc EXCEPT ![t] = step]

\* coherent_status: a record that ends before it starts cannot be read again.
Closed(t, status) == IF t \in Stepped THEN "UNREADABLE" ELSE status

Write(t, status) == file' = [file EXCEPT ![t] = status]

\* Mutant: the generator does not inherit the descriptor.
OpenByParent(t) == pc[t] \in Holding

\* Who has the lock file open: the worker, and the generator it started.
OpenBy(t) == pc[t] \in Holding \/ child[t] = "running"

Free ==
  /\ \A t \in Task : ~OpenBy(t)
  /\ \A q \in Query : query[q].at # "locked"

----------------------------------------------------------------------------
(* POST: admission. *)

\* 409 CORPUS_BUILD_ALREADY_RUNNING; 503 when nothing is configured.
Acquire(t) ==
  /\ pc[t] = "idle"
  /\ Goto(t, IF Free THEN "prepare" ELSE "end")
  /\ UNCHANGED <<file, place, made, child, query>>

\* recover(): one save per record that still says RUNNING.
Recover(t) ==
  /\ pc[t] = "prepare"
  /\ \E u \in Task : file[u] = "RUNNING" /\ Write(u, Closed(u, "INTERRUPTED"))
  /\ UNCHANGED <<place, made, pc, child, query>>

AllSettled == \A u \in Task : file[u] \notin {"RUNNING", "UNREADABLE"}

\* The source has the expected checksum and every record reads as settled: the
\* new record is saved, and the worker takes the lock over.
Admit(t) ==
  /\ pc[t] = "prepare"
  /\ AllSettled
  /\ Write(t, "RUNNING")
  /\ Goto(t, "ready")
  /\ UNCHANGED <<place, made, child, query>>

\* The source is missing, too large or another one, a record is unreadable, or a
\* save raises, perhaps after its rename: the lock is given back.
PrepareFails(t) ==
  /\ pc[t] = "prepare"
  /\ file' = file \/ (AllSettled /\ Write(t, "RUNNING"))
  /\ Goto(t, "end")
  /\ UNCHANGED <<place, made, child, query>>

----------------------------------------------------------------------------
(* The worker and its generator. *)

\* start_soon: the thread begins, or the task group is closed already.
Dispatch(t) ==
  /\ pc[t] = "ready"
  /\ \E step \in {"spawn", "fail"} : Goto(t, step)
  /\ UNCHANGED <<file, place, made, child, query>>

\* The candidate directory is made and the generator started.
Spawn(t) ==
  /\ pc[t] = "spawn"
  /\ place' = [place EXCEPT ![t] = "candidate"]
  /\ child' = [child EXCEPT ![t] = "running"]
  /\ Goto(t, "wait")
  /\ UNCHANGED <<file, made, query>>

\* mkdir, the start of the process, a read or an fsync raises.
Falter(t) ==
  /\ pc[t] \in {"spawn", "check", "place"}
  /\ \/ UNCHANGED place
     \/ pc[t] = "spawn" /\ place' = [place EXCEPT ![t] = "candidate"]
  /\ Goto(t, "fail")
  /\ UNCHANGED <<file, made, child, query>>

\* Mutant: the generator has no timer of its own.
EndsWhileWatched(t) ==
  /\ child[t] = "running"
  /\ pc[t] = "wait"
  /\ \E m \in {"wrong", "right"} : made' = [made EXCEPT ![t] = m]
  /\ child' = [child EXCEPT ![t] = "done"]
  /\ UNCHANGED <<file, place, pc, query>>

\* The generator ends, with or without its parent; its files are what it made of
\* the source it was given, or not.
GeneratorEnds(t) ==
  /\ child[t] = "running"
  /\ \/ child' = [child EXCEPT ![t] = "done"]
        /\ \E m \in {"wrong", "right"} : made' = [made EXCEPT ![t] = m]
     \/ /\ \E exit \in Exits \ {"done"} : child' = [child EXCEPT ![t] = exit]
        /\ UNCHANGED made
  /\ UNCHANGED <<file, place, pc, query>>

\* subprocess.run kills and reaps a generator that outlives the timeout.
Kill(t) ==
  /\ pc[t] = "wait"
  /\ child[t] = "running"
  /\ child' = [child EXCEPT ![t] = "broken"]
  /\ Goto(t, "fail")
  /\ UNCHANGED <<file, place, made, query>>

\* TIMEOUT for 124, PROCESS_FAILED for any other status but 0.
Reap(t) ==
  /\ pc[t] = "wait"
  /\ child[t] \in Exits
  /\ Goto(t, IF child[t] = "done" THEN "check" ELSE "fail")
  /\ UNCHANGED <<file, place, made, child, query>>

\* Mutant: the manifest is believed.
AcceptAny(t) ==
  /\ pc[t] = "check"
  /\ Goto(t, "place")
  /\ UNCHANGED <<file, place, made, child, query>>

\* RESULT_INVALID unless corpus and manifest fit each other and the request.
Validate(t) ==
  /\ pc[t] = "check"
  /\ Goto(t, IF made[t] = "right" THEN "place" ELSE "fail")
  /\ UNCHANGED <<file, place, made, child, query>>

\* candidate.rename(result); the fsync after it may raise.
PlaceResult(t) ==
  /\ pc[t] = "place"
  /\ place' = [place EXCEPT ![t] = "result"]
  /\ \E step \in {"succeed", "fail"} : Goto(t, step)
  /\ UNCHANGED <<file, made, child, query>>

\* _finish: one save; when it raises that is only logged.
Finish(t) ==
  /\ pc[t] \in {"succeed", "fail"}
  /\ \/ file' = file
     \/ Write(t, Closed(t, IF pc[t] = "succeed" THEN "SUCCEEDED" ELSE "FAILED"))
  /\ Goto(t, "release")
  /\ UNCHANGED <<place, made, child, query>>

\* with prepared.ownership: the worker closes its descriptor.
Release(t) ==
  /\ pc[t] = "release"
  /\ Goto(t, "end")
  /\ UNCHANGED <<file, place, made, child, query>>

----------------------------------------------------------------------------
(* GET. *)

\* The first read takes no lock; only an unfinished record needs more.
Ask(q) ==
  /\ query[q] = Idle
  /\ \E t \in Task :
       /\ file[t] = "RUNNING"
       /\ query' = [query EXCEPT ![q] = [at |-> "read", task |-> t]]
  /\ UNCHANGED <<file, place, made, pc, child>>

\* The lock is free: look again under it.  If not, the answer is RUNNING.
Inspect(q) ==
  /\ query[q].at = "read"
  /\ query' = [query EXCEPT ![q] = IF Free THEN [@ EXCEPT !.at = "locked"] ELSE Idle]
  /\ UNCHANGED <<file, place, made, pc, child>>

\* recover() reads again under the lock; its save may raise.
RecoverTask(q) ==
  /\ query[q].at = "locked"
  /\ \/ file' = file
     \/ /\ file[query[q].task] = "RUNNING"
        /\ Write(query[q].task, Closed(query[q].task, "INTERRUPTED"))
  /\ query' = [query EXCEPT ![q] = Idle]
  /\ UNCHANGED <<place, made, pc, child>>

----------------------------------------------------------------------------

\* A process dies with its requests and workers, but not with its generator.
Die(p) ==
  /\ \/ \E t \in Task : ProcessOf[t] = p /\ pc[t] \in Holding
     \/ \E q \in Query : ProcessOf[q] = p /\ query[q] # Idle
  /\ pc' = [t \in Task |->
              IF ProcessOf[t] = p /\ pc[t] \in Holding THEN "end" ELSE pc[t]]
  /\ query' = [q \in Query |-> IF ProcessOf[q] = p THEN Idle ELSE query[q]]
  /\ UNCHANGED <<file, place, made, child>>

Prepare(t) == Acquire(t) \/ Recover(t) \/ Admit(t) \/ PrepareFails(t)

Work(t) ==
  \/ Dispatch(t) \/ Spawn(t) \/ Falter(t) \/ Kill(t) \/ Reap(t) \/ Validate(t)
  \/ PlaceResult(t) \/ Finish(t) \/ Release(t)

Poll(q) == Ask(q) \/ Inspect(q) \/ RecoverTask(q)

Next ==
  \/ \E t \in Task : Prepare(t) \/ Work(t) \/ GeneratorEnds(t)
  \/ \E q \in Query : Poll(q)
  \/ \E p \in Process : Die(p)

Spec == Init /\ [][Next]_vars

(***************************************************************************)
(* Threads are scheduled, and a generator ends: its main thread only waits *)
(* for its timer, whatever the thread that slices the documents does.      *)
(* Clients need not post or poll.                                          *)
(***************************************************************************)
Fairness ==
  /\ \A t \in Task : WF_vars((Prepare(t) \/ Work(t)) /\ pc[t] \in Holding)
  /\ \A t \in Task : WF_vars(GeneratorEnds(t))
  /\ \A q \in Query : WF_vars(RecoverTask(q))

FairSpec == Spec /\ Fairness

----------------------------------------------------------------------------
(* Properties. *)

\* select_rebuild_source: the task an index rebuild may take its corpus from.
Selectable(t) == file[t] = "SUCCEEDED" /\ place[t] = "result" /\ made[t] = "right"

\* An accepted task that says SUCCEEDED has a result of its own request in
\* place, and no task can be chosen while its generator still writes, whichever
\* of the rename, its fsync and the save of the record fails.
SucceededIsSelectable ==
  \A t \in Task : file[t] = "SUCCEEDED" => Selectable(t) /\ child[t] = "done"

\* At work is a worker, or the generator it left behind.
AtWork == {t \in Task : pc[t] \in Working \/ child[t] = "running"}

\* The lock keeps the task contract through deaths of the parent: while a
\* generator runs, orphaned or not, no other task starts and no GET or POST
\* declares its task interrupted; a settled record is never written again.
Contract == INSTANCE DurableTask WITH
  record <- file,
  owner <- IF AtWork = {} THEN None ELSE CHOOSE t \in AtWork : TRUE

KeepsTaskContract == Contract!TaskSpec

\* No death or failure locks the root for ever: the generator's own timer frees
\* it when no parent is left to kill the generator.
RootComesFree == \A t \in Task : OpenBy(t) ~> ~OpenBy(t)
=============================================================================
