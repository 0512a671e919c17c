--------------------------- MODULE IndexRebuildProofs ---------------------------
(***************************************************************************)
(* Proofs about IndexRebuild, for any numbers of tasks, clients, processes *)
(* and corpora, any budgets and any number of batches.                     *)
(***************************************************************************)
EXTENDS IndexRebuild, TLAPS

----------------------------------------------------------------------------
(* The inductive invariant. *)

Places == {"idle", "end"} \cup Holding

\* What holds of a task t in place p, with status file f, counts k and b calls billed,
\* when the corpora pub are published: the worker's counts are where its loop is, the
\* file has them while the worker is at work, and no call is billed but a recorded one.
Local(t, f, k, p, b, pub) ==
  /\ p \in {"idle", "prepare"} => f = NoFile /\ k = Start /\ b = 0
  /\ p = "ready" => k = Start
  /\ p \in Working \ {"failing"} => f.status = "RUNNING" /\ f.calls = k.calls
  /\ p = "embed" => k.calls = k.done /\ k.done < Batches
  /\ p \in {"calling", "received"} => k.calls = k.done + 1 /\ k.done < Batches
  /\ p = "calling" => b < k.calls
  /\ p \in Working => b <= k.calls
  /\ p = "finish" => CorpusOf[t] \in pub
  /\ k.calls <= Budget[t]
  /\ b <= f.calls /\ f.calls <= Budget[t]
  /\ f.status = "SUCCEEDED" => CorpusOf[t] \in pub

Tasks == \A t \in Task : Local(t, file[t], known[t], pc[t], billed[t], published)

IInv == RebuildTypeOK /\ Tasks

\* The numbers, apart from the functions they are taken from.
LEMMA Constants ==
  /\ Batches \in Nat /\ Batches > 0
  /\ \A t \in Task : Budget[t] \in Nat /\ Budget[t] > 0
  /\ \A t \in Task : CorpusOf[t] \in Corpus
  /\ \A t \in Task : t # None /\ t \notin Query
  /\ \A q \in Query : q # None
  BY RebuildAssumption

LEMMA FileShape ==
  /\ NoFile.status = "ABSENT" /\ NoFile.calls = 0
  /\ Start \in Counts /\ Start.calls = 0 /\ Start.done = 0
  /\ \A k \in Counts : k.calls \in 0 .. Batches /\ k.done \in 0 .. Batches
  /\ \A s \in Settled \cup {"RUNNING"}, k \in Counts :
       /\ Record(s, k) \in File
       /\ Record(s, k).status = s /\ Record(s, k).calls = k.calls
  <1>1. 0 \in 0 .. Batches
    BY Constants
  <1> QED BY <1>1 DEF NoFile, Start, Counts, Record, File

\* The types, as the steps use them.
LEMMA Types ==
  ASSUME IInv
  PROVE  /\ file \in [Task -> File \cup {NoFile}]
         /\ known \in [Task -> Counts]
         /\ lock \in Task \cup Query \cup {None}
         /\ pc \in [Task -> Places]
         /\ query \in [Query -> [at : {"read", "locked"}, task : Task] \cup {Idle}]
         /\ published \in SUBSET Corpus
         /\ billed \in [Task -> Nat]
         /\ \A t \in Task : pc[t] \in Holding => lock = t
         /\ \A q \in Query : query[q].at = "locked" => lock = q
  BY DEF IInv, RebuildTypeOK, Places

\* Nothing is stored, billed or under way at first.
LEMMA InitIInv == Init => IInv
  <1> SUFFICES ASSUME Init PROVE IInv
    OBVIOUS
  <1>1. RebuildTypeOK
    <2>1. \A t \in Task : pc[t] = "idle"
      BY DEF Init
    <2>2. "idle" \notin Holding
      BY DEF Holding, Working
    <2>3. \A q \in Query : query[q] = Idle /\ query[q].at = "idle"
      BY DEF Init, Idle
    <2>4. known \in [Task -> Counts]
      BY FileShape DEF Init
    <2> QED BY <2>1, <2>2, <2>3, <2>4 DEF Init, RebuildTypeOK
  <1>2. Tasks
    <2>1. SUFFICES ASSUME NEW t \in Task
                   PROVE  Local(t, NoFile, Start, "idle", 0, published)
      BY DEF Init, Tasks
    <2> QED BY Constants, FileShape DEF Local, Working
  <1> QED BY <1>1, <1>2 DEF IInv

----------------------------------------------------------------------------
(* A step of one task. *)

\* A task that moves alone leaves the others as they are: it has the lock, takes it
\* from nobody or leaves it where it is.
LEMMA OneTask ==
  ASSUME IInv, NEW t \in Task,
         NEW f \in File \cup {NoFile}, NEW k \in Counts, NEW p \in Places, NEW b \in Nat,
         file' = [file EXCEPT ![t] = f], known' = [known EXCEPT ![t] = k],
         pc' = [pc EXCEPT ![t] = p], billed' = [billed EXCEPT ![t] = b],
         published' \in SUBSET Corpus, published \subseteq published',
         query' = query,
         lock' \in {lock, t, None}, lock' = lock \/ lock \in {t, None},
         p \in Holding => lock' = t,
         Local(t, f, k, p, b, published')
  PROVE  IInv'
  <1>1. RebuildTypeOK'
    <2>1. /\ file' \in [Task -> File \cup {NoFile}] /\ known' \in [Task -> Counts]
          /\ pc' \in [Task -> Places] /\ billed' \in [Task -> Nat]
      BY Types
    <2>2. lock' \in Task \cup Query \cup {None}
      BY Types
    <2>3. ASSUME NEW u \in Task, pc'[u] \in Holding
          PROVE  lock' = u
      <3>1. CASE u = t
        BY <2>3, <3>1, Types
      <3>2. CASE u # t
        <4>1. pc[u] \in Holding
          BY <2>3, <3>2, Types
        <4>2. lock = u
          BY <4>1, Types
        <4> QED BY <3>2, <4>2, Constants
      <3> QED BY <3>1, <3>2
    <2>4. ASSUME NEW q \in Query, query'[q].at = "locked"
          PROVE  lock' = q
      <3>1. lock = q
        BY <2>4, Types
      <3> QED BY <3>1, Constants
    <2> QED BY <2>1, <2>2, <2>3, <2>4, Types DEF RebuildTypeOK, Places
  <1>2. Tasks'
    <2>1. SUFFICES ASSUME NEW u \in Task
                   PROVE  Local(u, file'[u], known'[u], pc'[u], billed'[u], published')
      BY DEF Tasks
    <2>2. CASE u = t
      BY <2>2, Types
    <2>3. CASE u # t
      <3>1. file'[u] = file[u] /\ known'[u] = known[u] /\ pc'[u] = pc[u] /\ billed'[u] = billed[u]
        BY <2>3, Types
      <3>2. Local(u, file[u], known[u], pc[u], billed[u], published)
        BY DEF IInv, Tasks
      <3> QED BY <3>1, <3>2 DEF Local
    <2> QED BY <2>2, <2>3
  <1> QED BY <1>1, <1>2 DEF IInv

\* Most steps change the place of a task and perhaps its file.
LEMMA OnlyFile ==
  ASSUME IInv, NEW t \in Task, NEW f \in File \cup {NoFile}, NEW p \in Places,
         Goto(t, p), file' = [file EXCEPT ![t] = f],
         UNCHANGED <<known, query, published, billed>>,
         lock' \in {lock, t, None}, lock' = lock \/ lock \in {t, None},
         p \in Holding => lock' = t,
         Local(t, f, known[t], p, billed[t], published)
  PROVE  IInv'
  <1>1. /\ known[t] \in Counts /\ billed[t] \in Nat
        /\ known' = [known EXCEPT ![t] = known[t]] /\ billed' = [billed EXCEPT ![t] = billed[t]]
        /\ published' \in SUBSET Corpus /\ published' = published
    BY Types
  <1>2. pc' = [pc EXCEPT ![t] = p]
    BY DEF Goto
  <1>3. Local(t, f, known[t], p, billed[t], published')
    BY <1>1
  <1> QED BY <1>1, <1>2, <1>3, OneTask

\* What the invariant says of one task, in small facts.
LEMMA OfTask ==
  ASSUME IInv, NEW t \in Task
  PROVE  /\ Local(t, file[t], known[t], pc[t], billed[t], published)
         /\ file[t] \in File \cup {NoFile} /\ known[t] \in Counts /\ billed[t] \in Nat
         /\ known[t].calls \in 0 .. Batches /\ known[t].done \in 0 .. Batches
         /\ file' = file => file' = [file EXCEPT ![t] = file[t]]
         /\ pc[t] \in Holding => lock = t
         /\ Batches \in Nat /\ Budget[t] \in Nat
  BY Types, FileShape, Constants DEF IInv, Tasks

----------------------------------------------------------------------------
(* The request of a task. *)

LEMMA AcquireStep ==
  ASSUME IInv, NEW t \in Task, Acquire(t) \/ Busy(t)
  PROVE  IInv'
  <1>1. CASE Acquire(t)
    <2>1. Local(t, file[t], known[t], "prepare", billed[t], published)
      BY <1>1, OfTask DEF Local, Acquire, Working
    <2>2. "prepare" \in Places
      BY DEF Places, Holding
    <2> QED BY <1>1, <2>1, <2>2, OfTask, OnlyFile DEF Acquire
  <1>2. CASE Busy(t)
    <2>1. Local(t, file[t], known[t], "end", billed[t], published)
      BY <1>2, OfTask DEF Local, Busy, Working
    <2>2. "end" \in Places /\ "end" \notin Holding
      BY DEF Places, Holding, Working
    <2> QED BY <1>2, <2>1, <2>2, OfTask, OnlyFile DEF Busy
  <1> QED BY <1>1, <1>2

\* The first status of a task.
LEMMA FirstFile ==
  ASSUME IInv, NEW t \in Task, pc[t] = "prepare", NEW p \in {"ready", "end"}
  PROVE  /\ Record("RUNNING", Start) \in File
         /\ Local(t, Record("RUNNING", Start), known[t], p, billed[t], published)
         /\ Local(t, file[t], known[t], "end", billed[t], published)
  <1>1. /\ file[t] = NoFile /\ known[t] = Start /\ billed[t] = 0 /\ Budget[t] \in Nat
    BY OfTask DEF Local
  <1>2. "RUNNING" \in Settled \cup {"RUNNING"} /\ "RUNNING" # "SUCCEEDED"
    OBVIOUS
  <1>3. /\ Record("RUNNING", Start) \in File /\ Record("RUNNING", Start).status = "RUNNING"
        /\ Record("RUNNING", Start).calls = 0
    BY <1>2, FileShape
  <1> QED BY <1>1, <1>3, FileShape DEF Local, Working

LEMMA AdmitStep ==
  ASSUME IInv, NEW t \in Task, Admit(t) \/ PrepareFails(t)
  PROVE  IInv'
  <1>1. /\ pc[t] = "prepare" /\ lock = t
    BY Types DEF Admit, PrepareFails, Holding
  <1>2. /\ "ready" \in Places /\ "end" \in Places /\ "end" \notin Holding
    BY DEF Places, Holding, Working
  <1>3. CASE Admit(t)
    <2>1. /\ file' = [file EXCEPT ![t] = Record("RUNNING", Start)] /\ Goto(t, "ready")
          /\ UNCHANGED <<known, query, published, billed>> /\ lock' = lock
      BY <1>3 DEF Admit, Write
    <2> QED BY <1>1, <1>2, <2>1, FirstFile, OnlyFile
  <1>4. CASE PrepareFails(t)
    <2>1. /\ file' = file \/ file' = [file EXCEPT ![t] = Record("RUNNING", Start)]
          /\ Goto(t, "end") /\ UNCHANGED <<known, query, published, billed>> /\ lock' = None
      BY <1>4 DEF PrepareFails, Write
    <2>2. CASE file' = file
      BY <1>1, <1>2, <2>1, <2>2, FirstFile, OfTask, OnlyFile
    <2>3. CASE file' = [file EXCEPT ![t] = Record("RUNNING", Start)]
      BY <1>1, <1>2, <2>1, <2>3, FirstFile, OnlyFile
    <2> QED BY <2>1, <2>2, <2>3
  <1> QED BY <1>3, <1>4

\* A task that is declared interrupted keeps its counts; nobody is at work on it.
LEMMA InterruptedFile ==
  ASSUME IInv, NEW u \in Task, file[u].status = "RUNNING", pc[u] \notin Working
  PROVE  /\ Interrupted(u) \in File /\ Interrupted(u).status = "INTERRUPTED"
         /\ Local(u, Interrupted(u), known[u], pc[u], billed[u], published)
  <1>1. file[u] \in File
    BY OfTask, FileShape
  <1>2. /\ Interrupted(u) \in File /\ Interrupted(u).status = "INTERRUPTED"
        /\ Interrupted(u).calls = file[u].calls
    BY <1>1 DEF Interrupted, File, Settled
  <1>3. pc[u] \notin {"idle", "prepare"}
    BY OfTask, FileShape DEF Local
  <1> QED BY <1>2, <1>3, OfTask DEF Local, Working

\* One file changes, and nothing of the tasks.
LEMMA OneFile ==
  ASSUME IInv, NEW u \in Task, file[u].status = "RUNNING", pc[u] \notin Working,
         file' = [file EXCEPT ![u] = Interrupted(u)],
         UNCHANGED <<known, pc, published, billed>>
  PROVE  Tasks' /\ file' \in [Task -> File \cup {NoFile}]
  <1>1. file' \in [Task -> File \cup {NoFile}]
    BY InterruptedFile, Types
  <1>2. ASSUME NEW t \in Task
        PROVE  Local(t, file'[t], known[t], pc[t], billed[t], published)
    <2>1. CASE t = u
      BY <2>1, InterruptedFile, Types
    <2>2. CASE t # u
      BY <2>2, OfTask, Types
    <2> QED BY <2>1, <2>2
  <1> QED BY <1>1, <1>2 DEF Tasks

LEMMA RecoverStep ==
  ASSUME IInv, NEW t \in Task, Recover(t)
  PROVE  IInv'
  <1>1. PICK u \in Task : file[u].status = "RUNNING" /\ Write(u, Interrupted(u))
    BY DEF Recover
  <1>2. pc[t] = "prepare" /\ lock = t
    BY Types DEF Recover, Holding
  <1>3. pc[u] \notin Working
    BY <1>2, Types DEF Holding, Working
  <1>4. UNCHANGED <<known, lock, pc, query, published, billed>>
    BY DEF Recover
  <1>5. Tasks' /\ file' \in [Task -> File \cup {NoFile}]
    BY <1>1, <1>3, <1>4, OneFile DEF Write
  <1> QED BY <1>4, <1>5, Types DEF IInv, RebuildTypeOK

----------------------------------------------------------------------------
(* The worker. *)

\* The places of a worker, and that it holds the lock.
LEMMA AtWork ==
  ASSUME IInv, NEW t \in Task, pc[t] \in Working
  PROVE  lock = t /\ pc[t] \in Holding
  BY Types DEF Holding

LEMMA WorkPlaces ==
  /\ Working \subseteq Holding /\ Holding \subseteq Places
  /\ "release" \in Holding /\ "prepare" \in Holding
  /\ {"ready", "embed", "calling", "received", "publish", "finish", "failing"} \subseteq Holding
  BY DEF Working, Holding, Places

LEMMA FalterStep ==
  ASSUME IInv, NEW t \in Task, Falter(t) \/ FindArtifact(t)
  PROVE  IInv'
  <1>1. pc[t] \in Working /\ pc[t] # "failing" /\ lock = t
    BY AtWork DEF Falter, FindArtifact, Working
  <1>2. CASE Falter(t)
    <2>1. Local(t, file[t], known[t], "failing", billed[t], published)
      BY <1>1, OfTask DEF Local, Working
    <2> QED BY <1>1, <1>2, <2>1, OfTask, OnlyFile, WorkPlaces DEF Falter
  <1>3. CASE FindArtifact(t)
    <2>1. pc[t] = "ready" /\ lock' = lock /\ file' = file
          /\ UNCHANGED <<known, query, published, billed>>
      BY <1>3 DEF FindArtifact
    <2>2. CASE CorpusOf[t] \in published
      <3>1. Local(t, file[t], known[t], "finish", billed[t], published)
        BY <2>1, <2>2, OfTask DEF Local, Working
      <3>2. Goto(t, "finish")
        BY <1>3, <2>2 DEF FindArtifact
      <3> QED BY <1>1, <2>1, <3>1, <3>2, OfTask, OnlyFile, WorkPlaces
    <2>3. CASE CorpusOf[t] \notin published
      <3>1. Local(t, file[t], known[t], "embed", billed[t], published)
        BY <2>1, OfTask, FileShape, Constants DEF Local, Working
      <3>2. Goto(t, "embed")
        BY <1>3, <2>3 DEF FindArtifact
      <3> QED BY <1>1, <2>1, <3>1, <3>2, OfTask, OnlyFile, WorkPlaces
    <2> QED BY <2>2, <2>3
  <1> QED BY <1>2, <1>3

\* A save of the progress: it counts, or raises before or after the rename.
LEMMA SaveStep ==
  ASSUME IInv, NEW t \in Task, pc[t] \in Working, NEW counts \in Counts, NEW p \in Working,
         SaveProgress(t, counts, p), UNCHANGED <<lock, query, published, billed>>,
         Local(t, Record("RUNNING", counts), counts, p, billed[t], published),
         Local(t, file[t], known[t], "failing", billed[t], published),
         Local(t, Record("RUNNING", counts), known[t], "failing", billed[t], published)
  PROVE  IInv'
  <1>1. lock' = t /\ lock = t /\ p \in Holding /\ p \in Places /\ "failing" \in Places
    BY AtWork, WorkPlaces
  <1>2. "RUNNING" \in Settled \cup {"RUNNING"}
    OBVIOUS
  <1>3. Record("RUNNING", counts) \in File
    BY <1>2, FileShape
  <1>4. CASE /\ Write(t, Record("RUNNING", counts))
             /\ known' = [known EXCEPT ![t] = counts]
             /\ Goto(t, p)
    <2>1. /\ file' = [file EXCEPT ![t] = Record("RUNNING", counts)]
          /\ pc' = [pc EXCEPT ![t] = p] /\ billed' = [billed EXCEPT ![t] = billed[t]]
          /\ billed[t] \in Nat /\ published' \in SUBSET Corpus /\ published' = published
      BY <1>4, OfTask, Types DEF Write, Goto
    <2>2. Local(t, Record("RUNNING", counts), counts, p, billed[t], published')
      BY <2>1
    <2> QED BY <1>1, <1>3, <1>4, <2>1, <2>2, OneTask
  <1>5. CASE /\ file' = file \/ Write(t, Record("RUNNING", counts))
             /\ Goto(t, "failing")
             /\ UNCHANGED known
    <2>1. CASE file' = file
      BY <1>1, <1>5, <2>1, OfTask, OnlyFile
    <2>2. CASE Write(t, Record("RUNNING", counts))
      BY <1>1, <1>3, <1>5, <2>2, OnlyFile DEF Write
    <2> QED BY <1>5, <2>1, <2>2
  <1> QED BY <1>4, <1>5 DEF SaveProgress

LEMMA AttemptStep ==
  ASSUME IInv, NEW t \in Task, Attempt(t)
  PROVE  IInv'
  <1> DEFINE counts == [known[t] EXCEPT !.calls = @ + 1]
  <1>1. /\ pc[t] = "embed" /\ known[t].calls < Budget[t]
        /\ SaveProgress(t, counts, "calling")
        /\ UNCHANGED <<lock, query, published, billed>>
    BY DEF Attempt
  <1>2. /\ known[t] \in Counts /\ known[t].calls = known[t].done /\ known[t].done < Batches
        /\ billed[t] \in Nat /\ billed[t] <= known[t].calls /\ file[t].calls = known[t].calls
        /\ file[t].status = "RUNNING" /\ Batches \in Nat /\ Budget[t] \in Nat
        /\ known[t].calls \in 0 .. Batches /\ known[t].done \in 0 .. Batches
    BY <1>1, OfTask DEF Local, Working
  <1>3. /\ counts \in Counts /\ counts.calls = known[t].calls + 1 /\ counts.done = known[t].done
    BY <1>2 DEF Counts
  <1> HIDE DEF counts
  <1>4. /\ Record("RUNNING", counts).status = "RUNNING"
        /\ Record("RUNNING", counts).calls = known[t].calls + 1
    BY <1>3 DEF Record
  <1>5. /\ Local(t, Record("RUNNING", counts), counts, "calling", billed[t], published)
        /\ Local(t, file[t], known[t], "failing", billed[t], published)
        /\ Local(t, Record("RUNNING", counts), known[t], "failing", billed[t], published)
    BY <1>1, <1>2, <1>3, <1>4 DEF Local, Working
  <1>6. pc[t] \in Working /\ "calling" \in Working
    BY <1>1 DEF Working
  <1> QED BY <1>1, <1>3, <1>5, <1>6, SaveStep

LEMMA CallStep ==
  ASSUME IInv, NEW t \in Task, Call(t)
  PROVE  IInv'
  <1>1. PICK p \in {"received", "failing"} : Goto(t, p)
    BY DEF Call
  <1>2. /\ pc[t] = "calling" /\ billed' = [billed EXCEPT ![t] = billed[t] + 1]
        /\ UNCHANGED <<file, known, lock, query, published>>
    BY DEF Call
  <1>3. /\ known[t].calls = known[t].done + 1 /\ known[t].done < Batches
        /\ billed[t] \in Nat /\ billed[t] < known[t].calls /\ file[t].calls = known[t].calls
        /\ file[t].status = "RUNNING" /\ known[t].calls <= Budget[t] /\ Budget[t] \in Nat
        /\ known[t].calls \in 0 .. Batches /\ known[t].done \in 0 .. Batches /\ Batches \in Nat
    BY <1>2, OfTask DEF Local, Working
  <1>4. Local(t, file[t], known[t], p, billed[t] + 1, published)
    BY <1>3 DEF Local, Working
  <1>5. /\ lock' = t /\ lock = t /\ p \in Places /\ p \in Holding
        /\ billed[t] + 1 \in Nat /\ published' = published /\ published' \in SUBSET Corpus
        /\ file' = [file EXCEPT ![t] = file[t]] /\ known' = [known EXCEPT ![t] = known[t]]
        /\ pc' = [pc EXCEPT ![t] = p]
        /\ file[t] \in File \cup {NoFile} /\ known[t] \in Counts
    BY <1>1, <1>2, <1>3, AtWork, WorkPlaces, OfTask, Types DEF Goto, Working
  <1>6. Local(t, file[t], known[t], p, billed[t] + 1, published')
    BY <1>4, <1>5
  <1> QED BY <1>2, <1>5, <1>6, OneTask

LEMMA CompleteStep ==
  ASSUME IInv, NEW t \in Task, Complete(t)
  PROVE  IInv'
  <1> DEFINE counts == [known[t] EXCEPT !.done = @ + 1]
             p == IF known[t].done + 1 = Batches THEN "publish" ELSE "embed"
  <1>1. /\ pc[t] = "received" /\ SaveProgress(t, counts, p)
        /\ UNCHANGED <<lock, query, published, billed>>
    BY DEF Complete
  <1>2. /\ known[t] \in Counts /\ known[t].calls = known[t].done + 1 /\ known[t].done < Batches
        /\ billed[t] \in Nat /\ billed[t] <= known[t].calls /\ file[t].calls = known[t].calls
        /\ file[t].status = "RUNNING" /\ Batches \in Nat /\ Budget[t] \in Nat
        /\ known[t].calls <= Budget[t]
        /\ known[t].calls \in 0 .. Batches /\ known[t].done \in 0 .. Batches
    BY <1>1, OfTask DEF Local, Working
  <1>3. /\ counts \in Counts /\ counts.calls = known[t].calls /\ counts.done = known[t].done + 1
    BY <1>2 DEF Counts
  <1>4. p \in {"publish", "embed"} /\ (p = "embed" => counts.done < Batches)
    BY <1>2, <1>3
  <1> HIDE DEF counts, p
  <1>5. /\ Record("RUNNING", counts).status = "RUNNING"
        /\ Record("RUNNING", counts).calls = known[t].calls
    BY <1>3 DEF Record
  <1>6. Local(t, Record("RUNNING", counts), counts, p, billed[t], published)
    BY <1>2, <1>3, <1>4, <1>5 DEF Local, Working
  <1>7. /\ Local(t, file[t], known[t], "failing", billed[t], published)
        /\ Local(t, Record("RUNNING", counts), known[t], "failing", billed[t], published)
    BY <1>2, <1>5 DEF Local, Working
  <1>8. pc[t] \in Working /\ p \in Working
    BY <1>1, <1>4 DEF Working
  <1> QED BY <1>1, <1>3, <1>6, <1>7, <1>8, SaveStep

LEMMA PublishStep ==
  ASSUME IInv, NEW t \in Task, Publish(t)
  PROVE  IInv'
  <1>1. PICK p \in {"finish", "failing"} : Goto(t, p)
    BY DEF Publish
  <1>2. /\ pc[t] = "publish" /\ published' = published \cup {CorpusOf[t]}
        /\ UNCHANGED <<file, known, lock, query, billed>>
    BY DEF Publish
  <1>3. /\ billed[t] \in Nat /\ billed[t] <= known[t].calls /\ file[t].calls = known[t].calls
        /\ file[t].status = "RUNNING" /\ known[t].calls <= Budget[t] /\ Budget[t] \in Nat
        /\ known[t].calls \in 0 .. Batches
    BY <1>2, OfTask DEF Local, Working
  <1>4. Local(t, file[t], known[t], p, billed[t], published')
    BY <1>2, <1>3 DEF Local, Working
  <1>5. published' \in SUBSET Corpus /\ published \subseteq published'
    BY <1>2, Constants, Types
  <1>6. /\ lock' = t /\ lock = t /\ p \in Places /\ p \in Holding
        /\ file' = [file EXCEPT ![t] = file[t]] /\ known' = [known EXCEPT ![t] = known[t]]
        /\ pc' = [pc EXCEPT ![t] = p] /\ billed' = [billed EXCEPT ![t] = billed[t]]
        /\ file[t] \in File \cup {NoFile} /\ known[t] \in Counts
    BY <1>1, <1>2, AtWork, WorkPlaces, OfTask, Types DEF Goto, Working
  <1>7. query' = query /\ billed[t] \in Nat
        /\ lock' \in {lock, t, None} /\ (lock' = lock \/ lock \in {t, None})
        /\ (p \in Holding => lock' = t)
    BY <1>2, <1>3, <1>6
  <1> QED BY <1>4, <1>5, <1>6, <1>7, OneTask

LEMMA FinishStep ==
  ASSUME IInv, NEW t \in Task, Finish(t)
  PROVE  IInv'
  <1> DEFINE new == [status |-> "SUCCEEDED", calls |-> known[t].calls, done |-> Batches]
  <1>1. /\ pc[t] = "finish" /\ UNCHANGED <<known, lock, query, published, billed>>
        /\ \/ Write(t, new) /\ Goto(t, "release")
           \/ (file' = file \/ Write(t, new)) /\ Goto(t, "failing")
    BY DEF Finish
  <1>2. /\ billed[t] \in Nat /\ billed[t] <= known[t].calls /\ file[t].calls = known[t].calls
        /\ file[t].status = "RUNNING" /\ known[t].calls <= Budget[t] /\ Budget[t] \in Nat
        /\ known[t].calls \in 0 .. Batches /\ CorpusOf[t] \in published
        /\ Batches \in Nat
    BY <1>1, OfTask DEF Local, Working
  <1>3. new \in File /\ new.calls = known[t].calls /\ new.status = "SUCCEEDED"
    BY <1>2 DEF File, Settled
  <1> HIDE DEF new
  <1>4. /\ Local(t, new, known[t], "release", billed[t], published)
        /\ Local(t, new, known[t], "failing", billed[t], published)
        /\ Local(t, file[t], known[t], "failing", billed[t], published)
    BY <1>2, <1>3 DEF Local, Working
  <1>5. lock' = t /\ lock = t
    BY <1>1, AtWork DEF Working
  <1>6. CASE Write(t, new) /\ Goto(t, "release")
    BY <1>1, <1>3, <1>4, <1>5, <1>6, OnlyFile, WorkPlaces DEF Write
  <1>7. CASE Write(t, new) /\ Goto(t, "failing")
    BY <1>1, <1>3, <1>4, <1>5, <1>7, OnlyFile, WorkPlaces DEF Write
  <1>8. CASE file' = file /\ Goto(t, "failing")
    BY <1>1, <1>4, <1>5, <1>8, OfTask, OnlyFile, WorkPlaces
  <1> QED BY <1>1, <1>6, <1>7, <1>8

LEMMA FailStep ==
  ASSUME IInv, NEW t \in Task, Fail(t) \/ Release(t)
  PROVE  IInv'
  <1>1. CASE Fail(t)
    <2>1. /\ pc[t] = "failing" /\ Goto(t, "release") /\ lock = t
          /\ UNCHANGED <<known, lock, query, published, billed>>
          /\ file' = file \/ file' = [file EXCEPT ![t] = Record("FAILED", known[t])]
      BY <1>1, AtWork DEF Fail, Write, Working
    <2>2. /\ billed[t] \in Nat /\ billed[t] <= known[t].calls /\ known[t].calls <= Budget[t]
          /\ Local(t, file[t], known[t], pc[t], billed[t], published)
          /\ known[t] \in Counts
      BY <2>1, OfTask DEF Local, Working
    <2>3. /\ Record("FAILED", known[t]) \in File /\ Record("FAILED", known[t]).status = "FAILED"
          /\ Record("FAILED", known[t]).calls = known[t].calls
      <3>1. "FAILED" \in Settled \cup {"RUNNING"}
        BY DEF Settled
      <3> QED BY <2>2, <3>1, FileShape
    <2>4. /\ Local(t, file[t], known[t], "release", billed[t], published)
          /\ Local(t, Record("FAILED", known[t]), known[t], "release", billed[t], published)
      BY <2>2, <2>3 DEF Local, Working
    <2>5. CASE file' = file
      BY <2>1, <2>4, <2>5, OfTask, OnlyFile, WorkPlaces
    <2>6. CASE file' = [file EXCEPT ![t] = Record("FAILED", known[t])]
      BY <2>1, <2>3, <2>4, <2>6, OnlyFile, WorkPlaces
    <2> QED BY <2>1, <2>5, <2>6
  <1>2. CASE Release(t)
    <2>1. /\ pc[t] = "release" /\ Goto(t, "end") /\ lock' = None /\ lock = t
          /\ UNCHANGED <<file, known, query, published, billed>>
      BY <1>2, Types DEF Release, Holding
    <2>2. Local(t, file[t], known[t], "end", billed[t], published)
      BY <2>1, OfTask DEF Local, Working
    <2>3. "end" \in Places /\ "end" \notin Holding
      BY DEF Places, Holding, Working
    <2> QED BY <2>1, <2>2, <2>3, OfTask, OnlyFile
  <1> QED BY <1>1, <1>2

----------------------------------------------------------------------------
(* Clients, other builds and crashes. *)

LEMMA BuildStep ==
  ASSUME IInv, NEW c \in Corpus, BuildElsewhere(c)
  PROVE  IInv'
  <1>1. /\ UNCHANGED <<file, known, lock, pc, query, billed>>
        /\ published' = published \cup {c} /\ published' \in SUBSET Corpus
    BY Types DEF BuildElsewhere
  <1>2. RebuildTypeOK'
    BY <1>1 DEF IInv, RebuildTypeOK
  <1>3. ASSUME NEW t \in Task
        PROVE  Local(t, file[t], known[t], pc[t], billed[t], published')
    BY <1>1, OfTask DEF Local
  <1> QED BY <1>1, <1>2, <1>3 DEF IInv, Tasks

\* Where a client stands; an idle one names no task.
LEMMA QueryShape ==
  ASSUME IInv, NEW q \in Query, query[q].at # "idle"
  PROVE  query[q] \in [at : {"read", "locked"}, task : Task]
  BY Types DEF Idle

LEMMA PollStep ==
  ASSUME IInv, NEW q \in Query, Poll(q)
  PROVE  IInv'
  <1>1. CASE Ask(q)
    <2>1. PICK t \in Task : query' = [query EXCEPT ![q] = [at |-> "read", task |-> t]]
      BY <1>1 DEF Ask
    <2>2. UNCHANGED <<file, known, lock, pc, published, billed>>
      BY <1>1 DEF Ask
    <2>3. [at |-> "read", task |-> t] \in [at : {"read", "locked"}, task : Task]
      OBVIOUS
    <2>4. query' \in [Query -> [at : {"read", "locked"}, task : Task] \cup {Idle}]
      BY <2>1, <2>3, Types
    <2>5. \A r \in Query : query'[r].at = "locked" => lock' = r
      <3>1. SUFFICES ASSUME NEW r \in Query, query'[r].at = "locked" PROVE lock' = r
        OBVIOUS
      <3>2. r # q /\ query'[r] = query[r]
        BY <2>1, <3>1, Types
      <3> QED BY <2>2, <3>1, <3>2, Types
    <2> QED BY <2>2, <2>4, <2>5 DEF IInv, RebuildTypeOK, Tasks
  <1>2. CASE StillRunning(q)
    <2>1. /\ UNCHANGED <<file, known, lock, pc, published, billed>>
          /\ query' = [query EXCEPT ![q] = Idle]
      BY <1>2 DEF StillRunning
    <2>2. query' \in [Query -> [at : {"read", "locked"}, task : Task] \cup {Idle}]
      BY <2>1, Types
    <2>3. \A r \in Query : query'[r].at = "locked" => lock' = r
      <3>1. SUFFICES ASSUME NEW r \in Query, query'[r].at = "locked" PROVE lock' = r
        OBVIOUS
      <3>2. r # q /\ query'[r] = query[r]
        BY <2>1, <3>1, Types DEF Idle
      <3> QED BY <2>1, <3>1, <3>2, Types
    <2> QED BY <2>1, <2>2, <2>3 DEF IInv, RebuildTypeOK, Tasks
  <1>3. CASE Inspect(q)
    <2>1. /\ UNCHANGED <<file, known, pc, published, billed>> /\ query[q].at = "read"
          /\ query' = [query EXCEPT ![q].at = "locked"] /\ lock = None /\ lock' = q
      BY <1>3 DEF Inspect
    <2>2. query' \in [Query -> [at : {"read", "locked"}, task : Task] \cup {Idle}]
      <3>1. query[q] \in [at : {"read", "locked"}, task : Task]
        BY <2>1, QueryShape
      <3>2. [query[q] EXCEPT !.at = "locked"] \in [at : {"read", "locked"}, task : Task]
        BY <3>1
      <3> QED BY <2>1, <3>2, Types
    <2>3. \A t \in Task : pc[t] \notin Holding
      BY <2>1, Types, Constants
    <2>4. \A r \in Query : query'[r].at = "locked" => lock' = r
      <3>1. SUFFICES ASSUME NEW r \in Query, query'[r].at = "locked", r # q PROVE FALSE
        BY <2>1
      <3>2. query'[r] = query[r]
        BY <2>1, <3>1, Types
      <3>3. lock = r
        BY <3>1, <3>2, Types
      <3> QED BY <2>1, <3>3, Constants
    <2> QED BY <2>1, <2>2, <2>3, <2>4 DEF IInv, RebuildTypeOK, Tasks
  <1>4. CASE RecoverTask(q)
    <2> DEFINE u == query[q].task
    <2>1. /\ query[q].at = "locked" /\ lock' = None /\ query' = [query EXCEPT ![q] = Idle]
          /\ UNCHANGED <<known, pc, published, billed>>
          /\ \/ file' = file
             \/ /\ file[u].status = "RUNNING"
                /\ file' = [file EXCEPT ![u] = Interrupted(u)]
      BY <1>4 DEF RecoverTask, Write
    <2>2. lock = q /\ u \in Task
      BY <2>1, QueryShape, Types
    <2>3. \A t \in Task : pc[t] \notin Holding
      BY <2>2, Types, Constants
    <2>4. Tasks' /\ file' \in [Task -> File \cup {NoFile}]
      <3>1. CASE file' = file
        BY <2>1, <3>1, Types DEF IInv, Tasks
      <3>2. CASE file[u].status = "RUNNING" /\ file' = [file EXCEPT ![u] = Interrupted(u)]
        BY <2>1, <2>2, <2>3, <3>2, OneFile, WorkPlaces
      <3> QED BY <2>1, <3>1, <3>2
    <2>5. query' \in [Query -> [at : {"read", "locked"}, task : Task] \cup {Idle}]
      BY <2>1, Types
    <2>6. \A r \in Query : query'[r].at # "locked"
      <3>1. SUFFICES ASSUME NEW r \in Query, query'[r].at = "locked" PROVE FALSE
        OBVIOUS
      <3>2. r # q /\ query'[r] = query[r]
        BY <2>1, <3>1, Types DEF Idle
      <3> QED BY <2>2, <3>1, <3>2, Types
    <2> QED BY <2>1, <2>3, <2>4, <2>5, <2>6 DEF IInv, RebuildTypeOK
  <1> QED BY <1>1, <1>2, <1>3, <1>4 DEF Poll

\* The lock dies with its process, and with it whatever held it.
LEMMA DieStep ==
  ASSUME IInv, NEW p \in Process, Die(p)
  PROVE  IInv'
  <1>1. /\ pc' = [t \in Task |-> IF ProcessOf[t] = p /\ pc[t] \in Holding THEN "end" ELSE pc[t]]
        /\ query' = [q \in Query |-> IF ProcessOf[q] = p THEN Idle ELSE query[q]]
        /\ lock' = IF lock # None /\ ProcessOf[lock] = p THEN None ELSE lock
        /\ UNCHANGED <<file, known, published, billed>>
    BY DEF Die
  <1>2. "end" \notin Holding /\ "end" \in Places
    BY DEF Holding, Working, Places
  <1>3. \A t \in Task : pc'[t] \in Holding => lock' = t
    <2>1. SUFFICES ASSUME NEW t \in Task, pc'[t] \in Holding PROVE lock' = t
      OBVIOUS
    <2>2. pc[t] \in Holding /\ ProcessOf[t] # p
      BY <1>1, <1>2, <2>1
    <2> QED BY <1>1, <2>2, Types
  <1>4. \A q \in Query : query'[q].at = "locked" => lock' = q
    <2>1. SUFFICES ASSUME NEW q \in Query, query'[q].at = "locked" PROVE lock' = q
      OBVIOUS
    <2>2. ProcessOf[q] # p /\ query'[q] = query[q]
      BY <1>1, <2>1 DEF Idle
    <2> QED BY <1>1, <2>1, <2>2, Types
  <1>5. pc' \in [Task -> Places] /\ lock' \in Task \cup Query \cup {None}
    BY <1>1, <1>2, Types
  <1>6. query' \in [Query -> [at : {"read", "locked"}, task : Task] \cup {Idle}]
    BY <1>1, Types
  <1>7. ASSUME NEW t \in Task
        PROVE  Local(t, file[t], known[t], pc'[t], billed[t], published)
    <2>1. CASE pc'[t] = pc[t]
      BY <2>1, OfTask
    <2>2. CASE pc'[t] = "end"
      BY <2>2, OfTask DEF Local, Working
    <2> QED BY <1>1, <2>1, <2>2
  <1>8. RebuildTypeOK'
    BY <1>1, <1>3, <1>4, <1>5, <1>6, Types DEF RebuildTypeOK, Places
  <1> QED BY <1>1, <1>7, <1>8 DEF IInv, Tasks

LEMMA StepIInv ==
  ASSUME IInv, [Next]_vars
  PROVE  IInv'
  <1>1. ASSUME NEW t \in Task, Prepare(t) \/ Work(t)
        PROVE  IInv'
    BY <1>1, AcquireStep, RecoverStep, AdmitStep, FalterStep, AttemptStep, CallStep, CompleteStep,
       PublishStep, FinishStep, FailStep DEF Prepare, Work
  <1>2. CASE UNCHANGED vars
    BY <1>2 DEF vars, IInv, RebuildTypeOK, Tasks
  <1> QED BY <1>1, <1>2, BuildStep, PollStep, DieStep DEF Next

LEMMA Invariance == Spec => []IInv
  BY InitIInv, StepIInv, PTL DEF Spec

\* Every reachable state is well-typed; whoever is between taking the lock and giving
\* it back has it, so that no two workers are at work.
THEOREM TypeCorrect == Spec => []RebuildTypeOK
  <1>1. IInv => RebuildTypeOK
    BY DEF IInv
  <1> QED BY <1>1, Invariance, PTL

\* No call reaches the provider that the status file does not count, and the file never
\* counts more than was authorized, through failed saves and crashes.
THEOREM Recorded == Spec => []CallsAreRecorded
  <1>1. IInv => CallsAreRecorded
    BY DEF IInv, Tasks, Local, CallsAreRecorded
  <1> QED BY <1>1, Invariance, PTL

\* A success names an artifact that is in place.
THEOREM SuccessIsPublished == Spec => []SucceededIsPublished
  <1>1. IInv => SucceededIsPublished
    BY DEF IInv, Tasks, Local, SucceededIsPublished
  <1> QED BY <1>1, Invariance, PTL

----------------------------------------------------------------------------
(* Rebuilds implement the contract of tasks. *)

\* The owner that the contract sees, and the records, as functions of the state.
OwnerOf(places) ==
  IF \E t \in Task : places[t] \in Working
    THEN CHOOSE t \in Task : places[t] \in Working ELSE None
RecordOf(files) == [t \in Task |-> files[t].status]

\* At most the holder of the lock is at work, and so the owner is the holder.
LEMMA OwnerHolds ==
  ASSUME NEW places, NEW holder,
         \A u \in Task : places[u] \in Holding => holder = u
  PROVE  /\ holder \in Task /\ places[holder] \in Working => OwnerOf(places) = holder
         /\ holder \in Task /\ places[holder] \notin Working => OwnerOf(places) = None
         /\ holder \notin Task => OwnerOf(places) = None
  <1>1. \A u \in Task : places[u] \in Working => holder = u
    BY WorkPlaces
  <1>2. CASE holder \in Task /\ places[holder] \in Working
    BY <1>1, <1>2 DEF OwnerOf
  <1>3. CASE \A u \in Task : places[u] \notin Working
    BY <1>3 DEF OwnerOf
  <1> QED BY <1>1, <1>2, <1>3

\* The contract's steps over the records and the owner, which are named here.
TaskSteps(r, o, rr, oo) ==
  \/ rr = r /\ oo = o
  \/ o # None /\ oo = None /\ rr = r
  \/ \E t \in Task :
       \/ /\ o = None /\ r[t] = "ABSENT" /\ \A u \in Task : r[u] # "RUNNING"
          /\ rr = [r EXCEPT ![t] = "RUNNING"] /\ oo \in {t, None}
       \/ /\ o = t /\ oo \in {t, None}
          /\ \E s \in {"SUCCEEDED", "FAILED"} : rr = [r EXCEPT ![t] = s]
       \/ /\ o = None /\ oo = o /\ r[t] = "RUNNING" /\ rr = [r EXCEPT ![t] = "INTERRUPTED"]

LEMMA ContractSteps ==
  ASSUME TaskSteps(RecordOf(file), OwnerOf(pc), RecordOf(file'), OwnerOf(pc'))
  PROVE  [Contract!TaskNext]_(Contract!taskVars)
  BY DEF TaskSteps, RecordOf, OwnerOf, Contract!TaskNext, Contract!Leave, Contract!Start,
         Contract!Settle, Contract!Interrupt, Contract!Set, Contract!Worked, Contract!taskVars

\* What a write of one file is to the records.
LEMMA Recording ==
  ASSUME IInv
  PROVE  /\ \A t \in Task : RecordOf(file)[t] = file[t].status
         /\ file' = file => RecordOf(file') = RecordOf(file)
  BY DEF RecordOf

LEMMA Rewriting ==
  ASSUME IInv, NEW t \in Task, NEW f, file' = [file EXCEPT ![t] = f]
  PROVE  /\ RecordOf(file') = [RecordOf(file) EXCEPT ![t] = f.status]
         /\ f.status = file[t].status => RecordOf(file') = RecordOf(file)
  <1>1. \A u \in Task : file'[u].status = IF u = t THEN f.status ELSE file[u].status
    BY Types
  <1> QED BY <1>1 DEF RecordOf

LEMMA Interrupting ==
  ASSUME IInv, NEW u \in Task, file[u].status = "RUNNING", pc[u] \notin Working,
         file' = [file EXCEPT ![u] = Interrupted(u)]
  PROVE  RecordOf(file') = [RecordOf(file) EXCEPT ![u] = "INTERRUPTED"]
  <1>1. Interrupted(u).status = "INTERRUPTED"
    BY InterruptedFile
  <1>2. \A t \in Task : file'[t].status = IF t = u THEN "INTERRUPTED" ELSE file[t].status
    BY <1>1, Types
  <1> QED BY <1>2 DEF RecordOf

LEMMA PrepareRefines ==
  ASSUME IInv, IInv', NEW t \in Task, Prepare(t)
  PROVE  TaskSteps(RecordOf(file), OwnerOf(pc), RecordOf(file'), OwnerOf(pc'))
  <1>0. /\ \A u \in Task : pc[u] \in Holding => lock = u
        /\ \A u \in Task : pc'[u] \in Holding => lock' = u
    BY DEF IInv, RebuildTypeOK
  <1>1. CASE Acquire(t)
    <2>1. /\ lock = None /\ lock' = t /\ file' = file /\ pc'[t] = "prepare"
      BY <1>1, Types DEF Acquire, Goto
    <2>2. OwnerOf(pc) = None /\ OwnerOf(pc') = None
      BY <1>0, <2>1, OwnerHolds, Constants DEF Working
    <2> QED BY <2>1, <2>2, Recording DEF TaskSteps
  <1>2. CASE Busy(t)
    <2>1. /\ lock' = lock /\ file' = file /\ pc' = [pc EXCEPT ![t] = "end"] /\ pc[t] = "idle"
      BY <1>2 DEF Busy, Goto
    <2>2. lock \in Task => (pc'[lock] \in Working <=> pc[lock] \in Working)
      BY <2>1, Types DEF Working
    <2>3. OwnerOf(pc') = OwnerOf(pc)
      BY <1>0, <2>1, <2>2, OwnerHolds
    <2> QED BY <2>1, <2>3, Recording DEF TaskSteps
  <1>3. CASE Recover(t)
    <2>1. PICK u \in Task : file[u].status = "RUNNING" /\ file' = [file EXCEPT ![u] = Interrupted(u)]
      BY <1>3 DEF Recover, Write
    <2>2. pc[t] = "prepare" /\ lock = t /\ lock' = lock /\ pc' = pc
      BY <1>3, Types DEF Recover, Holding
    <2>3. OwnerOf(pc) = None /\ OwnerOf(pc') = None
      BY <1>0, <2>2, OwnerHolds DEF Working
    <2>4. pc[u] \notin Working
      BY <2>2, Types, WorkPlaces DEF Working
    <2>5. RecordOf(file') = [RecordOf(file) EXCEPT ![u] = "INTERRUPTED"]
      BY <2>1, <2>4, Interrupting
    <2>6. RecordOf(file)[u] = "RUNNING"
      BY <2>1, Recording
    <2> QED BY <2>3, <2>5, <2>6 DEF TaskSteps
  <1>4. CASE Admit(t) \/ PrepareFails(t)
    <2>1. /\ pc[t] = "prepare" /\ lock = t /\ lock' \in {t, None} /\ file[t].status = "ABSENT"
          /\ pc'[t] \in {"ready", "end"}
          /\ \/ file' = file /\ lock' = None
             \/ /\ \A u \in Task : file[u].status # "RUNNING"
                /\ file' = [file EXCEPT ![t] = Record("RUNNING", Start)]
      BY <1>4, Types, OfTask, FileShape DEF Admit, PrepareFails, Goto, Write, Holding, Local
    <2>2. OwnerOf(pc) = None
      BY <1>0, <2>1, OwnerHolds DEF Working
    <2>3. OwnerOf(pc') \in {t, None} /\ (lock' = None => OwnerOf(pc') = None)
      BY <1>0, <2>1, OwnerHolds, Constants
    <2>4. Record("RUNNING", Start).status = "RUNNING"
      BY DEF Record
    <2>5. CASE file' = file /\ lock' = None
      BY <2>2, <2>3, <2>5, Recording DEF TaskSteps
    <2>6. CASE /\ \A u \in Task : file[u].status # "RUNNING"
               /\ file' = [file EXCEPT ![t] = Record("RUNNING", Start)]
      <3>1. /\ RecordOf(file') = [RecordOf(file) EXCEPT ![t] = "RUNNING"]
            /\ RecordOf(file)[t] = "ABSENT" /\ \A u \in Task : RecordOf(file)[u] # "RUNNING"
        <4>1. RecordOf(file') = [RecordOf(file) EXCEPT ![t] = "RUNNING"]
          BY <2>4, <2>6, Rewriting
        <4>2. RecordOf(file)[t] = "ABSENT" /\ \A u \in Task : RecordOf(file)[u] # "RUNNING"
          BY <2>1, <2>6, Recording
        <4> QED BY <4>1, <4>2
      <3> QED BY <2>2, <2>3, <3>1 DEF TaskSteps
    <2> QED BY <2>1, <2>5, <2>6
  <1> QED BY <1>1, <1>2, <1>3, <1>4 DEF Prepare

\* A worker writes RUNNING where it says RUNNING, or how the task ended.
LEMMA WorkWrites ==
  ASSUME IInv, NEW t \in Task, Work(t), ~Release(t)
  PROVE  /\ pc[t] \in Working /\ lock = t /\ lock' = t
         /\ pc'[t] \in Working \cup {"release"}
         /\ \/ file' = file
            \/ \E f : file' = [file EXCEPT ![t] = f] /\ f.status \in {"SUCCEEDED", "FAILED"}
            \/ /\ \E f : file' = [file EXCEPT ![t] = f] /\ f.status = file[t].status
               /\ pc'[t] \in Working
  <1>1. pc[t] \in Working /\ lock = t /\ lock' = lock
    BY AtWork DEF Work, Falter, FindArtifact, Attempt, Call, Complete, Publish, Finish, Fail,
                  Release, Working
  <1>2. \A s : \A k : Record(s, k).status = s
    BY DEF Record
  <1>3. CASE Falter(t) \/ FindArtifact(t) \/ Call(t) \/ Publish(t)
    <2>1. file' = file /\ pc'[t] \in Working
      BY <1>3, Types DEF Falter, FindArtifact, Call, Publish, Goto, Working
    <2> QED BY <1>1, <2>1 DEF Working
  <1>4. ASSUME NEW counts, NEW p \in Working, SaveProgress(t, counts, p), file[t].status = "RUNNING"
        PROVE  /\ pc'[t] \in Working
               /\ \/ file' = file
                  \/ \E f : file' = [file EXCEPT ![t] = f] /\ f.status = file[t].status
    <2>1. pc'[t] \in Working
      BY <1>4, Types DEF SaveProgress, Goto, Working
    <2>2. file' = file \/ file' = [file EXCEPT ![t] = Record("RUNNING", counts)]
      BY <1>4 DEF SaveProgress, Write
    <2> QED BY <1>2, <1>4, <2>1, <2>2
  <1>5. CASE Attempt(t)
    <2>1. file[t].status = "RUNNING" /\ "calling" \in Working
      BY <1>5, OfTask DEF Attempt, Local, Working
    <2>2. SaveProgress(t, [known[t] EXCEPT !.calls = @ + 1], "calling")
      BY <1>5 DEF Attempt
    <2>3. pc'[t] # "release"
      BY <1>4, <2>1, <2>2 DEF Working
    <2> QED BY <1>1, <1>4, <2>1, <2>2, <2>3
  <1>6. CASE Complete(t)
    <2> DEFINE p == IF known[t].done + 1 = Batches THEN "publish" ELSE "embed"
    <2>1. file[t].status = "RUNNING" /\ p \in Working
      BY <1>6, OfTask DEF Complete, Local, Working
    <2>2. SaveProgress(t, [known[t] EXCEPT !.done = @ + 1], p)
      BY <1>6 DEF Complete
    <2> HIDE DEF p
    <2>3. pc'[t] # "release"
      BY <1>4, <2>1, <2>2 DEF Working
    <2> QED BY <1>1, <1>4, <2>1, <2>2, <2>3
  <1>7. CASE Finish(t)
    <2> DEFINE new == [status |-> "SUCCEEDED", calls |-> known[t].calls, done |-> Batches]
    <2>1. \/ file' = [file EXCEPT ![t] = new] /\ pc'[t] \in {"release", "failing"}
          \/ file' = file /\ pc'[t] = "failing"
      BY <1>7, Types DEF Finish, Write, Goto
    <2>2. new.status = "SUCCEEDED"
      OBVIOUS
    <2> HIDE DEF new
    <2> QED BY <1>1, <2>1, <2>2 DEF Working
  <1>8. CASE Fail(t)
    <2>1. /\ file' = file \/ file' = [file EXCEPT ![t] = Record("FAILED", known[t])]
          /\ pc'[t] = "release"
      BY <1>8, Types DEF Fail, Write, Goto
    <2>2. Record("FAILED", known[t]).status = "FAILED"
      BY <1>2
    <2> QED BY <1>1, <2>1, <2>2
  <1> QED BY <1>3, <1>5, <1>6, <1>7, <1>8 DEF Work

LEMMA WorkRefines ==
  ASSUME IInv, IInv', NEW t \in Task, Work(t)
  PROVE  TaskSteps(RecordOf(file), OwnerOf(pc), RecordOf(file'), OwnerOf(pc'))
  <1>0. /\ \A u \in Task : pc[u] \in Holding => lock = u
        /\ \A u \in Task : pc'[u] \in Holding => lock' = u
    BY DEF IInv, RebuildTypeOK
  <1>1. CASE Release(t)
    <2>1. pc[t] = "release" /\ lock = t /\ lock' = None /\ file' = file
      BY <1>1, Types DEF Release, Holding
    <2>2. OwnerOf(pc) = None /\ OwnerOf(pc') = None
      BY <1>0, <2>1, OwnerHolds, Constants DEF Working
    <2> QED BY <2>1, <2>2, Recording DEF TaskSteps
  <1>2. CASE ~Release(t)
    <2>1. /\ pc[t] \in Working /\ lock = t /\ lock' = t /\ pc'[t] \in Working \cup {"release"}
      BY <1>2, WorkWrites
    <2>2. /\ OwnerOf(pc) = t /\ OwnerOf(pc') \in {t, None}
          /\ pc'[t] \in Working => OwnerOf(pc') = t
      BY <1>0, <2>1, OwnerHolds
    <2>3. CASE file' = file
      BY <2>2, <2>3, Recording, Constants DEF TaskSteps
    <2>4. ASSUME NEW f, file' = [file EXCEPT ![t] = f], f.status \in {"SUCCEEDED", "FAILED"}
          PROVE  TaskSteps(RecordOf(file), OwnerOf(pc), RecordOf(file'), OwnerOf(pc'))
      BY <2>2, <2>4, Rewriting DEF TaskSteps
    <2>5. ASSUME NEW f, file' = [file EXCEPT ![t] = f], f.status = file[t].status,
                 pc'[t] \in Working
          PROVE  TaskSteps(RecordOf(file), OwnerOf(pc), RecordOf(file'), OwnerOf(pc'))
      BY <2>2, <2>5, Rewriting DEF TaskSteps
    <2> QED BY <1>2, <2>3, <2>4, <2>5, WorkWrites
  <1> QED BY <1>1, <1>2

LEMMA PollRefines ==
  ASSUME IInv, IInv', NEW q \in Query, Poll(q)
  PROVE  TaskSteps(RecordOf(file), OwnerOf(pc), RecordOf(file'), OwnerOf(pc'))
  <1>0. /\ \A u \in Task : pc[u] \in Holding => lock = u
        /\ \A u \in Task : pc'[u] \in Holding => lock' = u
    BY DEF IInv, RebuildTypeOK
  <1>1. pc' = pc
    BY DEF Poll, Ask, StillRunning, Inspect, RecoverTask
  <1>2. CASE file' = file
    BY <1>1, <1>2, Recording DEF TaskSteps
  <1>3. CASE RecoverTask(q) /\ file' # file
    <2> DEFINE u == query[q].task
    <2>1. /\ query[q].at = "locked" /\ lock' = None /\ file[u].status = "RUNNING"
          /\ file' = [file EXCEPT ![u] = Interrupted(u)]
      BY <1>3 DEF RecoverTask, Write
    <2>2. lock = q /\ u \in Task
      BY <2>1, QueryShape, Types
    <2>3. \A t \in Task : pc[t] \notin Holding
      BY <2>2, Types, Constants
    <2>4. OwnerOf(pc) = None /\ OwnerOf(pc') = None
      BY <1>0, <1>1, <2>1, OwnerHolds, Constants
    <2>5. pc[u] \notin Working
      BY <2>2, <2>3, WorkPlaces
    <2>6. RecordOf(file') = [RecordOf(file) EXCEPT ![u] = "INTERRUPTED"]
      BY <2>1, <2>2, <2>5, Interrupting
    <2>7. RecordOf(file)[u] = "RUNNING"
      BY <2>1, <2>2, Recording
    <2> HIDE DEF u
    <2> QED BY <2>2, <2>4, <2>6, <2>7 DEF TaskSteps
  <1> QED BY <1>2, <1>3 DEF Poll, Ask, StillRunning, Inspect

LEMMA DieRefines ==
  ASSUME IInv, IInv', NEW p \in Process, Die(p)
  PROVE  TaskSteps(RecordOf(file), OwnerOf(pc), RecordOf(file'), OwnerOf(pc'))
  <1>0. /\ \A u \in Task : pc[u] \in Holding => lock = u
        /\ \A u \in Task : pc'[u] \in Holding => lock' = u
    BY DEF IInv, RebuildTypeOK
  <1>1. /\ pc' = [t \in Task |-> IF ProcessOf[t] = p /\ pc[t] \in Holding THEN "end" ELSE pc[t]]
        /\ lock' = IF lock # None /\ ProcessOf[lock] = p THEN None ELSE lock
        /\ file' = file
    BY DEF Die
  <1>2. RecordOf(file') = RecordOf(file)
    BY <1>1, Recording
  <1>3. CASE lock' = None
    <2>1. OwnerOf(pc') = None
      BY <1>0, <1>3, OwnerHolds, Constants
    <2>2. OwnerOf(pc) = None \/ OwnerOf(pc) # None
      OBVIOUS
    <2> QED BY <1>2, <2>1, <2>2 DEF TaskSteps
  <1>4. CASE lock' = lock /\ lock # None
    <2>1. lock \in Task => pc'[lock] = pc[lock]
      BY <1>1, <1>4
    <2>2. OwnerOf(pc') = OwnerOf(pc)
      BY <1>0, <1>4, <2>1, OwnerHolds
    <2> QED BY <1>2, <2>2 DEF TaskSteps
  <1> QED BY <1>1, <1>3, <1>4

\* Rebuilds implement the contract of tasks: nobody but its worker settles a task that is
\* at work, only the dead are interrupted, and a settled task stays settled.
THEOREM Implements == Spec => KeepsTaskContract
  <1>1. Init => Contract!TaskInit
    <2> SUFFICES ASSUME Init PROVE Contract!TaskInit
      OBVIOUS
    <2>1. \A t \in Task : file[t].status = "ABSENT" /\ pc[t] \notin Working
      BY DEF Init, NoFile, Working
    <2> QED BY <2>1 DEF Contract!TaskInit
  <1>2. ASSUME IInv, [Next]_vars
        PROVE  [Contract!TaskNext]_(Contract!taskVars)
    <2>0. IInv'
      BY <1>2, StepIInv
    <2>1. CASE UNCHANGED vars
      BY <2>1 DEF vars, Contract!taskVars
    <2>2. ASSUME NEW c \in Corpus, BuildElsewhere(c)
          PROVE  TaskSteps(RecordOf(file), OwnerOf(pc), RecordOf(file'), OwnerOf(pc'))
      <3>1. file' = file /\ pc' = pc
        BY <2>2 DEF BuildElsewhere
      <3> QED BY <3>1 DEF TaskSteps
    <2> QED BY <1>2, <2>0, <2>1, <2>2, PrepareRefines, WorkRefines, PollRefines, DieRefines,
               ContractSteps DEF Next
  <1> QED BY <1>1, <1>2, Invariance, PTL DEF Spec, KeepsTaskContract, Contract!TaskSpec
=================================================================================
