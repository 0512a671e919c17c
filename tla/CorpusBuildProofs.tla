--------------------------- MODULE CorpusBuildProofs ---------------------------
(***************************************************************************)
(* Proofs about the two ways to a corpus: CorpusBuild, for any numbers of  *)
(* tasks, clients and processes and any tasks that see the clock step      *)
(* back, and KnowledgeIngestion, for any numbers of runs and documents,    *)
(* any texts and any edits of the inputs.                                  *)
(***************************************************************************)
EXTENDS CorpusBuild, KnowledgeIngestion, SequenceTheorems, WellFoundedInduction, TLAPS

----------------------------------------------------------------------------
(* The inductive invariant. *)

Places == {"idle", "end"} \cup Holding
Files == Settled \cup {"ABSENT", "RUNNING"}
Directories == {"none", "candidate", "result"}
Contents == {"partial", "wrong", "right"}
Children == {"none", "running"} \cup Exits

\* What holds of one task with file f, directory d with contents m, place p and
\* generator c: a record says RUNNING while a worker or a generator is at work, and the
\* steps that lead to SUCCEEDED have established what it promises.
Local(f, d, m, p, c) ==
  /\ p \in {"idle", "prepare"} => f = "ABSENT" /\ c = "none"
  /\ p \in Working => f = "RUNNING"
  /\ p \in {"ready", "spawn"} => c = "none"
  /\ c = "running" => f = "RUNNING" /\ p \in {"wait", "end"}
  /\ p \in {"check", "place", "succeed"} => c = "done"
  /\ p = "place" => m = "right"
  /\ p = "succeed" => m = "right" /\ d = "result"
  /\ f = "SUCCEEDED" => m = "right" /\ d = "result" /\ c = "done"

Tasks == \A t \in Task : Local(file[t], place[t], made[t], pc[t], child[t])

\* The lock: whoever has the file open, a worker, a generator or a GET, is alone.
Exclusive ==
  /\ \A t, u \in Task : OpenBy(t) /\ OpenBy(u) => t = u
  /\ \A t \in Task, q \in Query : OpenBy(t) => query[q].at # "locked"

IInv == BuildTypeOK /\ Tasks /\ Exclusive

\* The types, as the steps use them.
LEMMA Types ==
  ASSUME IInv
  PROVE  /\ file \in [Task -> Files]
         /\ place \in [Task -> Directories]
         /\ made \in [Task -> Contents]
         /\ pc \in [Task -> Places]
         /\ child \in [Task -> Children]
         /\ query \in [Query -> [at : {"read", "locked"}, task : Task] \cup {Idle}]
  BY DEF IInv, BuildTypeOK, Files, Directories, Contents, Places, Children

\* Initially nobody has anything.
LEMMA InitIInv == Init => IInv
  <1> SUFFICES ASSUME Init PROVE IInv
    OBVIOUS
  <1>1. BuildTypeOK
    BY DEF Init, BuildTypeOK, Settled, Idle
  <1>2. Tasks
    BY DEF Init, Tasks, Local, Working
  <1>3. Exclusive
    BY DEF Init, Exclusive, OpenBy, Holding, Working
  <1> QED BY <1>1, <1>2, <1>3 DEF IInv

----------------------------------------------------------------------------
(* Steps of one task. *)

\* Task t gets the file f, the directory d, the contents m, the place p and the
\* generator c; nothing else changes.
Becomes(t, f, d, m, p, c) ==
  /\ file' = [file EXCEPT ![t] = f]
  /\ place' = [place EXCEPT ![t] = d]
  /\ made' = [made EXCEPT ![t] = m]
  /\ pc' = [pc EXCEPT ![t] = p]
  /\ child' = [child EXCEPT ![t] = c]
  /\ query' = query

LEMMA Stays ==
  ASSUME IInv, NEW t \in Task
  PROVE  /\ file = [file EXCEPT ![t] = file[t]]
         /\ place = [place EXCEPT ![t] = place[t]]
         /\ made = [made EXCEPT ![t] = made[t]]
         /\ pc = [pc EXCEPT ![t] = pc[t]]
         /\ child = [child EXCEPT ![t] = child[t]]
  BY Types

Open(p, c) == p \in Holding \/ c = "running"

\* Only who has the lock file open, or finds it free, may keep it open.
LEMMA OneTask ==
  ASSUME IInv, NEW t \in Task,
         NEW f \in Files, NEW d \in Directories, NEW m \in Contents, NEW p \in Places,
         NEW c \in Children,
         Becomes(t, f, d, m, p, c),
         Open(p, c) => Free \/ OpenBy(t),
         Local(f, d, m, p, c)
  PROVE  IInv'
  <1>1. /\ \A u \in Task \ {t} : /\ file'[u] = file[u] /\ place'[u] = place[u]
                                 /\ made'[u] = made[u] /\ pc'[u] = pc[u]
                                 /\ child'[u] = child[u]
        /\ file'[t] = f /\ place'[t] = d /\ made'[t] = m /\ pc'[t] = p /\ child'[t] = c
    BY Types DEF Becomes
  <1>2. BuildTypeOK'
    BY Types DEF BuildTypeOK, Becomes, Files, Directories, Contents, Places, Children
  <1>3. Tasks'
    <2>1. ASSUME NEW u \in Task
          PROVE  Local(file'[u], place'[u], made'[u], pc'[u], child'[u])
      <3>1. CASE u = t
        BY <1>1, <3>1
      <3>2. CASE u # t
        BY <1>1, <3>2 DEF IInv, Tasks
      <3> QED BY <3>1, <3>2
    <2> QED BY <2>1 DEF Tasks
  <1>4. Exclusive'
    <2>1. \A u \in Task \ {t} : Open(pc'[u], child'[u]) => OpenBy(u)
      BY <1>1 DEF Open, OpenBy
    <2>2. Open(pc'[t], child'[t]) => Free \/ OpenBy(t)
      BY <1>1
    <2>3. /\ \A u, w \in Task : OpenBy(u) /\ OpenBy(w) => u = w
          /\ \A u \in Task, q \in Query : OpenBy(u) => query[q].at # "locked"
      BY DEF IInv, Exclusive
    <2>4. \A u, w \in Task : Open(pc'[u], child'[u]) /\ Open(pc'[w], child'[w]) => u = w
      BY <2>1, <2>2, <2>3 DEF Free
    <2>5. \A u \in Task, q \in Query : Open(pc'[u], child'[u]) => query'[q].at # "locked"
      BY <2>1, <2>2, <2>3 DEF Free, Becomes
    <2> QED BY <2>4, <2>5 DEF Exclusive, Open, OpenBy
  <1> QED BY <1>2, <1>3, <1>4 DEF IInv

\* What is known of a task in its place.
LEMMA OfTask ==
  ASSUME IInv, NEW t \in Task
  PROVE  /\ Local(file[t], place[t], made[t], pc[t], child[t])
         /\ file[t] \in Files /\ place[t] \in Directories /\ made[t] \in Contents
         /\ pc[t] \in Places /\ child[t] \in Children
  BY Types DEF IInv, Tasks

LEMMA Closing ==
  ASSUME NEW t \in Task, NEW s \in Files
  PROVE  Closed(t, s) \in {s, "UNREADABLE"} /\ Closed(t, s) \in Files
  BY DEF Closed, Files, Settled

\* What each step of a POST but its recovery makes of its task.
LEMMA PrepareBecomes ==
  ASSUME IInv, NEW t \in Task, Acquire(t) \/ Admit(t) \/ PrepareFails(t)
  PROVE  \/ /\ Free /\ pc[t] = "idle"
            /\ Becomes(t, file[t], place[t], made[t], "prepare", child[t])
         \/ /\ pc[t] \in {"idle", "prepare"}
            /\ Becomes(t, file[t], place[t], made[t], "end", child[t])
         \/ /\ pc[t] = "prepare" /\ AllSettled
            /\ \E p \in {"ready", "end"} :
                 Becomes(t, "RUNNING", place[t], made[t], p, child[t])
  BY Stays DEF Acquire, Admit, PrepareFails, Becomes, Goto, Write

\* What each step of a worker does.
LEMMA WorkBecomes ==
  ASSUME IInv, NEW t \in Task, Work(t)
  PROVE  \/ /\ pc[t] = "ready"
            /\ \E p \in {"spawn", "fail"} :
                 Becomes(t, file[t], place[t], made[t], p, child[t])
         \/ pc[t] = "spawn" /\ Becomes(t, file[t], "candidate", made[t], "wait", "running")
         \/ /\ pc[t] \in {"spawn", "check", "place"}
            /\ \E d \in Directories : Becomes(t, file[t], d, made[t], "fail", child[t])
         \/ /\ pc[t] = "wait" /\ child[t] = "running"
            /\ Becomes(t, file[t], place[t], made[t], "fail", "broken")
         \/ /\ pc[t] = "wait" /\ child[t] \in Exits
            /\ \/ child[t] = "done" /\ Becomes(t, file[t], place[t], made[t], "check", child[t])
               \/ Becomes(t, file[t], place[t], made[t], "fail", child[t])
         \/ /\ pc[t] = "check"
            /\ \/ made[t] = "right" /\ Becomes(t, file[t], place[t], made[t], "place", child[t])
               \/ Becomes(t, file[t], place[t], made[t], "fail", child[t])
         \/ /\ pc[t] = "place"
            /\ \E p \in {"succeed", "fail"} :
                 Becomes(t, file[t], "result", made[t], p, child[t])
         \/ /\ pc[t] \in {"succeed", "fail"}
            /\ \/ Becomes(t, file[t], place[t], made[t], "release", child[t])
               \/ Becomes(t, Closed(t, IF pc[t] = "succeed" THEN "SUCCEEDED" ELSE "FAILED"),
                          place[t], made[t], "release", child[t])
         \/ pc[t] = "release" /\ Becomes(t, file[t], place[t], made[t], "end", child[t])
  <1>1. CASE Dispatch(t)
    BY <1>1, Stays DEF Dispatch, Becomes, Goto
  <1>2. CASE Spawn(t)
    BY <1>2, Stays DEF Spawn, Becomes, Goto
  <1>3. CASE Falter(t)
    <2>1. \E d \in Directories : place' = [place EXCEPT ![t] = d]
      BY <1>3, Stays, OfTask DEF Falter, Directories
    <2> QED BY <1>3, <2>1, Stays DEF Falter, Becomes, Goto
  <1>4. CASE Kill(t) \/ Reap(t) \/ Validate(t)
    BY <1>4, Stays DEF Kill, Reap, Validate, Becomes, Goto
  <1>5. CASE PlaceResult(t) \/ Release(t)
    BY <1>5, Stays DEF PlaceResult, Release, Becomes, Goto
  <1>6. CASE Finish(t)
    BY <1>6, Stays DEF Finish, Becomes, Goto, Write
  <1> QED BY <1>1, <1>2, <1>3, <1>4, <1>5, <1>6 DEF Work

\* What the end of a generator does to its task, wherever the worker is.
LEMMA EndBecomes ==
  ASSUME IInv, NEW t \in Task, GeneratorEnds(t)
  PROVE  /\ child[t] = "running"
         /\ \E m \in Contents, c \in Exits : Becomes(t, file[t], place[t], m, pc[t], c)
  <1>1. \E m \in Contents, c \in Exits : made' = [made EXCEPT ![t] = m]
                                         /\ child' = [child EXCEPT ![t] = c]
    BY Stays, OfTask DEF GeneratorEnds, Contents, Exits
  <1> QED BY <1>1, Stays DEF GeneratorEnds, Becomes

\* The sets of the places, and who is open in them.
LEMMA PlacesHold ==
  /\ \A p \in Working : p \in Holding /\ p \in Places
  /\ \A p \in Holding : p \in Places
  /\ "prepare" \in Holding /\ "release" \in Holding
  /\ "idle" \in Places /\ "end" \in Places /\ "idle" \notin Holding /\ "end" \notin Holding
  /\ {"ready", "spawn", "wait", "check", "place", "succeed", "fail"} \subseteq Working
  BY DEF Working, Holding, Places

\* A POST gets on when it has the lock or finds it free.
LEMMA PrepareKeeps ==
  ASSUME IInv, NEW t \in Task, Acquire(t) \/ Admit(t) \/ PrepareFails(t)
  PROVE  IInv'
  <1>0. /\ Local(file[t], place[t], made[t], pc[t], child[t])
        /\ file[t] \in Files /\ place[t] \in Directories /\ made[t] \in Contents
        /\ pc[t] \in Places /\ child[t] \in Children
    BY OfTask
  <1>1. CASE Free /\ pc[t] = "idle"
             /\ Becomes(t, file[t], place[t], made[t], "prepare", child[t])
    <2>1. Local(file[t], place[t], made[t], "prepare", child[t])
      BY <1>0, <1>1 DEF Local, Working
    <2> QED BY <1>0, <1>1, <2>1, OneTask, PlacesHold
  <1>2. CASE /\ pc[t] \in {"idle", "prepare"}
             /\ Becomes(t, file[t], place[t], made[t], "end", child[t])
    <2>1. Local(file[t], place[t], made[t], "end", child[t]) /\ ~Open("end", child[t])
      BY <1>0, <1>2, PlacesHold DEF Local, Working, Open
    <2> QED BY <1>0, <1>2, <2>1, OneTask, PlacesHold
  <1>3. ASSUME pc[t] = "prepare",
               NEW p \in {"ready", "end"},
               Becomes(t, "RUNNING", place[t], made[t], p, child[t])
        PROVE  IInv'
    <2>1. Local("RUNNING", place[t], made[t], p, child[t])
      BY <1>0, <1>3 DEF Local, Working
    <2>2. OpenBy(t) /\ "RUNNING" \in Files /\ p \in Places
      BY <1>3, PlacesHold DEF OpenBy, Files
    <2> QED BY <1>0, <1>3, <2>1, <2>2, OneTask
  <1> QED BY <1>1, <1>2, <1>3, PrepareBecomes

\* The worker leads its task to what a SUCCEEDED record promises, or to another one.
LEMMA WorkKeeps ==
  ASSUME IInv, NEW t \in Task, Work(t)
  PROVE  IInv'
  <1>0. /\ Local(file[t], place[t], made[t], pc[t], child[t])
        /\ file[t] \in Files /\ place[t] \in Directories /\ made[t] \in Contents
        /\ pc[t] \in Places /\ child[t] \in Children
    BY OfTask
  <1>1. OpenBy(t)
    BY WorkBecomes, PlacesHold DEF OpenBy
  <1> USE DEF Local, Working
  <1>2. ASSUME pc[t] = "ready", NEW p \in {"spawn", "fail"},
               Becomes(t, file[t], place[t], made[t], p, child[t])
        PROVE  IInv'
    <2>1. Local(file[t], place[t], made[t], p, child[t]) /\ p \in Places
      BY <1>0, <1>2, PlacesHold
    <2> QED BY <1>0, <1>1, <1>2, <2>1, OneTask
  <1>3. CASE pc[t] = "spawn" /\ Becomes(t, file[t], "candidate", made[t], "wait", "running")
    <2>1. Local(file[t], "candidate", made[t], "wait", "running")
      BY <1>0, <1>3
    <2>2. "wait" \in Places /\ "running" \in Children /\ "candidate" \in Directories
      BY PlacesHold DEF Children, Directories
    <2> QED BY <1>0, <1>1, <1>3, <2>1, <2>2, OneTask
  <1>4. ASSUME pc[t] \in {"spawn", "check", "place"}, NEW d \in Directories,
               Becomes(t, file[t], d, made[t], "fail", child[t])
        PROVE  IInv'
    <2>1. Local(file[t], d, made[t], "fail", child[t]) /\ "fail" \in Places
      BY <1>0, <1>4, PlacesHold
    <2> QED BY <1>0, <1>1, <1>4, <2>1, OneTask
  <1>5. CASE pc[t] = "wait" /\ Becomes(t, file[t], place[t], made[t], "fail", "broken")
    <2>1. Local(file[t], place[t], made[t], "fail", "broken")
          /\ "fail" \in Places /\ "broken" \in Children
      BY <1>0, <1>5, PlacesHold DEF Children, Exits
    <2> QED BY <1>0, <1>1, <1>5, <2>1, OneTask
  <1>6. CASE /\ pc[t] = "wait" /\ child[t] \in Exits
             /\ \/ child[t] = "done" /\ Becomes(t, file[t], place[t], made[t], "check", child[t])
                \/ Becomes(t, file[t], place[t], made[t], "fail", child[t])
    <2>1. /\ Local(file[t], place[t], made[t], "fail", child[t])
          /\ child[t] = "done" => Local(file[t], place[t], made[t], "check", child[t])
          /\ "fail" \in Places /\ "check" \in Places
      BY <1>0, <1>6, PlacesHold DEF Exits
    <2> QED BY <1>0, <1>1, <1>6, <2>1, OneTask
  <1>7. CASE /\ pc[t] = "check"
             /\ \/ made[t] = "right" /\ Becomes(t, file[t], place[t], made[t], "place", child[t])
                \/ Becomes(t, file[t], place[t], made[t], "fail", child[t])
    <2>1. /\ Local(file[t], place[t], made[t], "fail", child[t])
          /\ made[t] = "right" => Local(file[t], place[t], made[t], "place", child[t])
          /\ "fail" \in Places /\ "place" \in Places
      BY <1>0, <1>7, PlacesHold
    <2> QED BY <1>0, <1>1, <1>7, <2>1, OneTask
  <1>8. ASSUME pc[t] = "place", NEW p \in {"succeed", "fail"},
               Becomes(t, file[t], "result", made[t], p, child[t])
        PROVE  IInv'
    <2>1. Local(file[t], "result", made[t], p, child[t])
          /\ p \in Places /\ "result" \in Directories
      BY <1>0, <1>8, PlacesHold DEF Directories
    <2> QED BY <1>0, <1>1, <1>8, <2>1, OneTask
  <1>9. ASSUME pc[t] \in {"succeed", "fail"},
               NEW f \in {file[t], Closed(t, IF pc[t] = "succeed" THEN "SUCCEEDED" ELSE "FAILED")},
               Becomes(t, f, place[t], made[t], "release", child[t])
        PROVE  IInv'
    <2>1. f \in Files /\ (f = "SUCCEEDED" => pc[t] = "succeed")
      BY <1>0, <1>9 DEF Closed, Files, Settled
    <2>2. Local(f, place[t], made[t], "release", child[t]) /\ "release" \in Places
      BY <1>0, <1>9, <2>1, PlacesHold
    <2> QED BY <1>0, <1>1, <1>9, <2>1, <2>2, OneTask
  <1>10. CASE pc[t] = "release" /\ Becomes(t, file[t], place[t], made[t], "end", child[t])
    <2>1. Local(file[t], place[t], made[t], "end", child[t]) /\ "end" \in Places
      BY <1>0, <1>10, PlacesHold
    <2> QED BY <1>0, <1>1, <1>10, <2>1, OneTask
  <1> QED BY <1>2, <1>3, <1>4, <1>5, <1>6, <1>7, <1>8, <1>9, <1>10, WorkBecomes

\* A generator ends while its record says RUNNING, and closes the lock file.
LEMMA EndKeeps ==
  ASSUME IInv, NEW t \in Task, GeneratorEnds(t)
  PROVE  IInv'
  <1>1. PICK m \in Contents, c \in Exits : Becomes(t, file[t], place[t], m, pc[t], c)
    BY EndBecomes
  <1>2. child[t] = "running" /\ OpenBy(t)
    BY EndBecomes DEF OpenBy
  <1>3. Local(file[t], place[t], m, pc[t], c) /\ c \in Children
    BY <1>2, OfTask DEF Local, Working, Exits, Children
  <1> QED BY <1>1, <1>2, <1>3, OfTask, OneTask

----------------------------------------------------------------------------
(* Recovery, polls and deaths. *)

\* Nobody is at work on the task that is declared interrupted.
LEMMA Interrupts ==
  ASSUME IInv, NEW u \in Task, ~OpenBy(u), file[u] = "RUNNING",
         NEW f \in {"INTERRUPTED", "UNREADABLE"}, Write(u, f),
         UNCHANGED <<place, made, pc, child>>,
         query' = query
  PROVE  IInv'
  <1>1. Becomes(u, f, place[u], made[u], pc[u], child[u])
    BY Stays DEF Becomes, Write
  <1>2. Local(f, place[u], made[u], pc[u], child[u])
    BY OfTask, PlacesHold DEF Local, OpenBy
  <1>3. f \in Files /\ (Open(pc[u], child[u]) => OpenBy(u))
    BY DEF Files, Settled, Open, OpenBy
  <1> QED BY <1>1, <1>2, <1>3, OfTask, OneTask

LEMMA RecoverKeeps ==
  ASSUME IInv, NEW t \in Task, Recover(t)
  PROVE  IInv'
  <1>1. PICK u \in Task : file[u] = "RUNNING" /\ Write(u, Closed(u, "INTERRUPTED"))
    BY DEF Recover
  <1>2. pc[t] = "prepare" /\ OpenBy(t)
    BY PlacesHold DEF Recover, OpenBy
  <1>3. u # t
    BY <1>1, <1>2, OfTask DEF Local
  <1>4. ~OpenBy(u)
    BY <1>2, <1>3 DEF IInv, Exclusive
  <1>5. Closed(u, "INTERRUPTED") \in {"INTERRUPTED", "UNREADABLE"}
    BY DEF Closed
  <1> QED BY <1>1, <1>4, <1>5, Interrupts DEF Recover

\* A GET that changes only its own place takes the lock only when it is free.
LEMMA Polls ==
  ASSUME IInv, NEW q \in Query,
         NEW w \in [at : {"read", "locked"}, task : Task] \cup {Idle},
         query' = [query EXCEPT ![q] = w],
         w.at = "locked" => Free,
         UNCHANGED <<file, place, made, pc, child>>
  PROVE  IInv'
  <1>1. BuildTypeOK'
    BY DEF IInv, BuildTypeOK
  <1>2. Tasks'
    BY DEF IInv, Tasks
  <1>3. ASSUME NEW t \in Task, NEW r \in Query, OpenBy(t)
        PROVE  query'[r].at # "locked"
    <2>1. ~Free
      BY <1>3 DEF Free
    <2>2. CASE r = q
      BY <2>1, <2>2, Types
    <2>3. CASE r # q
      BY <1>3, <2>3, Types DEF IInv, Exclusive
    <2> QED BY <2>2, <2>3
  <1>4. Exclusive'
    BY <1>3 DEF IInv, Exclusive, OpenBy
  <1> QED BY <1>1, <1>2, <1>4 DEF IInv

LEMMA PollKeeps ==
  ASSUME IInv, NEW q \in Query, Poll(q)
  PROVE  IInv'
  <1>0. query[q] \in [at : {"read", "locked"}, task : Task] \cup {Idle}
    BY Types
  <1>1. CASE Ask(q)
    <2>1. PICK t \in Task : query' = [query EXCEPT ![q] = [at |-> "read", task |-> t]]
      BY <1>1 DEF Ask
    <2>2. [at |-> "read", task |-> t] \in [at : {"read", "locked"}, task : Task]
          /\ [at |-> "read", task |-> t].at # "locked"
      OBVIOUS
    <2> QED BY <1>1, <2>1, <2>2, Polls DEF Ask
  <1>2. CASE Inspect(q)
    <2> DEFINE w == IF Free THEN [query[q] EXCEPT !.at = "locked"] ELSE Idle
    <2>1. query' = [query EXCEPT ![q] = w]
      BY <1>2 DEF Inspect
    <2>2. w \in [at : {"read", "locked"}, task : Task] \cup {Idle}
      BY <1>0, <1>2 DEF Inspect, Idle
    <2>3. w.at = "locked" => Free
      BY DEF Idle
    <2> HIDE DEF w
    <2> QED BY <1>2, <2>1, <2>2, <2>3, Polls DEF Inspect
  <1>3. CASE RecoverTask(q)
    <2>1. query' = [query EXCEPT ![q] = Idle] /\ Idle.at # "locked"
      BY <1>3 DEF RecoverTask, Idle
    <2>2. CASE file' = file
      BY <1>3, <2>1, <2>2, Polls DEF RecoverTask
    <2>3. CASE file[query[q].task] = "RUNNING"
               /\ Write(query[q].task, Closed(query[q].task, "INTERRUPTED"))
      <3> DEFINE u == query[q].task
      <3>1. u \in Task
        BY <1>0, <1>3 DEF RecoverTask, Idle
      <3>2. ~OpenBy(u)
        BY <1>3, <3>1 DEF RecoverTask, IInv, Exclusive
      <3>3. Closed(u, "INTERRUPTED") \in {"INTERRUPTED", "UNREADABLE"}
        BY DEF Closed
      <3>4. file' = [file EXCEPT ![u] = Closed(u, "INTERRUPTED")]
        BY <2>3 DEF Write
      <3>5. file[u] = "RUNNING" /\ UNCHANGED <<place, made, pc, child>>
        BY <1>3, <2>3 DEF RecoverTask
      <3> HIDE DEF u
      <3>6. BuildTypeOK'
        BY <2>1, <3>3, <3>4, <3>5 DEF IInv, BuildTypeOK, Settled
      <3>7. Tasks'
        <4>1. ASSUME NEW t \in Task
              PROVE  Local(file'[t], place'[t], made'[t], pc'[t], child'[t])
          <5>1. CASE t = u
            <6>1. file'[u] \in {"INTERRUPTED", "UNREADABLE"}
              BY <3>1, <3>3, <3>4, Types
            <6> QED BY <3>2, <3>5, <5>1, <6>1, OfTask, PlacesHold DEF Local, OpenBy
          <5>2. CASE t # u
            BY <3>4, <3>5, <5>2, OfTask
          <5> QED BY <5>1, <5>2
        <4> QED BY <4>1 DEF Tasks
      <3>8. \A t \in Task : ~OpenBy(t)
        BY <1>3 DEF RecoverTask, IInv, Exclusive
      <3>9. Exclusive'
        BY <3>5, <3>8 DEF Exclusive, OpenBy
      <3> QED BY <3>6, <3>7, <3>9 DEF IInv
    <2> QED BY <1>3, <2>2, <2>3 DEF RecoverTask
  <1> QED BY <1>1, <1>2, <1>3 DEF Poll

\* A death takes workers and GETs away and leaves records and generators as they are.
LEMMA DieKeeps ==
  ASSUME IInv, NEW p \in Process, Die(p)
  PROVE  IInv'
  <1>1. /\ UNCHANGED <<file, place, made, child>>
        /\ \A t \in Task : pc'[t] = pc[t] \/ (pc[t] \in Holding /\ pc'[t] = "end")
        /\ \A q \in Query : query'[q] \in {query[q], Idle}
        /\ pc' \in [Task -> Places]
        /\ query' \in [Query -> [at : {"read", "locked"}, task : Task] \cup {Idle}]
    BY Types, PlacesHold DEF Die
  <1>2. BuildTypeOK'
    BY <1>1, Types DEF BuildTypeOK, Files, Directories, Contents, Places, Children
  <1>3. Tasks'
    <2>1. ASSUME NEW t \in Task
          PROVE  Local(file'[t], place'[t], made'[t], pc'[t], child'[t])
      <3>1. CASE pc'[t] = pc[t]
        BY <1>1, <3>1, OfTask
      <3>2. CASE pc[t] \in Holding /\ pc'[t] = "end"
        BY <1>1, <3>2, OfTask DEF Local, Working
      <3> QED BY <1>1, <3>1, <3>2
    <2> QED BY <2>1 DEF Tasks
  <1>4. \A t \in Task : Open(pc'[t], child'[t]) => OpenBy(t)
    BY <1>1, PlacesHold DEF Open, OpenBy
  <1>5. \A q \in Query : query'[q].at = "locked" => query[q].at = "locked"
    BY <1>1 DEF Idle
  <1>6. Exclusive'
    BY <1>4, <1>5 DEF IInv, Exclusive, Open, OpenBy
  <1> QED BY <1>2, <1>3, <1>6 DEF IInv

LEMMA NextIInv == IInv /\ [Next]_vars => IInv'
  <1> SUFFICES ASSUME IInv, [Next]_vars PROVE IInv'
    OBVIOUS
  <1>1. CASE UNCHANGED vars
    BY <1>1 DEF vars, IInv, BuildTypeOK, Tasks, Exclusive, OpenBy
  <1> QED BY <1>1, PrepareKeeps, RecoverKeeps, WorkKeeps, EndKeeps, PollKeeps, DieKeeps
          DEF Next, Prepare

LEMMA Invariance == Spec => []IInv
  BY InitIInv, NextIInv, PTL DEF Spec

\* Every reachable state is well-typed.
THEOREM TypeCorrect == Spec => []BuildTypeOK
  BY Invariance, PTL DEF IInv

\* A task that says SUCCEEDED has the complete result of its own request in its place and
\* its generator is gone, whatever failed or died on the way.
THEOREM SuccessIsSelectable == Spec => []SucceededIsSelectable
  <1>1. IInv => SucceededIsSelectable
    BY DEF IInv, Tasks, Local, SucceededIsSelectable, Selectable
  <1> QED BY <1>1, Invariance, PTL

----------------------------------------------------------------------------
(* The contract of tasks. *)

AtWorkIn(places, children) ==
  {t \in Task : places[t] \in Working \/ children[t] = "running"}
OwnerOf(S) == IF S = {} THEN None ELSE CHOOSE t \in S : TRUE

\* Only who has the lock file open is at work, alone; so the owner is that task.
LEMMA OwnerHolds ==
  ASSUME NEW t \in Task, NEW S, S \subseteq {t}
  PROVE  /\ OwnerOf(S) \in {t, None}
         /\ t \in S => OwnerOf(S) = t
         /\ t \notin S => OwnerOf(S) = None
  <1>1. CASE S = {}
    BY <1>1 DEF OwnerOf
  <1>2. CASE S = {t}
    BY <1>2 DEF OwnerOf
  <1> QED BY <1>1, <1>2

LEMMA AtWorkIsOpen ==
  ASSUME IInv, NEW t \in Task, t \in AtWorkIn(pc, child)
  PROVE  OpenBy(t)
  BY PlacesHold DEF AtWorkIn, OpenBy

\* The contract's steps over the records and the owner, which are named here.
TaskSteps(r, o, rr, oo) ==
  \/ rr = r /\ oo = o
  \/ o # None /\ oo = None /\ rr = r
  \/ \E t \in Task :
       \/ /\ o = None /\ r[t] = "ABSENT" /\ \A u \in Task : r[u] # "RUNNING"
          /\ rr = [r EXCEPT ![t] = "RUNNING"] /\ oo \in {t, None}
       \/ /\ o = t /\ oo \in {t, None}
          /\ \E s \in {"SUCCEEDED", "FAILED", "UNREADABLE"} : rr = [r EXCEPT ![t] = s]
       \/ /\ o = None /\ oo = o /\ r[t] = "RUNNING"
          /\ \E s \in {"INTERRUPTED", "UNREADABLE"} : rr = [r EXCEPT ![t] = s]

Refines ==
  TaskSteps(file, OwnerOf(AtWorkIn(pc, child)), file', OwnerOf(AtWorkIn(pc', child')))

LEMMA ContractSteps ==
  ASSUME Refines
  PROVE  [Contract!TaskNext]_(Contract!taskVars)
  BY DEF Refines, TaskSteps, OwnerOf, AtWorkIn, AtWork, Contract!TaskNext, Contract!Leave,
         Contract!Start, Contract!Settle, Contract!Interrupt, Contract!Set, Contract!Worked,
         Contract!taskVars

\* A step of the task that has the lock file open, to a place and a generator that are at
\* work or not.
LEMMA Owners ==
  ASSUME IInv, NEW t \in Task, \A u \in Task : OpenBy(u) => u = t,
         NEW f, NEW d, NEW m, NEW p, NEW c, Becomes(t, f, d, m, p, c)
  PROVE  LET o == OwnerOf(AtWorkIn(pc, child))
             oo == OwnerOf(AtWorkIn(pc', child'))
         IN  /\ o = IF pc[t] \in Working \/ child[t] = "running" THEN t ELSE None
             /\ oo = IF p \in Working \/ c = "running" THEN t ELSE None
  <1>1. AtWorkIn(pc, child) \subseteq {t}
    BY AtWorkIsOpen DEF AtWorkIn
  <1>2. /\ \A u \in Task \ {t} : pc'[u] = pc[u] /\ child'[u] = child[u]
        /\ pc'[t] = p /\ child'[t] = c
    BY Types DEF Becomes
  <1>3. AtWorkIn(pc', child') \subseteq {t}
    BY <1>1, <1>2 DEF AtWorkIn
  <1>4. /\ t \in AtWorkIn(pc, child) <=> pc[t] \in Working \/ child[t] = "running"
        /\ t \in AtWorkIn(pc', child') <=> p \in Working \/ c = "running"
    BY <1>2 DEF AtWorkIn
  <1> QED BY <1>1, <1>3, <1>4, OwnerHolds

\* A task that stays out of work changes no owner.
LEMMA NoOwners ==
  ASSUME IInv, NEW t \in Task, pc[t] \notin Working, child[t] # "running",
         NEW f, NEW d, NEW m, NEW p, NEW c, Becomes(t, f, d, m, p, c),
         p \notin Working, c # "running"
  PROVE  OwnerOf(AtWorkIn(pc', child')) = OwnerOf(AtWorkIn(pc, child))
  <1>1. /\ \A u \in Task \ {t} : pc'[u] = pc[u] /\ child'[u] = child[u]
        /\ pc'[t] = p /\ child'[t] = c
    BY Types DEF Becomes
  <1>2. AtWorkIn(pc', child') = AtWorkIn(pc, child)
    BY <1>1 DEF AtWorkIn
  <1> QED BY <1>2

LEMMA NoneIsNoTask == None \notin Task
  BY CorpusAssumption

\* Admission is a start, if only of a record that nobody owns.
LEMMA PrepareRefines ==
  ASSUME IInv, NEW t \in Task, Acquire(t) \/ Admit(t) \/ PrepareFails(t)
  PROVE  Refines
  <1>0. Local(file[t], place[t], made[t], pc[t], child[t])
    BY OfTask
  <1>1. pc[t] \in {"idle", "prepare"}
    BY PrepareBecomes
  <1>2. pc[t] \notin Working /\ file[t] = "ABSENT" /\ child[t] = "none"
    BY <1>0, <1>1 DEF Local, Working
  <1>3. ASSUME NEW p \in {"prepare", "end"},
               Becomes(t, file[t], place[t], made[t], p, child[t])
        PROVE  Refines
    <2>1. OwnerOf(AtWorkIn(pc', child')) = OwnerOf(AtWorkIn(pc, child))
      BY <1>2, <1>3, NoOwners DEF Working
    <2>2. file' = file
      BY <1>3, Stays DEF Becomes
    <2> QED BY <2>1, <2>2 DEF Refines, TaskSteps
  <1>4. ASSUME pc[t] = "prepare", AllSettled, NEW p \in {"ready", "end"},
               Becomes(t, "RUNNING", place[t], made[t], p, child[t])
        PROVE  Refines
    <2>1. OpenBy(t)
      BY <1>4, PlacesHold DEF OpenBy
    <2>2. \A u \in Task : OpenBy(u) => u = t
      BY <2>1 DEF IInv, Exclusive
    <2>3. /\ OwnerOf(AtWorkIn(pc, child)) = None
          /\ OwnerOf(AtWorkIn(pc', child')) \in {t, None}
      BY <1>2, <1>4, <2>2, Owners
    <2>4. /\ file[t] = "ABSENT" /\ \A u \in Task : file[u] # "RUNNING"
          /\ file' = [file EXCEPT ![t] = "RUNNING"]
      BY <1>2, <1>4 DEF AllSettled, Becomes
    <2> QED BY <2>3, <2>4 DEF Refines, TaskSteps
  <1> QED BY <1>3, <1>4, PrepareBecomes

\* Only the worker settles its task, while it is at work.
LEMMA WorkRefines ==
  ASSUME IInv, NEW t \in Task, Work(t)
  PROVE  Refines
  <1>0. Local(file[t], place[t], made[t], pc[t], child[t])
    BY OfTask
  <1>1. OpenBy(t)
    BY WorkBecomes, PlacesHold DEF OpenBy
  <1>2. \A u \in Task : OpenBy(u) => u = t
    BY <1>1 DEF IInv, Exclusive
  <1>3. ASSUME pc[t] \in Working, NEW d, NEW p \in Working \cup {"release"}, NEW c,
               Becomes(t, file[t], d, made[t], p, c)
        PROVE  Refines
    <2>1. OwnerOf(AtWorkIn(pc, child)) = t /\ OwnerOf(AtWorkIn(pc', child')) \in {t, None}
      BY <1>2, <1>3, Owners
    <2>2. file' = file
      BY <1>3, Stays DEF Becomes
    <2> QED BY <2>1, <2>2, NoneIsNoTask DEF Refines, TaskSteps
  <1>4. CASE pc[t] = "release" /\ Becomes(t, file[t], place[t], made[t], "end", child[t])
    <2>1. pc[t] \notin Working /\ child[t] # "running" /\ "end" \notin Working
      BY <1>0, <1>4 DEF Local, Working
    <2>2. OwnerOf(AtWorkIn(pc', child')) = OwnerOf(AtWorkIn(pc, child))
      BY <1>4, <2>1, NoOwners
    <2>3. file' = file
      BY <1>4, Stays DEF Becomes
    <2> QED BY <2>2, <2>3 DEF Refines, TaskSteps
  <1>5. ASSUME pc[t] \in {"succeed", "fail"},
               NEW s \in {"SUCCEEDED", "FAILED"},
               Becomes(t, Closed(t, s), place[t], made[t], "release", child[t])
        PROVE  Refines
    <2>1. OwnerOf(AtWorkIn(pc, child)) = t /\ OwnerOf(AtWorkIn(pc', child')) \in {t, None}
      BY <1>2, <1>5, Owners, PlacesHold
    <2>2. Closed(t, s) \in {"SUCCEEDED", "FAILED", "UNREADABLE"}
          /\ file' = [file EXCEPT ![t] = Closed(t, s)]
      BY <1>5 DEF Closed, Becomes
    <2> QED BY <2>1, <2>2 DEF Refines, TaskSteps
  <1>6. {"ready", "spawn", "wait", "check", "place", "succeed", "fail"} \subseteq Working
    BY PlacesHold
  <1> QED BY <1>3, <1>4, <1>5, <1>6, WorkBecomes

\* When an orphaned generator ends, its task is left.
LEMMA EndRefines ==
  ASSUME IInv, NEW t \in Task, GeneratorEnds(t)
  PROVE  Refines
  <1>1. PICK m \in Contents, c \in Exits : Becomes(t, file[t], place[t], m, pc[t], c)
    BY EndBecomes
  <1>2. child[t] = "running" /\ OpenBy(t)
    BY EndBecomes DEF OpenBy
  <1>3. \A u \in Task : OpenBy(u) => u = t
    BY <1>2 DEF IInv, Exclusive
  <1>4. OwnerOf(AtWorkIn(pc, child)) = t /\ OwnerOf(AtWorkIn(pc', child')) \in {t, None}
    BY <1>1, <1>2, <1>3, Owners
  <1>5. file' = file
    BY <1>1, Stays DEF Becomes
  <1> QED BY <1>4, <1>5, NoneIsNoTask DEF Refines, TaskSteps

\* A task is declared interrupted when nobody is at work.
LEMMA RecoveryRefines ==
  ASSUME IInv, \A t \in Task : t \notin AtWorkIn(pc, child),
         UNCHANGED <<pc, child>>,
         NEW u \in Task, file[u] = "RUNNING", Write(u, Closed(u, "INTERRUPTED"))
  PROVE  Refines
  <1>1. AtWorkIn(pc, child) = {} /\ AtWorkIn(pc', child') = {}
    BY DEF AtWorkIn
  <1>2. OwnerOf(AtWorkIn(pc, child)) = None /\ OwnerOf(AtWorkIn(pc', child')) = None
    BY <1>1 DEF OwnerOf
  <1>3. Closed(u, "INTERRUPTED") \in {"INTERRUPTED", "UNREADABLE"}
        /\ file' = [file EXCEPT ![u] = Closed(u, "INTERRUPTED")]
    BY DEF Closed, Write
  <1> QED BY <1>2, <1>3 DEF Refines, TaskSteps

LEMMA RecoverRefines ==
  ASSUME IInv, NEW t \in Task, Recover(t)
  PROVE  Refines
  <1>1. PICK u \in Task : file[u] = "RUNNING" /\ Write(u, Closed(u, "INTERRUPTED"))
    BY DEF Recover
  <1>2. pc[t] = "prepare" /\ OpenBy(t) /\ UNCHANGED <<pc, child>>
    BY PlacesHold DEF Recover, OpenBy
  <1>3. t \notin AtWorkIn(pc, child)
    BY <1>2, OfTask DEF Local, AtWorkIn, Working
  <1>4. \A w \in Task : w \notin AtWorkIn(pc, child)
    BY <1>2, <1>3, AtWorkIsOpen DEF IInv, Exclusive
  <1> QED BY <1>1, <1>2, <1>4, RecoveryRefines

LEMMA PollRefines ==
  ASSUME IInv, NEW q \in Query, Poll(q)
  PROVE  Refines
  <1>1. UNCHANGED <<pc, child>>
    BY DEF Poll, Ask, Inspect, RecoverTask
  <1>2. CASE file' = file
    BY <1>1, <1>2 DEF Refines, TaskSteps
  <1>3. CASE /\ query[q].at = "locked"
             /\ file[query[q].task] = "RUNNING"
             /\ Write(query[q].task, Closed(query[q].task, "INTERRUPTED"))
    <2>1. query[q].task \in Task
      BY <1>3, Types DEF Idle
    <2>2. \A w \in Task : w \notin AtWorkIn(pc, child)
      BY <1>3, AtWorkIsOpen DEF IInv, Exclusive
    <2> QED BY <1>1, <1>3, <2>1, <2>2, RecoveryRefines
  <1> QED BY <1>2, <1>3 DEF Poll, Ask, Inspect, RecoverTask

\* A death ends the work of a task, unless its generator lives on.
LEMMA DieRefines ==
  ASSUME IInv, NEW p \in Process, Die(p)
  PROVE  Refines
  <1>1. /\ file' = file /\ child' = child
        /\ \A t \in Task : pc'[t] = pc[t] \/ pc'[t] = "end"
    BY DEF Die
  <1>2. AtWorkIn(pc', child') \subseteq AtWorkIn(pc, child)
    BY <1>1 DEF AtWorkIn, Working
  <1>3. CASE AtWorkIn(pc, child) = {}
    BY <1>1, <1>2, <1>3 DEF Refines, TaskSteps
  <1>4. ASSUME NEW t \in Task, t \in AtWorkIn(pc, child)
        PROVE  Refines
    <2>1. OpenBy(t)
      BY <1>4, AtWorkIsOpen
    <2>2. AtWorkIn(pc, child) \subseteq {t}
      BY <2>1, AtWorkIsOpen DEF IInv, Exclusive, AtWorkIn
    <2>3. AtWorkIn(pc', child') \subseteq {t}
      BY <1>2, <2>2
    <2>4. OwnerOf(AtWorkIn(pc, child)) = t /\ OwnerOf(AtWorkIn(pc', child')) \in {t, None}
      BY <1>4, <2>2, <2>3, OwnerHolds
    <2> QED BY <1>1, <2>4, NoneIsNoTask DEF Refines, TaskSteps
  <1> QED BY <1>3, <1>4 DEF AtWorkIn

\* Corpus builds implement the contract of tasks although a generator outlives the process
\* that started it: no other task starts and none is declared interrupted beside it.
THEOREM Implements == Spec => KeepsTaskContract
  <1>1. Init => Contract!TaskInit
    <2> SUFFICES ASSUME Init PROVE Contract!TaskInit
      OBVIOUS
    <2>1. AtWork = {}
      BY DEF Init, AtWork, Working
    <2> QED BY <2>1 DEF Init, Contract!TaskInit
  <1>2. ASSUME IInv, [Next]_vars
        PROVE  [Contract!TaskNext]_(Contract!taskVars)
    <2>1. CASE UNCHANGED vars
      BY <2>1 DEF vars, Contract!taskVars, AtWork
    <2> QED BY <1>2, <2>1, PrepareRefines, RecoverRefines, WorkRefines, EndRefines, PollRefines,
               DieRefines, ContractSteps DEF Next, Prepare
  <1> QED BY <1>1, <1>2, Invariance, PTL DEF Spec, KeepsTaskContract, Contract!TaskSpec

----------------------------------------------------------------------------
(* The command.  The chunk identifiers of a provenance are flattened over  *)
(* its documents, by a recursive function: it exists, and does with one    *)
(* more document what FlattenAppend says.                                  *)

\* A set of numbers that is not empty has a least one.
LEMMA LeastNumber ==
  ASSUME NEW N \in SUBSET Nat, N # {}
  PROVE  \E n \in N : \A k \in N : n <= k
<1>1. IsWellFoundedOn(OpToRel(<, Nat), Nat)  BY NatLessThanWellFounded
<1>2. PICK n \in N : \A k \in N : <<k, n>> \notin OpToRel(<, Nat)  BY <1>1, WFMin, Zenon
<1>3. \A k \in N : k \in Nat  BY Zenon
<1>4. \A k \in N : ~(k < n)
  <2> SUFFICES ASSUME NEW k \in N, k < n PROVE FALSE  OBVIOUS
  <2>1. <<k, n>> \in Nat \X Nat /\ <<k, n>>[1] = k /\ <<k, n>>[2] = n  BY <1>3
  <2>2. <<k, n>>[1] < <<k, n>>[2]  BY <2>1, Zenon
  <2>3. <<k, n>> \in OpToRel(<, Nat)  BY <2>1, <2>2, Zenon DEF OpToRel
  <2> QED  BY <1>2, <2>3
<1> QED  BY <1>3, <1>4

\* What FlattenSeq computes on its way through a sequence s: f[i] are the elements of
\* the first i sequences.
Flattens(f, s, n) ==
  f = [i \in 1..n |-> IF i = 1 THEN s[i] ELSE f[i-1] \o s[i]]

LEMMA FlattensExists ==
  ASSUME NEW s, NEW n \in Nat
  PROVE  \E f : Flattens(f, s, n)
<1> DEFINE Missing == {k \in Nat : ~ \E f : Flattens(f, s, k)}
<1> SUFFICES ASSUME Missing # {} PROVE FALSE  OBVIOUS
<1>1. PICK k \in Missing : \A j \in Missing : k <= j  BY LeastNumber, Zenon
<1> HIDE DEF Missing
<1>2. k \in Nat /\ ~ \E f : Flattens(f, s, k)  BY <1>1 DEF Missing
<1>3. CASE k = 0
  <2>1. Flattens([i \in 1..k |-> s[i]], s, k)  BY <1>3 DEF Flattens
  <2> QED  BY <2>1, <1>2
<1>4. CASE k # 0
  <2>1. k - 1 \in Nat /\ k - 1 < k  BY <1>2, <1>4
  <2>2. k - 1 \notin Missing  BY <1>1, <1>2, <2>1
  <2>3. PICK f : Flattens(f, s, k - 1)  BY <2>1, <2>2 DEF Missing
  <2> DEFINE g == [i \in 1..k |-> IF i = 1 THEN s[i] ELSE f[i-1] \o s[i]]
  <2>4. \A i \in 1..(k-1) : g[i] = f[i]
    <3>1. \A i \in 1..(k-1) : i \in 1..k  BY <1>2, <2>1
    <3>2. \A i \in 1..(k-1) : f[i] = IF i = 1 THEN s[i] ELSE f[i-1] \o s[i]
      <4> DEFINE h == [i \in 1..(k-1) |-> IF i = 1 THEN s[i] ELSE f[i-1] \o s[i]]
      <4>1. f = h  BY <2>3, Zenon DEF Flattens
      <4>2. \A i \in 1..(k-1) : h[i] = IF i = 1 THEN s[i] ELSE f[i-1] \o s[i]  OBVIOUS
      <4> HIDE DEF h
      <4> QED  BY <4>1, <4>2, Zenon
    <3> QED  BY <3>1, <3>2
  <2>5. \A i \in 1..k : g[i] = IF i = 1 THEN s[i] ELSE g[i-1] \o s[i]
    <3>1. \A i \in 1..k : g[i] = IF i = 1 THEN s[i] ELSE f[i-1] \o s[i]  OBVIOUS
    <3>2. \A i \in 1..k : i # 1 => i - 1 \in 1..(k-1)  BY <1>2, <2>1
    <3> HIDE DEF g
    <3> QED  BY <3>1, <3>2, <2>4
  <2>6. g = [i \in 1..k |-> IF i = 1 THEN s[i] ELSE g[i-1] \o s[i]]
    <3>1. g = [i \in 1..k |-> g[i]]  OBVIOUS
    <3> HIDE DEF g
    <3> QED  BY <3>1, <2>5
  <2> HIDE DEF g
  <2>7. Flattens(g, s, k)  BY <2>6 DEF Flattens
  <2> QED  BY <2>7, <1>2
<1> QED  BY <1>3, <1>4

LEMMA FlattensAgree ==
  ASSUME NEW s, NEW t, NEW m \in Nat, NEW n \in Nat, m <= n,
         NEW f, Flattens(f, s, m), NEW g, Flattens(g, t, n),
         \A i \in 1..m : s[i] = t[i]
  PROVE  \A i \in 1..m : f[i] = g[i]
<1> DEFINE Wrong == {i \in 1..m : f[i] # g[i]}
<1> SUFFICES ASSUME Wrong # {} PROVE FALSE  OBVIOUS
<1>1. Wrong \in SUBSET Nat  OBVIOUS
<1>2. PICK k \in Wrong : \A j \in Wrong : k <= j  BY <1>1, LeastNumber, Zenon
<1>3. k \in 1..m /\ k \in 1..n /\ f[k] # g[k]  BY <1>2
<1> HIDE DEF Wrong
<1>4. f[k] = IF k = 1 THEN s[k] ELSE f[k-1] \o s[k]
  <2> DEFINE h == [i \in 1..m |-> IF i = 1 THEN s[i] ELSE f[i-1] \o s[i]]
  <2>1. f = h  BY Zenon DEF Flattens
  <2>2. h[k] = IF k = 1 THEN s[k] ELSE f[k-1] \o s[k]  BY <1>3
  <2> HIDE DEF h
  <2> QED  BY <2>1, <2>2, Zenon
<1>5. g[k] = IF k = 1 THEN t[k] ELSE g[k-1] \o t[k]
  <2> DEFINE h == [i \in 1..n |-> IF i = 1 THEN t[i] ELSE g[i-1] \o t[i]]
  <2>1. g = h  BY Zenon DEF Flattens
  <2>2. h[k] = IF k = 1 THEN t[k] ELSE g[k-1] \o t[k]  BY <1>3
  <2> HIDE DEF h
  <2> QED  BY <2>1, <2>2, Zenon
<1>6. s[k] = t[k]  BY <1>3
<1>7. k # 1 => f[k-1] = g[k-1]
  <2> SUFFICES ASSUME k # 1 PROVE f[k-1] = g[k-1]  OBVIOUS
  <2>1. k - 1 \in 1..m /\ ~(k <= k - 1)  BY <1>3
  <2>2. k - 1 \notin Wrong  BY <1>2, <2>1
  <2> QED  BY <2>1, <2>2 DEF Wrong
<1> QED  BY <1>3, <1>4, <1>5, <1>6, <1>7

\* FlattenSeq is the last of these.
LEMMA FlattenSeqIs ==
  ASSUME NEW s, Len(s) \in Nat, Len(s) # 0, NEW f, Flattens(f, s, Len(s))
  PROVE  FlattenSeq(s) = f[Len(s)]
<1> DEFINE h == CHOOSE h : Flattens(h, s, Len(s))
<1>1. FlattenSeq(s) = h[Len(s)]  BY Zenon DEF FlattenSeq, Flattens
<1>2. Flattens(h, s, Len(s))  BY Zenon
<1> HIDE DEF h
<1>3. \A i \in 1..Len(s) : h[i] = f[i]  BY <1>2, FlattensAgree
<1> QED  BY <1>1, <1>3
\* FlattenSeq of a sequence with one more element at its end.
LEMMA FlattenAppend ==
  ASSUME NEW S, NEW s \in Seq(Seq(S)), NEW x \in Seq(S)
  PROVE  FlattenSeq(Append(s, x)) = FlattenSeq(s) \o x
<1> DEFINE n == Len(s)  m == n + 1  t == Append(s, x)
<1>1. /\ n \in Nat /\ m \in Nat /\ m # 0 /\ Len(t) = m /\ n <= m /\ m \in 1..m /\ m - 1 = n
      /\ t[m] = x /\ \A i \in 1..n : s[i] = t[i]
      /\ n = 0 => s = <<>> /\ m = 1
      /\ n # 0 => n \in 1..n /\ m # 1
  BY SMT
<1> HIDE DEF n, m, t
<1>2. PICK g : Flattens(g, t, m)  BY <1>1, FlattensExists
<1>3. PICK f : Flattens(f, s, n)  BY <1>1, FlattensExists
<1>4. FlattenSeq(t) = g[m]
  <2>1. Len(t) \in Nat /\ Len(t) # 0 /\ Flattens(g, t, Len(t))  BY <1>1, <1>2
  <2> QED  BY <1>1, <2>1, FlattenSeqIs
<1>5. g[m] = IF m = 1 THEN x ELSE g[n] \o x
  <2> DEFINE h == [i \in 1..m |-> IF i = 1 THEN t[i] ELSE g[i-1] \o t[i]]
  <2>1. g = h  BY <1>2, Zenon DEF Flattens
  <2>2. h[m] = IF m = 1 THEN t[m] ELSE g[m - 1] \o t[m]  BY <1>1
  <2> HIDE DEF h
  <2> QED  BY <1>1, <2>1, <2>2, Zenon
<1>6. CASE n = 0
  <2>1. s = <<>> /\ FlattenSeq(t) = x  BY <1>1, <1>4, <1>5, <1>6
  <2>2. FlattenSeq(s) = <<>>  BY <2>1 DEF FlattenSeq
  <2>3. <<>> \o x = x  BY SMT
  <2> QED  BY <2>1, <2>2, <2>3 DEF t
<1>7. CASE n # 0
  <2>1. \A i \in 1..n : f[i] = g[i]
    <3>1. n \in Nat /\ m \in Nat /\ n <= m  BY <1>1
    <3>2. \A i \in 1..n : s[i] = t[i]  BY <1>1
    <3>3. Flattens(f, s, n) /\ Flattens(g, t, m)  BY <1>2, <1>3
    <3> QED  BY <3>1, <3>2, <3>3, FlattensAgree
  <2>2. FlattenSeq(s) = f[n]
    <3>1. Len(s) \in Nat /\ Len(s) # 0 /\ Flattens(f, s, Len(s))  BY <1>1, <1>3, <1>7 DEF n
    <3> QED  BY <3>1, FlattenSeqIs DEF n
  <2>3. g[n] = f[n] /\ m # 1  BY <1>1, <1>7, <2>1
  <2> QED  BY <1>4, <1>5, <2>2, <2>3 DEF t
<1> QED  BY <1>6, <1>7

LEMMA FlattenNothing == FlattenSeq(<<>>) = <<>>
BY DEF FlattenSeq

----------------------------------------------------------------------------
(* The command: the inductive invariant. *)

\* Between the chunks of a document and its entry: the identifiers are to be listed, and
\* the document of the last chunks to be described.
Pending(r) ==
  /\ IdsOf(r.chunks) = FlattenSeq([d \in DOMAIN r.documents |-> r.documents[d].chunkIds]) \o r.ids
  /\ \A i \in DOMAIN r.chunks :
       LET c == r.chunks[i] IN
       \/ /\ c.document \in DOMAIN r.documents
          /\ r.documents[c.document].published
          /\ r.documents[c.document].scopes = c.scopes
       \/ /\ c.document = Len(r.documents) + 1
          /\ c.document \in r.read.published
          /\ c.scopes = r.read.scopes

\* What a run has gathered where it is.
Gathered(r) ==
  /\ r.do \notin {"manifest", "failed"} => r.read \in Manifest
  /\ r.do = "manifest" => r.chunks = <<>> /\ r.documents = <<>>
  /\ r.do \in {"sections", "digest"} => Len(r.documents) < Cardinality(Document)
  /\ r.do = "digest" => Pending(r)
  /\ r.do \in BuildSteps \ {"manifest", "digest", "failed"} => Describes(r.documents, r.chunks)

\* A provenance that can be read describes the chunks its checksum is of.
Sound(p) == IsJson(p) => Describes(p.documents, p.checksum)

\* What the loader has read so far.
Loaded ==
  /\ load.do \in {"provenance", "digest", "accepted"} => IsJson(load.corpus)
  /\ load.do \in {"digest", "accepted"} => IsJson(load.provenance) /\ Sound(load.provenance)
  /\ load.do = "accepted" => /\ load.provenance.release = load.corpus.release
                             /\ load.provenance.checksum = load.corpus.chunks

IngestionIInv ==
  /\ IngestionTypeOK
  /\ \A b \in Builder : Gathered(build[b])
  /\ Sound(provenance)
  /\ Loaded

Runs == [do : BuildSteps, read : Manifest \cup {Unreadable}, chunks : Seq(Chunks),
         ids : Seq(ChunkIds), documents : Seq(Entries), manifest : Manifest \cup {Unreadable}]

----------------------------------------------------------------------------
(* Lemmas about chunks and their identifiers. *)

\* Identifiers of chunks are a sequence of identifiers, one a chunk.
LEMMA IdsOfType ==
  ASSUME NEW chunks \in Seq(Chunks)
  PROVE  /\ IdsOf(chunks) \in Seq(ChunkIds)
         /\ DOMAIN IdsOf(chunks) = DOMAIN chunks
         /\ Len(IdsOf(chunks)) = Len(chunks)
<1>1. \A i \in DOMAIN chunks : ChunkId(chunks[i]) \in ChunkIds
  <2> SUFFICES ASSUME NEW i \in DOMAIN chunks PROVE ChunkId(chunks[i]) \in ChunkIds  OBVIOUS
  <2>1. chunks[i] \in Chunks  BY SMT
  <2> QED  BY <2>1, SMT DEF ChunkId, ChunkIds, Chunks
<1>2. DOMAIN chunks = 1..Len(chunks) /\ Len(chunks) \in Nat  BY SMT
<1>3. \A i \in 1..Len(chunks) : IdsOf(chunks)[i] \in ChunkIds  BY <1>1, <1>2 DEF IdsOf
<1>4. IdsOf(chunks) = [i \in 1..Len(chunks) |-> IdsOf(chunks)[i]]  BY <1>2 DEF IdsOf
<1> QED  BY <1>2, <1>3, <1>4, IsASeq, SMT

\* The identifiers of two sequences of chunks, one behind the other.
LEMMA IdsOfConcat ==
  ASSUME NEW old \in Seq(Chunks), NEW new \in Seq(Chunks)
  PROVE  IdsOf(old \o new) = IdsOf(old) \o IdsOf(new)
<1>1. old \o new \in Seq(Chunks)  BY SMT
<1>2. /\ IdsOf(old) \in Seq(ChunkIds) /\ Len(IdsOf(old)) = Len(old)
      /\ IdsOf(new) \in Seq(ChunkIds) /\ Len(IdsOf(new)) = Len(new)
      /\ IdsOf(old \o new) \in Seq(ChunkIds) /\ Len(IdsOf(old \o new)) = Len(old \o new)
  BY <1>1, IdsOfType
<1>3. \A c \in Seq(Chunks) : \A i \in 1..Len(c) : IdsOf(c)[i] = ChunkId(c[i])  BY SMT DEF IdsOf
<1>4. ASSUME NEW i \in 1..Len(old \o new)
      PROVE  IdsOf(old \o new)[i] = (IdsOf(old) \o IdsOf(new))[i]
  <2>1. IdsOf(old \o new)[i] = ChunkId((old \o new)[i])  BY <1>1, <1>3
  <2>2. CASE i \in 1..Len(old)
    <3>1. (old \o new)[i] = old[i] /\ (IdsOf(old) \o IdsOf(new))[i] = IdsOf(old)[i]
      BY <1>2, <2>2, SMT
    <3> QED  BY <1>3, <2>1, <2>2, <3>1
  <2>3. CASE i \notin 1..Len(old)
    <3>1. /\ i - Len(old) \in 1..Len(new) /\ (old \o new)[i] = new[i - Len(old)]
          /\ (IdsOf(old) \o IdsOf(new))[i] = IdsOf(new)[i - Len(old)]
      BY <1>2, <2>3, SMT
    <3> QED  BY <1>3, <2>1, <3>1
  <2> QED  BY <2>2, <2>3
<1>5. IdsOf(old) \o IdsOf(new) \in Seq(ChunkIds) /\ Len(IdsOf(old) \o IdsOf(new)) = Len(old \o new)
  <2>1. \A p, q \in Seq(ChunkIds) : p \o q \in Seq(ChunkIds) /\ Len(p \o q) = Len(p) + Len(q)
    BY SMT
  <2>2. Len(old \o new) = Len(old) + Len(new)  BY SMT
  <2> QED  BY <1>2, <2>1, <2>2
<1> QED  BY <1>2, <1>4, <1>5, SeqEqual

\* The chunks of a document.
LEMMA ChunksOfType ==
  ASSUME NEW m \in Manifest, NEW d \in Document, NEW text \in Text
  PROVE  /\ ChunksOf(m, d, text) \in Seq(Chunks)
         /\ \A i \in DOMAIN ChunksOf(m, d, text) :
              /\ ChunksOf(m, d, text)[i].document = d
              /\ ChunksOf(m, d, text)[i].scopes = m.scopes
              /\ d \in m.published
<1> DEFINE n == IF d \in m.published THEN Len(text) ELSE 0
<1>1. text \in Seq(Piece)  BY IngestionAssumption
<1>2. n \in Nat /\ n <= Len(text) /\ \A i \in 1..n : i \in 1..Len(text)  BY <1>1
<1>3. \A i \in 1..n : text[i] \in Piece /\ d \in m.published  BY <1>1, <1>2
<1> DEFINE chunk(i) == [document |-> d, version |-> m.version, content |-> text[i],
                        scopes |-> m.scopes]
<1>4. ChunksOf(m, d, text) = [i \in 1..n |-> chunk(i)]  BY DEF ChunksOf
<1> HIDE DEF n
<1>5. \A i \in 1..n : chunk(i) \in Chunks  BY <1>3, SMT DEF Chunks, Versions, Scopes
<1>6. \A i \in 1..n : chunk(i).document = d /\ chunk(i).scopes = m.scopes  OBVIOUS
<1> HIDE DEF chunk
<1>7. [i \in 1..n |-> chunk(i)] \in Seq(Chunks)  BY <1>2, <1>5, IsASeq
<1> QED  BY <1>3, <1>4, <1>6, <1>7

\* The identifiers the entries list, with one more entry.
LEMMA ListedAppend ==
  ASSUME NEW documents \in Seq(Entries), NEW entry \in Entries
  PROVE  LET more == Append(documents, entry) IN
         FlattenSeq([d \in DOMAIN more |-> more[d].chunkIds])
           = FlattenSeq([d \in DOMAIN documents |-> documents[d].chunkIds]) \o entry.chunkIds
<1> DEFINE more == Append(documents, entry)
           old == [d \in DOMAIN documents |-> documents[d].chunkIds]
           new == [d \in DOMAIN more |-> more[d].chunkIds]
<1>1. \A e \in Entries : e.chunkIds \in Seq(ChunkIds)  BY SMT DEF Entries
<1>2. /\ DOMAIN documents = 1..Len(documents) /\ Len(documents) \in Nat
      /\ DOMAIN more = 1..(Len(documents) + 1)
      /\ \A d \in 1..Len(documents) : documents[d] \in Entries /\ more[d] = documents[d]
      /\ more[Len(documents) + 1] = entry
  BY SMT
<1>3. old \in Seq(Seq(ChunkIds)) /\ Len(old) = Len(documents)
  <2>1. \A d \in 1..Len(documents) : documents[d].chunkIds \in Seq(ChunkIds)  BY <1>1, <1>2
  <2> QED  BY <1>2, <2>1, IsASeq, SMT
<1>4. Append(old, entry.chunkIds) = new
  <2>1. /\ DOMAIN Append(old, entry.chunkIds) = 1..(Len(documents) + 1)
        /\ Append(old, entry.chunkIds) = [d \in 1..(Len(documents) + 1) |->
                                            Append(old, entry.chunkIds)[d]]
        /\ \A d \in 1..Len(documents) : Append(old, entry.chunkIds)[d] = old[d]
        /\ Append(old, entry.chunkIds)[Len(documents) + 1] = entry.chunkIds
    <3> HIDE DEF old
    <3> QED  BY <1>1, <1>2, <1>3, SMT
  <2>2. \A d \in 1..(Len(documents) + 1) : Append(old, entry.chunkIds)[d] = more[d].chunkIds
    <3>1. \A d \in 1..(Len(documents) + 1) : d \in 1..Len(documents) \/ d = Len(documents) + 1
      BY <1>2
    <3>2. \A d \in 1..Len(documents) : old[d] = documents[d].chunkIds  BY <1>2
    <3> HIDE DEF old, more
    <3> QED  BY <1>2, <2>1, <3>1, <3>2
  <2>3. new = [d \in 1..(Len(documents) + 1) |-> more[d].chunkIds]  BY <1>2
  <2> HIDE DEF old, more, new
  <2> QED  BY <2>1, <2>2, <2>3
<1> HIDE DEF old, more, new
<1>5. FlattenSeq(Append(old, entry.chunkIds)) = FlattenSeq(old) \o entry.chunkIds
  BY <1>1, <1>3, FlattenAppend
<1> QED  BY <1>4, <1>5 DEF old, more, new

----------------------------------------------------------------------------
(* The invariant. *)

LEMMA IngestionTypes ==
  ASSUME IngestionTypeOK, NEW b \in Builder
  PROVE  /\ build[b] \in Runs
         /\ DOMAIN build[b] = {"do", "read", "chunks", "ids", "documents", "manifest"}
         /\ build \in [Builder -> Runs]
         /\ DOMAIN build = Builder
         /\ build[b].do \in BuildSteps /\ build[b].read \in Manifest \cup {Unreadable}
         /\ build[b].chunks \in Seq(Chunks) /\ build[b].ids \in Seq(ChunkIds)
         /\ build[b].documents \in Seq(Entries)
         /\ build[b].manifest \in Manifest \cup {Unreadable}
<1>1. build \in [Builder -> Runs]  BY DEF IngestionTypeOK, Runs
<1>2. build[b] \in Runs  BY <1>1
<1> QED  BY <1>1, <1>2, SMT DEF Runs

LEMMA IngestionInitIInv == IngestionInit => IngestionIInv
<1> SUFFICES ASSUME IngestionInit PROVE IngestionIInv  OBVIOUS
<1> DEFINE first == [do |-> "manifest", read |-> Unreadable, chunks |-> <<>>, ids |-> <<>>,
                     documents |-> <<>>, manifest |-> Unreadable]
<1>1. first \in Runs
  <2>1. <<>> \in Seq(Chunks) /\ <<>> \in Seq(ChunkIds) /\ <<>> \in Seq(Entries)  BY EmptySeq
  <2> QED  BY <2>1, SMT DEF Runs, BuildSteps
<1>2. \A b \in Builder : build[b] = first  BY DEF IngestionInit
<1>3. build \in [Builder -> Runs]
  <2>1. build = [b \in Builder |-> first]  BY DEF IngestionInit
  <2> HIDE DEF first
  <2> QED  BY <1>1, <2>1
<1>4. Gathered(first)  BY DEF Gathered
<1>5. load \in [do : LoadSteps, corpus : Corpora \cup {Empty, Garbled},
                provenance : Provenances \cup {Empty, Garbled}]
  BY SMT DEF IngestionInit, LoadSteps
<1>6. IngestionTypeOK
  BY <1>3, <1>5, IngestionAssumption, SMT DEF IngestionInit, IngestionTypeOK, Runs
<1>7. Sound(provenance)  BY DEF IngestionInit, Sound, IsJson
<1>8. Loaded  BY DEF IngestionInit, Loaded
<1> HIDE DEF first
<1> QED  BY <1>2, <1>4, <1>6, <1>7, <1>8, Zenon DEF IngestionIInv

\* A step of a run that leaves the files alone keeps the invariant when it keeps what
\* the run has gathered right.
LEMMA RunsOn ==
  ASSUME IngestionIInv, NEW b \in Builder, NEW r \in Runs, Gathered(r),
         build' = [build EXCEPT ![b] = r],
         manifest' \in Manifest \cup {Unreadable},
         source' \in [Document -> Text \cup {Unreadable}], edits' \in 0..MaxEdits,
         corpus' \in Corpora \cup {Empty, Garbled},
         provenance' \in Provenances \cup {Empty, Garbled}, Sound(provenance'),
         load' = load
  PROVE  IngestionIInv'
<1>1. build' \in [Builder -> Runs]  BY IngestionTypes DEF IngestionIInv
<1>2. load' \in [do : LoadSteps, corpus : Corpora \cup {Empty, Garbled},
                 provenance : Provenances \cup {Empty, Garbled}]
  BY DEF IngestionIInv, IngestionTypeOK
<1>3. IngestionTypeOK'  BY <1>1, <1>2, SMT DEF IngestionTypeOK, Runs
<1>4. \A c \in Builder : Gathered(build'[c])
  <2> TAKE c \in Builder
  <2>1. build'[c] = IF c = b THEN r ELSE build[c]  BY IngestionTypes DEF IngestionIInv
  <2> QED  BY <2>1, Zenon DEF IngestionIInv
<1>5. Loaded'  BY Zenon DEF IngestionIInv, Loaded
<1>6. (\A c \in Builder : Gathered(build[c]))' /\ Sound(provenance)'
  BY <1>4
<1> QED  BY <1>3, <1>5, <1>6, Zenon DEF IngestionIInv

\* A run that only goes to another step.
LEMMA GoesTo ==
  ASSUME IngestionTypeOK, NEW b \in Builder, NEW step \in BuildSteps, Goes(b, step)
  PROVE  LET r == [build[b] EXCEPT !.do = step] IN
         /\ build' = [build EXCEPT ![b] = r]
         /\ r \in Runs /\ r.do = step /\ r.read = build[b].read /\ r.chunks = build[b].chunks
         /\ r.documents = build[b].documents
<1>1. build[b] \in Runs /\ DOMAIN build[b] = {"do", "read", "chunks", "ids", "documents", "manifest"}
  BY IngestionTypes
<1>2. [build[b] EXCEPT !.do = step] \in Runs  BY <1>1, SMT DEF Runs
<1>3. build' = [build EXCEPT ![b] = [build[b] EXCEPT !.do = step]]  BY DEF Goes
<1> QED  BY <1>1, <1>2, <1>3

\* A run with other fields.
LEMMA RunWith ==
  ASSUME NEW x \in Runs, NEW do \in BuildSteps
  PROVE  /\ \A read \in Manifest \cup {Unreadable} : [x EXCEPT !.do = do, !.read = read] \in Runs
         /\ \A ids \in Seq(ChunkIds), chunks \in Seq(Chunks) :
              [x EXCEPT !.do = do, !.ids = ids, !.chunks = chunks] \in Runs
         /\ \A documents \in Seq(Entries) :
              [x EXCEPT !.do = do, !.documents = documents] \in Runs
         /\ \A inputs \in Manifest \cup {Unreadable} :
              [x EXCEPT !.do = do, !.manifest = inputs] \in Runs
<1> DEFINE A == BuildSteps  B == Manifest \cup {Unreadable}  C == Seq(Chunks)
           D == Seq(ChunkIds)  E == Seq(Entries)
           R == [do : A, read : B, chunks : C, ids : D, documents : E, manifest : B]
<1>1. Runs = R  BY DEF Runs
<1> HIDE DEF A, B, C, D, E
<1>2. \A read \in B : \A y \in R : \A a \in A : [y EXCEPT !.do = a, !.read = read] \in R  OBVIOUS
<1>3. \A ids \in D, chunks \in C : \A y \in R : \A a \in A :
        [y EXCEPT !.do = a, !.ids = ids, !.chunks = chunks] \in R
  OBVIOUS
<1>4. \A documents \in E : \A y \in R : \A a \in A :
        [y EXCEPT !.do = a, !.documents = documents] \in R
  OBVIOUS
<1>5. \A inputs \in B : \A y \in R : \A a \in A :
        [y EXCEPT !.do = a, !.manifest = inputs] \in R
  OBVIOUS
<1> HIDE DEF R
<1> QED  BY <1>1, <1>2, <1>3, <1>4, <1>5, Zenon DEF A, B, C, D, E

\* The run is over, or gives up.
LEMMA RunEnds ==
  ASSUME IngestionIInv, NEW b \in Builder, Goes(b, "failed"), UNCHANGED <<corpus, provenance>>,
         UNCHANGED InputsAndLoader
  PROVE  IngestionIInv'
<1> DEFINE r == [build[b] EXCEPT !.do = "failed"]
<1>1. IngestionTypeOK /\ Sound(provenance)  BY Zenon DEF IngestionIInv
<1>2. "failed" \in BuildSteps  BY DEF BuildSteps
<1>3. build' = [build EXCEPT ![b] = r] /\ r \in Runs /\ r.do = "failed"
  BY <1>1, <1>2, GoesTo
<1> HIDE DEF r
<1>4. Gathered(r)  BY <1>3 DEF Gathered
<1>5. /\ manifest' \in Manifest \cup {Unreadable}
      /\ source' \in [Document -> Text \cup {Unreadable}] /\ edits' \in 0..MaxEdits
      /\ corpus' \in Corpora \cup {Empty, Garbled}
      /\ provenance' \in Provenances \cup {Empty, Garbled} /\ Sound(provenance')
      /\ load' = load
  BY <1>1, Zenon DEF IngestionTypeOK, InputsAndLoader
<1> QED  BY <1>3, <1>4, <1>5, RunsOn

\* Before the first document nothing has been gathered.
LEMMA NothingDescribed == Describes(<<>>, <<>>)
<1>1. IdsOf(<<>>) = <<>>  BY DEF IdsOf
<1>2. [d \in DOMAIN <<>> |-> <<>>[d].chunkIds] = <<>>  OBVIOUS
<1>3. FlattenSeq(<<>>) = <<>>  BY FlattenNothing
<1> QED  BY <1>1, <1>2, <1>3 DEF Describes

LEMMA LoadManifestStep ==
  ASSUME IngestionIInv, NEW b \in Builder, LoadManifest(b)
  PROVE  IngestionIInv'
<1> DEFINE next == IF manifest = Unreadable THEN "failed" ELSE "sections"
           r == [build[b] EXCEPT !.do = next, !.read = manifest]
<1>1. IngestionTypeOK /\ Sound(provenance) /\ Gathered(build[b])  BY Zenon DEF IngestionIInv
<1>2. build' = [build EXCEPT ![b] = r]  BY DEF LoadManifest
<1>3. /\ build[b] \in Runs
      /\ DOMAIN build[b] = {"do", "read", "chunks", "ids", "documents", "manifest"}
  BY <1>1, IngestionTypes
<1>4. manifest \in Manifest \cup {Unreadable} /\ next \in BuildSteps
  BY <1>1 DEF IngestionTypeOK, BuildSteps
<1>5. build[b].chunks = <<>> /\ build[b].documents = <<>>
  BY <1>1 DEF LoadManifest, Building, Gathered
<1>6. /\ r \in Runs /\ r.do = next /\ r.read = manifest /\ r.chunks = <<>>
      /\ r.documents = <<>>
  <2> HIDE DEF next
  <2>1. r \in Runs  BY <1>3, <1>4, RunWith
  <2>2. r.do = next /\ r.read = manifest  BY <1>3
  <2>3. r.chunks = build[b].chunks /\ r.documents = build[b].documents  BY <1>3
  <2> HIDE DEF r
  <2> QED  BY <1>5, <2>1, <2>2, <2>3
<1>7. Gathered(r)
  <2>1. next \in {"failed", "sections"} /\ (next = "sections" => manifest \in Manifest)  BY <1>4
  <2>2. Len(<<>>) < Cardinality(Document)  BY IngestionAssumption
  <2>3. Describes(<<>>, <<>>)  BY NothingDescribed
  <2> HIDE DEF next, r
  <2> QED  BY <1>6, <2>1, <2>2, <2>3, SMT DEF Gathered
<1>8. /\ manifest' \in Manifest \cup {Unreadable}
      /\ source' \in [Document -> Text \cup {Unreadable}] /\ edits' \in 0..MaxEdits
      /\ corpus' \in Corpora \cup {Empty, Garbled}
      /\ provenance' \in Provenances \cup {Empty, Garbled} /\ Sound(provenance')
      /\ load' = load
  BY <1>1, Zenon DEF IngestionTypeOK, InputsAndLoader, LoadManifest
<1> HIDE DEF r, next
<1> QED  BY <1>2, <1>6, <1>7, <1>8, RunsOn

\* The chunks of the next document are pending until its entry follows.
LEMMA ReadSectionsStep ==
  ASSUME IngestionIInv, NEW b \in Builder, ReadSections(b)
  PROVE  IngestionIInv'
<1> DEFINE d == Current(b)  old == build[b].chunks
           own == ChunksOf(build[b].read, d, source[d])
           documents == build[b].documents
           listed == FlattenSeq([e \in DOMAIN documents |-> documents[e].chunkIds])
           r == [build[b] EXCEPT !.do = "digest", !.ids = IdsOf(own), !.chunks = old \o own]
<1>1. IngestionTypeOK /\ Sound(provenance) /\ Gathered(build[b])  BY Zenon DEF IngestionIInv
<1>2. /\ build[b] \in Runs /\ old \in Seq(Chunks) /\ documents \in Seq(Entries)
      /\ DOMAIN build[b] = {"do", "read", "chunks", "ids", "documents", "manifest"}
  BY <1>1, IngestionTypes
<1>3. build[b].do = "sections"  BY DEF ReadSections, Building
<1>4. /\ build[b].read \in Manifest /\ Len(documents) < Cardinality(Document)
      /\ Describes(documents, old)
  BY <1>1, <1>3 DEF Gathered, BuildSteps
<1>5. /\ manifest' \in Manifest \cup {Unreadable}
      /\ source' \in [Document -> Text \cup {Unreadable}] /\ edits' \in 0..MaxEdits
      /\ corpus' \in Corpora \cup {Empty, Garbled}
      /\ provenance' \in Provenances \cup {Empty, Garbled} /\ Sound(provenance')
      /\ load' = load
  BY <1>1, Zenon DEF IngestionTypeOK, InputsAndLoader, ReadSections
<1>6. CASE d \in build[b].read.refused \/ source[d] = Unreadable \/ source[d] = <<>>
  <2>1. Goes(b, "failed") /\ UNCHANGED <<corpus, provenance>> /\ UNCHANGED InputsAndLoader
    BY <1>6 DEF ReadSections, InputsAndLoader
  <2> QED  BY <2>1, RunEnds
<1>7. CASE ~(d \in build[b].read.refused \/ source[d] = Unreadable \/ source[d] = <<>>)
  <2>1. build' = [build EXCEPT ![b] = r]  BY <1>7 DEF ReadSections
  <2>2. d = Len(documents) + 1 /\ d \in Document /\ Len(documents) \in Nat
    BY <1>2, <1>4, IngestionAssumption, SMT DEF Current
  <2>3. source[d] \in Text  BY <1>1, <1>7, <2>2 DEF IngestionTypeOK
  <2>4. /\ own \in Seq(Chunks)
        /\ \A i \in DOMAIN own : /\ own[i].document = d /\ own[i].scopes = build[b].read.scopes
                                 /\ d \in build[b].read.published
    <3> HIDE DEF d
    <3> QED  BY <1>4, <2>2, <2>3, ChunksOfType
  <2>5. IdsOf(own) \in Seq(ChunkIds)  BY <2>4, IdsOfType
  <2>6. old \o own \in Seq(Chunks)
    <3> HIDE DEF old, own
    <3> QED  BY <1>2, <2>4, ConcatProperties
  <2>7. /\ r \in Runs /\ r.do = "digest" /\ r.read = build[b].read
        /\ r.chunks = old \o own /\ r.ids = IdsOf(own) /\ r.documents = documents
    <3>1. "digest" \in BuildSteps  BY DEF BuildSteps
    <3> DEFINE more == old \o own  ids == IdsOf(own)
    <3>2. more \in Seq(Chunks) /\ ids \in Seq(ChunkIds)  BY <2>5, <2>6
    <3> HIDE DEF more, ids
    <3>3. [build[b] EXCEPT !.do = "digest", !.ids = ids, !.chunks = more] \in Runs
      BY <1>2, <3>1, <3>2, RunWith
    <3>4. r = [build[b] EXCEPT !.do = "digest", !.ids = ids, !.chunks = more]
      BY DEF more, ids
    <3>5. r.do = "digest" /\ r.chunks = more /\ r.ids = ids  BY <1>2, <3>4
    <3>6. r.read = build[b].read /\ r.documents = documents  BY <1>2, <3>4
    <3> HIDE DEF r
    <3> QED  BY <3>3, <3>4, <3>5, <3>6 DEF more, ids
  <2>8. IdsOf(old \o own) = listed \o IdsOf(own)
    <3>1. IdsOf(old) = listed  BY <1>4 DEF Describes
    <3>2. IdsOf(old \o own) = IdsOf(old) \o IdsOf(own)
      <4> HIDE DEF old, own
      <4> QED  BY <1>2, <2>4, IdsOfConcat
    <3> QED  BY <3>1, <3>2
  <2>9. ASSUME NEW i \in DOMAIN (old \o own)
        PROVE  LET c == (old \o own)[i] IN
               \/ /\ c.document \in DOMAIN documents
                  /\ documents[c.document].published
                  /\ documents[c.document].scopes = c.scopes
               \/ /\ c.document = Len(documents) + 1
                  /\ c.document \in build[b].read.published
                  /\ c.scopes = build[b].read.scopes
    <3>1. \/ i \in DOMAIN old /\ (old \o own)[i] = old[i]
          \/ i - Len(old) \in DOMAIN own /\ (old \o own)[i] = own[i - Len(old)]
      <4>1. old \in Seq(Chunks) /\ own \in Seq(Chunks)  BY <1>2, <2>4
      <4> HIDE DEF old, own
      <4> QED  BY <4>1, SMT
    <3>2. \A j \in DOMAIN old : /\ old[j].document \in DOMAIN documents
                                /\ documents[old[j].document].published
                                /\ documents[old[j].document].scopes = old[j].scopes
      BY <1>4, Zenon DEF Describes
    <3> HIDE DEF old, own, documents, d
    <3> QED  BY <2>2, <2>4, <3>1, <3>2
  <2>10. Gathered(r)
    <3>1. Pending(r)
      <4> HIDE DEF r, old, own
      <4> QED  BY <2>7, <2>8, <2>9, Zenon DEF Pending
    <3> HIDE DEF r
    <3> QED  BY <1>4, <2>7, <3>1, SMT DEF Gathered
  <2> HIDE DEF r
  <2> QED  BY <1>5, <2>1, <2>7, <2>10, RunsOn
<1> QED  BY <1>6, <1>7

\* The entry of the document whose chunks are pending.
LEMMA DigestSourceStep ==
  ASSUME IngestionIInv, NEW b \in Builder, DigestSource(b)
  PROVE  IngestionIInv'
<1> DEFINE d == Current(b)  chunks == build[b].chunks  ids == build[b].ids
           documents == build[b].documents  read == build[b].read
           entry == [document |-> d, published |-> d \in read.published,
                     scopes |-> read.scopes, digest |-> source[d], chunkIds |-> ids]
           more == Append(documents, entry)
           next == IF d = Cardinality(Document) THEN "assemble" ELSE "sections"
           r == [build[b] EXCEPT !.do = next, !.documents = more]
<1>1. IngestionTypeOK /\ Sound(provenance) /\ Gathered(build[b])  BY Zenon DEF IngestionIInv
<1>2. /\ build[b] \in Runs /\ chunks \in Seq(Chunks) /\ ids \in Seq(ChunkIds)
      /\ documents \in Seq(Entries)
      /\ DOMAIN build[b] = {"do", "read", "chunks", "ids", "documents", "manifest"}
  BY <1>1, IngestionTypes
<1>3. build[b].do = "digest"  BY DEF DigestSource, Building
<1>4. read \in Manifest /\ Len(documents) < Cardinality(Document) /\ Pending(build[b])
  BY <1>1, <1>3 DEF Gathered
<1>5. /\ manifest' \in Manifest \cup {Unreadable}
      /\ source' \in [Document -> Text \cup {Unreadable}] /\ edits' \in 0..MaxEdits
      /\ corpus' \in Corpora \cup {Empty, Garbled}
      /\ provenance' \in Provenances \cup {Empty, Garbled} /\ Sound(provenance')
      /\ load' = load
  BY <1>1, Zenon DEF IngestionTypeOK, InputsAndLoader, DigestSource
<1>6. CASE source[d] = Unreadable
  <2>1. Goes(b, "failed") /\ UNCHANGED <<corpus, provenance>> /\ UNCHANGED InputsAndLoader
    BY <1>6 DEF DigestSource, InputsAndLoader
  <2> QED  BY <2>1, RunEnds
<1>7. CASE source[d] # Unreadable
  <2>1. build' = [build EXCEPT ![b] = r]  BY <1>7 DEF DigestSource
  <2>2. d = Len(documents) + 1 /\ d \in Document /\ Len(documents) \in Nat
    BY <1>2, <1>4, IngestionAssumption, SMT DEF Current
  <2>3. source[d] \in Text  BY <1>1, <1>7, <2>2 DEF IngestionTypeOK
  <2>4. entry \in Entries
    <3>1. read.scopes \in Scopes  BY <1>4 DEF Scopes
    <3> HIDE DEF d, read
    <3> QED  BY <1>2, <2>2, <2>3, <3>1, SMT DEF Entries
  <2>5. /\ entry.chunkIds = ids /\ entry.scopes = read.scopes
        /\ entry.published <=> d \in read.published
    OBVIOUS
  <2> HIDE DEF entry
  <2>6. /\ more \in Seq(Entries) /\ Len(more) = d /\ DOMAIN documents = 1..Len(documents)
        /\ DOMAIN more = 1..d /\ more[d] = entry
        /\ \A e \in DOMAIN documents : e \in DOMAIN more /\ more[e] = documents[e]
    <3> HIDE DEF documents, d
    <3> QED  BY <1>2, <2>2, <2>4, AppendProperties, LenProperties, SMT
  <2>7. /\ r \in Runs /\ r.do = next /\ r.read = read /\ r.chunks = chunks /\ r.documents = more
    <3>1. next \in BuildSteps  BY DEF BuildSteps
    <3> HIDE DEF more, next
    <3>2. r \in Runs  BY <1>2, <2>6, <3>1, RunWith
    <3>3. r.do = next /\ r.documents = more  BY <1>2
    <3>4. r.read = read /\ r.chunks = chunks  BY <1>2
    <3> HIDE DEF r
    <3> QED  BY <3>2, <3>3, <3>4
  <2>8. IdsOf(chunks) = FlattenSeq([e \in DOMAIN more |-> more[e].chunkIds])
    <3>1. FlattenSeq([e \in DOMAIN more |-> more[e].chunkIds])
            = FlattenSeq([e \in DOMAIN documents |-> documents[e].chunkIds]) \o ids
      <4>1. LET m == Append(documents, entry) IN
            FlattenSeq([e \in DOMAIN m |-> m[e].chunkIds])
              = FlattenSeq([e \in DOMAIN documents |-> documents[e].chunkIds]) \o entry.chunkIds
        <5> HIDE DEF documents, more
        <5> QED  BY <1>2, <2>4, ListedAppend
      <4> QED  BY <2>5, <4>1
    <3>2. IdsOf(chunks)
            = FlattenSeq([e \in DOMAIN documents |-> documents[e].chunkIds]) \o ids
      BY <1>4, Zenon DEF Pending
    <3> QED  BY <3>1, <3>2, Zenon
  <2>9. ASSUME NEW i \in DOMAIN chunks
        PROVE  LET e == chunks[i].document IN
               e \in DOMAIN more /\ more[e].published /\ more[e].scopes = chunks[i].scopes
    <3> DEFINE e == chunks[i].document
    <3>1. \/ /\ e \in DOMAIN documents /\ documents[e].published
             /\ documents[e].scopes = chunks[i].scopes
          \/ /\ e = Len(documents) + 1 /\ e \in read.published /\ chunks[i].scopes = read.scopes
      BY <1>4, Zenon DEF Pending
    <3>2. d \in DOMAIN more  BY <2>2, <2>6
    <3> HIDE DEF chunks, documents, read, more, d, r
    <3>3. CASE /\ e \in DOMAIN documents /\ documents[e].published
               /\ documents[e].scopes = chunks[i].scopes
      BY <2>6, <3>3
    <3>4. CASE /\ e = Len(documents) + 1 /\ e \in read.published /\ chunks[i].scopes = read.scopes
      <4>1. e = d /\ more[e] = entry  BY <2>2, <2>6, <3>4
      <4> QED  BY <2>5, <3>2, <3>4, <4>1
    <3> QED  BY <3>1, <3>3, <3>4
  <2>10. Describes(more, chunks)
    <3> HIDE DEF more, chunks, documents
    <3> QED  BY <2>8, <2>9, Zenon DEF Describes
  <2>11. next \in {"assemble", "sections"} /\ (next = "sections" => Len(more) < Cardinality(Document))
    <3>1. d # Cardinality(Document) => d < Cardinality(Document)
      BY <2>2, IngestionAssumption, SMT
    <3> HIDE DEF d, more
    <3> QED  BY <2>6, <3>1
  <2>12. Gathered(r)
    <3> HIDE DEF r, next, more, read, chunks
    <3> QED  BY <1>4, <2>7, <2>10, <2>11, SMT DEF Gathered
  <2> HIDE DEF r
  <2> QED  BY <1>5, <2>1, <2>7, <2>12, RunsOn
<1> QED  BY <1>6, <1>7

LEMMA AssembleStep ==
  ASSUME IngestionIInv, NEW b \in Builder, Assemble(b)
  PROVE  IngestionIInv'
<1> DEFINE next == IF Valid(build[b].chunks) THEN "open corpus" ELSE "failed"
           r == [build[b] EXCEPT !.do = next, !.manifest = manifest]
<1>1. IngestionTypeOK /\ Sound(provenance) /\ Gathered(build[b])  BY Zenon DEF IngestionIInv
<1>2. /\ build[b] \in Runs
      /\ DOMAIN build[b] = {"do", "read", "chunks", "ids", "documents", "manifest"}
  BY <1>1, IngestionTypes
<1>3. build[b].do = "assemble" /\ build' = [build EXCEPT ![b] = r]
  BY DEF Assemble, Building
<1>4. build[b].read \in Manifest /\ Describes(build[b].documents, build[b].chunks)
  BY <1>1, <1>3 DEF Gathered, BuildSteps
<1>5. next \in {"open corpus", "failed"} /\ next \in BuildSteps  BY DEF BuildSteps
<1> HIDE DEF next
<1>6. manifest \in Manifest \cup {Unreadable}  BY <1>1 DEF IngestionTypeOK
<1>7. r \in Runs  BY <1>2, <1>5, <1>6, RunWith
<1>8. r.do = next /\ r.read = build[b].read /\ r.chunks = build[b].chunks
      /\ r.documents = build[b].documents
  BY <1>2
<1> HIDE DEF r
<1>9. Gathered(r)
  <2>1. CASE next = "failed"  BY <1>8, <2>1 DEF Gathered
  <2>2. CASE next = "open corpus"  BY <1>4, <1>8, <2>2 DEF Gathered
  <2> QED  BY <1>5, <2>1, <2>2
<1>10. /\ manifest' \in Manifest \cup {Unreadable}
       /\ source' \in [Document -> Text \cup {Unreadable}] /\ edits' \in 0..MaxEdits
       /\ corpus' \in Corpora \cup {Empty, Garbled}
       /\ provenance' \in Provenances \cup {Empty, Garbled} /\ Sound(provenance')
       /\ load' = load
  BY <1>1, Zenon DEF IngestionTypeOK, InputsAndLoader, Assemble
<1> QED  BY <1>3, <1>7, <1>9, <1>10, RunsOn

\* The steps that write: what a run has gathered stays as it is.
LEMMA WritingStep ==
  ASSUME IngestionIInv, NEW b \in Builder,
         NEW from \in BuildSteps \ {"manifest", "sections", "digest", "failed"}, Building(b, from),
         NEW next \in BuildSteps \ {"manifest", "sections", "digest"}, Goes(b, next),
         UNCHANGED InputsAndLoader, corpus' \in Corpora \cup {Empty, Garbled},
         provenance' \in Provenances \cup {Empty, Garbled}, Sound(provenance')
  PROVE  IngestionIInv'
<1> DEFINE r == [build[b] EXCEPT !.do = next]
<1>1. IngestionTypeOK /\ Gathered(build[b])  BY Zenon DEF IngestionIInv
<1>2. /\ build' = [build EXCEPT ![b] = r] /\ r \in Runs /\ r.do = next
      /\ r.read = build[b].read /\ r.chunks = build[b].chunks /\ r.documents = build[b].documents
  BY <1>1, GoesTo
<1>3. build[b].read \in Manifest /\ Describes(build[b].documents, build[b].chunks)
  BY <1>1 DEF Gathered, Building
<1> HIDE DEF r
<1>4. Gathered(r)  BY <1>2, <1>3, SMT DEF Gathered
<1>5. /\ manifest' \in Manifest \cup {Unreadable}
      /\ source' \in [Document -> Text \cup {Unreadable}] /\ edits' \in 0..MaxEdits
      /\ load' = load
  BY <1>1, Zenon DEF IngestionTypeOK, InputsAndLoader
<1> QED  BY <1>2, <1>4, <1>5, RunsOn

\* What a run that writes puts into the two files.
LEMMA WrittenType ==
  ASSUME IngestionIInv, NEW b \in Builder,
         NEW from \in BuildSteps \ {"manifest", "sections", "digest", "failed"}, Building(b, from)
  PROVE  /\ CorpusOf(b) \in Corpora
         /\ ProvenanceOf(b) \in Provenances
         /\ Sound(ProvenanceOf(b))
<1>1. IngestionTypeOK /\ Gathered(build[b])  BY Zenon DEF IngestionIInv
<1>2. build[b].read \in Manifest /\ Describes(build[b].documents, build[b].chunks)
  BY <1>1 DEF Gathered, Building
<1>3. build[b].read.release \in Releases  BY <1>2 DEF Releases
<1>4. /\ build[b].chunks \in Seq(Chunks) /\ build[b].documents \in Seq(Entries)
      /\ build[b].manifest \in Manifest \cup {Unreadable}
  BY <1>1, IngestionTypes
<1>5. CorpusOf(b) \in Corpora  BY <1>3, <1>4, SMT DEF CorpusOf, Corpora
<1>6. ProvenanceOf(b) \in Provenances  BY <1>3, <1>4, <1>5, SMT DEF ProvenanceOf, Provenances
<1>7. /\ ProvenanceOf(b).documents = build[b].documents
      /\ ProvenanceOf(b).checksum = build[b].chunks
  BY DEF ProvenanceOf
<1>8. Sound(ProvenanceOf(b))  BY <1>2, <1>7, Zenon DEF Sound
<1> QED  BY <1>5, <1>6, <1>8

\* A file that is filled has its content, or is no JSON.
LEMMA FilledWith ==
  ASSUME NEW old, NEW content, NEW written \in Filled(old, content)
  PROVE  written \in {content, Garbled}
BY Zenon DEF Filled

LEMMA OpenCorpusStep ==
  ASSUME IngestionIInv, NEW b \in Builder, OpenCorpus(b)
  PROVE  IngestionIInv'
<1>1. provenance \in Provenances \cup {Empty, Garbled} /\ Sound(provenance)
  BY Zenon DEF IngestionIInv, IngestionTypeOK
<1>2. /\ "open corpus" \in BuildSteps \ {"manifest", "sections", "digest", "failed"}
      /\ "fill corpus" \in BuildSteps \ {"manifest", "sections", "digest"}
  BY DEF BuildSteps
<1>3. /\ Building(b, "open corpus") /\ Goes(b, "fill corpus") /\ UNCHANGED InputsAndLoader
      /\ corpus' = Empty /\ provenance' = provenance
  BY Zenon DEF OpenCorpus, InputsAndLoader
<1>4. corpus' \in Corpora \cup {Empty, Garbled}  BY <1>3
<1>5. provenance' \in Provenances \cup {Empty, Garbled} /\ Sound(provenance')  BY <1>1, <1>3
<1> QED  BY <1>2, <1>3, <1>4, <1>5, WritingStep

LEMMA FillCorpusStep ==
  ASSUME IngestionIInv, NEW b \in Builder, FillCorpus(b)
  PROVE  IngestionIInv'
<1>1. provenance \in Provenances \cup {Empty, Garbled} /\ Sound(provenance)
  BY Zenon DEF IngestionIInv, IngestionTypeOK
<1>2. /\ "fill corpus" \in BuildSteps \ {"manifest", "sections", "digest", "failed"}
      /\ "open provenance" \in BuildSteps \ {"manifest", "sections", "digest"}
  BY DEF BuildSteps
<1>3. /\ Building(b, "fill corpus") /\ Goes(b, "open provenance") /\ UNCHANGED InputsAndLoader
      /\ corpus' \in Filled(corpus, CorpusOf(b)) /\ provenance' = provenance
  BY Zenon DEF FillCorpus, InputsAndLoader
<1>4. corpus' \in Corpora \cup {Empty, Garbled}
  <2>1. CorpusOf(b) \in Corpora  BY <1>2, <1>3, WrittenType
  <2>2. corpus' \in {CorpusOf(b), Garbled}  BY <1>3, FilledWith
  <2> QED  BY <2>1, <2>2
<1>5. provenance' \in Provenances \cup {Empty, Garbled} /\ Sound(provenance')  BY <1>1, <1>3
<1> QED  BY <1>2, <1>3, <1>4, <1>5, WritingStep

LEMMA OpenProvenanceStep ==
  ASSUME IngestionIInv, NEW b \in Builder, OpenProvenance(b)
  PROVE  IngestionIInv'
<1>1. corpus \in Corpora \cup {Empty, Garbled}  BY Zenon DEF IngestionIInv, IngestionTypeOK
<1>2. /\ "open provenance" \in BuildSteps \ {"manifest", "sections", "digest", "failed"}
      /\ "fill provenance" \in BuildSteps \ {"manifest", "sections", "digest"}
  BY DEF BuildSteps
<1>3. /\ Building(b, "open provenance") /\ Goes(b, "fill provenance")
      /\ UNCHANGED InputsAndLoader /\ provenance' = Empty /\ corpus' = corpus
  BY Zenon DEF OpenProvenance, InputsAndLoader
<1>4. corpus' \in Corpora \cup {Empty, Garbled}  BY <1>1, <1>3
<1>5. provenance' \in Provenances \cup {Empty, Garbled} /\ Sound(provenance')
  BY <1>3 DEF Sound, IsJson
<1> QED  BY <1>2, <1>3, <1>4, <1>5, WritingStep

LEMMA FillProvenanceStep ==
  ASSUME IngestionIInv, NEW b \in Builder, FillProvenance(b)
  PROVE  IngestionIInv'
<1>1. corpus \in Corpora \cup {Empty, Garbled}  BY Zenon DEF IngestionIInv, IngestionTypeOK
<1>2. /\ "fill provenance" \in BuildSteps \ {"manifest", "sections", "digest", "failed"}
      /\ "done" \in BuildSteps \ {"manifest", "sections", "digest"}
  BY DEF BuildSteps
<1>3. /\ Building(b, "fill provenance") /\ Goes(b, "done") /\ UNCHANGED InputsAndLoader
      /\ provenance' \in Filled(provenance, ProvenanceOf(b)) /\ corpus' = corpus
  BY Zenon DEF FillProvenance, InputsAndLoader
<1>4. corpus' \in Corpora \cup {Empty, Garbled}  BY <1>1, <1>3
<1>5. provenance' \in Provenances \cup {Empty, Garbled} /\ Sound(provenance')
  <2>1. ProvenanceOf(b) \in Provenances /\ Sound(ProvenanceOf(b))  BY <1>2, <1>3, WrittenType
  <2>2. provenance' = ProvenanceOf(b) \/ provenance' = Garbled
    <3>1. provenance' \in {ProvenanceOf(b), Garbled}  BY <1>3, FilledWith
    <3> QED  BY <3>1
  <2>3. Sound(Garbled)  BY DEF Sound, IsJson
  <2> QED  BY <2>1, <2>2, <2>3
<1> QED  BY <1>2, <1>3, <1>4, <1>5, WritingStep

LEMMA StopStep ==
  ASSUME IngestionIInv, NEW b \in Builder, Stop(b)
  PROVE  IngestionIInv'
<1>1. Goes(b, "failed") /\ UNCHANGED <<corpus, provenance>> /\ UNCHANGED InputsAndLoader
  BY Zenon DEF Stop, InputsAndLoader
<1> QED  BY <1>1, RunEnds

\* The operator changes the inputs only.
LEMMA EditStep ==
  ASSUME IngestionIInv, edits < MaxEdits, edits' = edits + 1,
         manifest' \in Manifest \cup {Unreadable},
         source' \in [Document -> Text \cup {Unreadable}],
         UNCHANGED <<build, corpus, provenance, load>>
  PROVE  IngestionIInv'
<1>1. edits' \in 0..MaxEdits
  <2>1. edits \in 0..MaxEdits  BY Zenon DEF IngestionIInv, IngestionTypeOK
  <2> QED  BY <2>1, IngestionAssumption, SMT
<1>2. IngestionTypeOK'  BY <1>1, Zenon DEF IngestionIInv, IngestionTypeOK
<1>3. (\A b \in Builder : Gathered(build[b]))' /\ Sound(provenance)'
  BY Zenon DEF IngestionIInv
<1>4. Loaded'  BY Zenon DEF IngestionIInv, Loaded
<1> QED  BY <1>2, <1>3, <1>4, Zenon DEF IngestionIInv

LEMMA EditManifestStep == IngestionIInv /\ EditManifest => IngestionIInv'
<1> SUFFICES ASSUME IngestionIInv, EditManifest PROVE IngestionIInv'  OBVIOUS
<1>1. source \in [Document -> Text \cup {Unreadable}]  BY Zenon DEF IngestionIInv, IngestionTypeOK
<1>2. /\ edits < MaxEdits /\ edits' = edits + 1 /\ manifest' \in Manifest \cup {Unreadable}
      /\ source' = source /\ UNCHANGED <<build, corpus, provenance, load>>
  BY DEF EditManifest
<1>3. source' \in [Document -> Text \cup {Unreadable}]  BY <1>1, <1>2
<1> QED  BY <1>2, <1>3, EditStep

LEMMA EditSourceStep ==
  ASSUME IngestionIInv, NEW d \in Document, EditSource(d)
  PROVE  IngestionIInv'
<1>1. /\ source \in [Document -> Text \cup {Unreadable}]
      /\ manifest \in Manifest \cup {Unreadable}
  BY Zenon DEF IngestionIInv, IngestionTypeOK
<1>2. /\ edits < MaxEdits /\ edits' = edits + 1 /\ manifest' = manifest
      /\ UNCHANGED <<build, corpus, provenance, load>>
  BY Zenon DEF EditSource
<1>3. source' \in [Document -> Text \cup {Unreadable}]
  <2>1. PICK text \in (Text \cup {Unreadable}) \ {source[d]} :
          source' = [source EXCEPT ![d] = text]
    BY Zenon DEF EditSource
  <2> QED  BY <1>1, <2>1
<1>4. manifest' \in Manifest \cup {Unreadable}  BY <1>1, <1>2
<1> QED  BY <1>2, <1>3, <1>4, EditStep

\* A step of the loader, which changes nothing else.
LEMMA LoaderStep ==
  ASSUME IngestionIInv, UNCHANGED InputsAndFiles, Loaded',
         load' \in [do : LoadSteps, corpus : Corpora \cup {Empty, Garbled},
                    provenance : Provenances \cup {Empty, Garbled}]
  PROVE  IngestionIInv'
<1>1. UNCHANGED <<manifest, source, edits, build, corpus, provenance>>
  BY Zenon DEF InputsAndFiles
<1>2. IngestionTypeOK'  BY <1>1, Zenon DEF IngestionIInv, IngestionTypeOK
<1>3. (\A b \in Builder : Gathered(build[b]))' /\ Sound(provenance)'
  BY <1>1, Zenon DEF IngestionIInv
<1> QED  BY <1>2, <1>3, Zenon DEF IngestionIInv

LEMMA LoadTypes ==
  ASSUME IngestionIInv
  PROVE  /\ DOMAIN load = {"do", "corpus", "provenance"}
         /\ load \in [do : LoadSteps, corpus : Corpora \cup {Empty, Garbled},
                      provenance : Provenances \cup {Empty, Garbled}]
         /\ corpus \in Corpora \cup {Empty, Garbled}
         /\ provenance \in Provenances \cup {Empty, Garbled}
         /\ Sound(provenance) /\ Loaded
<1>1. load \in [do : LoadSteps, corpus : Corpora \cup {Empty, Garbled},
                provenance : Provenances \cup {Empty, Garbled}]
  BY Zenon DEF IngestionIInv, IngestionTypeOK
<1>2. DOMAIN load = {"do", "corpus", "provenance"}  BY <1>1
<1> QED  BY <1>1, <1>2, Zenon DEF IngestionIInv, IngestionTypeOK

LEMMA ReadCorpusStep == IngestionIInv /\ ReadCorpus => IngestionIInv'
<1> SUFFICES ASSUME IngestionIInv, ReadCorpus PROVE IngestionIInv'  OBVIOUS
<1> DEFINE next == IF IsJson(corpus) THEN "provenance" ELSE "refused"
<1>1. corpus \in Corpora \cup {Empty, Garbled}  BY LoadTypes
<1>2. load' = [do |-> next, corpus |-> corpus, provenance |-> Garbled]
  BY Zenon DEF ReadCorpus
<1>3. next \in {"provenance", "refused"} /\ next \in LoadSteps
      /\ (next = "provenance" => IsJson(corpus))
  BY DEF LoadSteps
<1> HIDE DEF next
<1>4. load'.do = next /\ load'.corpus = corpus  BY <1>2
<1>5. load' \in [do : LoadSteps, corpus : Corpora \cup {Empty, Garbled},
                 provenance : Provenances \cup {Empty, Garbled}]
  BY <1>1, <1>2, <1>3
<1>6. Loaded'  BY <1>3, <1>4 DEF Loaded
<1>7. UNCHANGED InputsAndFiles  BY Zenon DEF ReadCorpus
<1> QED  BY <1>5, <1>6, <1>7, LoaderStep

LEMMA ReadProvenanceStep == IngestionIInv /\ ReadProvenance => IngestionIInv'
<1> SUFFICES ASSUME IngestionIInv, ReadProvenance PROVE IngestionIInv'  OBVIOUS
<1> DEFINE next == IF IsJson(provenance) THEN "digest" ELSE "refused"
<1>1. /\ load \in [do : LoadSteps, corpus : Corpora \cup {Empty, Garbled},
                   provenance : Provenances \cup {Empty, Garbled}]
      /\ DOMAIN load = {"do", "corpus", "provenance"}
      /\ provenance \in Provenances \cup {Empty, Garbled} /\ Sound(provenance) /\ Loaded
  BY LoadTypes
<1>2. load' = [load EXCEPT !.do = next, !.provenance = provenance] /\ load.do = "provenance"
  BY Zenon DEF ReadProvenance
<1>3. next \in {"digest", "refused"} /\ next \in LoadSteps
      /\ (next = "digest" => IsJson(provenance))
  BY DEF LoadSteps
<1> HIDE DEF next
<1>4. load'.do = next /\ load'.provenance = provenance /\ load'.corpus = load.corpus
  BY <1>1, <1>2
<1>5. load' \in [do : LoadSteps, corpus : Corpora \cup {Empty, Garbled},
                 provenance : Provenances \cup {Empty, Garbled}]
  <2> DEFINE C == Corpora \cup {Empty, Garbled}  P == Provenances \cup {Empty, Garbled}
  <2> HIDE DEF C, P
  <2>1. load \in [do : LoadSteps, corpus : C, provenance : P] /\ provenance \in P
    BY <1>1 DEF C, P
  <2>2. load' \in [do : LoadSteps, corpus : C, provenance : P]  BY <1>2, <1>3, <2>1
  <2> QED  BY <2>2 DEF C, P
<1>6. IsJson(load.corpus)  BY <1>1, <1>2 DEF Loaded
<1>7. Loaded'  BY <1>1, <1>3, <1>4, <1>6 DEF Loaded
<1>8. UNCHANGED InputsAndFiles  BY Zenon DEF ReadProvenance
<1> QED  BY <1>5, <1>7, <1>8, LoaderStep

\* What matches is what was parsed: release and checksum are compared with it, the
\* digest with the file.
LEMMA CheckDigestStep == IngestionIInv /\ CheckDigest => IngestionIInv'
<1> SUFFICES ASSUME IngestionIInv, CheckDigest PROVE IngestionIInv'  OBVIOUS
<1> DEFINE next == IF Matches(load.provenance, load.corpus, corpus) THEN "accepted" ELSE "refused"
<1>1. /\ load \in [do : LoadSteps, corpus : Corpora \cup {Empty, Garbled},
                   provenance : Provenances \cup {Empty, Garbled}]
      /\ DOMAIN load = {"do", "corpus", "provenance"} /\ Loaded
  BY LoadTypes
<1>2. load' = [load EXCEPT !.do = next] /\ load.do = "digest"
  BY Zenon DEF CheckDigest
<1>3. next \in {"accepted", "refused"} /\ next \in LoadSteps
      /\ (next = "accepted" => /\ load.provenance.release = load.corpus.release
                               /\ load.provenance.checksum = load.corpus.chunks)
  BY DEF LoadSteps, Matches
<1> HIDE DEF next
<1>4. load'.do = next /\ load'.provenance = load.provenance /\ load'.corpus = load.corpus
  BY <1>1, <1>2
<1>5. load' \in [do : LoadSteps, corpus : Corpora \cup {Empty, Garbled},
                 provenance : Provenances \cup {Empty, Garbled}]
  <2> DEFINE C == Corpora \cup {Empty, Garbled}  P == Provenances \cup {Empty, Garbled}
  <2> HIDE DEF C, P
  <2>1. load \in [do : LoadSteps, corpus : C, provenance : P]  BY <1>1 DEF C, P
  <2>2. load' \in [do : LoadSteps, corpus : C, provenance : P]  BY <1>2, <1>3, <2>1
  <2> QED  BY <2>2 DEF C, P
<1>6. IsJson(load.corpus) /\ IsJson(load.provenance) /\ Sound(load.provenance)
  BY <1>1, <1>2 DEF Loaded
<1>7. Loaded'  BY <1>3, <1>4, <1>6 DEF Loaded
<1>8. UNCHANGED InputsAndFiles  BY Zenon DEF CheckDigest
<1> QED  BY <1>5, <1>7, <1>8, LoaderStep

LEMMA IngestionInvariance == IngestionIInv /\ [IngestionNext]_ingestionVars => IngestionIInv'
<1> SUFFICES ASSUME IngestionIInv, [IngestionNext]_ingestionVars PROVE IngestionIInv'  OBVIOUS
<1>1. CASE EditManifest  BY <1>1, EditManifestStep
<1>2. ASSUME NEW d \in Document, EditSource(d) PROVE IngestionIInv'  BY <1>2, EditSourceStep
<1>3. ASSUME NEW b \in Builder, LoadManifest(b) PROVE IngestionIInv'  BY <1>3, LoadManifestStep
<1>4. ASSUME NEW b \in Builder, ReadSections(b) PROVE IngestionIInv'  BY <1>4, ReadSectionsStep
<1>5. ASSUME NEW b \in Builder, DigestSource(b) PROVE IngestionIInv'  BY <1>5, DigestSourceStep
<1>6. ASSUME NEW b \in Builder, Assemble(b) PROVE IngestionIInv'  BY <1>6, AssembleStep
<1>7. ASSUME NEW b \in Builder, OpenCorpus(b) PROVE IngestionIInv'  BY <1>7, OpenCorpusStep
<1>8. ASSUME NEW b \in Builder, FillCorpus(b) PROVE IngestionIInv'  BY <1>8, FillCorpusStep
<1>9. ASSUME NEW b \in Builder, OpenProvenance(b) PROVE IngestionIInv'
  BY <1>9, OpenProvenanceStep
<1>10. ASSUME NEW b \in Builder, FillProvenance(b) PROVE IngestionIInv'
  BY <1>10, FillProvenanceStep
<1>11. ASSUME NEW b \in Builder, Stop(b) PROVE IngestionIInv'  BY <1>11, StopStep
<1>12. CASE ReadCorpus  BY <1>12, ReadCorpusStep
<1>13. CASE ReadProvenance  BY <1>13, ReadProvenanceStep
<1>14. CASE CheckDigest  BY <1>14, CheckDigestStep
<1>15. CASE UNCHANGED ingestionVars
  <2>1. UNCHANGED <<manifest, source, edits, build, corpus, provenance, load>>
    BY <1>15 DEF ingestionVars
  <2>2. IngestionTypeOK'  BY <2>1, Zenon DEF IngestionIInv, IngestionTypeOK
  <2>3. (\A b \in Builder : Gathered(build[b]))' /\ Sound(provenance)'
    BY <2>1, Zenon DEF IngestionIInv
  <2>4. Loaded'  BY <2>1, Zenon DEF IngestionIInv, Loaded
  <2> QED  BY <2>2, <2>3, <2>4, Zenon DEF IngestionIInv
<1> QED
  BY <1>1, <1>2, <1>3, <1>4, <1>5, <1>6, <1>7, <1>8, <1>9, <1>10, <1>11, <1>12, <1>13, <1>14,
     <1>15, Zenon DEF IngestionNext

\* The types of the command and the loader hold in every state.
THEOREM IngestionTypeCorrect == IngestionSpec => []IngestionTypeOK
<1>1. IngestionIInv => IngestionTypeOK  BY Zenon DEF IngestionIInv
<1> QED  BY <1>1, IngestionInitIInv, IngestionInvariance, PTL DEF IngestionSpec

\* What the loader accepts is one build: release, chunks and their order, and scopes are
\* as the provenance says, however many runs wrote the two files while inputs changed.
THEOREM AcceptsOneBuild == IngestionSpec => []AcceptedIsOneBuild
<1>1. IngestionIInv => AcceptedIsOneBuild
  <2> SUFFICES ASSUME IngestionIInv, load.do = "accepted" PROVE
        /\ load.corpus.release = load.provenance.release
        /\ Describes(load.provenance.documents, load.corpus.chunks)
    BY Zenon DEF AcceptedIsOneBuild
  <2>1. /\ load.provenance.release = load.corpus.release
        /\ load.provenance.checksum = load.corpus.chunks
        /\ IsJson(load.provenance) /\ Sound(load.provenance)
    BY LoadTypes DEF Loaded
  <2> QED  BY <2>1 DEF Sound
<1> QED  BY <1>1, IngestionInitIInv, IngestionInvariance, PTL DEF IngestionSpec
=============================================================================
