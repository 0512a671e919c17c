-------------------------- MODULE LiveRetrievalProofs --------------------------
(***************************************************************************)
(* Proofs about LiveRetrieval and the ArtifactStore under it, for any      *)
(* numbers of processes, requests, operators, corpora and artifacts.       *)
(***************************************************************************)
EXTENDS LiveRetrieval, SequenceTheorems, TLAPS

----------------------------------------------------------------------------
(* The inductive invariant. *)

\* What a pointer, written or still to be written, names when the artifacts d are on
\* disk: artifacts are never removed, so that it holds until the pointer is replaced,
\* and an editor's own pointer is whole whatever he read it from has become.
Whole(q, d) ==
  /\ q \in Pointer
  /\ q.active \in d
  /\ q.previous # None => q.previous \in d
  /\ q.active # q.previous

StoreInv ==
  /\ StoreTypeOK
  /\ pointer # None => Whole(pointer, artifacts)
  /\ \A e \in Editor : edit[e] # None => Whole(edit[e], artifacts)

\* An artifact that is loaded for a corpus has the rows of that corpus.
Matches(a, c) == a # None => CorpusOf[a] = c

SnapshotsInv ==
  /\ snapshots \in [Process -> Seq(Snapshot)]
  /\ \A p \in Process :
       /\ Len(snapshots[p]) \in 1 .. MaxSnapshots
       /\ \A i \in 1 .. Len(snapshots[p]) :
            Matches(snapshots[p][i].artifact, snapshots[p][i].corpus)

ReloadPlace == {"idle", "started", "read", "checked", "loaded"}

\* What a reload in place w has read.
Reading(w) ==
  /\ w \in [at : ReloadPlace, corpus : Corpus \cup {None}, artifact : Artifact \cup {None}]
  /\ w.at \in {"read", "checked", "loaded"} => w.corpus \in Corpus
  /\ w.at = "loaded" => Matches(w.artifact, w.corpus)

ReloadInv ==
  /\ reload \in [Process -> [at : ReloadPlace, corpus : Corpus \cup {None},
                             artifact : Artifact \cup {None}]]
  /\ \A p \in Process : Reading(reload[p])

Stage == {"new"} \cup Awaiting \cup Blocking \cup Ended

\* A request in stage st that names corpus c and took snapshot h of s has evidence v
\* from c alone, and while it is under way the snapshot it took is one of c.
Local(st, c, h, v, s) ==
  /\ h \in 0 .. Len(s)
  /\ v \subseteq {c} \cap Corpus
  /\ st = "new" => v = {}
  /\ st \in Awaiting \cup Blocking => h \in 1 .. Len(s) /\ s[h].corpus = c
  /\ st = "embedding" => s[h].artifact # None

RequestsInv ==
  /\ stage \in [Request -> Stage]
  /\ access \in [Request -> Corpus \cup {None}]
  /\ held \in [Request -> Nat]
  /\ evidence \in [Request -> SUBSET Corpus]
  /\ \A r \in Request :
       Local(stage[r], access[r], held[r], evidence[r], snapshots[ProcessOf[r]])

FilesInv == corpusFile \in Corpus /\ provenanceFile \in Corpus

IInv ==
  /\ StoreInv
  /\ FilesInv
  /\ SnapshotsInv
  /\ ReloadInv
  /\ ready \in [Process -> Readiness]
  /\ RequestsInv

\* What the steps need of the constants.
LEMMA LiveConstants ==
  /\ Operator \subseteq Editor /\ Request \subseteq Editor
  /\ \A r \in Request : ProcessOf[r] \in Process
  /\ \A c \in Corpus : BuiltFor[c] \in Artifact /\ CorpusOf[BuiltFor[c]] = c
  /\ None \notin Artifact
  /\ MaxSnapshots \in Nat /\ MaxSnapshots > 0
  BY LiveAssumption, StoreAssumption

\* Initially nothing is loaded and nothing is pointed at.
LEMMA InitIInv == Init => IInv
  <1> SUFFICES ASSUME Init PROVE IInv
    OBVIOUS
  <1>1. StoreInv
    BY DEF Init, StoreInit, StoreInv, StoreTypeOK
  <1>2. FilesInv
    BY DEF Init, FilesInv
  <1>3. SnapshotsInv
    <2> DEFINE first == [corpus |-> corpusFile, artifact |-> None]
    <2>1. first \in Snapshot /\ first.artifact = None
      BY DEF Init, Snapshot
    <2>2. ASSUME NEW x \in Snapshot
          PROVE  <<x>> \in Seq(Snapshot) /\ Len(<<x>>) = 1 /\ <<x>>[1] = x
      BY <2>2
    <2>3. \A p \in Process : snapshots[p] = <<first>>
      BY DEF Init
    <2>5. snapshots \in [Process -> Seq(Snapshot)]
      BY <2>1, <2>2 DEF Init
    <2> HIDE DEF first
    <2>4. \A p \in Process : Len(snapshots[p]) = 1 /\ snapshots[p][1].artifact = None
      BY <2>1, <2>2, <2>3
    <2>6. ASSUME NEW p \in Process
          PROVE  /\ Len(snapshots[p]) \in 1 .. MaxSnapshots
                 /\ \A i \in 1 .. Len(snapshots[p]) : i = 1
      <3>1. Len(snapshots[p]) = 1
        BY <2>4
      <3>2. 1 \in 1 .. MaxSnapshots /\ \A i \in 1 .. 1 : i = 1
        BY LiveConstants
      <3> QED BY <3>1, <3>2
    <2>7. ASSUME NEW p \in Process, NEW i \in 1 .. Len(snapshots[p])
          PROVE  Matches(snapshots[p][i].artifact, snapshots[p][i].corpus)
      BY <2>4, <2>6 DEF Matches
    <2> QED BY <2>5, <2>6, <2>7 DEF SnapshotsInv
  <1>4. ReloadInv
    BY DEF Init, ReloadInv, Reading, ReloadPlace, Idle
  <1>5. ready \in [Process -> Readiness]
    BY DEF Init, Readiness
  <1>6. RequestsInv
    <2>1. \A r \in Request : Len(snapshots[ProcessOf[r]]) \in Nat
      BY <1>3, LiveAssumption DEF SnapshotsInv
    <2>2. \A r \in Request : Local("new", None, 0, {}, snapshots[ProcessOf[r]])
      BY <2>1 DEF Local, Awaiting, Blocking
    <2> QED BY <2>2 DEF Init, RequestsInv, Stage
  <1> QED BY <1>1, <1>2, <1>3, <1>4, <1>5, <1>6 DEF IInv

----------------------------------------------------------------------------
(* The store. *)

\* What is whole stays whole while artifacts are added.
LEMMA StillWhole ==
  ASSUME NEW q, NEW d, NEW e, Whole(q, d), d \subseteq e
  PROVE  Whole(q, e)
  BY DEF Whole

\* Artifacts are added, and one editor computes a whole pointer or drops his.
LEMMA Computes ==
  ASSUME StoreInv, NEW e \in Editor, NEW q,
         q = None \/ Whole(q, artifacts'),
         edit' = [edit EXCEPT ![e] = q] \/ edit' = edit,
         artifacts \subseteq artifacts', artifacts' \subseteq Artifact,
         pointer' = pointer
  PROVE  StoreInv'
  <1>1. StoreTypeOK'
    BY DEF StoreInv, StoreTypeOK, Whole
  <1>2. pointer' # None => Whole(pointer', artifacts')
    BY StillWhole DEF StoreInv
  <1>3. ASSUME NEW f \in Editor, edit'[f] # None
        PROVE  Whole(edit'[f], artifacts')
    <2>1. CASE edit'[f] = q
      BY <1>3, <2>1
    <2>2. CASE edit'[f] = edit[f]
      BY <1>3, <2>2, StillWhole DEF StoreInv
    <2> QED BY <2>1, <2>2 DEF StoreInv, StoreTypeOK
  <1> QED BY <1>1, <1>2, <1>3 DEF StoreInv

\* activate computes a whole pointer from whatever pointer it reads.
LEMMA ActivationIsWhole ==
  ASSUME StoreInv, NEW a \in Artifact, NEW d, a \in d, artifacts \subseteq d,
         pointer # None => pointer.active # a
  PROVE  Whole(Activation(a), d)
  <1>1. CASE pointer = None
    BY <1>1, StoreAssumption DEF Whole, Activation, Pointer
  <1>2. CASE pointer # None
    <2>1. pointer.active \in artifacts /\ pointer.active \in Artifact
      BY <1>2 DEF StoreInv, StoreTypeOK, Whole, Pointer
    <2> QED BY <1>2, <2>1 DEF Whole, Activation, Pointer
  <1> QED BY <1>1, <1>2

LEMMA ReplaceKeeps ==
  ASSUME StoreInv, NEW e \in Editor, Replace(e)
  PROVE  StoreInv'
  <1>1. Whole(edit[e], artifacts)
    BY DEF StoreInv, Replace
  <1>2. StoreTypeOK'
    BY <1>1 DEF StoreInv, StoreTypeOK, Replace, Whole
  <1>3. Whole(pointer', artifacts')
    BY <1>1 DEF Replace
  <1>4. ASSUME NEW f \in Editor, edit'[f] # None
        PROVE  Whole(edit'[f], artifacts')
    BY <1>4 DEF StoreInv, StoreTypeOK, Replace
  <1> QED BY <1>2, <1>3, <1>4 DEF StoreInv

\* What an operator does to the store.
LEMMA OperatorKeeps ==
  ASSUME StoreInv, NEW o \in Operator, Manage(o)
  PROVE  StoreInv'
  <1>0. o \in Editor /\ Artifact \subseteq Artifact
    BY LiveAssumption
  <1>1. ASSUME NEW a \in Artifact, Build(a)
        PROVE  StoreInv'
    <2>1. artifacts \subseteq artifacts' /\ artifacts' \subseteq Artifact
      BY <1>1 DEF Build, StoreInv, StoreTypeOK
    <2> QED BY <1>0, <1>1, <2>1, Computes DEF Build
  <1>2. ASSUME NEW a \in Artifact, NEW c \in Corpus, ReadToActivate(o, a, c)
        PROVE  StoreInv'
    <2>1. Whole(Activation(a), artifacts)
      BY <1>2, ActivationIsWhole DEF ReadToActivate, Loadable
    <2>2. artifacts \subseteq Artifact
      BY DEF StoreInv, StoreTypeOK
    <2> QED BY <1>0, <1>2, <2>1, <2>2, Computes DEF ReadToActivate
  <1>3. ASSUME NEW c \in Corpus, ReadToRollBack(o, c)
        PROVE  StoreInv'
    <2>1. Whole(pointer, artifacts)
      BY <1>3 DEF StoreInv, ReadToRollBack
    <2>2. Whole(Reversal, artifacts)
      BY <1>3, <2>1 DEF Whole, Reversal, Pointer, ReadToRollBack
    <2>3. artifacts \subseteq Artifact
      BY DEF StoreInv, StoreTypeOK
    <2> QED BY <1>0, <1>3, <2>2, <2>3, Computes DEF ReadToRollBack
  <1>4. ASSUME Replace(o) PROVE StoreInv'
    BY <1>0, <1>4, ReplaceKeeps
  <1>5. ASSUME Abandon(o) PROVE StoreInv'
    <2>1. artifacts \subseteq Artifact
      BY DEF StoreInv, StoreTypeOK
    <2> QED BY <1>0, <1>5, <2>1, Computes DEF Abandon
  <1> QED BY <1>1, <1>2, <1>3, <1>4, <1>5 DEF Manage

----------------------------------------------------------------------------
(* Requests. *)

\* The store as a step leaves it that does not touch it.
LEMMA StoreSame ==
  ASSUME IInv, UNCHANGED store
  PROVE  StoreInv'
  BY DEF IInv, StoreInv, StoreTypeOK, store, Whole

\* What readiness a step may observe.
LEMMA Observes ==
  ASSUME IInv, NEW p \in Process, NEW x,
         \/ x \in {RetrievalFailure(p), RetrievalSuccess(p)}
         \/ \E i \in {"up", "artifact", "vector"} : x = IndexFailure(p, i)
         \/ \E b \in BOOLEAN : x = [ready[p] EXCEPT !.generation = b],
         Observe(p, x)
  PROVE  ready' \in [Process -> Readiness]
  <1>1. ready \in [Process -> Readiness] /\ ready[p] \in Readiness
    BY DEF IInv
  <1>2. x \in Readiness
    BY <1>1 DEF RetrievalFailure, RetrievalSuccess, IndexFailure, Readiness
  <1> QED BY <1>1, <1>2 DEF Observe

\* A request moves on with the snapshot it took; the others stay.
LEMMA Moves ==
  ASSUME IInv, NEW r \in Request, NEW st \in Stage, NEW v \in SUBSET Corpus,
         Goto(r, st),
         evidence' = [evidence EXCEPT ![r] = v],
         UNCHANGED <<files, snapshots, reload, asked>>,
         StoreInv', ready' \in [Process -> Readiness],
         Local(st, access[r], held[r], v, snapshots[ProcessOf[r]])
  PROVE  IInv'
  <1>1. FilesInv' /\ SnapshotsInv' /\ ReloadInv'
    BY DEF IInv, FilesInv, files, SnapshotsInv, ReloadInv
  <1>2. RequestsInv'
    <2>1. /\ stage' \in [Request -> Stage] /\ evidence' \in [Request -> SUBSET Corpus]
          /\ access' \in [Request -> Corpus \cup {None}] /\ held' \in [Request -> Nat]
      BY DEF IInv, RequestsInv, Goto, asked
    <2>2. ASSUME NEW q \in Request
          PROVE  Local(stage'[q], access'[q], held'[q], evidence'[q], snapshots'[ProcessOf[q]])
      <3>1. access'[q] = access[q] /\ held'[q] = held[q]
            /\ snapshots'[ProcessOf[q]] = snapshots[ProcessOf[q]]
        BY DEF asked
      <3>2. CASE q = r
        <4>1. stage'[q] = st /\ evidence'[q] = v
          BY <3>2 DEF IInv, RequestsInv, Goto
        <4> QED BY <3>1, <3>2, <4>1
      <3>3. CASE q # r
        <4>1. stage'[q] = stage[q] /\ evidence'[q] = evidence[q]
          BY <3>3 DEF IInv, RequestsInv, Goto
        <4>2. Local(stage[q], access[q], held[q], evidence[q], snapshots[ProcessOf[q]])
          BY DEF IInv, RequestsInv
        <4> QED BY <3>1, <4>1, <4>2
      <3> QED BY <3>2, <3>3
    <2> QED BY <2>1, <2>2 DEF RequestsInv
  <1> QED BY <1>1, <1>2 DEF IInv

\* The same when its evidence stays, as in most steps.
LEMMA MovesOn ==
  ASSUME IInv, NEW r \in Request, NEW st \in Stage,
         Goto(r, st),
         UNCHANGED <<files, snapshots, reload, asked, evidence>>,
         StoreInv', ready' \in [Process -> Readiness],
         Local(st, access[r], held[r], evidence[r], snapshots[ProcessOf[r]])
  PROVE  IInv'
  <1>1. evidence \in [Request -> SUBSET Corpus]
    BY DEF IInv, RequestsInv
  <1>2. evidence' = [evidence EXCEPT ![r] = evidence[r]]
    BY <1>1
  <1>3. evidence[r] \in SUBSET Corpus
    BY <1>1
  <1> QED BY <1>2, <1>3, Moves

\* What a request under way has.
LEMMA UnderWay ==
  ASSUME IInv, NEW r \in Request, stage[r] \in Awaiting \cup Blocking
  PROVE  /\ ProcessOf[r] \in Process
         /\ held[r] \in 1 .. Len(snapshots[ProcessOf[r]])
         /\ Held(r) \in Snapshot
         /\ Held(r).corpus = access[r] /\ access[r] \in Corpus
         /\ Matches(Held(r).artifact, access[r])
         /\ evidence[r] \subseteq {access[r]} \cap Corpus
         /\ stage[r] = "embedding" => Held(r).artifact # None
  <1>1. ProcessOf[r] \in Process
    BY LiveConstants
  <1>2. Local(stage[r], access[r], held[r], evidence[r], snapshots[ProcessOf[r]])
    BY DEF IInv, RequestsInv
  <1>3. held[r] \in 1 .. Len(snapshots[ProcessOf[r]])
    BY <1>2 DEF Local
  <1>4. snapshots[ProcessOf[r]] \in Seq(Snapshot)
    BY <1>1 DEF IInv, SnapshotsInv
  <1>5. Held(r) \in Snapshot
    BY <1>3, <1>4, ElementOfSeq DEF Held
  <1>6. Held(r).corpus = access[r] /\ access[r] \in Corpus
    BY <1>2, <1>5 DEF Local, Held, Snapshot
  <1>7. Matches(Held(r).artifact, access[r])
    BY <1>1, <1>3, <1>6 DEF IInv, SnapshotsInv, Held
  <1> QED BY <1>1, <1>2, <1>3, <1>5, <1>6, <1>7 DEF Local, Held

\* The current snapshot of a process.
LEMMA CurrentHolds ==
  ASSUME IInv, NEW p \in Process
  PROVE  /\ Len(snapshots[p]) \in Nat /\ Len(snapshots[p]) \in 1 .. Len(snapshots[p])
         /\ Current(p) \in Snapshot
         /\ Current(p).corpus \in Corpus
  <1>1. snapshots[p] \in Seq(Snapshot) /\ Len(snapshots[p]) \in 1 .. MaxSnapshots
    BY DEF IInv, SnapshotsInv
  <1>2. Len(snapshots[p]) \in Nat /\ Len(snapshots[p]) \in 1 .. Len(snapshots[p])
    BY <1>1, LiveConstants
  <1>3. Current(p) \in Snapshot
    BY <1>1, <1>2, ElementOfSeq DEF Current
  <1> QED BY <1>2, <1>3 DEF Snapshot

\* A request that takes a snapshot is refused, ends or goes on with the release it names.
LEMMA Takes ==
  ASSUME IInv, NEW r \in Request, NEW c \in Corpus, Take(r, c),
         NEW st \in {"mismatch", "insufficient", "locking"}, Goto(r, st),
         st = "locking" => Current(ProcessOf[r]).corpus = c,
         UNCHANGED evidence, ready' \in [Process -> Readiness]
  PROVE  IInv'
  <1> DEFINE top == Len(snapshots[ProcessOf[r]])
  <1>1. StoreInv' /\ FilesInv' /\ SnapshotsInv' /\ ReloadInv'
    <2>1. StoreInv'
      BY StoreSame DEF Take
    <2> QED BY <2>1 DEF IInv, FilesInv, files, SnapshotsInv, ReloadInv, Take
  <1>2. ProcessOf[r] \in Process
    BY LiveConstants
  <1>3. top \in Nat /\ top \in 1 .. top /\ Current(ProcessOf[r]) = snapshots[ProcessOf[r]][top]
    BY <1>2, CurrentHolds DEF Current
  <1>4. evidence[r] = {}
    BY DEF Take, IInv, RequestsInv, Local
  <1>5. Local(st, c, top, {}, snapshots[ProcessOf[r]])
    BY <1>3 DEF Local, Awaiting, Blocking
  <1>6. /\ stage' = [stage EXCEPT ![r] = st] /\ access' = [access EXCEPT ![r] = c]
        /\ held' = [held EXCEPT ![r] = top] /\ evidence' = evidence /\ snapshots' = snapshots
    BY DEF Take, Goto
  <1> HIDE DEF top
  <1>7. RequestsInv'
    <2>1. /\ stage' \in [Request -> Stage] /\ evidence' \in [Request -> SUBSET Corpus]
          /\ access' \in [Request -> Corpus \cup {None}] /\ held' \in [Request -> Nat]
      BY <1>3, <1>6 DEF IInv, RequestsInv, Stage, Awaiting, Ended, Answered
    <2>2. ASSUME NEW q \in Request
          PROVE  Local(stage'[q], access'[q], held'[q], evidence'[q], snapshots'[ProcessOf[q]])
      <3>1. CASE q = r
        <4>1. /\ stage'[q] = st /\ access'[q] = c /\ held'[q] = top
              /\ evidence'[q] = {} /\ snapshots'[ProcessOf[q]] = snapshots[ProcessOf[r]]
          BY <1>4, <1>6, <3>1 DEF IInv, RequestsInv
        <4> QED BY <1>5, <4>1
      <3>2. CASE q # r
        <4>1. /\ stage'[q] = stage[q] /\ access'[q] = access[q] /\ held'[q] = held[q]
              /\ evidence'[q] = evidence[q] /\ snapshots'[ProcessOf[q]] = snapshots[ProcessOf[q]]
          BY <1>6, <3>2 DEF IInv, RequestsInv
        <4>2. Local(stage[q], access[q], held[q], evidence[q], snapshots[ProcessOf[q]])
          BY DEF IInv, RequestsInv
        <4> QED BY <4>1, <4>2
      <3> QED BY <3>1, <3>2
    <2> QED BY <2>1, <2>2 DEF RequestsInv
  <1> QED BY <1>1, <1>7 DEF IInv

LEMMA Arrives ==
  ASSUME IInv, NEW r \in Request, NEW c \in Corpus,
         Mismatch(r, c) \/ EmptyScope(r, c) \/ Accept(r, c)
  PROVE  IInv'
  <1>1. CASE Mismatch(r, c)
    <2>1. ready' \in [Process -> Readiness]
      BY <1>1 DEF Mismatch, IInv
    <2> QED BY <1>1, <2>1, Takes DEF Mismatch
  <1>2. CASE EmptyScope(r, c)
    <2>1. ready' \in [Process -> Readiness]
      BY <1>2, LiveConstants, Observes DEF EmptyScope
    <2> QED BY <1>2, <2>1, Takes DEF EmptyScope
  <1>3. CASE Accept(r, c)
    <2>1. ready' \in [Process -> Readiness]
      BY <1>3 DEF Accept, IInv
    <2> QED BY <1>3, <2>1, Takes DEF Accept
  <1> QED BY <1>1, <1>2, <1>3

----------------------------------------------------------------------------
(* Steps that keep the snapshots. *)

\* What stays true of a request under way when only its stage changes.
LEMMA StagesHold ==
  ASSUME IInv, NEW r \in Request, stage[r] \in Awaiting \cup Blocking,
         NEW st, st # "new", st = "embedding" => Held(r).artifact # None
  PROVE  Local(st, access[r], held[r], evidence[r], snapshots[ProcessOf[r]])
  <1>1. Local(stage[r], access[r], held[r], evidence[r], snapshots[ProcessOf[r]])
    BY DEF IInv, RequestsInv
  <1> QED BY <1>1 DEF Local, Held

\* The steps around the load lock, the provider and the model that change neither the
\* store nor the evidence.
LEMMA Steps ==
  ASSUME IInv, NEW r \in Request,
         \/ UseLoaded(r) \/ LoadFails(r) \/ StartBuild(r)
         \/ InvalidVector(r) \/ Generated(r) \/ Deadline(r)
  PROVE  IInv'
  <1>1. stage[r] \in Awaiting \cup Blocking
    BY DEF UseLoaded, LoadFails, StartBuild, InvalidVector, Generated, Deadline, Enters,
           Awaiting, Blocking
  <1>2. ProcessOf[r] \in Process
    BY LiveConstants
  <1>3. StoreInv'
    BY StoreSame DEF UseLoaded, LoadFails, StartBuild, InvalidVector, Generated, Deadline
  <1>4. ready' \in [Process -> Readiness]
    <2>1. CASE UseLoaded(r) \/ StartBuild(r) \/ Deadline(r)
      BY <2>1 DEF UseLoaded, StartBuild, Deadline, IInv
    <2>2. CASE LoadFails(r) \/ InvalidVector(r)
      BY <1>2, <2>2, Observes DEF LoadFails, InvalidVector
    <2>3. CASE Generated(r)
      BY <1>2, <2>3, Observes DEF Generated
    <2> QED BY <2>1, <2>2, <2>3
  <1>5. UNCHANGED <<files, snapshots, reload, asked, evidence>>
    BY DEF UseLoaded, LoadFails, StartBuild, InvalidVector, Generated, Deadline
  <1>6. \E st \in Stage \ {"new"} :
          Goto(r, st) /\ (st = "embedding" => Held(r).artifact # None)
    BY DEF UseLoaded, LoadFails, StartBuild, InvalidVector, Generated, Deadline,
           Stage, Awaiting, Ended, Answered
  <1>7. PICK st \in Stage \ {"new"} :
          Goto(r, st) /\ (st = "embedding" => Held(r).artifact # None)
    BY <1>6
  <1> QED BY <1>1, <1>3, <1>4, <1>5, <1>7, StagesHold, MovesOn

\* The hits stem from the corpus of the snapshot, however the artifact got there.
LEMMA FoundKeeps ==
  ASSUME IInv, NEW r \in Request, Found(r)
  PROVE  IInv'
  <1>1. stage[r] \in Awaiting \cup Blocking
    BY DEF Found, Awaiting
  <1>2. StoreInv' /\ ready' \in [Process -> Readiness]
    BY LiveConstants, StoreSame, Observes DEF Found
  <1>3. UNCHANGED <<files, snapshots, reload, asked>>
    BY DEF Found
  <1>4. CASE Goto(r, "insufficient") /\ UNCHANGED evidence
    BY <1>1, <1>2, <1>3, <1>4, StagesHold, MovesOn DEF Stage, Ended, Answered
  <1>5. CASE Goto(r, "generating") /\ evidence' = [evidence EXCEPT ![r] = Hits(r)]
    <2>1. Hits(r) = {access[r]} /\ access[r] \in Corpus
      BY <1>1, UnderWay DEF Found, Hits, Matches
    <2>2. Local("generating", access[r], held[r], Hits(r), snapshots[ProcessOf[r]])
      BY <1>1, <2>1, StagesHold DEF Local
    <2>3. "generating" \in Stage /\ Hits(r) \in SUBSET Corpus
      BY <2>1 DEF Stage, Awaiting
    <2> QED BY <1>2, <1>3, <1>5, <2>2, <2>3, Moves
  <1> QED BY <1>4, <1>5 DEF Found

\* The fallback searches another snapshot, if that is one of the named release still.
LEMMA Fails ==
  ASSUME IInv, NEW r \in Request, EmbeddingFails(r) \/ GenerationFails(r)
  PROVE  IInv'
  <1>1. stage[r] \in Awaiting \cup Blocking
    BY DEF EmbeddingFails, GenerationFails, Awaiting
  <1>2. StoreInv' /\ ProcessOf[r] \in Process
    BY LiveConstants, StoreSame DEF EmbeddingFails, GenerationFails
  <1>3. ready' \in [Process -> Readiness]
    <2>1. CASE EmbeddingFails(r)
      BY <1>2, <2>1, Observes DEF EmbeddingFails
    <2>2. CASE GenerationFails(r)
      BY <1>2, <2>2, Observes DEF GenerationFails
    <2> QED BY <2>1, <2>2
  <1>4. UNCHANGED <<files, snapshots, reload, asked>> /\ Fallback(r)
    BY DEF EmbeddingFails, GenerationFails
  <1>5. CASE Current(ProcessOf[r]).corpus = access[r]
    <2>1. Current(ProcessOf[r]).corpus \in Corpus
      BY <1>2, CurrentHolds
    <2>2. Local("fallback", access[r], held[r], {Current(ProcessOf[r]).corpus},
                snapshots[ProcessOf[r]])
      BY <1>1, <1>5, <2>1, StagesHold DEF Local
    <2>3. Goto(r, "fallback")
          /\ evidence' = [evidence EXCEPT ![r] = {Current(ProcessOf[r]).corpus}]
      BY <1>4, <1>5 DEF Fallback
    <2>4. "fallback" \in Stage /\ {Current(ProcessOf[r]).corpus} \in SUBSET Corpus
      BY <2>1 DEF Stage, Ended, Answered
    <2> QED BY <1>2, <1>3, <1>4, <2>2, <2>3, <2>4, Moves
  <1>6. CASE Current(ProcessOf[r]).corpus # access[r]
    <2>1. Local("mismatch", access[r], held[r], {}, snapshots[ProcessOf[r]])
      BY <1>1, StagesHold DEF Local
    <2>2. "mismatch" \in Stage /\ {} \in SUBSET Corpus
      BY DEF Stage, Ended
    <2>3. Goto(r, "mismatch") /\ evidence' = [evidence EXCEPT ![r] = {}]
      BY <1>4, <1>6 DEF Fallback
    <2> QED BY <1>2, <1>3, <1>4, <2>1, <2>2, <2>3, Moves
  <1> QED BY <1>5, <1>6

----------------------------------------------------------------------------
(* Lazy builds. *)

\* The build publishes an artifact of the request's corpus; activating it overwrites
\* whatever pointer is there by then with a whole one.
LEMMA BuiltKeeps ==
  ASSUME IInv, NEW r \in Request, Built(r)
  PROVE  IInv'
  <1> DEFINE a == BuiltFor[Held(r).corpus]
  <1>1. stage[r] \in Awaiting \cup Blocking
    BY DEF Built, Awaiting
  <1>2. a \in Artifact /\ r \in Editor
    BY <1>1, UnderWay, LiveConstants
  <1>3. /\ UNCHANGED <<pointer, files, snapshots, reload, ready, asked, evidence>>
        /\ artifacts' = artifacts \cup {a}
        /\ \/ Goto(r, "activated") /\ edit' = edit
           \/ /\ Goto(r, "activating")
              /\ edit' = [edit EXCEPT ![r] = Activation(a)]
              /\ pointer # None => pointer.active # a
    BY DEF Built
  <1> HIDE DEF a
  <1>4. StoreInv /\ artifacts \subseteq artifacts' /\ artifacts' \subseteq Artifact
        /\ a \in artifacts'
    BY <1>2, <1>3 DEF IInv, StoreInv, StoreTypeOK
  <1>5. ready' \in [Process -> Readiness]
    BY <1>3 DEF IInv
  <1>6. "activating" \in Stage /\ "activated" \in Stage
    BY DEF Stage, Blocking
  <1>7. CASE Goto(r, "activated") /\ edit' = edit
    <2>1. StoreInv'
      BY <1>2, <1>3, <1>4, <1>7, Computes
    <2> QED BY <1>1, <1>3, <1>5, <1>6, <1>7, <2>1, StagesHold, MovesOn
  <1>8. CASE /\ Goto(r, "activating")
             /\ edit' = [edit EXCEPT ![r] = Activation(a)]
             /\ pointer # None => pointer.active # a
    <2>1. Whole(Activation(a), artifacts')
      BY <1>2, <1>4, <1>8, ActivationIsWhole
    <2>2. StoreInv'
      BY <1>2, <1>3, <1>4, <1>8, <2>1, Computes
    <2> QED BY <1>1, <1>3, <1>5, <1>6, <1>8, <2>2, StagesHold, MovesOn
  <1> QED BY <1>3, <1>7, <1>8

LEMMA ActivatedKeeps ==
  ASSUME IInv, NEW r \in Request, Activated(r)
  PROVE  IInv'
  <1>1. stage[r] \in Awaiting \cup Blocking /\ "activated" \in Stage /\ r \in Editor
    BY LiveConstants DEF Activated, Blocking, Stage
  <1>2. StoreInv'
    BY <1>1, ReplaceKeeps DEF IInv, Activated
  <1>3. ready' \in [Process -> Readiness]
    BY DEF IInv, Activated
  <1>4. /\ Goto(r, "activated")
        /\ UNCHANGED <<files, snapshots, reload, asked, evidence>>
    BY DEF Activated
  <1> QED BY <1>1, <1>2, <1>3, <1>4, StagesHold, MovesOn

----------------------------------------------------------------------------
(* Steps that change the snapshots. *)

\* Snapshots t have all of s: the same corpora, and what was loaded is loaded.
Extends(s, t) ==
  /\ Len(s) \in Nat /\ Len(t) \in Nat /\ Len(s) <= Len(t)
  /\ \A i \in 1 .. Len(s) :
       /\ t[i].corpus = s[i].corpus
       /\ s[i].artifact # None => t[i].artifact # None

\* A request finds in them what it took.
LEMMA StillThere ==
  ASSUME NEW s, NEW t, Extends(s, t), NEW st, NEW c, NEW h, NEW v, Local(st, c, h, v, s)
  PROVE  Local(st, c, h, v, t)
  <1>1. h \in 0 .. Len(t)
    BY DEF Local, Extends
  <1>2. st \in Awaiting \cup Blocking => h \in 1 .. Len(t) /\ t[h].corpus = c
    BY DEF Local, Extends
  <1>3. st = "embedding" => h \in 1 .. Len(s) /\ t[h].artifact # None
    BY DEF Local, Extends, Awaiting
  <1> QED BY <1>1, <1>2, <1>3 DEF Local

\* One process's snapshots are extended by matching ones.
LEMMA Grows ==
  ASSUME IInv, NEW p \in Process, NEW t \in Seq(Snapshot),
         snapshots' = [snapshots EXCEPT ![p] = t],
         Extends(snapshots[p], t), Len(t) \in 1 .. MaxSnapshots,
         \A i \in 1 .. Len(t) : Matches(t[i].artifact, t[i].corpus)
  PROVE  /\ SnapshotsInv'
         /\ \A r \in Request :
              Local(stage[r], access[r], held[r], evidence[r], snapshots'[ProcessOf[r]])
  <1>1. /\ snapshots \in [Process -> Seq(Snapshot)] /\ snapshots' \in [Process -> Seq(Snapshot)]
        /\ snapshots'[p] = t
        /\ \A q \in Process \ {p} : snapshots'[q] = snapshots[q]
    BY DEF IInv, SnapshotsInv
  <1>2. SnapshotsInv'
    <2>1. ASSUME NEW q \in Process
          PROVE  /\ Len(snapshots'[q]) \in 1 .. MaxSnapshots
                 /\ \A i \in 1 .. Len(snapshots'[q]) :
                      Matches(snapshots'[q][i].artifact, snapshots'[q][i].corpus)
      <3>1. CASE q = p
        BY <1>1, <3>1
      <3>2. CASE q # p
        <4>1. snapshots'[q] = snapshots[q]
          BY <1>1, <3>2
        <4> QED BY <4>1 DEF IInv, SnapshotsInv
      <3> QED BY <3>1, <3>2
    <2> QED BY <1>1, <2>1 DEF SnapshotsInv
  <1>3. ASSUME NEW r \in Request
        PROVE  Local(stage[r], access[r], held[r], evidence[r], snapshots'[ProcessOf[r]])
    <2>1. Local(stage[r], access[r], held[r], evidence[r], snapshots[ProcessOf[r]])
      BY DEF IInv, RequestsInv
    <2>2. CASE ProcessOf[r] = p
      BY <1>1, <2>1, <2>2, StillThere
    <2>3. CASE ProcessOf[r] # p
      BY <1>1, <2>1, <2>3, LiveConstants
    <2> QED BY <2>2, <2>3
  <1> QED BY <1>2, <1>3

\* The artifact is loaded into the snapshot that the request took, whatever the current
\* one is by then.
LEMMA LoadActiveKeeps ==
  ASSUME IInv, NEW r \in Request, LoadActive(r)
  PROVE  IInv'
  <1> DEFINE p == ProcessOf[r]
             s == snapshots[p]
             x == [Held(r) EXCEPT !.artifact = pointer.active]
             t == [s EXCEPT ![held[r]] = x]
  <1>1. stage[r] \in Awaiting \cup Blocking
    BY DEF LoadActive, Enters, Awaiting, Blocking
  <1>2. /\ p \in Process /\ held[r] \in 1 .. Len(s) /\ Held(r) \in Snapshot
        /\ Held(r).corpus = access[r]
    BY <1>1, UnderWay
  <1>3. s \in Seq(Snapshot) /\ Len(s) \in 1 .. MaxSnapshots
    BY <1>2 DEF IInv, SnapshotsInv
  <1>4. pointer.active \in Artifact /\ CorpusOf[pointer.active] = Held(r).corpus
        /\ pointer.active # None
    <2>1. pointer # None /\ Loadable(pointer.active, Held(r).corpus)
      BY DEF LoadActive
    <2>2. pointer \in Pointer
      BY <2>1 DEF IInv, StoreInv, StoreTypeOK
    <2>3. pointer.active \in Artifact
      BY <2>2 DEF Pointer
    <2> QED BY <2>1, <2>3, LiveConstants DEF Loadable
  <1>5. x \in Snapshot /\ x.corpus = Held(r).corpus /\ x.artifact = pointer.active
    BY <1>2, <1>4 DEF Snapshot
  <1>6. snapshots' = [snapshots EXCEPT ![p] = t]
    <2>1. snapshots' = [snapshots EXCEPT ![ProcessOf[r]][held[r]].artifact = pointer.active]
      BY DEF LoadActive
    <2> QED BY <2>1 DEF Held
  <1>7. Held(r) = s[held[r]]
    BY DEF Held
  <1>8. /\ UNCHANGED <<store, files, reload, ready, asked, evidence>>
        /\ stage' = [stage EXCEPT ![r] = "embedding"]
    BY DEF LoadActive, Goto
  <1> HIDE DEF x
  <1>9. /\ t \in Seq(Snapshot) /\ Len(t) = Len(s)
        /\ \A i \in 1 .. Len(s) : t[i] = IF i = held[r] THEN x ELSE s[i]
    BY <1>2, <1>3, <1>5, ExceptSeq
  <1> HIDE DEF t
  <1>10. Extends(s, t)
    BY <1>3, <1>4, <1>5, <1>7, <1>9 DEF Extends
  <1>11. \A i \in 1 .. Len(t) : Matches(t[i].artifact, t[i].corpus)
    <2>1. \A i \in 1 .. Len(s) : Matches(s[i].artifact, s[i].corpus)
      BY <1>2 DEF IInv, SnapshotsInv
    <2>2. Matches(x.artifact, x.corpus)
      BY <1>4, <1>5 DEF Matches
    <2> QED BY <1>9, <2>1, <2>2
  <1>12. /\ SnapshotsInv'
         /\ \A q \in Request :
              Local(stage[q], access[q], held[q], evidence[q], snapshots'[ProcessOf[q]])
    BY <1>2, <1>3, <1>6, <1>9, <1>10, <1>11, Grows
  <1>13. Local("embedding", access[r], held[r], evidence[r], snapshots'[ProcessOf[r]])
    <2>1. Local(stage[r], access[r], held[r], evidence[r], t)
      <3>1. snapshots'[p] = t
        BY <1>2, <1>6 DEF IInv, SnapshotsInv
      <3> QED BY <1>12, <3>1
    <2>2. t[held[r]].artifact # None
      BY <1>2, <1>4, <1>5, <1>9
    <2>3. snapshots'[ProcessOf[r]] = t
      BY <1>2, <1>6 DEF IInv, SnapshotsInv
    <2> QED BY <1>1, <2>1, <2>2, <2>3 DEF Local
  <1>14. RequestsInv'
    <2>1. /\ stage' \in [Request -> Stage] /\ access' = access /\ held' = held
          /\ evidence' = evidence
      BY <1>8 DEF IInv, RequestsInv, asked, Stage, Awaiting
    <2>2. ASSUME NEW q \in Request
          PROVE  Local(stage'[q], access'[q], held'[q], evidence'[q], snapshots'[ProcessOf[q]])
      <3>1. stage'[q] = IF q = r THEN "embedding" ELSE stage[q]
        BY <1>8 DEF IInv, RequestsInv
      <3> QED BY <1>12, <1>13, <2>1, <3>1
    <2> QED BY <2>1, <2>2 DEF IInv, RequestsInv
  <1>15. StoreInv' /\ FilesInv' /\ ReloadInv' /\ ready' \in [Process -> Readiness]
    BY <1>8, StoreSame DEF IInv, FilesInv, files, ReloadInv
  <1> QED BY <1>12, <1>14, <1>15 DEF IInv

\* A snapshot that a reload installs was read and loaded for one corpus.
LEMMA InstallKeeps ==
  ASSUME IInv, NEW p \in Process, Install(p), Len(snapshots[p]) < MaxSnapshots
  PROVE  IInv'
  <1> DEFINE s == snapshots[p]
             t == Append(s, Installed(p))
  <1>1. reload[p].corpus \in Corpus /\ reload[p].artifact \in Artifact \cup {None}
        /\ Matches(reload[p].artifact, reload[p].corpus)
    BY DEF IInv, ReloadInv, Reading, Install
  <1>2. Installed(p) \in Snapshot /\ Matches(Installed(p).artifact, Installed(p).corpus)
    BY <1>1 DEF Installed, Snapshot
  <1>3. s \in Seq(Snapshot) /\ Len(s) \in 1 .. MaxSnapshots
        /\ \A i \in 1 .. Len(s) : Matches(s[i].artifact, s[i].corpus)
    BY DEF IInv, SnapshotsInv
  <1>4. snapshots' = [snapshots EXCEPT ![p] = t]
    BY DEF Install
  <1>5. /\ t \in Seq(Snapshot) /\ Len(t) = Len(s) + 1
        /\ \A i \in 1 .. Len(s) : t[i] = s[i]
        /\ t[Len(s) + 1] = Installed(p)
    BY <1>2, <1>3
  <1> HIDE DEF t
  <1>6. Extends(s, t)
    BY <1>3, <1>5 DEF Extends
  <1>7. \A i \in 1 .. Len(t) : Matches(t[i].artifact, t[i].corpus)
    <2>1. ASSUME NEW i \in 1 .. Len(t)
          PROVE  i \in 1 .. Len(s) \/ i = Len(s) + 1
      BY <1>3, <1>5
    <2> QED BY <1>2, <1>3, <1>5, <2>1
  <1>8. Len(t) \in 1 .. MaxSnapshots
    BY <1>3, <1>5, LiveConstants
  <1>9. /\ SnapshotsInv'
        /\ \A q \in Request :
             Local(stage[q], access[q], held[q], evidence[q], snapshots'[ProcessOf[q]])
    BY <1>4, <1>5, <1>6, <1>7, <1>8, Grows
  <1>10. RequestsInv'
    BY <1>9 DEF IInv, RequestsInv, Install, asked
  <1>11. StoreInv' /\ FilesInv'
    BY StoreSame DEF Install, IInv, FilesInv, files
  <1>12. ReloadInv'
    <2>1. Reading(Idle) /\ Idle \in [at : ReloadPlace, corpus : Corpus \cup {None},
                                     artifact : Artifact \cup {None}]
      BY DEF Reading, ReloadPlace, Idle
    <2> QED BY <2>1 DEF IInv, ReloadInv, Install
  <1>13. ready' \in [Process -> Readiness]
    BY Observes DEF Install
  <1> QED BY <1>9, <1>10, <1>11, <1>12, <1>13 DEF IInv

----------------------------------------------------------------------------
(* Reloads and files. *)

\* A reload gets further, or starts over.
LEMMA Reads ==
  ASSUME IInv, NEW p \in Process, NEW w, Reading(w),
         reload' = [reload EXCEPT ![p] = w],
         UNCHANGED <<store, files, snapshots, ready, stage, asked, evidence>>
  PROVE  IInv'
  <1>1. ReloadInv'
    BY DEF IInv, ReloadInv, Reading
  <1>2. StoreInv' /\ FilesInv' /\ SnapshotsInv' /\ ready' \in [Process -> Readiness]
    BY StoreSame DEF IInv, FilesInv, files, SnapshotsInv
  <1>3. RequestsInv'
    BY DEF IInv, RequestsInv, asked
  <1> QED BY <1>1, <1>2, <1>3 DEF IInv

LEMMA ReloadReads ==
  ASSUME IInv, NEW p \in Process,
         StartReload(p) \/ ReadCorpus(p) \/ CheckCorpus(p) \/ ReloadActive(p)
  PROVE  IInv'
  <1>1. Reading(reload[p]) /\ Reading(Idle)
    BY DEF IInv, ReloadInv, Reading, Idle, ReloadPlace
  <1>2. CASE StartReload(p)
    <2>1. Reading([at |-> "started", corpus |-> None, artifact |-> None])
      BY DEF Reading, ReloadPlace
    <2> QED BY <1>2, <2>1, Reads DEF StartReload, Advance
  <1>3. CASE ReadCorpus(p)
    <2>1. Reading([at |-> "read", corpus |-> corpusFile, artifact |-> None])
      BY DEF Reading, ReloadPlace, IInv, FilesInv
    <2> QED BY <1>3, <2>1, Reads DEF ReadCorpus, Advance
  <1>4. CASE CheckCorpus(p)
    <2>1. Reading([at |-> "checked", corpus |-> reload[p].corpus, artifact |-> None])
      BY <1>1, <1>4 DEF Reading, ReloadPlace, CheckCorpus
    <2> QED BY <1>1, <1>4, <2>1, Reads DEF CheckCorpus, Advance
  <1>5. CASE ReloadActive(p)
    <2>1. CASE pointer # None /\ Loadable(pointer.active, reload[p].corpus)
      <3>1. pointer.active \in Artifact
        BY <2>1 DEF IInv, StoreInv, StoreTypeOK, Pointer
      <3>2. Reading([at |-> "loaded", corpus |-> reload[p].corpus, artifact |-> pointer.active])
        BY <1>1, <1>5, <2>1, <3>1 DEF Reading, ReloadPlace, ReloadActive, Matches, Loadable
      <3> QED BY <1>5, <2>1, <3>2, Reads DEF ReloadActive, Advance
    <2>2. CASE ~(pointer # None /\ Loadable(pointer.active, reload[p].corpus))
      BY <1>1, <1>5, <2>2, Reads DEF ReloadActive
    <2> QED BY <2>1, <2>2
  <1> QED BY <1>2, <1>3, <1>4, <1>5

\* The operator changes files and the store under everybody's hands.
LEMMA OutsideKeeps ==
  ASSUME IInv,
         \/ \E c \in Corpus : WriteCorpus(c) \/ WriteProvenance(c)
         \/ \E o \in Operator : Manage(o)
  PROVE  IInv'
  <1>1. StoreInv'
    <2>1. CASE \E c \in Corpus : WriteCorpus(c) \/ WriteProvenance(c)
      BY <2>1, StoreSame DEF WriteCorpus, WriteProvenance
    <2>2. CASE \E o \in Operator : Manage(o)
      BY <2>2, OperatorKeeps DEF IInv
    <2> QED BY <2>1, <2>2
  <1>2. FilesInv'
    BY DEF IInv, FilesInv, WriteCorpus, WriteProvenance, Manage, files
  <1>3. UNCHANGED <<snapshots, reload, ready, stage, asked, evidence>>
    BY DEF WriteCorpus, WriteProvenance, Manage
  <1>4. SnapshotsInv' /\ ReloadInv' /\ ready' \in [Process -> Readiness]
    BY <1>3 DEF IInv, SnapshotsInv, ReloadInv
  <1>5. RequestsInv'
    BY <1>3 DEF IInv, RequestsInv, asked
  <1> QED BY <1>1, <1>2, <1>4, <1>5 DEF IInv

----------------------------------------------------------------------------
(* The bound on snapshots, and the theorems. *)

\* A reload that has begun has room for its snapshot: a process has one at a time.
Room == \A p \in Process : reload[p].at # "idle" => Len(snapshots[p]) < MaxSnapshots

\* A step that keeps the reloads and the numbers of snapshots keeps the room.
LEMMA RoomSame ==
  ASSUME Room, reload' = reload,
         \A p \in Process : Len(snapshots'[p]) = Len(snapshots[p])
  PROVE  Room'
  BY DEF Room

\* What a request does keeps it.
LEMMA ServeKeepsRoom ==
  ASSUME IInv, Room, NEW r \in Request, Serve(r)
  PROVE  Room'
  <1>1. CASE LoadActive(r)
    <2> DEFINE s == snapshots[ProcessOf[r]]
               x == [Held(r) EXCEPT !.artifact = pointer.active]
    <2>1. s \in Seq(Snapshot) /\ held[r] \in 1 .. Len(s) /\ ProcessOf[r] \in Process
          /\ Held(r) \in Snapshot /\ snapshots \in [Process -> Seq(Snapshot)]
      BY <1>1, UnderWay DEF LoadActive, Enters, Awaiting, Blocking, IInv, SnapshotsInv
    <2>2. x \in Snapshot
      <3>1. pointer.active \in Artifact
        BY <1>1 DEF LoadActive, IInv, StoreInv, StoreTypeOK, Pointer
      <3> QED BY <2>1, <3>1 DEF Snapshot
    <2>3. snapshots' = [snapshots EXCEPT ![ProcessOf[r]] = [s EXCEPT ![held[r]] = x]]
      <3>1. snapshots' = [snapshots EXCEPT ![ProcessOf[r]][held[r]].artifact = pointer.active]
        BY <1>1 DEF LoadActive
      <3> QED BY <3>1 DEF Held
    <2> HIDE DEF x
    <2>4. Len([s EXCEPT ![held[r]] = x]) = Len(s)
      BY <2>1, <2>2, ExceptSeq
    <2>5. \A p \in Process : Len(snapshots'[p]) = Len(snapshots[p])
      BY <2>1, <2>3, <2>4
    <2> QED BY <1>1, <2>5, RoomSame DEF LoadActive
  <1>2. CASE ~LoadActive(r)
    <2>1. UNCHANGED <<snapshots, reload>>
      BY <1>2 DEF Serve, Mismatch, EmptyScope, Accept, Take, UseLoaded, LoadFails, StartBuild,
                  Built, Activated, Found, InvalidVector, Generated, EmbeddingFails,
                  GenerationFails, Deadline
    <2> QED BY <2>1, RoomSame
  <1> QED BY <1>1, <1>2

\* So does a reload: it starts only with room, and takes it at its end.
LEMMA ReloadKeepsRoom ==
  ASSUME IInv, Room, NEW p \in Process, Reload(p)
  PROVE  Room'
  <1>1. reload \in [Process -> [at : ReloadPlace, corpus : Corpus \cup {None},
                                artifact : Artifact \cup {None}]]
        /\ snapshots \in [Process -> Seq(Snapshot)]
    BY DEF IInv, ReloadInv, SnapshotsInv
  <1>2. ASSUME NEW q \in Process, reload'[q].at # "idle"
        PROVE  Len(snapshots'[q]) < MaxSnapshots
    <2>1. CASE Install(p)
      <3>1. reload'[p].at = "idle"
        BY <1>1, <2>1 DEF Install, Idle
      <3>2. q # p
        BY <1>2, <3>1
      <3>3. reload'[q] = reload[q] /\ snapshots'[q] = snapshots[q]
        BY <1>1, <2>1, <3>2 DEF Install
      <3> QED BY <1>2, <3>3 DEF Room
    <2>2. CASE ~Install(p)
      <3>1. snapshots' = snapshots
        BY <2>2 DEF Reload, StartReload, ReadCorpus, CheckCorpus, ReloadActive
      <3>2. CASE q # p
        <4>1. reload'[q] = reload[q]
          BY <1>1, <2>2, <3>2 DEF Reload, StartReload, ReadCorpus, CheckCorpus, ReloadActive,
                                  Advance
        <4> QED BY <1>2, <3>1, <4>1 DEF Room
      <3>3. CASE q = p
        <4>1. reload[p].at # "idle" \/ Len(snapshots[p]) < MaxSnapshots
          BY <2>2 DEF Reload, StartReload, ReadCorpus, CheckCorpus, ReloadActive
        <4> QED BY <3>1, <3>3, <4>1 DEF Room
      <3> QED BY <3>2, <3>3
    <2> QED BY <2>1, <2>2
  <1> QED BY <1>2 DEF Room

LEMMA NextIInv == IInv /\ Room /\ [Next]_vars => IInv' /\ Room'
  <1> SUFFICES ASSUME IInv, Room, [Next]_vars PROVE IInv' /\ Room'
    OBVIOUS
  <1>1. CASE \/ \E c \in Corpus : WriteCorpus(c) \/ WriteProvenance(c)
             \/ \E o \in Operator : Manage(o)
    <2>1. UNCHANGED <<snapshots, reload>>
      BY <1>1 DEF WriteCorpus, WriteProvenance, Manage
    <2> QED BY <1>1, <2>1, OutsideKeeps, RoomSame
  <1>2. ASSUME NEW r \in Request, Serve(r)
        PROVE  IInv' /\ Room'
    <2>1. Room'
      BY <1>2, ServeKeepsRoom
    <2>2. IInv'
      BY <1>2, Arrives, Steps, LoadActiveKeeps, BuiltKeeps, ActivatedKeeps, FoundKeeps, Fails
         DEF Serve
    <2> QED BY <2>1, <2>2
  <1>3. ASSUME NEW p \in Process, Reload(p)
        PROVE  IInv' /\ Room'
    <2>1. Room'
      BY <1>3, ReloadKeepsRoom
    <2>2. CASE Install(p)
      BY <2>1, <2>2, InstallKeeps DEF Room, Install
    <2>3. CASE ~Install(p)
      BY <1>3, <2>1, <2>3, ReloadReads DEF Reload
    <2> QED BY <2>1, <2>2, <2>3
  <1>4. CASE UNCHANGED vars
    <2>1. UNCHANGED <<store, files, snapshots, reload, ready, stage, asked, evidence>>
      BY <1>4 DEF vars
    <2>2. StoreInv' /\ FilesInv' /\ SnapshotsInv' /\ ReloadInv' /\ ready' \in [Process -> Readiness]
      BY <2>1, StoreSame DEF IInv, FilesInv, files, SnapshotsInv, ReloadInv
    <2>3. RequestsInv'
      BY <2>1 DEF IInv, RequestsInv, asked
    <2> QED BY <2>1, <2>2, <2>3, RoomSame DEF IInv
  <1> QED BY <1>1, <1>2, <1>3, <1>4 DEF Next

LEMMA InitRoom == Init => Room
  BY DEF Init, Room, Idle

LEMMA Invariant == Spec => [](IInv /\ Room)
  BY InitIInv, InitRoom, NextIInv, PTL DEF Spec

\* Every reachable state is well-typed: the pointer file and the pointers that editors
\* still have to write, the snapshots and how far reloads and requests are.
THEOREM TypeCorrect == Spec => []LiveTypeOK
  <1>1. IInv => LiveTypeOK
    <2> SUFFICES ASSUME IInv PROVE LiveTypeOK
      OBVIOUS
    <2>1. StoreTypeOK /\ corpusFile \in Corpus /\ provenanceFile \in Corpus
      BY DEF IInv, StoreInv, FilesInv
    <2>2. ASSUME NEW p \in Process
          PROVE  /\ snapshots[p] \in Seq(Snapshot)
                 /\ Len(snapshots[p]) \in 1 .. MaxSnapshots
                 /\ ready[p] \in Readiness
                 /\ reload[p].at \in {"idle", "started", "read", "checked", "loaded"}
      BY DEF IInv, SnapshotsInv, ReloadInv, ReloadPlace
    <2>3. ASSUME NEW r \in Request
          PROVE  /\ access[r] \in Corpus \cup {None}
                 /\ held[r] \in 0 .. Len(snapshots[ProcessOf[r]])
                 /\ evidence[r] \subseteq Corpus
      BY DEF IInv, RequestsInv, Local
    <2>4. stage \in [Request -> {"new"} \cup Awaiting \cup Blocking \cup Ended]
      BY DEF IInv, RequestsInv, Stage
    <2> QED BY <2>1, <2>2, <2>3, <2>4 DEF LiveTypeOK
  <1> QED BY <1>1, Invariant, PTL

\* Whatever activations, rollbacks and lazy builds overlap without a lock, the pointer
\* names artifacts that are on disk, and a rollback leads elsewhere.
THEOREM PointerHolds == Spec => []PointerIsLoadable
  <1>1. IInv => PointerIsLoadable
    BY DEF IInv, StoreInv, Whole, PointerIsLoadable
  <1> QED BY <1>1, Invariant, PTL

\* However reloads, switches and fallbacks fall, the evidence of an answer stems from the
\* release that the request names and from no other.
THEOREM EvidenceHolds == Spec => []EvidenceIsTheNamedRelease
  <1>1. IInv => EvidenceIsTheNamedRelease
    BY DEF IInv, RequestsInv, Local, EvidenceIsTheNamedRelease
  <1> QED BY <1>1, Invariant, PTL
=============================================================================
