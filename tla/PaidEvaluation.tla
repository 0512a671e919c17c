----------------------------- MODULE PaidEvaluation -----------------------------
(***************************************************************************)
(* The paid retrieval runs of the evaluation (evaluation/retrieval_only.   *)
(* py) and the gate every later report reads them through (evaluation/     *)
(* retrieval_evidence.py).  A run plans its queries in an output directory *)
(* and, when told to execute, embeds each of them with a paid provider     *)
(* call and writes results, vectors and a manifest.  Runs may share a      *)
(* directory, overlap, fail and be killed at any point; an operator        *)
(* replaces the inputs and the corpus and activates artifacts meanwhile.   *)
(*                                                                         *)
(* Files are created exclusively, then filled, and never changed; a killed *)
(* run may leave a torn one, which is no JSON.  Digests are compared as    *)
(* contents, and a plan carries the time of the run that made it.  How     *)
(* hits are ranked is left to RetrievalRanking.                            *)
(***************************************************************************)
EXTENDS Naturals

CONSTANTS
  Run,        \* runs of the command
  Directory,  \* output directories
  Queries,    \* queries per version of the inputs file
  Absent,     \* no file
  Unfilled    \* a file that was created and not filled

\* Versions of the files the operator replaces; an artifact is made from one
\* version of the corpus.
Version == {1, 2}

Plan == [queries : Version, inputs : Version, corpus : Version, artifact : Version, by : Run]
NoPlan == [by |-> Absent]

\* What the files of a directory say when they are filled.
Vectors == [queries : Version, by : Run]
Contents == [plan |-> Plan, claim |-> Plan, results |-> Vectors, vectors |-> Vectors,
             manifest |-> [plan : Plan, vectors : Vectors]]
Names == DOMAIN Contents
PaidFile == (UNION {Contents[n] : n \in Names}) \cup {Absent, Unfilled}

ASSUME PaidAssumption ==
  /\ Queries \in Nat \ {0}
  /\ Absent \notin Run
  /\ Unfilled # Absent
  /\ \A n \in Names : {Absent, Unfilled} \cap Contents[n] = {}

VARIABLES
  inputs, corpus, active,  \* the files and the active artifact
  output,     \* output[r]: the directory of a run
  executes,   \* the runs that are told to execute their plan
  run,        \* run[r]: its next step, what it loaded, its plan, the plan it read
  calls,      \* calls[r]: provider calls it has made
  disk        \* disk[d][name]: the files of a directory

paidVars == <<inputs, corpus, active, output, executes, run, calls, disk>>

PaidSteps == {"corpus", "artifact", "inputs", "plan", "compare", "write-plan", "read-plan", "refuse",
          "claim", "embed", "write-results", "write-vectors", "write-manifest", "done", "failed", "dead"}

RunRecord == [do : PaidSteps, open : BOOLEAN, corpus : Version, artifact : Version,
              queries : Version, plan : Plan \cup {NoPlan}, read : Plan \cup {NoPlan}]

PaidTypeOK ==
  /\ inputs \in Version /\ corpus \in Version /\ active \in Version
  /\ output \in [Run -> Directory]
  /\ executes \subseteq Run
  /\ run \in [Run -> RunRecord]
  /\ calls \in [Run -> 0..Queries]
  /\ disk \in [Directory -> [Names -> PaidFile]]
  /\ \A d \in Directory, n \in Names : disk[d][n] \in Contents[n] \cup {Absent, Unfilled}

PaidInit ==
  /\ inputs = 1 /\ corpus = 1 /\ active = 1
  /\ output \in [Run -> Directory]
  /\ executes \in SUBSET Run
  /\ run = [r \in Run |-> [do |-> "corpus", open |-> FALSE, corpus |-> 1, artifact |-> 1,
                           queries |-> 1, plan |-> NoPlan, read |-> NoPlan]]
  /\ calls = [r \in Run |-> 0]
  /\ disk = [d \in Directory |-> [n \in Names |-> Absent]]

Dir(r) == disk[output[r]]
Does(r, step) == run[r].do = step
Then(r, step) == run' = [run EXCEPT ![r].do = step]

----------------------------------------------------------------------------
(* The operator. *)

ReplaceInputs == inputs = 1 /\ inputs' = 2 /\ UNCHANGED <<corpus, active, output, executes, run, calls, disk>>
ReplaceCorpus == corpus = 1 /\ corpus' = 2 /\ UNCHANGED <<inputs, active, output, executes, run, calls, disk>>
Activate == active = 1 /\ active' = 2 /\ UNCHANGED <<inputs, corpus, output, executes, run, calls, disk>>

----------------------------------------------------------------------------
(* Planning. *)

LoadCorpus(r) ==
  /\ Does(r, "corpus")
  /\ run' = [run EXCEPT ![r].do = "artifact", ![r].corpus = corpus]
  /\ UNCHANGED <<inputs, corpus, active, output, executes, calls, disk>>

\* load_active: the artifact must have been made from the corpus that was loaded.
LoadArtifact(r) ==
  /\ Does(r, "artifact")
  /\ run' = [run EXCEPT ![r].do = IF active = run[r].corpus THEN "inputs" ELSE "failed",
                        ![r].artifact = active]
  /\ UNCHANGED <<inputs, corpus, active, output, executes, calls, disk>>

ReadInputs(r) ==
  /\ Does(r, "inputs")
  /\ run' = [run EXCEPT ![r].do = "plan", ![r].queries = inputs]
  /\ UNCHANGED <<inputs, corpus, active, output, executes, calls, disk>>

\* build_plan hashes the inputs and the corpus as they are on disk by then.
BuildPlan(r) ==
  /\ Does(r, "plan")
  /\ run' = [run EXCEPT ![r].do = IF r \in executes THEN "compare" ELSE "write-plan",
                        ![r].plan = [queries |-> run[r].queries, inputs |-> inputs, corpus |-> corpus,
                                     artifact |-> run[r].artifact, by |-> r]]
  /\ UNCHANGED <<inputs, corpus, active, output, executes, calls, disk>>

\* Everything but generatedAt.
SamePlan(a, b) ==
  \A part \in {"queries", "inputs", "corpus", "artifact"} : a[part] = b[part]

\* An existing plan must be this one; a torn one cannot be decoded.
ComparePlan(r) ==
  /\ Does(r, "compare")
  /\ run' = IF Dir(r)["plan"] = Absent THEN [run EXCEPT ![r].do = "write-plan"]
            ELSE IF Dir(r)["plan"] = Unfilled \/ ~SamePlan(Dir(r)["plan"], run[r].plan)
            THEN [run EXCEPT ![r].do = "failed"]
            ELSE [run EXCEPT ![r].do = "refuse", ![r].read = Dir(r)["plan"]]
  /\ UNCHANGED <<inputs, corpus, active, output, executes, calls, disk>>

----------------------------------------------------------------------------
(* write_new: the file is created exclusively, and filled in a second step. *)

\* Mutant: the claim of an earlier run is taken over.
CreateFileOrReuse(r, name) ==
  /\ ~run[r].open
  /\ IF Dir(r)[name] = Absent \/ name = "claim"
       THEN disk' = [disk EXCEPT ![output[r]][name] = Unfilled] /\ run' = [run EXCEPT ![r].open = TRUE]
       ELSE UNCHANGED disk /\ Then(r, "failed")

CreateFile(r, name) ==
  /\ ~run[r].open
  /\ IF Dir(r)[name] = Absent
       THEN disk' = [disk EXCEPT ![output[r]][name] = Unfilled] /\ run' = [run EXCEPT ![r].open = TRUE]
       ELSE UNCHANGED disk /\ Then(r, "failed")

FillFile(r, name, content, next) ==
  /\ run[r].open
  /\ disk' = [disk EXCEPT ![output[r]][name] = content]
  /\ run' = [run EXCEPT ![r].open = FALSE, ![r].do = next]

WriteNew(r, name, content, next) ==
  /\ CreateFile(r, name) \/ FillFile(r, name, content, next)
  /\ UNCHANGED <<inputs, corpus, active, output, executes, calls>>

WritePlan(r) ==
  /\ Does(r, "write-plan")
  /\ WriteNew(r, "plan", run[r].plan, IF r \in executes THEN "read-plan" ELSE "done")

\* The bytes whose hash the manifest will name.
ReadPlan(r) ==
  /\ Does(r, "read-plan")
  /\ run' = [run EXCEPT ![r].do = "refuse", ![r].read = Dir(r)["plan"]]
  /\ UNCHANGED <<inputs, corpus, active, output, executes, calls, disk>>

----------------------------------------------------------------------------
(* Execution. *)

\* Nothing may have been executed in this directory.
RefuseExecuted(r) ==
  /\ Does(r, "refuse")
  /\ Then(r, IF \A n \in {"results", "vectors", "manifest"} : Dir(r)[n] = Absent THEN "claim" ELSE "failed")
  /\ UNCHANGED <<inputs, corpus, active, output, executes, calls, disk>>

\* The claim stays after a failure: the provider may have charged for it.
ClaimExecution(r) ==
  /\ Does(r, "claim")
  /\ WriteNew(r, "claim", run[r].plan, "embed")

Embed(r) ==
  /\ Does(r, "embed")
  /\ calls[r] < Queries
  /\ calls' = [calls EXCEPT ![r] = @ + 1]
  /\ UNCHANGED <<inputs, corpus, active, output, executes, run, disk>>

\* The call fails, or its vector has another dimension or is not finite; with the
\* call counted, the provider may have charged for it.
EmbedFails(r) ==
  /\ Does(r, "embed")
  /\ calls[r] < Queries
  /\ calls' = [calls EXCEPT ![r] = @ + 1]
  /\ Then(r, "failed")
  /\ UNCHANGED <<inputs, corpus, active, output, executes, disk>>

EmbeddedAll(r) ==
  /\ Does(r, "embed")
  /\ calls[r] = Queries
  /\ Then(r, "write-results")
  /\ UNCHANGED <<inputs, corpus, active, output, executes, calls, disk>>

\* What the vectors are: the embedded queries, and who paid for them.
VectorsOf(r) == [queries |-> run[r].queries, by |-> r]

WriteResults(r) ==
  Does(r, "write-results") /\ WriteNew(r, "results", VectorsOf(r), "write-vectors")

WriteVectors(r) ==
  Does(r, "write-vectors") /\ WriteNew(r, "vectors", VectorsOf(r), "write-manifest")

\* The hashes of the plan that was read and of the vectors as they are on disk.
WriteManifest(r) ==
  /\ Does(r, "write-manifest")
  /\ WriteNew(r, "manifest", [plan |-> run[r].read, vectors |-> Dir(r)["vectors"]], "done")

KillRun(r) ==
  /\ run[r].do \notin {"done", "failed", "dead"}
  /\ Then(r, "dead")
  /\ UNCHANGED <<inputs, corpus, active, output, executes, calls, disk>>

----------------------------------------------------------------------------
(* load_retrieval_evidence: any plan, any vectors, any version of the corpus.  *)
(* A file that is there and complete stays as it is, so the reads, one after   *)
(* the other, see what one look would see.                                     *)

Complete(file) == file \notin {Absent, Unfilled}

\* Mutant: the hash of the plan is not compared.
VectorsAreBound(plan, vectors, manifest) == vectors = manifest.vectors

HashesMatch(plan, vectors, manifest) ==
  plan = manifest.plan /\ vectors = manifest.vectors

\* The vectors have exactly the plan's cases, and the artifact the plan names was
\* made from the corpus that is read with it.
Accepts(planDir, vectorsDir, version) ==
  LET plan == disk[planDir]["plan"]
      vectors == disk[vectorsDir]["vectors"]
      manifest == disk[vectorsDir]["manifest"]
  IN /\ Complete(manifest) /\ Complete(plan) /\ Complete(vectors)
     /\ HashesMatch(plan, vectors, manifest)
     /\ version = plan.corpus
     /\ plan.artifact = version
     /\ vectors.queries = plan.queries

----------------------------------------------------------------------------
PaidNext ==
  \/ ReplaceInputs \/ ReplaceCorpus \/ Activate
  \/ \E r \in Run :
       \/ LoadCorpus(r) \/ LoadArtifact(r) \/ ReadInputs(r) \/ BuildPlan(r) \/ ComparePlan(r)
       \/ WritePlan(r) \/ ReadPlan(r) \/ RefuseExecuted(r) \/ ClaimExecution(r)
       \/ Embed(r) \/ EmbedFails(r) \/ EmbeddedAll(r)
       \/ WriteResults(r) \/ WriteVectors(r) \/ WriteManifest(r) \/ KillRun(r)

PaidSpec == PaidInit /\ [][PaidNext]_paidVars

----------------------------------------------------------------------------
(* Properties *)

\* The queries of an output directory are paid for at most once, and by one run, whatever
\* runs overlap there, fail half-way, are killed and started again.
PaidOncePerOutput ==
  \A r \in Run :
    /\ calls[r] <= Queries
    /\ \A other \in Run :
         output[other] = output[r] /\ calls[other] > 0 /\ calls[r] > 0 => other = r

\* Whatever files a report is pointed at, what it accepts as evidence comes from one
\* execution that embedded every query of that very plan, scored against the
\* artifact the plan names, made from the corpus the report reads.
EvidenceIsOneExecution ==
  \A planDir, vectorsDir \in Directory, version \in Version :
    Accepts(planDir, vectorsDir, version) =>
      \E r \in executes :
        /\ output[r] = vectorsDir
        /\ calls[r] = Queries
        /\ run[r].read = disk[planDir]["plan"]
        /\ disk[vectorsDir]["vectors"] = VectorsOf(r)
        /\ run[r].artifact = version
        /\ run[r].corpus = version
===============================================================================
