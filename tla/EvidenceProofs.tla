---------------------------- MODULE EvidenceProofs ----------------------------
(***************************************************************************)
(* Proofs about the commands that leave evidence: PaidEvaluation, for any  *)
(* number of runs, directories and queries; ScanEvidence, for any number   *)
(* of publishers and validators; ImageScan, for any number of images and   *)
(* any vulnerabilities; and RetrievalRanking, for any corpus, window and   *)
(* queries.                                                                *)
(***************************************************************************)
EXTENDS PaidEvaluation, ScanEvidence, ImageScan, RetrievalRanking, FiniteSetTheorems,
        WellFoundedInduction, TLAPS

----------------------------------------------------------------------------
(* Paid runs: the inductive invariant. *)

\* A run that has created the claim of its directory, as far as it still shows.
Paying(r) ==
  \/ calls[r] > 0
  \/ run[r].do = "claim" /\ run[r].open
  \/ run[r].do \in {"embed", "write-results", "write-vectors", "write-manifest"}

\* A run that has created the plan of its directory and not gone on.
Planning(r) == run[r].do = "read-plan" \/ (run[r].do = "write-plan" /\ run[r].open)

OnePayer ==
  \A r \in Run :
    /\ Paying(r) => disk[output[r]]["claim"] # Absent
    /\ \A s \in Run : Paying(r) /\ Paying(s) /\ output[r] = output[s] => r = s

OnePlanner ==
  \A r \in Run :
    /\ Planning(r) => disk[output[r]]["plan"] # Absent
    /\ run[r].do = "read-plan" => disk[output[r]]["plan"] = run[r].plan
    /\ \A s \in Run : Planning(r) /\ Planning(s) /\ output[r] = output[s] => r = s

Planned == {"compare", "write-plan", "read-plan", "refuse", "claim", "embed", "write-results",
            "write-vectors", "write-manifest"}
Bought == {"write-results", "write-vectors", "write-manifest"}
HasRead == {"refuse", "claim", "embed"} \cup Bought

\* What a run holds at each step: the artifact is of the corpus it loaded, its plan says so,
\* and the plan it read is the same.
Holds(r) ==
  /\ run[r].do \in {"inputs", "plan"} \cup Planned => run[r].artifact = run[r].corpus
  /\ run[r].do \in Planned => /\ run[r].plan \in Plan
                              /\ run[r].plan.artifact = run[r].artifact
  /\ run[r].do \in HasRead \cup {"compare", "read-plan"} => r \in executes
  /\ run[r].do \in HasRead => run[r].read \in Plan /\ SamePlan(run[r].read, run[r].plan)
  /\ run[r].do \in Bought => calls[r] = Queries
  /\ run[r].do = "write-manifest" => disk[output[r]]["vectors"] = VectorsOf(r)
  /\ run[r].open => run[r].do \in {"write-plan", "claim"} \cup Bought \cup {"failed", "dead"}

\* A complete manifest is the last thing its run wrote.
Finished(r, d) ==
  /\ r \in executes
  /\ output[r] = d
  /\ run[r].do = "done"
  /\ calls[r] = Queries
  /\ run[r].read \in Plan
  /\ run[r].read.artifact = run[r].artifact
  /\ run[r].corpus = run[r].artifact
  /\ disk[d]["vectors"] = VectorsOf(r)
  /\ disk[d]["manifest"] = [plan |-> run[r].read, vectors |-> VectorsOf(r)]

ManifestIsLast ==
  \A d \in Directory : Complete(disk[d]["manifest"]) => \E r \in Run : Finished(r, d)

PaidInv ==
  /\ PaidTypeOK
  /\ OnePayer
  /\ OnePlanner
  /\ \A r \in Run : Holds(r)
  /\ ManifestIsLast

----------------------------------------------------------------------------

LEMMA PaidInitInv == PaidInit => PaidInv
  <1> SUFFICES ASSUME PaidInit PROVE PaidInv
    OBVIOUS
  <1>1. PaidTypeOK
    <2>1. run \in [Run -> RunRecord]
      BY DEF PaidInit, RunRecord, Version, PaidSteps
    <2>2. disk \in [Directory -> [Names -> PaidFile]]
      BY DEF PaidInit, PaidFile
    <2>3. calls \in [Run -> 0..Queries]
      BY PaidAssumption DEF PaidInit
    <2> QED BY <2>1, <2>2, <2>3 DEF PaidInit, PaidTypeOK, Version
  <1>2. \A r \in Run : ~Paying(r) /\ ~Planning(r)
    <2> SUFFICES ASSUME NEW r \in Run PROVE ~Paying(r) /\ ~Planning(r)
      OBVIOUS
    <2>1. run[r].do = "corpus" /\ calls[r] = 0 BY DEF PaidInit
    <2> QED BY <2>1 DEF Paying, Planning
  <1>3. \A r \in Run : Holds(r)
    BY DEF PaidInit, Holds, Planned, Bought, HasRead
  <1>4. ManifestIsLast
    BY DEF PaidInit, ManifestIsLast, Complete, Names, Contents
  <1>5. OnePayer /\ OnePlanner
    <2>1. \A r \in Run : run[r].do # "read-plan" BY DEF PaidInit
    <2> QED BY <2>1, <1>2 DEF OnePayer, OnePlanner
  <1> QED BY <1>1, <1>3, <1>4, <1>5 DEF PaidInv

\* What the files mean is told apart by their names.
LEMMA FileNames ==
  /\ Names = {"plan", "claim", "results", "vectors", "manifest"}
  /\ Contents["plan"] = Plan /\ Contents["claim"] = Plan
  /\ Contents["results"] = Vectors /\ Contents["vectors"] = Vectors
  /\ Contents["manifest"] = [plan : Plan, vectors : Vectors]
  /\ \A n \in Names : Contents[n] \subseteq PaidFile
  /\ Absent \in PaidFile /\ Unfilled \in PaidFile
  <1>1. Names = {"plan", "claim", "results", "vectors", "manifest"}
    BY DEF Names, Contents
  <1>2. \A n \in Names : Contents[n] \subseteq PaidFile
    BY Zenon DEF PaidFile
  <1> QED BY <1>1, <1>2 DEF Contents, PaidFile

----------------------------------------------------------------------------
(* What a step of a run changes. *)

\* A step of run r with its next record w, its next count c and its next files f: it claims
\* or plans only where nobody has, it changes other files only when it pays, and it
\* completes a manifest only as it finishes.
Advances(r, w, c, f) ==
  /\ w \in RunRecord /\ c \in 0..Queries
  /\ f \in [Names -> PaidFile]
  /\ \A n \in Names : f[n] \in Contents[n] \cup {Absent, Unfilled}
  /\ run' = [run EXCEPT ![r] = w]
  /\ calls' = [calls EXCEPT ![r] = c]
  /\ disk' = [disk EXCEPT ![output[r]] = f]
  /\ output' = output /\ executes' = executes
  /\ inputs' = inputs /\ corpus' = corpus /\ active' = active
  /\ run[r].do # "done"

\* A claim or a plan is created, or still the run's own.
Files(r, f) ==
  LET old == disk[output[r]]
  IN /\ \A n \in Names : old[n] # Absent => f[n] # Absent
     /\ f["plan"] # old["plan"] => old["plan"] = Absent \/ Planning(r)
     /\ \A n \in {"results", "vectors", "manifest"} : f[n] # old[n] => Paying(r)
     /\ Paying(r)' => f["claim"] # Absent /\ (Paying(r) \/ old["claim"] = Absent)
     /\ Planning(r)' => f["plan"] # Absent /\ (Planning(r) \/ old["plan"] = Absent)
     /\ run'[r].do = "read-plan" => f["plan"] = run'[r].plan
     /\ Complete(f["manifest"]) /\ f["manifest"] # old["manifest"] => Finished(r, output[r])'

LEMMA Others ==
  ASSUME PaidTypeOK, NEW r \in Run, NEW w, NEW c, NEW f, Advances(r, w, c, f)
  PROVE  /\ PaidTypeOK'
         /\ run'[r] = w /\ calls'[r] = c /\ disk'[output[r]] = f
         /\ \A s \in Run \ {r} : run'[s] = run[s] /\ calls'[s] = calls[s]
         /\ \A s \in Run \ {r} : Paying(s)' = Paying(s) /\ Planning(s)' = Planning(s)
         /\ \A d \in Directory \ {output[r]} : disk'[d] = disk[d]
         /\ output[r] \in Directory
  <1>1. output[r] \in Directory
    BY DEF PaidTypeOK
  <1>2. /\ run'[r] = w /\ calls'[r] = c /\ disk'[output[r]] = f
        /\ \A s \in Run \ {r} : run'[s] = run[s] /\ calls'[s] = calls[s]
        /\ \A d \in Directory \ {output[r]} : disk'[d] = disk[d]
    BY <1>1 DEF PaidTypeOK, Advances
  <1>3. \A s \in Run \ {r} : Paying(s)' = Paying(s) /\ Planning(s)' = Planning(s)
    BY <1>2 DEF Paying, Planning
  <1>4. /\ run' \in [Run -> RunRecord] /\ calls' \in [Run -> 0..Queries]
        /\ disk' \in [Directory -> [Names -> PaidFile]]
    BY <1>1 DEF PaidTypeOK, Advances
  <1>5. \A d \in Directory, n \in Names : disk'[d][n] \in Contents[n] \cup {Absent, Unfilled}
    BY <1>2 DEF PaidTypeOK, Advances
  <1>6. PaidTypeOK'
    BY <1>4, <1>5 DEF PaidTypeOK, Advances
  <1> QED BY <1>1, <1>2, <1>3, <1>6

LEMMA AdvanceKeeps ==
  ASSUME PaidInv, NEW r \in Run, NEW w, NEW c, NEW f, Advances(r, w, c, f),
         Files(r, f), Holds(r)'
  PROVE  PaidInv'
  <1>0. PaidTypeOK BY DEF PaidInv
  <1>1. /\ PaidTypeOK'
        /\ run'[r] = w /\ calls'[r] = c /\ disk'[output[r]] = f
        /\ \A s \in Run \ {r} : run'[s] = run[s] /\ calls'[s] = calls[s]
        /\ \A s \in Run \ {r} : Paying(s)' = Paying(s) /\ Planning(s)' = Planning(s)
        /\ \A d \in Directory \ {output[r]} : disk'[d] = disk[d]
        /\ output[r] \in Directory
    BY <1>0, Others
  <1>2. output' = output /\ executes' = executes /\ run[r].do # "done"
    BY DEF Advances
  <1>a. \A s \in Run : output[s] \in Directory BY <1>0 DEF PaidTypeOK
  <1>b. \A d \in Directory, n \in Names : disk[d][n] # Absent => disk'[d][n] # Absent
    BY <1>1 DEF Files
  <1>3. OnePayer'
    <2>1. ASSUME NEW s \in Run, Paying(s)' PROVE disk'[output[s]]["claim"] # Absent
      <3>1. CASE s = r BY <1>1, <2>1, <3>1 DEF Files
      <3>2. CASE s # r
        BY <1>1, <1>a, <1>b, <2>1, <3>2, FileNames DEF PaidInv, OnePayer
      <3> QED BY <3>1, <3>2
    <2>2. ASSUME NEW s \in Run, NEW t \in Run, Paying(s)', Paying(t)', output[s] = output[t],
                 s # t
          PROVE  FALSE
      <3>1. \A q \in Run : Paying(q)' =>
              Paying(q) \/ (q = r /\ disk[output[r]]["claim"] = Absent)
        BY <1>1 DEF Files
      <3>2. \A q \in Run : Paying(q) => disk[output[q]]["claim"] # Absent
        BY DEF PaidInv, OnePayer
      <3>3. ~(Paying(s) /\ Paying(t)) BY <2>2 DEF PaidInv, OnePayer
      <3> QED BY <2>2, <3>1, <3>2, <3>3
    <2> QED BY <1>2, <2>1, <2>2 DEF OnePayer
  <1>4. OnePlanner'
    <2>1. \A q \in Run : Planning(q)' =>
            Planning(q) \/ (q = r /\ disk[output[r]]["plan"] = Absent)
      BY <1>1 DEF Files
    <2>2. \A q \in Run : Planning(q) => disk[output[q]]["plan"] # Absent
      BY DEF PaidInv, OnePlanner
    <2>3. ASSUME NEW s \in Run, Planning(s)' PROVE disk'[output[s]]["plan"] # Absent
      BY <1>1, <1>a, <1>b, <2>3, <2>1, <2>2, FileNames DEF Files
    <2>4. ASSUME NEW s \in Run, run'[s].do = "read-plan"
          PROVE  disk'[output[s]]["plan"] = run'[s].plan
      <3>1. CASE s = r BY <1>1, <2>4, <3>1 DEF Files
      <3>2. CASE s # r
        <4>1. run'[s] = run[s] /\ Planning(s) /\ disk[output[s]]["plan"] = run[s].plan
          BY <1>1, <2>4, <3>2 DEF PaidInv, OnePlanner, Planning
        <4>2. CASE output[s] # output[r] BY <1>1, <1>a, <4>1, <4>2
        <4>3. CASE output[s] = output[r]
          <5>1. ~Planning(r) BY <3>2, <4>1, <4>3 DEF PaidInv, OnePlanner
          <5>2. f["plan"] = disk[output[r]]["plan"]
            BY <2>2, <4>1, <4>3, <5>1 DEF Files
          <5> QED BY <1>1, <4>1, <4>3, <5>2
        <4> QED BY <4>2, <4>3
      <3> QED BY <3>1, <3>2
    <2>5. ASSUME NEW s \in Run, NEW t \in Run, Planning(s)', Planning(t)', output[s] = output[t],
                 s # t
          PROVE  FALSE
      <3>3. ~(Planning(s) /\ Planning(t)) BY <2>5 DEF PaidInv, OnePlanner
      <3> QED BY <2>5, <2>1, <2>2, <3>3
    <2> QED BY <1>2, <2>3, <2>4, <2>5 DEF OnePlanner
  <1>5. ASSUME NEW s \in Run, s # r, Paying(s)
        PROVE  \A n \in {"results", "vectors", "manifest"} :
                 disk'[output[s]][n] = disk[output[s]][n]
    <2>1. CASE output[s] # output[r] BY <1>1, <1>a, <2>1
    <2>2. CASE output[s] = output[r]
      <3>1. ~Paying(r) BY <1>5, <2>2 DEF PaidInv, OnePayer
      <3> QED BY <1>1, <2>2, <3>1 DEF Files
    <2> QED BY <2>1, <2>2
  <1>6. ASSUME NEW s \in Run PROVE Holds(s)'
    <2>1. CASE s = r BY <2>1
    <2>2. CASE s # r
      <3>1. Holds(s) /\ run'[s] = run[s] /\ calls'[s] = calls[s] BY <1>1, <2>2 DEF PaidInv
      <3>2. run[s].do = "write-manifest" => disk'[output[s]]["vectors"] = disk[output[s]]["vectors"]
        BY <1>5, <2>2 DEF Paying
      <3> QED BY <1>2, <3>1, <3>2 DEF Holds, VectorsOf
    <2> QED BY <2>1, <2>2
  <1>7. ASSUME NEW d \in Directory, Complete(disk'[d]["manifest"])
        PROVE  \E s \in Run : Finished(s, d)'
    <2>1. CASE disk'[d]["manifest"] # disk[d]["manifest"]
      <3>1. d = output[r] BY <1>1, <2>1
      <3> QED BY <1>1, <1>7, <2>1, <3>1, <1>2 DEF Files
    <2>2. CASE disk'[d]["manifest"] = disk[d]["manifest"]
      <3>1. PICK s \in Run : Finished(s, d)
        BY <1>7, <2>2 DEF PaidInv, ManifestIsLast
      <3>2. s # r BY <1>2, <3>1 DEF Finished
      <3>3. Paying(s) BY <3>1, PaidAssumption DEF Finished, Paying
      <3>4. disk'[d]["vectors"] = disk[d]["vectors"]
        BY <1>5, <3>1, <3>2, <3>3 DEF Finished
      <3>5. run'[s] = run[s] /\ calls'[s] = calls[s] BY <1>1, <3>2
      <3>6. Finished(s, d)' BY <1>2, <2>2, <3>1, <3>4, <3>5 DEF Finished, VectorsOf
      <3> QED BY <3>6
    <2> QED BY <2>1, <2>2
  <1> QED BY <1>1, <1>3, <1>4, <1>6, <1>7 DEF PaidInv, ManifestIsLast

----------------------------------------------------------------------------
(* The steps of a run, one lemma for those that leave the files alone, one for *)
(* those that create or fill one.                                             *)

\* A step that leaves the files alone.
LEMMA QuietStep ==
  ASSUME PaidInv, NEW r \in Run, NEW w \in RunRecord, NEW c \in 0..Queries,
         run' = [run EXCEPT ![r] = w], calls' = [calls EXCEPT ![r] = c],
         UNCHANGED <<inputs, corpus, active, output, executes, disk>>,
         run[r].do # "done",
         Paying(r)' => Paying(r), Planning(r)' => Planning(r),
         w.do # "read-plan",
         Holds(r)'
  PROVE  PaidInv'
  <1> DEFINE f == disk[output[r]]
  <1>1. /\ output[r] \in Directory
        /\ f \in [Names -> PaidFile]
        /\ \A n \in Names : f[n] \in Contents[n] \cup {Absent, Unfilled}
    BY DEF PaidInv, PaidTypeOK
  <1>2. disk' = [disk EXCEPT ![output[r]] = f]
    BY <1>1 DEF PaidInv, PaidTypeOK
  <1>3. run'[r] = w
    BY DEF PaidInv, PaidTypeOK
  <1>4. Paying(r)' => f["claim"] # Absent
    BY DEF PaidInv, OnePayer
  <1>5. Planning(r)' => f["plan"] # Absent
    BY DEF PaidInv, OnePlanner
  <1>6. Advances(r, w, c, f)
    BY <1>1, <1>2 DEF Advances
  <1>7. Files(r, f)
    BY <1>3, <1>4, <1>5 DEF Files
  <1> HIDE DEF f
  <1> QED BY <1>6, <1>7, AdvanceKeeps

\* A step that changes one file: it creates it, or fills it.
LEMMA FileStep ==
  ASSUME PaidInv, NEW r \in Run, NEW w \in RunRecord, NEW n \in Names,
         NEW content \in Contents[n] \cup {Unfilled},
         run' = [run EXCEPT ![r] = w], disk' = [disk EXCEPT ![output[r]][n] = content],
         UNCHANGED <<inputs, corpus, active, output, executes, calls>>,
         run[r].do # "done",
         n = "plan" => Planning(r) \/ disk[output[r]]["plan"] = Absent,
         n \in {"results", "vectors", "manifest"} => Paying(r),
         Paying(r)' => Paying(r) \/ (n = "claim" /\ disk[output[r]]["claim"] = Absent),
         Planning(r)' => Planning(r) \/ (n = "plan" /\ disk[output[r]]["plan"] = Absent),
         w.do = "read-plan" => n = "plan" /\ content = w.plan,
         n = "manifest" /\ content # Unfilled => Finished(r, output[r])',
         Holds(r)'
  PROVE  PaidInv'
  <1> DEFINE f == [disk[output[r]] EXCEPT ![n] = content]
  <1>1. /\ output[r] \in Directory
        /\ disk[output[r]] \in [Names -> PaidFile]
        /\ \A m \in Names : disk[output[r]][m] \in Contents[m] \cup {Absent, Unfilled}
        /\ calls[r] \in 0..Queries
    BY DEF PaidInv, PaidTypeOK
  <1>2. content \in PaidFile /\ content # Absent
    BY FileNames, PaidAssumption
  <1>3. /\ f \in [Names -> PaidFile]
        /\ \A m \in Names : f[m] \in Contents[m] \cup {Absent, Unfilled}
        /\ f[n] = content
        /\ \A m \in Names \ {n} : f[m] = disk[output[r]][m]
    BY <1>1, <1>2
  <1>4. disk' = [disk EXCEPT ![output[r]] = f]
    BY <1>1 DEF PaidInv, PaidTypeOK
  <1>5. run'[r] = w /\ calls' = [calls EXCEPT ![r] = calls[r]]
    BY DEF PaidInv, PaidTypeOK
  <1>6. Paying(r) => disk[output[r]]["claim"] # Absent
    BY DEF PaidInv, OnePayer
  <1>7. Planning(r) => disk[output[r]]["plan"] # Absent
    BY DEF PaidInv, OnePlanner
  <1> HIDE DEF f
  <1>8. Advances(r, w, calls[r], f)
    BY <1>1, <1>3, <1>4, <1>5 DEF Advances
  <1>9. Files(r, f)
    <2>1. \A m \in Names : disk[output[r]][m] # Absent => f[m] # Absent
      BY <1>2, <1>3
    <2>2. \A m \in {"results", "vectors", "manifest"} : f[m] # disk[output[r]][m] => Paying(r)
      BY <1>3, FileNames
    <2>3. f["plan"] # disk[output[r]]["plan"] => disk[output[r]]["plan"] = Absent \/ Planning(r)
      BY <1>3, FileNames
    <2>4. Paying(r)' => f["claim"] # Absent /\ (Paying(r) \/ disk[output[r]]["claim"] = Absent)
      BY <1>2, <1>3, <1>6, <2>1, FileNames
    <2>5. Planning(r)' => f["plan"] # Absent /\ (Planning(r) \/ disk[output[r]]["plan"] = Absent)
      BY <1>2, <1>3, <1>7, <2>1, FileNames
    <2>6. w.do = "read-plan" => f["plan"] = w.plan
      BY <1>3
    <2>7. Complete(f["manifest"]) /\ f["manifest"] # disk[output[r]]["manifest"]
            => Finished(r, output[r])'
      BY <1>3, FileNames DEF Complete
    <2> QED BY <1>5, <2>1, <2>2, <2>3, <2>4, <2>5, <2>6, <2>7 DEF Files
  <1> QED BY <1>8, <1>9, AdvanceKeeps

\* What a run is, one field at a time.
LEMMA RunFields ==
  ASSUME PaidInv, NEW r \in Run
  PROVE  /\ run \in [Run -> RunRecord] /\ run[r] \in RunRecord
         /\ run[r].do \in PaidSteps /\ run[r].open \in BOOLEAN
         /\ run[r].corpus \in Version /\ run[r].artifact \in Version /\ run[r].queries \in Version
         /\ run[r].plan \in Plan \cup {NoPlan} /\ run[r].read \in Plan \cup {NoPlan}
         /\ calls \in [Run -> 0..Queries] /\ calls[r] \in 0..Queries
         /\ calls = [calls EXCEPT ![r] = calls[r]]
         /\ inputs \in Version /\ corpus \in Version /\ active \in Version
         /\ Holds(r)
  <1>1. run[r] \in RunRecord
    BY DEF PaidInv, PaidTypeOK
  <1> QED BY <1>1 DEF PaidInv, PaidTypeOK, RunRecord

\* The steps that plan: each only moves on, with what it has loaded.
LEMMA PlanningSteps ==
  ASSUME PaidInv, NEW r \in Run,
         LoadCorpus(r) \/ LoadArtifact(r) \/ ReadInputs(r) \/ BuildPlan(r)
  PROVE  PaidInv'
  <1>0. /\ run \in [Run -> RunRecord] /\ run[r] \in RunRecord
        /\ calls[r] \in 0..Queries /\ calls = [calls EXCEPT ![r] = calls[r]]
        /\ Holds(r)
    BY RunFields
  <1>1. CASE LoadCorpus(r)
    <2> DEFINE w == [run[r] EXCEPT !.do = "artifact", !.corpus = corpus]
    <2>1. w \in RunRecord
      BY RunFields DEF RunRecord, PaidSteps
    <2>2. run' = [run EXCEPT ![r] = w] /\ run'[r] = w
      BY <1>0, <1>1 DEF LoadCorpus
    <2>3. w.do = "artifact" /\ w.open = run[r].open
      BY <1>0 DEF RunRecord
    <2> HIDE DEF w
    <2>4. Holds(r)'
      BY <1>0, <1>1, <2>2, <2>3 DEF LoadCorpus, Does, Holds, Planned, Bought, HasRead
    <2>5. (Paying(r)' => Paying(r)) /\ (Planning(r)' => Planning(r))
      BY <1>1, <2>2, <2>3 DEF LoadCorpus, Paying, Planning
    <2> QED BY <1>0, <1>1, <2>1, <2>2, <2>3, <2>4, <2>5, QuietStep DEF LoadCorpus, Does
  <1>2. CASE LoadArtifact(r)
    <2> DEFINE w == [run[r] EXCEPT !.do = IF active = run[r].corpus THEN "inputs" ELSE "failed",
                                   !.artifact = active]
    <2>1. w \in RunRecord
      BY RunFields DEF RunRecord, PaidSteps
    <2>2. run' = [run EXCEPT ![r] = w] /\ run'[r] = w
      BY <1>0, <1>2 DEF LoadArtifact
    <2>3. /\ w.do = IF active = run[r].corpus THEN "inputs" ELSE "failed"
          /\ w.open = run[r].open /\ w.corpus = run[r].corpus /\ w.artifact = active
      BY <1>0 DEF RunRecord
    <2> HIDE DEF w
    <2>4. Holds(r)'
      BY <1>0, <1>2, <2>2, <2>3 DEF LoadArtifact, Does, Holds, Planned, Bought, HasRead
    <2>5. (Paying(r)' => Paying(r)) /\ (Planning(r)' => Planning(r))
      BY <1>2, <2>2, <2>3 DEF LoadArtifact, Paying, Planning
    <2> QED BY <1>0, <1>2, <2>1, <2>2, <2>3, <2>4, <2>5, QuietStep DEF LoadArtifact, Does
  <1>3. CASE ReadInputs(r)
    <2> DEFINE w == [run[r] EXCEPT !.do = "plan", !.queries = inputs]
    <2>1. w \in RunRecord
      BY RunFields DEF RunRecord, PaidSteps
    <2>2. run' = [run EXCEPT ![r] = w] /\ run'[r] = w
      BY <1>0, <1>3 DEF ReadInputs
    <2>3. /\ w.do = "plan" /\ w.open = run[r].open
          /\ w.corpus = run[r].corpus /\ w.artifact = run[r].artifact
      BY <1>0 DEF RunRecord
    <2> HIDE DEF w
    <2>4. Holds(r)'
      BY <1>0, <1>3, <2>2, <2>3 DEF ReadInputs, Does, Holds, Planned, Bought, HasRead
    <2>5. (Paying(r)' => Paying(r)) /\ (Planning(r)' => Planning(r))
      BY <1>3, <2>2, <2>3 DEF ReadInputs, Paying, Planning
    <2> QED BY <1>0, <1>3, <2>1, <2>2, <2>3, <2>4, <2>5, QuietStep DEF ReadInputs, Does
  <1>4. CASE BuildPlan(r)
    <2> DEFINE p == [queries |-> run[r].queries, inputs |-> inputs, corpus |-> corpus,
                     artifact |-> run[r].artifact, by |-> r]
               w == [run[r] EXCEPT !.do = IF r \in executes THEN "compare" ELSE "write-plan",
                                   !.plan = p]
    <2>0. p \in Plan /\ p.artifact = run[r].artifact
      BY RunFields DEF Plan
    <2> HIDE DEF p
    <2>1. w \in RunRecord
      BY <2>0, RunFields DEF RunRecord, PaidSteps
    <2>2. run' = [run EXCEPT ![r] = w] /\ run'[r] = w
      BY <1>0, <1>4 DEF BuildPlan, p
    <2>3. /\ w.do = IF r \in executes THEN "compare" ELSE "write-plan"
          /\ w.open = run[r].open /\ w.corpus = run[r].corpus
          /\ w.artifact = run[r].artifact /\ w.plan = p
      BY <1>0 DEF RunRecord
    <2> HIDE DEF w
    <2>4. ~run[r].open
      BY <1>0, <1>4 DEF BuildPlan, Does, Holds, Bought
    <2>5. Holds(r)'
      BY <1>0, <1>4, <2>0, <2>2, <2>3, <2>4 DEF BuildPlan, Does, Holds, Planned, Bought, HasRead
    <2>6. (Paying(r)' => Paying(r)) /\ (Planning(r)' => Planning(r))
      BY <1>4, <2>2, <2>3, <2>4 DEF BuildPlan, Paying, Planning
    <2> QED BY <1>0, <1>4, <2>1, <2>2, <2>3, <2>5, <2>6, QuietStep DEF BuildPlan, Does
  <1> QED BY <1>1, <1>2, <1>3, <1>4

\* A run that fails or is killed leaves everything behind as it is.
LEMMA StopStep ==
  ASSUME PaidInv, NEW r \in Run, NEW step \in {"failed", "dead"}, NEW c \in 0..Queries,
         Then(r, step), calls' = [calls EXCEPT ![r] = c], c > 0 => Paying(r),
         UNCHANGED <<inputs, corpus, active, output, executes, disk>>,
         run[r].do # "done"
  PROVE  PaidInv'
  <1> DEFINE w == [run[r] EXCEPT !.do = step]
  <1>0. /\ run \in [Run -> RunRecord] /\ run[r] \in RunRecord
        /\ calls \in [Run -> 0..Queries] /\ Holds(r)
    BY RunFields
  <1>1. w \in RunRecord
    BY RunFields DEF RunRecord, PaidSteps
  <1>2. run' = [run EXCEPT ![r] = w] /\ run'[r] = w /\ calls'[r] = c
    BY <1>0 DEF Then
  <1>3. w.do = step
    BY <1>0 DEF RunRecord
  <1> HIDE DEF w
  <1>4. Holds(r)'
    BY <1>2, <1>3 DEF Holds, Planned, Bought, HasRead
  <1>5. (Paying(r)' => Paying(r)) /\ (Planning(r)' => Planning(r))
    BY <1>2, <1>3 DEF Paying, Planning
  <1> QED BY <1>1, <1>2, <1>3, <1>4, <1>5, QuietStep

\* The plan that is compared or read: its content is a plan.
LEMMA ReadingSteps ==
  ASSUME PaidInv, NEW r \in Run, ComparePlan(r) \/ ReadPlan(r)
  PROVE  PaidInv'
  <1>0. /\ run \in [Run -> RunRecord] /\ run[r] \in RunRecord
        /\ calls[r] \in 0..Queries /\ calls = [calls EXCEPT ![r] = calls[r]]
        /\ Holds(r) /\ ~run[r].open
    BY RunFields DEF ComparePlan, ReadPlan, Does, Holds, Bought
  <1>1. CASE ComparePlan(r) /\ Dir(r)["plan"] = Absent
    <2> DEFINE w == [run[r] EXCEPT !.do = "write-plan"]
    <2>1. w \in RunRecord
      BY RunFields DEF RunRecord, PaidSteps
    <2>2. run' = [run EXCEPT ![r] = w] /\ run'[r] = w
      BY <1>0, <1>1 DEF ComparePlan
    <2>3. /\ w.do = "write-plan" /\ w.open = run[r].open /\ w.corpus = run[r].corpus
          /\ w.artifact = run[r].artifact /\ w.plan = run[r].plan
      BY <1>0 DEF RunRecord
    <2> HIDE DEF w
    <2>4. Holds(r)'
      BY <1>0, <1>1, <2>2, <2>3 DEF ComparePlan, Does, Holds, Planned, Bought, HasRead
    <2>5. (Paying(r)' => Paying(r)) /\ (Planning(r)' => Planning(r))
      BY <1>0, <1>1, <2>2, <2>3 DEF ComparePlan, Paying, Planning
    <2> QED BY <1>0, <1>1, <2>1, <2>2, <2>3, <2>4, <2>5, QuietStep DEF ComparePlan, Does
  <1>2. CASE ComparePlan(r) /\ Dir(r)["plan"] # Absent
             /\ (Dir(r)["plan"] = Unfilled \/ ~SamePlan(Dir(r)["plan"], run[r].plan))
    <2>1. Then(r, "failed")
      BY <1>2 DEF ComparePlan, Then
    <2>2. calls[r] > 0 => Paying(r)
      BY DEF Paying
    <2> QED BY <1>0, <1>2, <2>1, <2>2, StopStep DEF ComparePlan, Does
  <1>3. CASE \/ ReadPlan(r)
             \/ /\ ComparePlan(r) /\ Dir(r)["plan"] \notin {Absent, Unfilled}
                /\ SamePlan(Dir(r)["plan"], run[r].plan)
    <2> DEFINE w == [run[r] EXCEPT !.do = "refuse", !.read = Dir(r)["plan"]]
    <2>1. ReadPlan(r) => Dir(r)["plan"] = run[r].plan
      BY DEF ReadPlan, Does, PaidInv, OnePlanner, Dir
    <2>2. run[r].plan \in Plan /\ run[r].plan.artifact = run[r].artifact
      BY <1>0, <1>3 DEF ReadPlan, ComparePlan, Does, Holds, Planned
    <2>3. Dir(r)["plan"] \in Plan
      <3>1. CASE ReadPlan(r) BY <2>1, <2>2, <3>1
      <3>2. CASE Dir(r)["plan"] \notin {Absent, Unfilled}
        BY <3>2, FileNames DEF Dir, PaidInv, PaidTypeOK
      <3> QED BY <1>3, <3>1, <3>2
    <2>4. SamePlan(Dir(r)["plan"], run[r].plan)
      BY <1>3, <2>1 DEF SamePlan
    <2>5. w \in RunRecord
      BY <2>3, RunFields DEF RunRecord, PaidSteps
    <2>6. run' = [run EXCEPT ![r] = w] /\ run'[r] = w
      BY <1>0, <1>3 DEF ComparePlan, ReadPlan
    <2>7. /\ w.do = "refuse" /\ w.open = run[r].open /\ w.corpus = run[r].corpus
          /\ w.artifact = run[r].artifact /\ w.plan = run[r].plan /\ w.read = Dir(r)["plan"]
      BY <1>0 DEF RunRecord
    <2> HIDE DEF w
    <2>8. Holds(r)'
      BY <1>0, <1>3, <2>2, <2>3, <2>4, <2>6, <2>7
      DEF ComparePlan, ReadPlan, Does, Holds, Planned, Bought, HasRead, SamePlan
    <2>9. (Paying(r)' => Paying(r)) /\ (Planning(r)' => Planning(r))
      BY <1>0, <1>3, <2>6, <2>7 DEF ComparePlan, ReadPlan, Paying, Planning
    <2>10. run[r].do # "done" /\ UNCHANGED <<inputs, corpus, active, output, executes, calls, disk>>
      BY <1>3 DEF ComparePlan, ReadPlan, Does
    <2> QED BY <1>0, <2>5, <2>6, <2>7, <2>8, <2>9, <2>10, QuietStep
  <1> QED BY <1>1, <1>2, <1>3

\* The steps between the files: nothing was executed here, and the queries are embedded.
LEMMA EmbeddingSteps ==
  ASSUME PaidInv, NEW r \in Run,
         RefuseExecuted(r) \/ Embed(r) \/ EmbedFails(r) \/ EmbeddedAll(r) \/ KillRun(r)
  PROVE  PaidInv'
  <1>0. /\ run \in [Run -> RunRecord] /\ run[r] \in RunRecord
        /\ calls \in [Run -> 0..Queries] /\ calls[r] \in 0..Queries
        /\ calls = [calls EXCEPT ![r] = calls[r]] /\ Queries \in Nat
        /\ Holds(r) /\ (calls[r] > 0 => Paying(r))
    BY RunFields, PaidAssumption DEF Paying
  <1>1. CASE RefuseExecuted(r)
    <2>1. CASE Then(r, "failed")
      BY <1>0, <1>1, <2>1, StopStep DEF RefuseExecuted, Does
    <2>2. CASE Then(r, "claim")
      <3> DEFINE w == [run[r] EXCEPT !.do = "claim"]
      <3>1. w \in RunRecord
        BY RunFields DEF RunRecord, PaidSteps
      <3>2. run' = [run EXCEPT ![r] = w] /\ run'[r] = w
        BY <1>0, <2>2 DEF Then
      <3>3. /\ w.do = "claim" /\ w.open = run[r].open /\ w.corpus = run[r].corpus
            /\ w.artifact = run[r].artifact /\ w.plan = run[r].plan /\ w.read = run[r].read
        BY <1>0 DEF RunRecord
      <3> HIDE DEF w
      <3>4. ~run[r].open
        BY <1>0, <1>1 DEF RefuseExecuted, Does, Holds, Bought
      <3>5. Holds(r)'
        BY <1>0, <1>1, <3>2, <3>3, <3>4
        DEF RefuseExecuted, Does, Holds, Planned, Bought, HasRead, SamePlan
      <3>6. (Paying(r)' => Paying(r)) /\ (Planning(r)' => Planning(r))
        BY <1>1, <3>2, <3>3, <3>4 DEF RefuseExecuted, Paying, Planning
      <3> QED BY <1>0, <1>1, <3>1, <3>2, <3>3, <3>5, <3>6, QuietStep DEF RefuseExecuted, Does
    <2> QED BY <1>1, <2>1, <2>2 DEF RefuseExecuted
  <1>2. CASE Embed(r)
    <2>1. /\ calls[r] + 1 \in 0..Queries /\ calls' = [calls EXCEPT ![r] = calls[r] + 1]
          /\ run' = run /\ run[r].do = "embed" /\ Paying(r)
      BY <1>0, <1>2 DEF Embed, Does, Paying
    <2>2. Holds(r)'
      BY <1>0, <1>2, <2>1 DEF Embed, Holds, Planned, Bought, HasRead
    <2>3. run' = [run EXCEPT ![r] = run[r]] /\ (Planning(r)' => Planning(r))
      BY <1>0, <2>1 DEF Planning
    <2> QED BY <1>0, <1>2, <2>1, <2>2, <2>3, QuietStep DEF Embed
  <1>3. CASE EmbedFails(r)
    <2>1. /\ calls[r] + 1 \in 0..Queries /\ calls' = [calls EXCEPT ![r] = calls[r] + 1]
          /\ run[r].do = "embed" /\ Paying(r)
      BY <1>0, <1>3 DEF EmbedFails, Does, Paying
    <2> QED BY <1>3, <2>1, StopStep DEF EmbedFails
  <1>4. CASE EmbeddedAll(r)
    <2> DEFINE w == [run[r] EXCEPT !.do = "write-results"]
    <2>1. w \in RunRecord
      BY RunFields DEF RunRecord, PaidSteps
    <2>2. run' = [run EXCEPT ![r] = w] /\ run'[r] = w
      BY <1>0, <1>4 DEF Then, EmbeddedAll
    <2>3. /\ w.do = "write-results" /\ w.open = run[r].open /\ w.corpus = run[r].corpus
          /\ w.artifact = run[r].artifact /\ w.plan = run[r].plan /\ w.read = run[r].read
      BY <1>0 DEF RunRecord
    <2> HIDE DEF w
    <2>4. ~run[r].open /\ Paying(r)
      BY <1>0, <1>4 DEF EmbeddedAll, Does, Holds, Bought, Paying
    <2>5. Holds(r)'
      BY <1>0, <1>4, <2>2, <2>3, <2>4
      DEF EmbeddedAll, Does, Holds, Planned, Bought, HasRead, SamePlan
    <2>6. ~Planning(r)'
      BY <2>2, <2>3 DEF Planning
    <2> QED BY <1>0, <1>4, <2>1, <2>2, <2>3, <2>4, <2>5, <2>6, QuietStep DEF EmbeddedAll, Does
  <1>5. CASE KillRun(r)
    BY <1>0, <1>5, StopStep DEF KillRun
  <1> QED BY <1>1, <1>2, <1>3, <1>4, <1>5

\* The file each writing step is about.
WritesAt(name) ==
  CASE name = "plan" -> "write-plan" [] name = "claim" -> "claim" [] name = "results" -> "write-results"
    [] name = "vectors" -> "write-vectors" [] name = "manifest" -> "write-manifest"

\* Exclusive creation: the claim and the plan are taken only where there is none.
LEMMA CreateStep ==
  ASSUME PaidInv, NEW r \in Run, NEW n \in Names, run[r].do = WritesAt(n), CreateFile(r, n),
         UNCHANGED <<inputs, corpus, active, output, executes, calls>>
  PROVE  PaidInv'
  <1>0. /\ run \in [Run -> RunRecord] /\ run[r] \in RunRecord
        /\ calls \in [Run -> 0..Queries] /\ calls[r] \in 0..Queries
        /\ calls = [calls EXCEPT ![r] = calls[r]]
        /\ Holds(r) /\ (calls[r] > 0 => Paying(r))
    BY RunFields DEF Paying
  <1>1. /\ n \in {"plan", "claim", "results", "vectors", "manifest"}
        /\ n = "plan" => run[r].do = "write-plan"
        /\ n = "claim" => run[r].do = "claim"
        /\ n = "results" => run[r].do = "write-results"
        /\ n = "vectors" => run[r].do = "write-vectors"
        /\ n = "manifest" => run[r].do = "write-manifest"
    BY FileNames DEF WritesAt
  <1>2. run[r].do \in {"write-plan", "claim"} \cup Bought
    BY <1>1 DEF Bought
  <1>3. CASE Dir(r)[n] # Absent
    <2>1. Then(r, "failed") /\ disk' = disk
      BY <1>3 DEF CreateFile
    <2> QED BY <1>0, <1>2, <2>1, StopStep DEF Bought
  <1>4. CASE Dir(r)[n] = Absent
    <2> DEFINE w == [run[r] EXCEPT !.open = TRUE]
    <2>1. w \in RunRecord
      BY RunFields DEF RunRecord
    <2>2. run' = [run EXCEPT ![r] = w] /\ run'[r] = w
      BY <1>0, <1>4 DEF CreateFile
    <2>3. /\ w.do = run[r].do /\ w.open /\ w.corpus = run[r].corpus /\ w.queries = run[r].queries
          /\ w.artifact = run[r].artifact /\ w.plan = run[r].plan /\ w.read = run[r].read
      BY <1>0 DEF RunRecord
    <2> HIDE DEF w
    <2>4. disk' = [disk EXCEPT ![output[r]][n] = Unfilled]
      BY <1>4 DEF CreateFile
    <2>5. run[r].do = "write-manifest" => disk'[output[r]]["vectors"] = disk[output[r]]["vectors"]
      <3>1. run[r].do = "write-manifest" => n # "vectors"
        BY <1>1
      <3> QED BY <2>4, <3>1, FileNames DEF PaidInv, PaidTypeOK
    <2>6. Holds(r)'
      BY <1>0, <1>2, <2>2, <2>3, <2>5
      DEF Holds, Planned, Bought, HasRead, SamePlan, VectorsOf
    <2>7. n \in {"results", "vectors", "manifest"} => Paying(r)
      BY <1>1 DEF Paying
    <2>8. Paying(r)' => Paying(r) \/ (n = "claim" /\ disk[output[r]]["claim"] = Absent)
      BY <1>1, <1>4, <2>2, <2>3 DEF Paying, Dir
    <2>9. Planning(r)' => Planning(r) \/ (n = "plan" /\ disk[output[r]]["plan"] = Absent)
      BY <1>1, <1>4, <2>2, <2>3 DEF Planning, Dir
    <2>10. n = "plan" => disk[output[r]]["plan"] = Absent
      BY <1>4 DEF Dir
    <2>11. w.do # "read-plan" /\ run[r].do # "done"
      BY <1>2, <2>3 DEF Bought
    <2> QED BY <2>1, <2>2, <2>4, <2>6, <2>7, <2>8, <2>9, <2>10, <2>11, FileStep
  <1> QED BY <1>3, <1>4

\* The file that a run has created is filled by it alone.
LEMMA FillStep ==
  ASSUME PaidInv, NEW r \in Run, NEW n \in Names, run[r].do = WritesAt(n),
         NEW content \in Contents[n], NEW next \in PaidSteps, FillFile(r, n, content, next),
         UNCHANGED <<inputs, corpus, active, output, executes, calls>>,
         n = "plan" => next \in {"read-plan", "done"} /\ content = run[r].plan,
         n = "plan" /\ next = "read-plan" => r \in executes,
         n = "claim" => next = "embed",
         n = "results" => next = "write-vectors",
         n = "vectors" => next = "write-manifest" /\ content = VectorsOf(r),
         n = "manifest" => /\ next = "done"
                           /\ content = [plan |-> run[r].read, vectors |-> disk[output[r]]["vectors"]]
  PROVE  PaidInv'
  <1>0. /\ run \in [Run -> RunRecord] /\ run[r] \in RunRecord
        /\ calls \in [Run -> 0..Queries] /\ calls[r] \in 0..Queries
        /\ calls = [calls EXCEPT ![r] = calls[r]]
        /\ Holds(r) /\ (calls[r] > 0 => Paying(r)) /\ run[r].open
    BY RunFields DEF Paying, FillFile
  <1>1. /\ n \in {"plan", "claim", "results", "vectors", "manifest"}
        /\ n = "plan" => run[r].do = "write-plan"
        /\ n = "claim" => run[r].do = "claim"
        /\ n = "results" => run[r].do = "write-results"
        /\ n = "vectors" => run[r].do = "write-vectors"
        /\ n = "manifest" => run[r].do = "write-manifest"
    BY FileNames DEF WritesAt
  <1>2. run[r].do \in {"write-plan", "claim"} \cup Bought
    BY <1>1 DEF Bought
  <1> DEFINE w == [run[r] EXCEPT !.open = FALSE, !.do = next]
  <1>3. w \in RunRecord
    BY RunFields DEF RunRecord
  <1>4. run' = [run EXCEPT ![r] = w] /\ run'[r] = w
    BY <1>0 DEF FillFile
  <1>5. /\ w.do = next /\ ~w.open /\ w.corpus = run[r].corpus /\ w.queries = run[r].queries
        /\ w.artifact = run[r].artifact /\ w.plan = run[r].plan /\ w.read = run[r].read
    BY <1>0 DEF RunRecord
  <1> HIDE DEF w
  <1>6. disk' = [disk EXCEPT ![output[r]][n] = content]
    BY DEF FillFile
  <1>7. /\ disk'[output[r]][n] = content
        /\ n # "vectors" => disk'[output[r]]["vectors"] = disk[output[r]]["vectors"]
    BY <1>6, FileNames DEF PaidInv, PaidTypeOK
  <1>8. VectorsOf(r)' = VectorsOf(r)
    BY <1>4, <1>5 DEF VectorsOf
  <1>9. next \in Bought => next # "write-results"
    BY <1>1 DEF Bought
  <1>10. Holds(r)'
    <2>1. CASE n = "plan"
      BY <1>0, <1>1, <1>4, <1>5, <2>1 DEF Holds, Planned, Bought, HasRead
    <2>2. CASE n = "claim"
      BY <1>0, <1>1, <1>4, <1>5, <2>2 DEF Holds, Planned, Bought, HasRead, SamePlan
    <2>3. CASE n = "results"
      BY <1>0, <1>1, <1>4, <1>5, <2>3 DEF Holds, Planned, Bought, HasRead, SamePlan
    <2>4. CASE n = "vectors"
      BY <1>0, <1>1, <1>4, <1>5, <1>7, <1>8, <2>4 DEF Holds, Planned, Bought, HasRead, SamePlan
    <2>5. CASE n = "manifest"
      BY <1>4, <1>5, <2>5 DEF Holds, Planned, Bought, HasRead
    <2> QED BY <1>1, <2>1, <2>2, <2>3, <2>4, <2>5
  <1>11. n = "manifest" => Finished(r, output[r])'
    <2> SUFFICES ASSUME n = "manifest" PROVE Finished(r, output[r])'
      OBVIOUS
    <2>1. /\ run[r].do = "write-manifest" /\ next = "done"
          /\ disk[output[r]]["vectors"] = VectorsOf(r) /\ calls[r] = Queries
          /\ run[r].read \in Plan /\ SamePlan(run[r].read, run[r].plan) /\ r \in executes
          /\ run[r].plan.artifact = run[r].artifact /\ run[r].artifact = run[r].corpus
      BY <1>0, <1>1 DEF Holds, Planned, Bought, HasRead
    <2>2. run[r].read.artifact = run[r].artifact
      BY <2>1 DEF SamePlan
    <2> QED BY <1>4, <1>5, <1>7, <1>8, <2>1, <2>2 DEF Finished
  <1>12. n \in {"results", "vectors", "manifest"} => Paying(r)
    BY <1>1 DEF Paying
  <1>13. Paying(r)' => Paying(r)
    <2>1. CASE n = "plan" BY <1>4, <1>5, <2>1 DEF Paying
    <2>2. CASE n = "claim" BY <1>0, <1>1, <2>2 DEF Paying
    <2> QED BY <1>1, <1>12, <2>1, <2>2
  <1>14. Planning(r)' => Planning(r)
    BY <1>0, <1>1, <1>4, <1>5 DEF Planning
  <1>15. n = "plan" => Planning(r)
    BY <1>0, <1>1 DEF Planning
  <1>16. w.do = "read-plan" => n = "plan" /\ content = w.plan
    BY <1>1, <1>5
  <1>17. run[r].do # "done"
    BY <1>2 DEF Bought
  <1> QED BY <1>3, <1>4, <1>6, <1>10, <1>11, <1>12, <1>13, <1>14, <1>15, <1>16, <1>17, FileStep

LEMMA WritingSteps ==
  ASSUME PaidInv, NEW r \in Run,
         WritePlan(r) \/ ClaimExecution(r) \/ WriteResults(r) \/ WriteVectors(r) \/ WriteManifest(r)
  PROVE  PaidInv'
  <1>0. /\ Holds(r) /\ run[r].queries \in Version
        /\ "plan" \in Names /\ "claim" \in Names /\ "results" \in Names
        /\ "vectors" \in Names /\ "manifest" \in Names
    BY RunFields, FileNames
  <1>1. VectorsOf(r) \in Vectors
    BY <1>0 DEF VectorsOf, Vectors
  <1>2. CASE WritePlan(r)
    <2>1. run[r].do = WritesAt("plan") /\ run[r].plan \in Contents["plan"]
      BY <1>0, <1>2, FileNames DEF WritePlan, Does, WritesAt, Holds, Planned
    <2>2. (IF r \in executes THEN "read-plan" ELSE "done") \in PaidSteps
      BY DEF PaidSteps
    <2>3. CASE CreateFile(r, "plan")
      BY <1>0, <1>2, <2>1, <2>3, CreateStep DEF WritePlan, WriteNew
    <2>4. CASE FillFile(r, "plan", run[r].plan, IF r \in executes THEN "read-plan" ELSE "done")
      BY <1>0, <1>2, <2>1, <2>2, <2>4, FillStep DEF WritePlan, WriteNew
    <2> QED BY <1>2, <2>3, <2>4 DEF WritePlan, WriteNew
  <1>3. CASE ClaimExecution(r)
    <2>1. run[r].do = WritesAt("claim") /\ run[r].plan \in Contents["claim"] /\ "embed" \in PaidSteps
      BY <1>0, <1>3, FileNames DEF ClaimExecution, Does, WritesAt, Holds, Planned, PaidSteps
    <2>2. CASE CreateFile(r, "claim")
      BY <1>0, <1>3, <2>1, <2>2, CreateStep DEF ClaimExecution, WriteNew
    <2>3. CASE FillFile(r, "claim", run[r].plan, "embed")
      BY <1>0, <1>3, <2>1, <2>3, FillStep DEF ClaimExecution, WriteNew
    <2> QED BY <1>3, <2>2, <2>3 DEF ClaimExecution, WriteNew
  <1>4. CASE WriteResults(r)
    <2>1. /\ run[r].do = WritesAt("results") /\ VectorsOf(r) \in Contents["results"]
          /\ "write-vectors" \in PaidSteps
      BY <1>1, <1>4, FileNames DEF WriteResults, Does, WritesAt, PaidSteps
    <2>2. CASE CreateFile(r, "results")
      BY <1>0, <1>4, <2>1, <2>2, CreateStep DEF WriteResults, WriteNew
    <2>3. CASE FillFile(r, "results", VectorsOf(r), "write-vectors")
      BY <1>0, <1>4, <2>1, <2>3, FillStep DEF WriteResults, WriteNew
    <2> QED BY <1>4, <2>2, <2>3 DEF WriteResults, WriteNew
  <1>5. CASE WriteVectors(r)
    <2>1. /\ run[r].do = WritesAt("vectors") /\ VectorsOf(r) \in Contents["vectors"]
          /\ "write-manifest" \in PaidSteps
      BY <1>1, <1>5, FileNames DEF WriteVectors, Does, WritesAt, PaidSteps
    <2>2. CASE CreateFile(r, "vectors")
      BY <1>0, <1>5, <2>1, <2>2, CreateStep DEF WriteVectors, WriteNew
    <2>3. CASE FillFile(r, "vectors", VectorsOf(r), "write-manifest")
      BY <1>0, <1>5, <2>1, <2>3, FillStep DEF WriteVectors, WriteNew
    <2> QED BY <1>5, <2>2, <2>3 DEF WriteVectors, WriteNew
  <1>6. CASE WriteManifest(r)
    <2> DEFINE content == [plan |-> run[r].read, vectors |-> disk[output[r]]["vectors"]]
    <2>1. run[r].do = WritesAt("manifest") /\ "done" \in PaidSteps
      BY <1>6 DEF WriteManifest, Does, WritesAt, PaidSteps
    <2>2. run[r].read \in Plan /\ disk[output[r]]["vectors"] = VectorsOf(r)
      BY <1>0, <1>6 DEF WriteManifest, Does, Holds, HasRead, Bought
    <2>3. content \in Contents["manifest"]
      BY <1>1, <2>2, FileNames
    <2>4. CASE CreateFile(r, "manifest")
      BY <1>0, <1>6, <2>1, <2>4, CreateStep DEF WriteManifest, WriteNew
    <2>5. CASE FillFile(r, "manifest", content, "done")
      BY <1>0, <1>6, <2>1, <2>3, <2>5, FillStep DEF WriteManifest, WriteNew
    <2> QED BY <1>6, <2>4, <2>5 DEF WriteManifest, WriteNew, Dir
  <1> QED BY <1>2, <1>3, <1>4, <1>5, <1>6

\* The operator, and steps that change nothing.
LEMMA OperatorSteps ==
  ASSUME PaidInv, ReplaceInputs \/ ReplaceCorpus \/ Activate \/ UNCHANGED paidVars
  PROVE  PaidInv'
  <1>1. /\ output' = output /\ executes' = executes /\ run' = run /\ calls' = calls /\ disk' = disk
        /\ inputs' \in Version /\ corpus' \in Version /\ active' \in Version
    BY DEF PaidInv, PaidTypeOK, ReplaceInputs, ReplaceCorpus, Activate, paidVars, Version
  <1>2. PaidTypeOK'
    BY <1>1 DEF PaidInv, PaidTypeOK
  <1>3. OnePayer' /\ OnePlanner'
    BY <1>1 DEF PaidInv, OnePayer, OnePlanner, Paying, Planning
  <1>4. \A r \in Run : Holds(r)'
    BY <1>1 DEF PaidInv, Holds, VectorsOf
  <1>5. ManifestIsLast'
    BY <1>1 DEF PaidInv, ManifestIsLast, Finished, VectorsOf
  <1> QED BY <1>2, <1>3, <1>4, <1>5 DEF PaidInv

LEMMA PaidStep == PaidInv /\ [PaidNext]_paidVars => PaidInv'
  <1> SUFFICES ASSUME PaidInv, [PaidNext]_paidVars PROVE PaidInv'
    OBVIOUS
  <1>1. CASE ReplaceInputs \/ ReplaceCorpus \/ Activate \/ UNCHANGED paidVars
    BY <1>1, OperatorSteps
  <1>2. ASSUME NEW r \in Run, LoadCorpus(r) \/ LoadArtifact(r) \/ ReadInputs(r) \/ BuildPlan(r)
        PROVE  PaidInv'
    BY <1>2, PlanningSteps
  <1>3. ASSUME NEW r \in Run, ComparePlan(r) \/ ReadPlan(r) PROVE PaidInv'
    BY <1>3, ReadingSteps
  <1>4. ASSUME NEW r \in Run,
               RefuseExecuted(r) \/ Embed(r) \/ EmbedFails(r) \/ EmbeddedAll(r) \/ KillRun(r)
        PROVE  PaidInv'
    BY <1>4, EmbeddingSteps
  <1>5. ASSUME NEW r \in Run,
               \/ WritePlan(r) \/ ClaimExecution(r) \/ WriteResults(r) \/ WriteVectors(r)
               \/ WriteManifest(r)
        PROVE  PaidInv'
    BY <1>5, WritingSteps
  <1> QED BY <1>1, <1>2, <1>3, <1>4, <1>5 DEF PaidNext

\* The inductive invariant of the paid runs: one run at most claims a directory, one plans
\* it, every run holds what its step needs, and a complete manifest was written last.
THEOREM PaidInvariance == PaidSpec => []PaidInv
  <1>1. PaidInit => PaidInv
    BY PaidInitInv
  <1>2. PaidInv /\ [PaidNext]_paidVars => PaidInv'
    BY PaidStep
  <1> QED BY <1>1, <1>2, PTL DEF PaidSpec

\* The state of the paid runs keeps its types: no plan, vectors or manifest ever stands in
\* the file of another, and a file that is filled is a whole plan, result or manifest.
THEOREM PaidTypeCorrect == PaidSpec => []PaidTypeOK
  <1>1. PaidInv => PaidTypeOK
    BY DEF PaidInv
  <1> QED BY <1>1, PaidInvariance, PTL

\* The queries of an output directory are paid for at most once, and by one run, whatever
\* runs overlap there, fail or are killed: retrieval_only.claim_execution.
THEOREM PaysOnce == PaidSpec => []PaidOncePerOutput
  <1>1. PaidInv => PaidOncePerOutput
    <2>1. ASSUME PaidInv, NEW r \in Run PROVE calls[r] <= Queries
      <3>1. calls[r] \in 0..Queries /\ Queries \in Nat
        BY <2>1, PaidAssumption DEF PaidInv, PaidTypeOK
      <3> QED BY <3>1
    <2>2. ASSUME PaidInv, NEW r \in Run, NEW s \in Run, output[s] = output[r],
                 calls[s] > 0, calls[r] > 0
          PROVE  s = r
      BY <2>2 DEF PaidInv, OnePayer, Paying
    <2> QED BY <2>1, <2>2 DEF PaidOncePerOutput
  <1> QED BY <1>1, PaidInvariance, PTL

\* What load_retrieval_evidence accepts, from whatever two directories and whatever version
\* of the corpus, comes from one execution that embedded all queries of that plan.
THEOREM AcceptsOneExecution == PaidSpec => []EvidenceIsOneExecution
  <1>1. PaidInv => EvidenceIsOneExecution
    <2> SUFFICES ASSUME PaidInv,
                        NEW planDir \in Directory, NEW vectorsDir \in Directory, NEW version \in Version,
                        Accepts(planDir, vectorsDir, version)
                 PROVE  \E r \in executes :
                          /\ output[r] = vectorsDir
                          /\ calls[r] = Queries
                          /\ run[r].read = disk[planDir]["plan"]
                          /\ disk[vectorsDir]["vectors"] = VectorsOf(r)
                          /\ run[r].artifact = version
                          /\ run[r].corpus = version
      BY DEF EvidenceIsOneExecution
    <2>1. /\ Complete(disk[vectorsDir]["manifest"])
          /\ disk[planDir]["plan"] = disk[vectorsDir]["manifest"].plan
          /\ disk[planDir]["plan"].artifact = version
      BY DEF Accepts, HashesMatch
    <2>2. PICK r \in Run : Finished(r, vectorsDir)
      BY <2>1 DEF PaidInv, ManifestIsLast
    <2>3. disk[planDir]["plan"] = run[r].read
      BY <2>1, <2>2 DEF Finished
    <2>4. run[r].artifact = version /\ run[r].corpus = version
      BY <2>1, <2>2, <2>3 DEF Finished
    <2> QED BY <2>2, <2>3, <2>4 DEF Finished
  <1> QED BY <1>1, PaidInvariance, PTL

----------------------------------------------------------------------------
(* Scan evidence: the inductive invariant. *)

Before(p, n) ==
  FilesOf(p) \cap CASE n = "inventory"  -> {}
                    [] n = "stderr"     -> {"inventory"}
                    [] n = "report"     -> {"inventory", "stderr"}
                    [] n = "provenance" -> {"inventory", "stderr", "report"}
                    [] n = "COMPLETE"   -> {"inventory", "stderr", "report", "provenance"}

\* The files of the directory p opened, all of them whole and its own.
Wrote(p, names) ==
  /\ Present(dirs[opened[p]]) = names
  /\ \A n \in names : From(p, dirs[opened[p]][n])

\* How far a publisher is that shares its directory with nobody.
Progress(p) ==
  LET at == publisher[p]
  IN /\ at.do = "sources" => Wrote(p, {})
     /\ at.do = "create" => Wrote(p, Before(p, at.name))
     /\ at.do = "fill" =>
          /\ Present(dirs[opened[p]]) = Before(p, at.name) \cup {at.name}
          /\ \A n \in Before(p, at.name) : From(p, dirs[opened[p]][n])
          /\ dirs[opened[p]][at.name] = Torn(p)
     /\ at.do \in {"sync", "done"} => Wrote(p, FilesOf(p))

Opened == {"sources", "create", "fill", "sync", "done", "unlink", "stat", "rmdir"}

PublisherInv(p) ==
  /\ publisher[p].do \in {"start", "open"} => opened[p] = None
  /\ publisher[p].do \in Opened => opened[p] # None
  /\ publisher[p].do \in {"create", "fill"} => publisher[p].name \in FilesOf(p)
  /\ opened[p] # None /\ Alone(p) => Progress(p)

\* Files are at the label or aside, and only where somebody could put them.
FilesAreKept ==
  \A d \in Publisher :
    /\ Present(dirs[d]) # {} => Exists(d)
    /\ (\A q \in Publisher : opened[q] # d) /\ d \notin merged => Present(dirs[d]) = {}

\* What a validator has read after k - 1 steps.
ReadSoFar(k, seen) ==
  /\ (k > 1) = (seen["COMPLETE"] # None)
  /\ (k > 2) = (seen["provenance"] # None)
  /\ k > 2 => MarkerHolds(seen)
  /\ (k > 4) = (seen["inventory"] # None)
  /\ (k > 5) = (seen["stderr"] # None)
  /\ k <= 6 => seen["report"] = None
  /\ k > 6 => (seen["report"] # None) = Provenance(seen).present

OnePublication(seen) ==
  \E p \in Publisher :
    /\ IsConsistent(RequestOf[p])
    /\ \A n \in Name : IF n = "report" /\ ~RequestOf[p].present
                         THEN seen[n] = None
                         ELSE From(p, seen[n])

ValidatorInv(v) ==
  LET reader == validator[v]
  IN /\ reader.read > 0 => /\ reader.dir \in Publisher
                            /\ reader.verdict = None
                            /\ ReadSoFar(reader.read, reader.seen)
     /\ Accepted(v) => OnePublication(reader.seen)

ScanInv ==
  /\ ScanTypeOK
  /\ FilesAreKept
  /\ \A p \in Publisher : PublisherInv(p)
  /\ \A v \in Validator : ValidatorInv(v)

----------------------------------------------------------------------------

LEMMA ScanNames ==
  /\ DOMAIN Order = 1..5 /\ Len(Order) = 5
  /\ Order[1] = "inventory" /\ Order[2] = "stderr" /\ Order[3] = "report"
  /\ Order[4] = "provenance" /\ Order[5] = "COMPLETE"
  /\ Name = {"inventory", "stderr", "report", "provenance", "COMPLETE"}
  /\ \A n \in Name : Place(n) \in 1..5
  <1>1. /\ DOMAIN Order = 1..5 /\ Len(Order) = 5
        /\ Order[1] = "inventory" /\ Order[2] = "stderr" /\ Order[3] = "report"
        /\ Order[4] = "provenance" /\ Order[5] = "COMPLETE"
    BY DEF Order
  <1>2. Name = {"inventory", "stderr", "report", "provenance", "COMPLETE"}
    BY <1>1 DEF Name
  <1>3. ASSUME NEW n \in Name PROVE Place(n) \in 1..5
    <2>1. \E i \in DOMAIN Order : Order[i] = n BY DEF Name
    <2> QED BY <1>1, <2>1 DEF Place
  <1> QED BY <1>1, <1>2, <1>3

\* A file and none at all are told apart; one is torn until it has its place.
LEMMA FileKinds ==
  /\ None \notin File
  /\ \A f \in File : f.by \in Publisher
  /\ \A p \in Publisher : Torn(p) \in File /\ Torn(p) # None /\ ~Whole(Torn(p))
  /\ \A p \in Publisher, n \in Name :
       [by |-> p, at |-> Place(n)] \in File /\ From(p, [by |-> p, at |-> Place(n)])
  <1>1. Later = 6 BY ScanNames DEF Later
  <1>2. None \notin File BY ScanAssumption
  <1>3. ASSUME NEW p \in Publisher
        PROVE  Torn(p) \in File /\ Torn(p) # None /\ ~Whole(Torn(p))
    BY <1>1, <1>2 DEF File, Torn, Whole
  <1>4. ASSUME NEW p \in Publisher, NEW n \in Name
        PROVE  [by |-> p, at |-> Place(n)] \in File /\ From(p, [by |-> p, at |-> Place(n)])
    <2>1. Place(n) \in 0..Later /\ Place(n) > 0 BY <1>1, ScanNames
    <2> DEFINE file == [by |-> p, at |-> Place(n)]
    <2>2. file \in File /\ file.by = p /\ file.at > 0 BY <2>1 DEF File
    <2> HIDE DEF file
    <2>3. From(p, file) BY <1>2, <2>2 DEF From, Whole
    <2> QED BY <2>2, <2>3 DEF file
  <1> QED BY <1>2, <1>3, <1>4 DEF File

LEMMA ScanInitInv == Init => ScanInv
  <1> SUFFICES ASSUME Init PROVE ScanInv
    OBVIOUS
  <1>0. \A p \in Publisher : /\ opened[p] = None /\ publisher[p].do = "start"
                             /\ \A n \in Name : dirs[p][n] = None
    BY DEF Init, At, Empty
  <1>1. ScanTypeOK
    <2>1. Empty \in [Name -> File \cup {None}]
      BY DEF Empty
    <2>2. At("start") \in [do : Steps, name : Name \cup {None}]
      BY DEF At, Steps
    <2>3. Len(Reads) = 7
      BY DEF Reads
    <2>4. Fresh \in [dir : Publisher \cup {None}, read : 0..Len(Reads),
                     seen : [Name -> File \cup {None}],
                     verdict : {None, "accepted", "rejected"}]
      BY <2>1, <2>3 DEF Fresh
    <2> HIDE DEF Fresh, Empty
    <2> QED BY <2>1, <2>2, <2>4 DEF Init, ScanTypeOK
  <1>2. ASSUME NEW p \in Publisher PROVE PublisherInv(p)
    BY <1>0 DEF PublisherInv, Opened
  <1>3. FilesAreKept
    BY <1>0 DEF FilesAreKept, Present
  <1>4. ASSUME NEW v \in Validator PROVE ValidatorInv(v)
    <2>1. validator[v].read = 0 /\ validator[v].verdict = None
      BY DEF Init, Fresh
    <2> QED BY <2>1, ScanAssumption DEF ValidatorInv, Accepted
  <1> QED BY <1>1, <1>2, <1>3, <1>4 DEF ScanInv

----------------------------------------------------------------------------
(* What a step leaves alone. *)

\* A publisher at rest, unless it is alone in its directory and somebody writes there.
LEMMA PublisherRests ==
  ASSUME NEW p \in Publisher, PublisherInv(p),
         publisher'[p] = publisher[p], opened'[p] = opened[p],
         opened[p] # None /\ Alone(p)' => Alone(p) /\ dirs'[opened[p]] = dirs[opened[p]]
  PROVE  PublisherInv(p)'
  <1>1. ASSUME opened'[p] # None, Alone(p)' PROVE Progress(p)'
    <2>1. Progress(p) /\ dirs'[opened'[p]] = dirs[opened[p]]
      BY <1>1 DEF PublisherInv
    <2> QED BY <2>1 DEF Progress, Wrote
  <1> QED BY <1>1 DEF PublisherInv

\* A validator at rest.
LEMMA ValidatorRests ==
  ASSUME NEW v \in Validator, ValidatorInv(v), validator'[v] = validator[v]
  PROVE  ValidatorInv(v)'
  BY DEF ValidatorInv, Accepted

Dirs == [Publisher -> [Name -> File \cup {None}]]
PublisherState == [do : Steps, name : Name \cup {None}]

LEMMA PublisherFields ==
  ASSUME ScanInv, NEW p \in Publisher
  PROVE  /\ publisher[p] \in PublisherState /\ publisher \in [Publisher -> PublisherState]
         /\ dirs \in Dirs
         /\ opened \in [Publisher -> Publisher \cup {None}] /\ opened[p] \in Publisher \cup {None}
         /\ link \in Publisher \cup {None}
         /\ PublisherInv(p) /\ FilesAreKept
  BY DEF ScanInv, ScanTypeOK, Dirs, PublisherState

\* A step of one publisher in the directory it opened: the others and the validators
\* are at rest.
LEMMA PublisherMoves ==
  ASSUME ScanInv, NEW p \in Publisher,
         NEW next \in PublisherState, Moves(p, next),
         NEW d \in Publisher \cup {None}, opened' = [opened EXCEPT ![p] = d],
         d = opened[p] \/ opened[p] = None,
         dirs' \in Dirs, \A e \in Publisher \ {opened[p]} : dirs'[e] = dirs[e],
         UNCHANGED <<aside, merged, validator>>,
         link' \in Publisher \cup {None},
         \A e \in Publisher : Present(dirs'[e]) # {} => Exists(e)',
         PublisherInv(p)'
  PROVE  ScanInv'
  <1>0. /\ publisher \in [Publisher -> PublisherState]
        /\ opened \in [Publisher -> Publisher \cup {None}]
        /\ publisher' = [publisher EXCEPT ![p] = next]
        /\ FilesAreKept
    BY PublisherFields DEF Moves
  <1>1. ScanTypeOK'
    BY <1>0 DEF ScanInv, ScanTypeOK, Dirs, PublisherState
  <1>2. ASSUME NEW q \in Publisher PROVE PublisherInv(q)'
    <2>1. CASE q = p BY <2>1
    <2>2. CASE q # p
      <3>1. publisher'[q] = publisher[q] /\ opened'[q] = opened[q] /\ opened'[p] = d
        BY <1>0, <2>2
      <3>2. PublisherInv(q) BY DEF ScanInv
      <3>3. ASSUME opened[q] # None, Alone(q)'
            PROVE  Alone(q) /\ dirs'[opened[q]] = dirs[opened[q]]
        <4>1. opened[p] # opened[q]
          BY <2>2, <3>1, <3>3 DEF Alone
        <4>2. Alone(q)
          BY <1>0, <3>1, <3>3, <4>1 DEF Alone
        <4>3. opened[q] \in Publisher \ {opened[p]}
          BY <1>0, <3>3, <4>1
        <4> QED BY <4>2, <4>3
      <3> QED BY <3>1, <3>2, <3>3, PublisherRests
    <2> QED BY <2>1, <2>2
  <1>3. FilesAreKept'
    <2> SUFFICES ASSUME NEW e \in Publisher, \A q \in Publisher : opened'[q] # e, e \notin merged
                 PROVE  Present(dirs'[e]) = {}
      BY DEF FilesAreKept
    <2>1. \A q \in Publisher : opened[q] # e
      BY <1>0, ScanAssumption
    <2> QED BY <1>0, <2>1 DEF FilesAreKept, Present
  <1>4. ASSUME NEW v \in Validator PROVE ValidatorInv(v)'
    BY ValidatorRests DEF ScanInv
  <1> QED BY <1>1, <1>2, <1>3, <1>4 DEF ScanInv

\* A step of a publisher that leaves the files and its descriptor alone.
LEMMA PublisherOnly ==
  ASSUME ScanInv, NEW p \in Publisher,
         NEW next \in PublisherState, Moves(p, next),
         UNCHANGED <<dirs, opened, aside, merged, validator>>,
         link' \in Publisher \cup {None},
         \A e \in Publisher : Present(dirs[e]) # {} => Exists(e)',
         next.do \notin {"start", "open"} \/ opened[p] = None,
         next.do \in Opened => opened[p] # None,
         next.do \in {"create", "fill"} => next.name \in FilesOf(p),
         opened[p] # None /\ Alone(p) => Progress(p)'
  PROVE  ScanInv'
  <1>0. /\ publisher'[p] = next
        /\ opened \in [Publisher -> Publisher \cup {None}] /\ dirs' \in Dirs
    BY PublisherFields DEF Moves
  <1>1. PublisherInv(p)'
    BY <1>0 DEF PublisherInv, Alone, Opened, FilesOf
  <1>2. opened' = [opened EXCEPT ![p] = opened[p]]
    BY <1>0
  <1> QED BY <1>0, <1>1, <1>2, PublisherMoves, PublisherFields

\* A publisher that has written whole files and is not at one.
LEMMA WholeProgress ==
  ASSUME NEW p \in Publisher, NEW next, publisher'[p] = next,
         NEW names, Present(dirs'[opened'[p]]) = names,
         \A n \in names : From(p, dirs'[opened'[p]][n]),
         next.do \in {"sources", "create", "sync", "done"},
         next.do = "sources" => names = {},
         next.do = "create" => names = Before(p, next.name),
         next.do \in {"sync", "done"} => names = FilesOf(p)
  PROVE  Progress(p)'
  <1>1. Wrote(p, names)'
    BY DEF Wrote
  <1>2. publisher'[p].do # "fill"
    OBVIOUS
  <1>3. Before(p, next.name)' = Before(p, next.name)
    BY DEF Before, FilesOf
  <1>4. FilesOf(p)' = FilesOf(p)
    BY DEF FilesOf
  <1> QED BY <1>1, <1>2, <1>3, <1>4 DEF Progress

\* The steps of a publisher before and after it writes.
LEMMA ClaimSteps ==
  ASSUME ScanInv, NEW p \in Publisher,
         \/ Claim(p) \/ Open(p) \/ OpenSources(p) \/ Sync(p) \/ Fail(p) \/ Stat(p)
         \/ RemoveDirectory(p) \/ Kill(p)
  PROVE  ScanInv'
  <1>0. /\ publisher[p] \in PublisherState /\ publisher \in [Publisher -> PublisherState]
        /\ dirs \in Dirs
        /\ opened \in [Publisher -> Publisher \cup {None}] /\ opened[p] \in Publisher \cup {None}
        /\ link \in Publisher \cup {None}
        /\ PublisherInv(p) /\ FilesAreKept
    BY PublisherFields
  <1>1. ASSUME NEW next, Moves(p, next) PROVE publisher'[p] = next
    BY <1>0, <1>1 DEF Moves
  <1>2. ASSUME NEW step \in Steps
        PROVE At(step) \in PublisherState /\ At(step).do = step
    BY DEF At, PublisherState
  <1>3. ASSUME NEW step \in Steps, NEW n \in Name
        PROVE On(step, n) \in PublisherState /\ On(step, n).do = step /\ On(step, n).name = n
    BY DEF On, PublisherState
  <1>4. "inventory" \in Name /\ "inventory" \in FilesOf(p) /\ Before(p, "inventory") = {}
    BY ScanNames DEF FilesOf, Before
  <1>5. \A e \in Publisher : Present(dirs[e]) # {} => Exists(e)
    BY <1>0 DEF FilesAreKept
  <1>6. {"open", "failed", "sources", "create", "unlink", "done", "rmdir", "dead"} \subseteq Steps
    BY DEF Steps
  <1>7. CASE Claim(p)
    <2>1. opened[p] = None BY <1>0, <1>7 DEF Claim, At, PublisherInv
    <2>2. CASE Moves(p, At("open")) /\ link' = p /\ link = None
      <3>1. \A e \in Publisher : Present(dirs[e]) # {} => Exists(e)'
        BY <1>5, <1>7, <2>2, ScanAssumption DEF Claim, Exists
      <3> HIDE DEF Claim
      <3> QED BY <1>2, <1>6, <1>7, <2>1, <2>2, <3>1, PublisherOnly DEF Claim, Opened
    <2>3. CASE Moves(p, At("failed")) /\ link' = link
      <3>1. \A e \in Publisher : Present(dirs[e]) # {} => Exists(e)'
        BY <1>5, <1>7, <2>3 DEF Claim, Exists
      <3> QED BY <1>0, <1>2, <1>6, <1>7, <2>1, <2>3, <3>1, PublisherOnly DEF Claim, Opened
    <2> QED BY <1>7, <2>2, <2>3 DEF Claim
  <1>8. CASE Open(p)
    <2>1. opened[p] = None BY <1>0, <1>8 DEF Open, At, PublisherInv
    <2>2. \A e \in Publisher : Present(dirs[e]) # {} => Exists(e)'
      BY <1>5, <1>8 DEF Open, Exists
    <2>3. CASE opened' = opened /\ Moves(p, At("failed"))
      BY <1>0, <1>2, <1>6, <1>8, <2>1, <2>2, <2>3, PublisherOnly DEF Open, Opened
    <2>4. CASE /\ link # None /\ opened' = [opened EXCEPT ![p] = link]
               /\ Moves(p, At("sources"))
      <3>1. /\ publisher'[p] = At("sources") /\ At("sources").do = "sources"
            /\ At("sources") \in PublisherState
            /\ opened'[p] = link /\ link \in Publisher
            /\ UNCHANGED <<dirs, link, aside, merged, validator>>
        BY <1>0, <1>1, <1>2, <1>6, <1>8, <2>4 DEF Open
      <3>2. Alone(p)' => Wrote(p, {})'
        <4>1. ASSUME Alone(p)' PROVE Present(dirs[link]) = {}
          <5>1. \A q \in Publisher : opened[q] # link
            BY <1>0, <2>1, <2>4, <3>1, <4>1 DEF Alone
          <5>2. link \notin merged
            BY <3>1, <4>1 DEF Alone
          <5> QED BY <1>0, <3>1, <5>1, <5>2 DEF FilesAreKept
        <4> QED BY <3>1, <4>1 DEF Wrote, Present
      <3>3. PublisherInv(p)'
        BY <2>4, <3>1, <3>2 DEF PublisherInv, Progress, Opened
      <3> QED BY <1>0, <1>5, <2>1, <2>2, <2>4, <3>1, <3>3, PublisherMoves
    <2> QED BY <1>8, <2>3, <2>4 DEF Open
  <1>9. CASE OpenSources(p)
    <2>1. /\ publisher[p].do = "sources" /\ Moves(p, On("create", "inventory"))
          /\ UNCHANGED <<dirs, opened, link, aside, merged, validator>>
      BY <1>9 DEF OpenSources, At
    <2>2. publisher'[p] = On("create", "inventory")
      BY <1>1, <2>1
    <2>3. opened[p] # None /\ (Alone(p) => Wrote(p, {}))
      BY <1>0, <2>1 DEF PublisherInv, Opened, Progress
    <2>4. Alone(p) => Progress(p)'
      BY <1>3, <1>4, <1>6, <2>1, <2>2, <2>3, WholeProgress DEF Wrote, Present
    <2>5. \A e \in Publisher : Present(dirs[e]) # {} => Exists(e)'
      BY <1>5, <2>1 DEF Exists
    <2> QED BY <1>0, <1>3, <1>4, <1>6, <2>1, <2>3, <2>4, <2>5, PublisherOnly
  <1>10. CASE Sync(p)
    <2>1. /\ publisher[p].do = "sync" /\ Moves(p, At("done"))
          /\ UNCHANGED <<dirs, opened, link, aside, merged, validator>>
      BY <1>10 DEF Sync, At
    <2>2. publisher'[p] = At("done")
      BY <1>1, <2>1
    <2>3. opened[p] # None /\ (Alone(p) => Wrote(p, FilesOf(p)))
      BY <1>0, <2>1 DEF PublisherInv, Opened, Progress
    <2>4. Alone(p) => Progress(p)'
      BY <1>2, <1>6, <2>1, <2>2, <2>3 DEF Progress, Wrote, FilesOf
    <2>5. \A e \in Publisher : Present(dirs[e]) # {} => Exists(e)'
      BY <1>5, <2>1 DEF Exists
    <2> QED BY <1>0, <1>2, <1>6, <2>1, <2>3, <2>4, <2>5, PublisherOnly
  <1>11. ASSUME NEW next \in PublisherState,
                next.do \in {"unlink", "stat", "rmdir", "failed", "dead"},
                next.do \in Opened => opened[p] # None,
                Moves(p, next), link' \in Publisher \cup {None},
                \A e \in Publisher : Present(dirs[e]) # {} => Exists(e)',
                UNCHANGED <<dirs, opened, aside, merged, validator>>
         PROVE  ScanInv'
    <2>1. publisher'[p] = next
      BY <1>1, <1>11
    <2>2. Progress(p)'
      BY <1>11, <2>1 DEF Progress
    <2> QED BY <1>11, <2>2, PublisherOnly
  <1>12. CASE Fail(p)
    <2>1. opened[p] # None
      BY <1>0, <1>12 DEF Fail, PublisherInv, Opened
    <2>2. \A e \in Publisher : Present(dirs[e]) # {} => Exists(e)'
      BY <1>5, <1>12 DEF Fail, Exists
    <2> QED BY <1>0, <1>3, <1>4, <1>6, <1>11, <1>12, <2>1, <2>2 DEF Fail
  <1>13. CASE Stat(p)
    <2>1. opened[p] # None
      BY <1>0, <1>13 DEF Stat, PublisherInv, Opened, At
    <2>2. \A e \in Publisher : Present(dirs[e]) # {} => Exists(e)'
      BY <1>5, <1>13 DEF Stat, Exists
    <2> QED BY <1>0, <1>2, <1>6, <1>11, <1>13, <2>1, <2>2 DEF Stat
  <1>14. CASE RemoveDirectory(p)
    <2>1. link' \in {link, None} /\ (link' = link \/ link \notin Publisher \/ Present(dirs[link]) = {})
      BY <1>14 DEF RemoveDirectory
    <2>2. \A e \in Publisher : Present(dirs[e]) # {} => Exists(e)'
      BY <1>5, <1>14, <2>1 DEF RemoveDirectory, Exists
    <2>3. At("failed").do \notin Opened
      BY <1>2, <1>6 DEF Opened
    <2> QED BY <1>0, <1>2, <1>6, <1>11, <1>14, <2>1, <2>2, <2>3 DEF RemoveDirectory
  <1>15. CASE Kill(p)
    <2>1. \A e \in Publisher : Present(dirs[e]) # {} => Exists(e)'
      BY <1>5, <1>15 DEF Kill, Exists
    <2>2. At("dead").do \notin Opened
      BY <1>2, <1>6 DEF Opened
    <2> QED BY <1>0, <1>2, <1>6, <1>11, <1>15, <2>1, <2>2 DEF Kill
  <1> QED BY <1>7, <1>8, <1>9, <1>10, <1>12, <1>13, <1>14, <1>15

\* A step that changes one file of the directory a publisher opened.
LEMMA WriteMoves ==
  ASSUME ScanInv, NEW p \in Publisher, NEW n \in Name, NEW file \in File \cup {None},
         opened[p] \in Publisher,
         dirs' = [dirs EXCEPT ![opened[p]][n] = file],
         NEW next \in PublisherState, Moves(p, next),
         file # None => Exists(opened[p]),
         next.do \notin {"start", "open"},
         next.do \in {"create", "fill"} => next.name \in FilesOf(p),
         Alone(p) => Progress(p)',
         UNCHANGED <<opened, link, aside, merged, validator>>
  PROVE  ScanInv'
  <1>0. /\ dirs \in Dirs /\ opened \in [Publisher -> Publisher \cup {None}]
        /\ link \in Publisher \cup {None} /\ FilesAreKept
        /\ publisher'[p] = next
    BY PublisherFields DEF Moves
  <1>1. /\ dirs' \in Dirs
        /\ \A e \in Publisher \ {opened[p]} : dirs'[e] = dirs[e]
        /\ \A m \in Name : dirs'[opened[p]][m] = IF m = n THEN file ELSE dirs[opened[p]][m]
    BY <1>0 DEF Dirs
  <1>2. ASSUME NEW e \in Publisher, Present(dirs'[e]) # {} PROVE Exists(e)'
    <2>1. CASE e # opened[p]
      BY <1>0, <1>1, <1>2, <2>1 DEF FilesAreKept, Exists
    <2>2. CASE e = opened[p] /\ file = None
      <3>1. Present(dirs'[e]) \subseteq Present(dirs[e])
        BY <1>1, <2>2 DEF Present
      <3> QED BY <1>0, <1>2, <3>1 DEF FilesAreKept, Exists
    <2>3. CASE e = opened[p] /\ file # None
      BY <2>3 DEF Exists
    <2> QED BY <2>1, <2>2, <2>3
  <1>3. PublisherInv(p)'
    BY <1>0, ScanAssumption DEF PublisherInv, Alone, FilesOf
  <1>4. opened' = [opened EXCEPT ![p] = opened[p]]
    BY <1>0
  <1> QED BY <1>0, <1>1, <1>2, <1>3, <1>4, PublisherMoves

\* A file is created torn, where there is none.
LEMMA CreateKeeps ==
  ASSUME ScanInv, NEW p \in Publisher, Create(p)
  PROVE  ScanInv'
  <1> DEFINE n == publisher[p].name
             d == opened[p]
  <1>0. /\ dirs \in Dirs /\ PublisherInv(p) /\ d \in Publisher \cup {None}
    BY PublisherFields
  <1>1. /\ publisher[p].do = "create" /\ n \in FilesOf(p) /\ n \in Name /\ d \in Publisher
        /\ dirs[d][n] = None /\ Exists(d)
        /\ dirs' = [dirs EXCEPT ![d][n] = Torn(p)] /\ Moves(p, On("fill", n))
        /\ UNCHANGED <<opened, link, aside, merged, validator>>
    BY <1>0 DEF Create, PublisherInv, FilesOf, Opened
  <1>2. /\ publisher'[p] = On("fill", n) /\ On("fill", n) \in PublisherState
        /\ On("fill", n).do = "fill" /\ On("fill", n).name = n
    BY <1>1, PublisherFields DEF Moves, On, Steps, PublisherState
  <1>3. /\ dirs'[d][n] = Torn(p) /\ opened'[p] = d
        /\ \A m \in Name \ {n} : dirs'[d][m] = dirs[d][m]
    BY <1>0, <1>1 DEF Dirs
  <1>4. Torn(p) \in File /\ Torn(p) # None
    BY FileKinds
  <1>5. ASSUME Alone(p) PROVE Progress(p)'
    <2>1. Wrote(p, Before(p, n))
      BY <1>0, <1>1, <1>5, ScanAssumption DEF PublisherInv, Progress
    <2>2. n \notin Before(p, n) /\ Before(p, n) \subseteq Name
      BY <1>1, <2>1 DEF Wrote, Present
    <2>3. Present(dirs'[d]) = Before(p, n) \cup {n}
      BY <1>1, <1>3, <1>4, <2>1 DEF Wrote, Present
    <2>4. \A m \in Before(p, n) : From(p, dirs'[d][m])
      BY <1>3, <2>1, <2>2 DEF Wrote
    <2> HIDE DEF n, d
    <2> QED BY <1>2, <1>3, <2>3, <2>4 DEF Progress, Before, FilesOf
  <1> HIDE DEF n, d
  <1> QED BY <1>1, <1>2, <1>4, <1>5, WriteMoves DEF d

\* What comes after a file: the next one, with those before it, or the end.
LEMMA AfterFileIsNext ==
  ASSUME NEW p \in Publisher, NEW n \in FilesOf(p)
  PROVE  LET next == AfterFile(p, n)
         IN /\ next \in PublisherState
            /\ next.do \in {"create", "sync"}
            /\ next.do = "create" => /\ next.name \in FilesOf(p)
                                     /\ Before(p, next.name) = Before(p, n) \cup {n}
            /\ next.do = "sync" => FilesOf(p) = Before(p, n) \cup {n}
  <1>0. RequestOf[p].present \in BOOLEAN
    BY ScanAssumption DEF Request
  <1>1. n \in {"inventory", "stderr", "report", "provenance", "COMPLETE"}
    BY ScanNames DEF FilesOf
  <1>a. FilesOf(p) = IF RequestOf[p].present
                       THEN {"inventory", "stderr", "report", "provenance", "COMPLETE"}
                       ELSE {"inventory", "stderr", "provenance", "COMPLETE"}
    BY <1>0, ScanNames DEF FilesOf
  <1> USE DEF PublisherState
  <1> HIDE DEF FilesOf
  <1>2. CASE n = "inventory"
    BY <1>a, <1>2, ScanNames DEF AfterFile, Before, On, Steps
  <1>3. CASE n = "stderr" /\ RequestOf[p].present
    BY <1>a, <1>3, ScanNames DEF AfterFile, Before, On, Steps
  <1>4. CASE n = "stderr" /\ ~RequestOf[p].present
    BY <1>a, <1>4, ScanNames DEF AfterFile, Before, On, Steps
  <1>5. CASE n = "report"
    BY <1>a, <1>5, ScanNames DEF AfterFile, Before, On, Steps
  <1>6. CASE n = "provenance"
    BY <1>a, <1>6, ScanNames DEF AfterFile, Before, On, Steps
  <1>7. CASE n = "COMPLETE"
    BY <1>a, <1>7, ScanNames DEF AfterFile, Before, At, Steps
  <1> QED BY <1>1, <1>2, <1>3, <1>4, <1>5, <1>6, <1>7

\* A file gets its content, if its name still is its own.
LEMMA FillKeeps ==
  ASSUME ScanInv, NEW p \in Publisher, Fill(p)
  PROVE  ScanInv'
  <1> DEFINE n == publisher[p].name
             d == opened[p]
             file == [by |-> p, at |-> Place(n)]
             next == AfterFile(p, n)
  <1>0. /\ dirs \in Dirs /\ PublisherInv(p) /\ FilesAreKept /\ d \in Publisher \cup {None}
        /\ link \in Publisher \cup {None}
    BY PublisherFields
  <1>1. /\ publisher[p].do = "fill" /\ n \in FilesOf(p) /\ n \in Name /\ d \in Publisher
        /\ dirs' = IF dirs[d][n] = Torn(p) THEN [dirs EXCEPT ![d][n] = file] ELSE dirs
        /\ Moves(p, next)
        /\ UNCHANGED <<opened, link, aside, merged, validator>>
    BY <1>0 DEF Fill, PublisherInv, FilesOf, Opened
  <1>2. /\ next \in PublisherState
        /\ next.do \in {"create", "sync"}
        /\ next.do = "create" => /\ next.name \in FilesOf(p)
                                 /\ Before(p, next.name) = Before(p, n) \cup {n}
        /\ next.do = "sync" => FilesOf(p) = Before(p, n) \cup {n}
    BY <1>1, AfterFileIsNext
  <1>3. publisher'[p] = next /\ opened'[p] = d
    BY <1>1, PublisherFields DEF Moves
  <1>4. file \in File /\ From(p, file) /\ file # None
    BY <1>1, FileKinds
  <1> HIDE DEF file, next
  <1>5. ASSUME Alone(p)
        PROVE  /\ dirs[d][n] = Torn(p)
               /\ Present(dirs[d]) = Before(p, n) \cup {n}
               /\ \A m \in Before(p, n) : From(p, dirs[d][m])
    BY <1>0, <1>1, <1>5, ScanAssumption DEF PublisherInv, Progress
  <1>6. CASE dirs[d][n] = Torn(p)
    <2>1. dirs' = [dirs EXCEPT ![d][n] = file]
      BY <1>1, <1>6
    <2>2. dirs'[d][n] = file /\ \A m \in Name \ {n} : dirs'[d][m] = dirs[d][m]
      BY <1>0, <1>1, <2>1 DEF Dirs
    <2>3. Exists(d)
      <3>1. n \in Present(dirs[d]) BY <1>1, <1>6, FileKinds DEF Present
      <3> QED BY <1>0, <1>1, <3>1 DEF FilesAreKept
    <2>4. ASSUME Alone(p) PROVE Progress(p)'
      <3>1. Present(dirs'[d]) = Before(p, n) \cup {n}
        BY <1>4, <1>5, <2>2, <2>4, <1>6, FileKinds DEF Present
      <3>2. \A m \in Before(p, n) \cup {n} : From(p, dirs'[d][m])
        <4>1. Before(p, n) \subseteq Name BY DEF Before, FilesOf
        <4> QED BY <1>1, <1>4, <1>5, <2>2, <2>4, <4>1
      <3> DEFINE names == Before(p, n) \cup {n}
      <3>3. next.do \in {"create", "sync"} BY <1>2
      <3> HIDE DEF n, d, names
      <3> QED BY <1>2, <1>3, <3>1, <3>2, <3>3, WholeProgress DEF names, d
    <2> HIDE DEF n, d
    <2> QED BY <1>1, <1>2, <1>4, <2>1, <2>3, <2>4, WriteMoves DEF d
  <1>7. CASE dirs[d][n] # Torn(p)
    <2>1. dirs' = dirs /\ ~Alone(p)
      BY <1>1, <1>5, <1>7
    <2>2. \A e \in Publisher : Present(dirs[e]) # {} => Exists(e)'
      BY <1>0, <1>1 DEF FilesAreKept, Exists
    <2>3. d # None BY <1>1, ScanAssumption
    <2>4. next.do \notin {"start", "open"} /\ next.do # "fill"
      BY <1>2
    <2> HIDE DEF n
    <2> QED BY <1>0, <1>1, <1>2, <2>1, <2>2, <2>3, <2>4, PublisherOnly
  <1> QED BY <1>6, <1>7

\* A failed publisher takes back files of the directory it opened.
LEMMA UnlinkKeeps ==
  ASSUME ScanInv, NEW p \in Publisher, Unlink(p)
  PROVE  ScanInv'
  <1>0. /\ PublisherInv(p) /\ opened[p] \in Publisher \cup {None}
        /\ publisher \in [Publisher -> PublisherState]
    BY PublisherFields
  <1>1. PICK i \in DOMAIN Order :
          /\ publisher[p] = On("unlink", Order[i])
          /\ dirs' = [dirs EXCEPT ![opened[p]][Order[i]] = None]
          /\ Moves(p, AfterUnlink(i))
          /\ UNCHANGED <<opened, link, aside, merged, validator>>
    BY DEF Unlink
  <1>2. Order[i] \in Name /\ (i # Len(Order) => Order[i + 1] \in Name)
    BY ScanNames DEF Name
  <1>3. AfterUnlink(i) \in PublisherState /\ AfterUnlink(i).do \in {"unlink", "stat"}
    BY <1>2 DEF AfterUnlink, At, On, Steps, PublisherState
  <1>4. opened[p] \in Publisher
    BY <1>0, <1>1 DEF PublisherInv, Opened, On
  <1>5. publisher'[p] = AfterUnlink(i)
    BY <1>0, <1>1 DEF Moves
  <1>6. Progress(p)'
    BY <1>3, <1>5 DEF Progress
  <1>7. AfterUnlink(i).do \notin {"start", "open", "create", "fill"}
    BY <1>3
  <1> QED BY <1>1, <1>2, <1>3, <1>4, <1>6, <1>7, WriteMoves

----------------------------------------------------------------------------
(* The keeper. *)

LEMMA MoveAsideKeeps == ScanInv /\ MoveAside => ScanInv'
  <1> SUFFICES ASSUME ScanInv, MoveAside PROVE ScanInv'
    OBVIOUS
  <1>1. ScanTypeOK'
    BY DEF ScanInv, ScanTypeOK, MoveAside
  <1>2. ASSUME NEW p \in Publisher PROVE PublisherInv(p)'
    <2>1. Alone(p)' = Alone(p) BY DEF MoveAside, Alone
    <2> QED BY <2>1, PublisherRests DEF ScanInv, MoveAside
  <1>3. FilesAreKept'
    BY DEF ScanInv, FilesAreKept, MoveAside, Exists
  <1>4. ASSUME NEW v \in Validator PROVE ValidatorInv(v)'
    BY ValidatorRests DEF ScanInv, MoveAside
  <1> QED BY <1>1, <1>2, <1>3, <1>4 DEF ScanInv

\* Merging adds or replaces a file, and is remembered.
LEMMA MergeKeeps ==
  ASSUME ScanInv, NEW d \in Publisher, NEW n \in Name, Merge(d, n)
  PROVE  ScanInv'
  <1>0. /\ dirs \in Dirs /\ link \in Publisher /\ dirs[d][n] \in File
        /\ UNCHANGED <<opened, link, aside, publisher, validator>>
        /\ merged' = merged \cup {link}
        /\ opened \in [Publisher -> Publisher \cup {None}]
    BY DEF Merge, ScanInv, ScanTypeOK, Dirs, Whole
  <1>1. PICK at \in {dirs[d][n].at, Later} :
          dirs' = [dirs EXCEPT ![link][n] = [by |-> dirs[d][n].by, at |-> at]]
    BY DEF Merge
  <1> DEFINE file == [by |-> dirs[d][n].by, at |-> at]
  <1>2. file \in File
    <2>1. Later \in 0..Later BY ScanNames DEF Later
    <2> QED BY <1>0, <2>1 DEF File
  <1> HIDE DEF file
  <1>3. dirs' = [dirs EXCEPT ![link][n] = file]
    BY <1>1 DEF file
  <1>4. dirs' \in Dirs /\ \A e \in Publisher \ {link} : dirs'[e] = dirs[e]
    BY <1>0, <1>2, <1>3 DEF Dirs
  <1>5. ScanTypeOK'
    BY <1>0, <1>4 DEF ScanInv, ScanTypeOK, Dirs
  <1>6. ASSUME NEW q \in Publisher PROVE PublisherInv(q)'
    <2>1. PublisherInv(q) BY DEF ScanInv
    <2>2. ASSUME opened[q] # None, Alone(q)'
          PROVE  Alone(q) /\ dirs'[opened[q]] = dirs[opened[q]]
      <3>1. opened[q] \in Publisher \ {link} /\ opened[q] \notin merged
        BY <1>0, <2>2 DEF Alone
      <3>2. Alone(q)
        BY <1>0, <2>2, <3>1 DEF Alone
      <3> QED BY <1>4, <3>1, <3>2
    <2> QED BY <1>0, <2>1, <2>2, PublisherRests
  <1>7. FilesAreKept'
    <2> SUFFICES ASSUME NEW e \in Publisher
                 PROVE  /\ Present(dirs'[e]) # {} => Exists(e)'
                        /\ (\A q \in Publisher : opened'[q] # e) /\ e \notin merged' =>
                             Present(dirs'[e]) = {}
      BY DEF FilesAreKept, Present
    <2>1. CASE e = link
      BY <1>0, <2>1 DEF Exists
    <2>2. CASE e # link
      BY <1>0, <1>4, <2>2 DEF Exists, ScanInv, FilesAreKept
    <2> QED BY <2>1, <2>2
  <1>8. ASSUME NEW v \in Validator PROVE ValidatorInv(v)'
    BY <1>0, ValidatorRests DEF ScanInv
  <1> QED BY <1>5, <1>6, <1>7, <1>8 DEF ScanInv

----------------------------------------------------------------------------
(* Validators. *)

Seen == [Name -> File \cup {None}]
Entered == Publisher \cup {None}
Verdict == {None, "accepted", "rejected"}
Reader == [dir : Entered, read : 0..7, seen : Seen, verdict : Verdict]

LEMMA ReadsAre ==
  /\ Len(Reads) = 7
  /\ Reads[1] = "COMPLETE" /\ Reads[2] = "provenance" /\ Reads[3] = "entries"
  /\ Reads[4] = "inventory" /\ Reads[5] = "stderr" /\ Reads[6] = "report" /\ Reads[7] = "verdict"
  BY DEF Reads

LEMMA ReaderFields ==
  ASSUME ScanInv, NEW v \in Validator
  PROVE  /\ validator \in [Validator -> Reader] /\ validator[v] \in Reader
         /\ validator[v].read \in 0..7
         /\ validator[v].seen \in Seen
         /\ ValidatorInv(v)
  <1>1. validator \in [Validator -> Reader]
    BY ReadsAre DEF ScanInv, ScanTypeOK, Reader, Seen, Entered, Verdict
  <1>2. validator[v] \in Reader
    BY <1>1
  <1> QED BY <1>1, <1>2 DEF ScanInv, Reader

\* A step of one validator.
LEMMA ValidatorMoves ==
  ASSUME ScanInv, NEW v \in Validator, NEW reader \in Reader,
         validator' = [validator EXCEPT ![v] = reader],
         UNCHANGED <<dirs, opened, link, aside, merged, publisher>>,
         reader.read > 0 => /\ reader.dir \in Publisher
                            /\ reader.verdict = None
                            /\ ReadSoFar(reader.read, reader.seen),
         reader.verdict = "accepted" => OnePublication(reader.seen)
  PROVE  ScanInv'
  <1>0. validator \in [Validator -> Reader]
    BY ReaderFields
  <1>1. ScanTypeOK'
    <2>1. validator' \in [Validator -> Reader]
      BY <1>0
    <2> QED BY <2>1, ReadsAre DEF ScanInv, ScanTypeOK, Reader, Seen, Entered, Verdict
  <1>2. ASSUME NEW p \in Publisher PROVE PublisherInv(p)'
    BY PublisherRests DEF ScanInv, Alone
  <1>4. FilesAreKept'
    BY DEF ScanInv, FilesAreKept, Exists
  <1>3. ASSUME NEW w \in Validator PROVE ValidatorInv(w)'
    <2>1. CASE w = v
      <3>1. validator'[w] = reader BY <1>0, <2>1
      <3> QED BY <3>1 DEF ValidatorInv, Accepted
    <2>2. CASE w # v
      <3>1. validator'[w] = validator[w] BY <1>0, <2>2
      <3> QED BY <3>1, ValidatorRests DEF ScanInv
    <2> QED BY <2>1, <2>2
  <1> QED BY <1>1, <1>2, <1>3, <1>4 DEF ScanInv

LEMMA EnterKeeps ==
  ASSUME ScanInv, NEW v \in Validator, Enter(v)
  PROVE  ScanInv'
  <1>1. PICK p \in aside \cup ({link} \ {None}) :
          validator' = [validator EXCEPT ![v].dir = p, ![v].read = 1]
    BY DEF Enter
  <1>2. p \in Publisher
    BY DEF ScanInv, ScanTypeOK
  <1> DEFINE reader == [dir |-> p, read |-> 1, seen |-> Empty, verdict |-> None]
  <1>3. validator' = [validator EXCEPT ![v] = reader]
    BY <1>1, ReaderFields DEF Enter, Fresh
  <1>4. Empty \in Seen /\ \A n \in Name : Empty[n] = None
    BY DEF Empty, Seen
  <1> HIDE DEF Empty
  <1>5. reader \in Reader
    BY <1>2, <1>4 DEF Reader, Entered, Verdict
  <1>6. ReadSoFar(1, Empty)
    BY <1>4, ScanNames DEF ReadSoFar
  <1> QED BY <1>2, <1>3, <1>5, <1>6, ScanAssumption, ValidatorMoves DEF Enter

\* A validator that gives up.
LEMMA Rejects ==
  ASSUME ScanInv, NEW v \in Validator, Ends(v, "rejected"),
         UNCHANGED <<dirs, opened, link, aside, merged, publisher>>
  PROVE  ScanInv'
  <1> DEFINE reader == [validator[v] EXCEPT !.verdict = "rejected", !.read = 0]
  <1>0. validator[v] \in Reader /\ "rejected" \in Verdict
    BY ReaderFields DEF Verdict
  <1> DEFINE ended == [validator[v] EXCEPT !.verdict = "rejected"]
  <1>a. ended \in Reader /\ ended.verdict = "rejected"
    BY <1>0 DEF Reader
  <1>b. reader = [ended EXCEPT !.read = 0]
    OBVIOUS
  <1> HIDE DEF ended, reader
  <1>1. reader \in Reader /\ reader.read = 0 /\ reader.verdict = "rejected"
    BY <1>a, <1>b DEF Reader
  <1>2. validator' = [validator EXCEPT ![v] = reader]
    BY ReaderFields DEF Ends, reader
  <1>3. ~(reader.read > 0) /\ reader.verdict # "accepted"
    BY <1>1
  <1> QED BY <1>1, <1>2, <1>3, ValidatorMoves

LEMMA ReadKeeps ==
  ASSUME ScanInv, NEW v \in Validator, Read(v)
  PROVE  ScanInv'
  <1> DEFINE old == validator[v]
             k == old.read
             n == Reads[k]
             seen == [old.seen EXCEPT ![n] = dirs[old.dir][n]]
  <1>0. /\ k \in 1..7 /\ n \in Name /\ (n = "report" => Provenance(old.seen).present)
        /\ old.dir \in Publisher /\ old.verdict = None /\ ReadSoFar(k, old.seen)
        /\ old \in Reader /\ old.seen \in Seen
    BY ReaderFields DEF Read, ValidatorInv
  <1>1. CASE Ends(v, "rejected")
    BY <1>1, Rejects DEF Read
  <1>2. CASE /\ seen[n] # None /\ (n = "provenance" => MarkerHolds(seen))
             /\ validator' = [validator EXCEPT ![v].read = @ + 1, ![v].seen = seen]
    <2> DEFINE reader == [old EXCEPT !.read = k + 1, !.seen = seen]
    <2>1. k \in {1, 2, 4, 5, 6}
      BY <1>0, ReadsAre, ScanNames
    <2>2. seen \in Seen
      BY <1>0 DEF ScanInv, ScanTypeOK, Seen
    <2>3. \A m \in Name \ {n} : seen[m] = old.seen[m]
      BY <1>0 DEF Seen
    <2>4. validator' = [validator EXCEPT ![v] = reader]
      BY <1>2, ReaderFields
    <2> HIDE DEF seen
    <2>5. reader \in Reader /\ reader.read = k + 1 /\ reader.seen = seen
          /\ reader.dir = old.dir /\ reader.verdict = old.verdict
      <3>1. k + 1 \in 0..7 BY <2>1
      <3> HIDE DEF k, old
      <3> QED BY <1>0, <2>2, <3>1 DEF Reader
    <2> HIDE DEF reader
    <2>6. ReadSoFar(k + 1, seen)
      <3> HIDE DEF k, n, old
      <3>1. CASE k = 1
        <4>1. n = "COMPLETE" BY <3>1, ReadsAre DEF n
        <4> QED BY <1>0, <1>2, <2>3, <3>1, <4>1, ScanNames DEF ReadSoFar
      <3>2. CASE k = 2
        <4>1. n = "provenance" BY <3>2, ReadsAre DEF n
        <4> QED BY <1>0, <1>2, <2>3, <3>2, <4>1, ScanNames DEF ReadSoFar
      <3>3. CASE k = 4
        <4>1. n = "inventory" BY <3>3, ReadsAre DEF n
        <4> QED BY <1>0, <1>2, <2>3, <3>3, <4>1, ScanNames DEF ReadSoFar, MarkerHolds
      <3>4. CASE k = 5
        <4>1. n = "stderr" BY <3>4, ReadsAre DEF n
        <4> QED BY <1>0, <1>2, <2>3, <3>4, <4>1, ScanNames DEF ReadSoFar, MarkerHolds
      <3>5. CASE k = 6
        <4>1. n = "report" BY <3>5, ReadsAre DEF n
        <4>2. Provenance(seen) = Provenance(old.seen)
          BY <2>3, <4>1, ScanNames DEF Provenance
        <4>3. (seen["report"] # None) = Provenance(seen).present
          <5>1. Provenance(old.seen).present = TRUE
            <6>1. old.seen["provenance"].by \in Publisher
              BY <1>0, <3>5, FileKinds, ScanNames DEF ReadSoFar, MarkerHolds, Seen
            <6>2. Provenance(old.seen).present \in BOOLEAN
              BY <6>1, ScanAssumption DEF Provenance, Request
            <6> QED BY <1>0, <4>1, <6>2
          <5> QED BY <1>2, <4>1, <4>2, <5>1
        <4> QED BY <1>0, <2>3, <3>5, <4>1, <4>3, ScanNames DEF ReadSoFar, MarkerHolds
      <3> QED BY <2>1, <3>1, <3>2, <3>3, <3>4, <3>5
    <2>7. reader.verdict # "accepted"
      BY <1>0, <2>5, ScanAssumption
    <2> QED BY <1>0, <2>4, <2>5, <2>6, <2>7, ValidatorMoves DEF Read
  <1> QED BY <1>1, <1>2 DEF Read

\* What the provenance names is a publisher, once the marker was compared with it.
LEMMA ProvenanceIsOne ==
  ASSUME NEW seen \in Seen, NEW k \in 3..7, ReadSoFar(k, seen)
  PROVE  /\ seen["provenance"].by \in Publisher
         /\ Provenance(seen).present \in BOOLEAN
  <1>1. seen["provenance"] # None
    BY DEF ReadSoFar
  <1>2. seen["provenance"].by \in Publisher
    BY <1>1, FileKinds, ScanNames DEF Seen
  <1> QED BY <1>2, ScanAssumption DEF Provenance, Request

LEMMA ListSteps ==
  ASSUME ScanInv, NEW v \in Validator, SkipReport(v) \/ List(v)
  PROVE  ScanInv'
  <1> DEFINE old == validator[v]
             k == old.read
             reader == [old EXCEPT !.read = k + 1]
  <1>0. /\ k \in {3, 6} /\ (k = 6 => SkipReport(v)) /\ old \in Reader
        /\ old.dir \in Publisher /\ old.verdict = None /\ ReadSoFar(k, old.seen)
        /\ old.seen \in Seen
    BY ReaderFields, ReadsAre DEF SkipReport, List, ValidatorInv
  <1>1. CASE Ends(v, "rejected") /\ List(v)
    BY <1>1, Rejects DEF List
  <1>2. CASE validator' = [validator EXCEPT ![v].read = @ + 1]
    <2>1. validator' = [validator EXCEPT ![v] = reader]
      BY <1>2, ReaderFields
    <2>2. reader \in Reader /\ reader.read = k + 1 /\ reader.seen = old.seen
          /\ reader.dir = old.dir /\ reader.verdict = old.verdict
      BY <1>0 DEF Reader
    <2>3. k = 6 => ~Provenance(old.seen).present
      BY <1>0 DEF SkipReport
    <2>4. Provenance(old.seen).present \in BOOLEAN
      <3> HIDE DEF old, k
      <3> QED BY <1>0, ProvenanceIsOne
    <2> HIDE DEF reader
    <2>5. ReadSoFar(k + 1, old.seen)
      <3> HIDE DEF old, k
      <3> QED BY <1>0, <2>3, <2>4 DEF ReadSoFar
    <2>6. reader.verdict # "accepted"
      BY <1>0, <2>2, ScanAssumption
    <2> QED BY <1>0, <2>1, <2>2, <2>5, <2>6, ValidatorMoves DEF SkipReport, List
  <1> QED BY <1>1, <1>2 DEF SkipReport, List

LEMMA DecideKeeps ==
  ASSUME ScanInv, NEW v \in Validator, Decide(v)
  PROVE  ScanInv'
  <1> DEFINE old == validator[v]
             seen == old.seen
  <1>0. /\ old.read = 7 /\ old \in Reader /\ ReadSoFar(7, seen)
        /\ seen \in Seen
    BY ReaderFields, ReadsAre DEF Decide, ValidatorInv
  <1>1. CASE Ends(v, "rejected")
    BY <1>1, Rejects DEF Decide
  <1>2. CASE Ends(v, "accepted") /\ DigestsMatch(seen) /\ IsConsistent(Provenance(seen))
    <2> DEFINE reader == [old EXCEPT !.verdict = "accepted", !.read = 0]
               p == seen["provenance"].by
    <2>1. reader \in Reader /\ reader.read = 0 /\ reader.seen = seen
      <3> DEFINE ended == [old EXCEPT !.verdict = "accepted"]
      <3>1. "accepted" \in Verdict BY DEF Verdict
      <3>2. ended \in Reader /\ ended.seen = old.seen
        BY <1>0, <3>1 DEF Reader
      <3>3. reader = [ended EXCEPT !.read = 0]
        OBVIOUS
      <3> HIDE DEF ended, reader
      <3> QED BY <3>2, <3>3 DEF Reader
    <2>2. validator' = [validator EXCEPT ![v] = reader]
      BY <1>2, ReaderFields DEF Ends
    <2>3. p \in Publisher /\ Provenance(seen) = RequestOf[p] /\ RequestOf[p].present \in BOOLEAN
      <3> HIDE DEF seen
      <3> QED BY <1>0, ProvenanceIsOne DEF Provenance
    <2> HIDE DEF reader, p, seen
    <2>4. \A n \in Name : n # "report" => seen[n] # None
      BY <1>0, ScanNames DEF ReadSoFar
    <2>5. (seen["report"] # None) = RequestOf[p].present
      BY <1>0, <2>3 DEF ReadSoFar
    <2>6. \A n \in Expected(seen) : From(p, seen[n])
      BY <1>2 DEF DigestsMatch, p
    <2>7. Expected(seen) = IF RequestOf[p].present THEN Name ELSE Name \ {"report"}
      BY <2>3 DEF Expected
    <2>8. OnePublication(seen)
      <3>1. ASSUME NEW n \in Name
            PROVE  IF n = "report" /\ ~RequestOf[p].present
                     THEN seen[n] = None ELSE From(p, seen[n])
        BY <2>3, <2>4, <2>5, <2>6, <2>7
      <3> QED BY <1>2, <2>3, <3>1 DEF OnePublication
    <2>9. ~(reader.read > 0)
      BY <2>1
    <2> QED BY <2>1, <2>2, <2>8, <2>9, ValidatorMoves DEF Decide
  <1> QED BY <1>1, <1>2 DEF Decide

----------------------------------------------------------------------------

LEMMA ScanStep == ScanInv /\ [Next]_vars => ScanInv'
  <1> SUFFICES ASSUME ScanInv, [Next]_vars PROVE ScanInv'
    OBVIOUS
  <1>1. ASSUME NEW p \in Publisher, Publish(p) PROVE ScanInv'
    BY <1>1, ClaimSteps, CreateKeeps, FillKeeps, UnlinkKeeps DEF Publish
  <1>2. ASSUME NEW v \in Validator, Validate(v) PROVE ScanInv'
    BY <1>2, EnterKeeps, ReadKeeps, ListSteps, DecideKeeps DEF Validate
  <1>3. CASE MoveAside
    BY <1>3, MoveAsideKeeps
  <1>4. ASSUME NEW d \in Publisher, NEW n \in Name, Merge(d, n) PROVE ScanInv'
    BY <1>4, MergeKeeps
  <1>5. CASE UNCHANGED vars
    <2>1. ScanTypeOK'
      BY <1>5 DEF ScanInv, ScanTypeOK, vars
    <2>2. ASSUME NEW p \in Publisher PROVE PublisherInv(p)'
      BY <1>5, PublisherRests DEF ScanInv, vars, Alone
    <2>4. FilesAreKept'
      BY <1>5 DEF ScanInv, FilesAreKept, Exists, vars
    <2>3. ASSUME NEW v \in Validator PROVE ValidatorInv(v)'
      BY <1>5, ValidatorRests DEF ScanInv, vars
    <2> QED BY <2>1, <2>2, <2>3, <2>4 DEF ScanInv
  <1> QED BY <1>1, <1>2, <1>3, <1>4, <1>5 DEF Next

\* The inductive invariant of the evidence root: what each publisher has written so far,
\* and what each validator has read.
THEOREM ScanInvariance == Spec => []ScanInv
  <1>1. Init => ScanInv
    BY ScanInitInv
  <1>2. ScanInv /\ [Next]_vars => ScanInv'
    BY ScanStep
  <1> QED BY <1>1, <1>2, PTL DEF Spec

\* Types of the evidence root: every file is complete, torn or missing, at a place in the
\* order of its directory.
THEOREM ScanTypeCorrect == Spec => []ScanTypeOK
  <1>1. ScanInv => ScanTypeOK
    BY DEF ScanInv
  <1> QED BY <1>1, ScanInvariance, PTL

\* validate_evidence accepts only the whole output of one publisher with a consistent
\* request, whatever is written, cleaned up, moved and mixed while it reads.
THEOREM AcceptsOnePublication == Spec => []AcceptedIsOnePublication
  <1>1. ScanInv => AcceptedIsOnePublication
    BY DEF ScanInv, ValidatorInv, OnePublication, AcceptedIsOnePublication
  <1> QED BY <1>1, ScanInvariance, PTL

\* What a publisher reported as published is there, whole and its own, unless the label
\* was replaced between another one's mkdir and open; and no cleanup, not even one that
\* removes a directory by a name that was replaced, takes one that holds a file.
THEOREM KeepsTheClaim == Spec => []ClaimIsKept
  <1>1. ScanInv => ClaimIsKept
    <2> SUFFICES ASSUME ScanInv PROVE ClaimIsKept
      OBVIOUS
    <2>1. \A d \in Publisher : Present(dirs[d]) # {} => Exists(d)
      BY DEF ScanInv, FilesAreKept
    <2>2. ASSUME NEW p \in Publisher, publisher[p].do = "done", Alone(p)
          PROVE  Wrote(p, FilesOf(p))
      BY <2>2 DEF ScanInv, PublisherInv, Opened, Progress
    <2> QED BY <2>1, <2>2 DEF ClaimIsKept, Wrote
  <1> QED BY <1>1, ScanInvariance, PTL

----------------------------------------------------------------------------
(* Image scan: the inductive invariant. *)

Scanned == {Of(k, i) : k \in {"report", "stderr"}, i \in Image}
Inputs == {The("version")} \cup Scanned

\* The log of an image is there and its scanner came to an end.
Ended(i) == Of("stderr", i) \in DOMAIN files /\ exits[i] \in {0, 1}

\* What the script has collected before it looks into the reports.
Collected ==
  /\ stage \in {"acquire", "volume"} => DOMAIN files = {} /\ image = 1
  /\ stage \in {"inspect", "scan", "version"} =>
       /\ DOMAIN files \subseteq Scanned
       /\ \A i \in Image : i < image => Ended(i)
  /\ stage = "scan" => image <= Images /\ Of("stderr", image) \in DOMAIN files
  /\ stage = "version" => image = Images + 1
  /\ stage \in {"drop-volume", "drop-scanner", "parse"} =>
       /\ DOMAIN files \subseteq Inputs
       /\ The("version") \in DOMAIN files
       /\ \A i \in Image : Ended(i)
  /\ stage \notin TrapStage \cup {"over"} =>
       \A i \in Image : Of("report", i) \in DOMAIN files => ReportOf(i).found \subseteq Vulnerability

\* Nothing is left for the trap to clean up once the script has done so itself.
CleanedUp ==
  /\ stage = "drop-volume" => held \subseteq tried \cup {"volume", "scanner"}
  /\ stage = "drop-scanner" => held \subseteq tried \cup {"scanner"}
  /\ stage \in Finalizing \cup {"verify"} => held \subseteq tried
  /\ Sealed => held \subseteq tried

Parsed == \A i \in Image : Ended(i) /\ Parses(i) /\ ReportOf(i).found \subseteq Vulnerability

\* The files of finalize, one after the other.
HasFindings == files[The("findings")] = Findings(Reports)
HasSummary == files[The("summary")] = Summary(Reports)
HasManifest == files[The("manifest")] = Manifest(Reports, Bound)
HasMarker == files[The("COMPLETE")] = Marker(files[The("manifest")])

SealedFiles ==
  /\ Parsed /\ HasFindings /\ HasSummary /\ HasManifest /\ HasMarker
  /\ DOMAIN files = Inputs \cup {The("findings"), The("summary"), The("manifest"), The("COMPLETE")}

Finalized ==
  /\ stage = "findings" => Parsed /\ DOMAIN files = Inputs
  /\ stage = "summary" => /\ Parsed /\ HasFindings
                          /\ DOMAIN files = Inputs \cup {The("findings")}
  /\ stage = "manifest" => /\ Parsed /\ HasFindings /\ HasSummary
                           /\ DOMAIN files = Inputs \cup {The("findings"), The("summary")}
  /\ stage = "COMPLETE" => /\ Parsed /\ HasFindings /\ HasSummary /\ HasManifest
                           /\ DOMAIN files = Inputs \cup {The("findings"), The("summary"), The("manifest")}
  /\ stage = "verify" => Sealed
  /\ Sealed => stage \in {"verify", "over"} \cup TrapStage
  /\ Sealed /\ ~disturbed => SealedFiles

Decided ==
  /\ disturbed => stage = "over" /\ ~Verifies(files)
  /\ status = 0 => stage \in TrapStage \cup {"over"}
  /\ status = 0 /\ signal = "none" =>
       /\ held = {}
       /\ \A i \in Image : exits[i] = 0
       /\ ~disturbed => Sealed

ImageInv ==
  /\ ImageTypeOK /\ Collected /\ CleanedUp /\ Finalized /\ Decided

----------------------------------------------------------------------------
(* Names and files. *)

LEMMA FileNamesDiffer ==
  /\ \A k, l, i, j : Of(k, i) = Of(l, j) <=> k = l /\ i = j
  /\ \A k : The(k) = Of(k, 0)
  /\ \A i \in Image : i # 0
  /\ \A k, i : Of(k, i) \in Scanned <=> k \in {"report", "stderr"} /\ i \in Image
  <1>1. ASSUME NEW k, NEW l, NEW i, NEW j, Of(k, i) = Of(l, j) PROVE k = l /\ i = j
    <2>1. Of(k, i).kind = Of(l, j).kind /\ Of(k, i).image = Of(l, j).image
      BY <1>1
    <2> QED BY <2>1 DEF Of
  <1>2. \A k : The(k) = Of(k, 0)
    BY DEF The
  <1>3. \A i \in Image : i # 0
    BY ImageScanAssumption DEF Image
  <1>4. ASSUME NEW k, NEW i
        PROVE  Of(k, i) \in Scanned <=> k \in {"report", "stderr"} /\ i \in Image
    <2>1. ASSUME Of(k, i) \in Scanned PROVE k \in {"report", "stderr"} /\ i \in Image
      <3>1. PICK l \in {"report", "stderr"}, j \in Image : Of(k, i) = Of(l, j)
        BY <2>1 DEF Scanned
      <3> QED BY <3>1, <1>1
    <2> QED BY <2>1 DEF Scanned
  <1> QED BY <1>1, <1>2, <1>3, <1>4

\* The files that exist once, beside the inputs of finalize.
LEMMA SingleFiles ==
  /\ \A k, l : The(k) = The(l) <=> k = l
  /\ \A k : The(k) \notin Scanned
  /\ \A k : The(k) \in Inputs <=> k = "version"
  /\ Scanned \subseteq Inputs
  /\ \A i \in Image : /\ Of("report", i) \in Scanned /\ Of("stderr", i) \in Scanned
                      /\ Of("report", i) # Of("stderr", i)
  <1>1. \A k, l : The(k) = The(l) <=> k = l
    BY FileNamesDiffer
  <1>2. \A k : The(k) \notin Scanned
    BY FileNamesDiffer
  <1> QED BY <1>1, <1>2, FileNamesDiffer DEF Inputs

\* A file is added or replaced.
LEMMA Stored ==
  ASSUME NEW name, NEW content, Store(name, content)
  PROVE  /\ DOMAIN files' = DOMAIN files \cup {name}
         /\ files'[name] = content
         /\ \A n \in DOMAIN files \ {name} : files'[n] = files[n]
  BY DEF Store, With

\* The records of one image are as many as its severe vulnerabilities.
LEMMA RecordsOfImage ==
  ASSUME NEW reports, NEW i \in Image,
         \A j \in Image : reports[j].found \subseteq Vulnerability
  PROVE  Cardinality({r \in Findings(reports) : r[1] = i}) = Cardinality(SevereOf(reports[i]))
  <1> DEFINE S == SevereOf(reports[i])
  <1>1. {r \in Findings(reports) : r[1] = i} = {i} \X S
    BY DEF Findings
  <1>2. IsFiniteSet(S)
    BY ImageScanAssumption, FS_Subset DEF SevereOf
  <1>3. IsFiniteSet({i}) /\ Cardinality({i}) = 1
    BY FS_Singleton
  <1>4. Cardinality({i} \X S) = Cardinality({i}) * Cardinality(S)
    BY <1>2, <1>3, FS_Product
  <1>5. Cardinality(S) \in Nat
    BY <1>2, FS_CardinalityType
  <1> QED BY <1>1, <1>3, <1>4, <1>5

----------------------------------------------------------------------------
(* verify, of a sealed directory and of a disturbed one. *)

LEMMA BoundIs ==
  /\ DOMAIN Bound = Inputs \cup {The("findings"), The("summary")}
  /\ \A n \in DOMAIN Bound : Bound[n] = files[n]
  BY DEF Bound, Inputs, Scanned

LEMMA MarkersAreWhole == \A manifest : Marker(manifest) # TornFile
  <1> TAKE manifest
  <1>1. "manifest" \in DOMAIN Marker(manifest) /\ "manifest" \notin DOMAIN TornFile
    BY DEF Marker, TornFile
  <1> QED BY <1>1

LEMMA SealedVerifies == SealedFiles => Verifies(files)
  <1> SUFFICES ASSUME SealedFiles PROVE Verifies(files)
    OBVIOUS
  <1> DEFINE manifest == files[The("manifest")]
  <1>1. /\ manifest.images = ImageRecords(Reports)
        /\ manifest.findings = Findings(Reports)
        /\ manifest.count = Cardinality(Findings(Reports))
        /\ manifest.files = Bound
    BY DEF SealedFiles, HasManifest, Manifest
  <1>2. files[The("findings")] = Findings(Reports)
    BY DEF SealedFiles, HasFindings
  <1>3. /\ files[The("COMPLETE")].manifest = manifest
        /\ files[The("COMPLETE")].findings = manifest.findings
        /\ files[The("COMPLETE")] # TornFile
    BY MarkersAreWhole DEF SealedFiles, HasMarker, Marker
  <1>4. \A i \in Image : Reports[i].found \subseteq Vulnerability
    BY DEF SealedFiles, Parsed, Reports
  <1>5. FindingsMatch(Findings(Reports), ImageRecords(Reports))
    <2>1. DOMAIN ImageRecords(Reports) = Image
      BY DEF ImageRecords
    <2>2. ASSUME NEW r \in Findings(Reports) PROVE r[1] \in Image /\ r[2] \in Severe
      BY <2>2 DEF Findings, SevereOf
    <2>3. ASSUME NEW i \in Image
          PROVE  Cardinality({r \in Findings(Reports) : r[1] = i}) = ImageRecords(Reports)[i].severe
      BY <1>4, RecordsOfImage DEF ImageRecords
    <2> QED BY <2>1, <2>2, <2>3 DEF FindingsMatch
  <1>6. DOMAIN files = Inputs \cup {The("findings"), The("summary"), The("manifest"), The("COMPLETE")}
    BY DEF SealedFiles
  <1>7. NothingElse(files)
    BY <1>1, <1>6, BoundIs DEF NothingElse, Entries
  <1>8. \A n \in DOMAIN manifest.files : n \in DOMAIN files /\ manifest.files[n] = files[n]
    BY <1>1, <1>6, BoundIs
  <1> QED BY <1>1, <1>2, <1>3, <1>5, <1>6, <1>7, <1>8 DEF Verifies, Marked

\* One changed file: the manifest names it, or is it, or its marker does not fit.
LEMMA DisturbedFails ==
  ASSUME SealedFiles, Disturb
  PROVE  ~Verifies(files')
  <1> DEFINE manifest == files[The("manifest")]
  <1>1. /\ DOMAIN manifest.files = Inputs \cup {The("findings"), The("summary")}
        /\ \A n \in DOMAIN manifest.files : manifest.files[n] = files[n]
        /\ DOMAIN files = DOMAIN manifest.files \cup {The("manifest"), The("COMPLETE")}
        /\ files[The("COMPLETE")] = Marker(manifest)
    BY BoundIs DEF SealedFiles, HasManifest, HasMarker, Manifest
  <1>2. \A k, l : The(k) = The(l) <=> k = l
    BY SingleFiles
  <1>3. PICK n \in FileName :
       \/ n \in DOMAIN files /\ files' = [m \in DOMAIN files \ {n} |-> files[m]]
       \/ n \notin DOMAIN files /\ Store(n, 1)
       \/ /\ n \in DOMAIN OtherFiles \cap DOMAIN files
          /\ OtherFiles[n] # files[n]
          /\ Store(n, OtherFiles[n])
    BY Zenon DEF Disturb
  <1> HIDE DEF manifest
  <1>4. CASE n \in DOMAIN files /\ files' = [m \in DOMAIN files \ {n} |-> files[m]]
    <2>1. n \notin DOMAIN files' BY <1>4
    <2>2. CASE n \in {The("manifest"), The("COMPLETE"), The("findings")}
      BY <2>1, <2>2 DEF Verifies, Marked
    <2>3. CASE n \in DOMAIN manifest.files /\ n # The("manifest")
      <3>1. files'[The("manifest")] = manifest
        BY <1>1, <1>4, <2>3 DEF manifest
      <3> QED BY <2>1, <2>3, <3>1 DEF Verifies
    <2> QED BY <1>1, <1>4, <2>2, <2>3
  <1>5. CASE n \notin DOMAIN files /\ Store(n, 1)
    <2>1. DOMAIN files' = DOMAIN files \cup {n} /\ \A m \in DOMAIN files : files'[m] = files[m]
      BY <1>5, Stored
    <2>2. files'[The("manifest")] = manifest
      BY <1>1, <2>1 DEF manifest
    <2> QED BY <1>1, <1>5, <2>1, <2>2 DEF Verifies, NothingElse, Entries
  <1>6. CASE /\ n \in DOMAIN OtherFiles \cap DOMAIN files
             /\ OtherFiles[n] # files[n]
             /\ Store(n, OtherFiles[n])
    <2>1. /\ files'[n] = OtherFiles[n] /\ OtherFiles[n] # files[n]
          /\ \A m \in DOMAIN files \ {n} : files'[m] = files[m]
      BY <1>6, Stored
    <2>2. CASE n = The("manifest")
      <3>1. files'[The("COMPLETE")] = Marker(manifest) /\ files'[The("manifest")] # manifest
        BY <1>1, <1>2, <2>1, <2>2 DEF manifest
      <3> QED BY <3>1 DEF Verifies, Marker
    <2>3. CASE n = The("COMPLETE")
      <3>1. files'[The("manifest")] = manifest
        BY <1>1, <1>2, <2>1, <2>3 DEF manifest
      <3>2. PICK other : OtherFiles[The("COMPLETE")] = Marker(other)
        BY <1>2, SingleFiles DEF OtherFiles, With
      <3>3. other # manifest
        BY <1>1, <2>1, <2>3, <3>2
      <3>4. files'[The("COMPLETE")].manifest = other
        BY <2>1, <2>3, <3>2 DEF Marker
      <3> QED BY <3>1, <3>3, <3>4 DEF Verifies
    <2>4. CASE n \in DOMAIN manifest.files
      <3>1. n # The("manifest")
        BY <1>1, <1>2, <2>4, SingleFiles
      <3>2. files'[The("manifest")] = manifest
        BY <1>1, <2>1, <3>1 DEF manifest
      <3>3. manifest.files[n] # files'[n]
        BY <1>1, <2>1, <2>4
      <3> QED BY <2>4, <3>2, <3>3 DEF Verifies
    <2> QED BY <1>1, <1>6, <2>2, <2>3, <2>4
  <1> QED BY <1>3, <1>4, <1>5, <1>6

----------------------------------------------------------------------------

LEMMA ImageInitInv == ImageInit => ImageInv
  <1> SUFFICES ASSUME ImageInit PROVE ImageInv
    OBVIOUS
  <1>1. Images \in Nat /\ Images >= 1
    BY ImageScanAssumption
  <1>2. ImageTypeOK
    <2>1. exits \in [Image -> 0..3] /\ DOMAIN files = {}
      BY DEF ImageInit
    <2>2. stage \in Stage /\ image \in 1..Images + 1 /\ status \in 0..2
      BY <1>1 DEF ImageInit, Stage, Finalizing
    <2>3. /\ signal \in {"none", "caught", "exiting"} /\ disturbed \in BOOLEAN
          /\ held \subseteq Resource /\ tried \subseteq Resource
      BY DEF ImageInit
    <2> QED BY <2>1, <2>2, <2>3 DEF ImageTypeOK
  <1>3. DOMAIN files = {} /\ ~Sealed
    BY DEF ImageInit, Sealed, Marked
  <1>4. Collected
    BY <1>3 DEF ImageInit, Collected
  <1>5. CleanedUp /\ Finalized /\ Decided
    BY <1>3 DEF ImageInit, CleanedUp, Finalizing, Finalized, Decided
  <1> QED BY <1>2, <1>4, <1>5 DEF ImageInv

----------------------------------------------------------------------------
(* What a step keeps. *)

\* What the properties of sealed files are about.
LEMMA SameFiles ==
  ASSUME UNCHANGED <<files, exits>>
  PROVE  /\ Sealed' = Sealed /\ SealedFiles' = SealedFiles /\ Parsed' = Parsed
         /\ HasFindings' = HasFindings /\ HasSummary' = HasSummary /\ HasManifest' = HasManifest
         /\ \A i \in Image : Ended(i)' = Ended(i) /\ ReportOf(i)' = ReportOf(i)
  <1>1. Reports' = Reports /\ Bound' = Bound
    BY DEF Reports, Bound, ReportOf
  <1>2. Parsed' = Parsed
    BY DEF Parsed, Ended, Parses, ReportOf
  <1>3. /\ HasFindings' = HasFindings /\ HasSummary' = HasSummary
        /\ HasManifest' = HasManifest /\ HasMarker' = HasMarker
    BY <1>1 DEF HasFindings, HasSummary, HasManifest, HasMarker
  <1> QED BY <1>2, <1>3 DEF Sealed, Marked, SealedFiles, Ended, ReportOf

\* A step that ends in the trap before the directory is sealed.
LEMMA StopsUnsealed ==
  ASSUME ImageInv, ImageTypeOK', stage' = "trap-container", status' = 1 \/ signal' # "none",
         ~Sealed', UNCHANGED disturbed, stage # "over"
  PROVE  ImageInv'
  <1>1. Collected' /\ CleanedUp' /\ Finalized'
    BY DEF Collected, CleanedUp, Finalizing, Finalized, TrapStage
  <1>2. Decided'
    BY DEF ImageInv, Decided, TrapStage
  <1> QED BY <1>1, <1>2 DEF ImageInv

\* A name that is stored before COMPLETE seals nothing.
LEMMA StoredUnsealed ==
  ASSUME ~Sealed, NEW name, NEW content, Store(name, content), name # The("COMPLETE")
  PROVE  ~Sealed'
  <1>1. /\ DOMAIN files' = DOMAIN files \cup {name}
        /\ \A n \in DOMAIN files \ {name} : files'[n] = files[n]
    BY Stored, Zenon
  <1> QED BY <1>1 DEF Sealed, Marked

LEMMA Unsealed ==
  ASSUME ImageInv, stage \notin {"verify", "over"} \cup TrapStage
  PROVE  ~Sealed /\ ~disturbed /\ status # 0
  BY DEF ImageInv, Finalized, Decided

----------------------------------------------------------------------------
(* Types. *)

LEMMA ImageTypeStep == ImageInv /\ [ImageNext]_imageVars => ImageTypeOK'
  <1> SUFFICES ASSUME ImageInv, [ImageNext]_imageVars PROVE ImageTypeOK'
    OBVIOUS
  <1>0. ImageTypeOK /\ Images \in Nat /\ Images >= 1
    BY ImageScanAssumption DEF ImageInv
  <1>1. /\ \A k \in {"acquisition", "version", "findings", "summary", "manifest", "COMPLETE"} :
             The(k) \in FileName
        /\ \A i \in Image : Of("report", i) \in FileName /\ Of("stderr", i) \in FileName
    BY DEF FileName
  <1>2. ASSUME NEW name \in FileName, NEW content, Store(name, content)
        PROVE  DOMAIN files' \subseteq FileName
    <2>1. DOMAIN files' = DOMAIN files \cup {name}
      BY <1>2, Stored, Zenon
    <2> QED BY <1>0, <2>1 DEF ImageTypeOK
  <1>3. ASSUME NEW what \in Resource, CleanUp(what)
        PROVE  DOMAIN files' \subseteq FileName /\ held' \subseteq Resource /\ tried' \subseteq Resource
    <2>1. CASE Diagnostic
      BY <1>0, <1>1, <1>2, <1>3, <2>1 DEF Diagnostic, CleanUp, ImageTypeOK
    <2>2. CASE UNCHANGED files
      BY <1>0, <1>3, <2>2 DEF CleanUp, ImageTypeOK
    <2> QED BY <1>3, <2>1, <2>2 DEF CleanUp
  <1>4. stage \in {"inspect", "scan"} /\ image <= Images => image \in Image /\ image + 1 \in 1..Images + 1
    BY <1>0 DEF Image, ImageTypeOK
  <1>5. CASE Acquire
    BY <1>0, <1>5 DEF Acquire, ImageTypeOK, Resource, Stage, Finalizing
  <1>6. CASE AcquisitionFails
    BY <1>0, <1>1, <1>2, <1>6 DEF AcquisitionFails, Stops, ImageTypeOK, Resource, Stage, Finalizing, TrapStage
  <1>7. CASE CreateVolume
    BY <1>0, <1>7 DEF CreateVolume, ImageTypeOK, Resource, Stage, Finalizing
  <1>8. CASE StartScan
    <2>1. DOMAIN files' \subseteq FileName
      BY <1>1, <1>2, <1>4, <1>8 DEF StartScan
    <2> QED BY <1>0, <1>8, <2>1 DEF StartScan, ImageTypeOK, Resource, Stage, Finalizing
  <1>9. CASE EndScan
    <2>1. image \in Image /\ image + 1 \in 1..Images + 1
      BY <1>4, <1>9 DEF EndScan, ImageInv, Collected
    <2>2. DOMAIN files' \subseteq FileName
      BY <1>0, <1>1, <1>2, <1>9, <2>1 DEF EndScan, ImageTypeOK
    <2>3. exits' \in [Image -> 0..3]
      BY <1>0, <1>9, <2>1 DEF EndScan, ImageTypeOK
    <2> QED BY <1>0, <1>9, <2>1, <2>2, <2>3 DEF EndScan, ImageTypeOK, Stage, Finalizing
  <1>10. CASE ScannedAll
    BY <1>0, <1>10 DEF ScannedAll, ImageTypeOK, Resource, Stage, Finalizing
  <1>11. CASE ScannerVersion
    <2>1. DOMAIN files' \subseteq FileName
      BY <1>1, <1>2, <1>11 DEF ScannerVersion
    <2> QED BY <1>0, <1>11, <2>1 DEF ScannerVersion, ImageTypeOK, Stage, Finalizing
  <1>12. CASE StepFails
    BY <1>0, <1>12 DEF StepFails, Stops, ImageTypeOK, Stage, Finalizing, TrapStage
  <1>a. CASE Signal
    <2>1. held' \subseteq Resource /\ tried' \subseteq Resource
      BY <1>0, <1>a DEF Signal, ImageTypeOK
    <2>2. stage' \in Stage /\ status' \in 0..2 /\ signal' \in {"none", "caught", "exiting"}
      BY <1>a DEF Signal, Stage, Finalizing, TrapStage
    <2> QED BY <1>0, <1>a, <2>1, <2>2 DEF Signal, ImageTypeOK
  <1>13. CASE DropVolume
    BY <1>0, <1>3, <1>13 DEF DropVolume, ImageTypeOK, Resource, Stage, Finalizing
  <1>14. CASE DropScanner
    BY <1>0, <1>3, <1>14 DEF DropScanner, ImageTypeOK, Resource, Stage, Finalizing
  <1>15. CASE Trap
    <2>1. \E what \in Resource : CleanUp(what)
      BY <1>15 DEF Trap, TrapStage, Resource
    <2>2. stage' \in {"trap-container", "trap-volume", "trap-scanner", "over"}
      BY <1>15 DEF Trap, TrapStage
    <2>3. stage' \in Stage
      BY <2>2 DEF Stage, TrapStage
    <2>4. signal' \in {"none", "caught", "exiting"}
      BY <1>0, <1>15 DEF Trap, ImageTypeOK
    <2>5. status' \in 0..2
      BY <1>0, <1>15 DEF Trap, ImageTypeOK
    <2> QED BY <1>0, <1>3, <1>15, <2>1, <2>3, <2>4, <2>5 DEF Trap, ImageTypeOK
  <1>16. CASE Parse
    BY <1>0, <1>16 DEF Parse, Stops, ImageTypeOK, Stage, Finalizing, TrapStage
  <1>17. CASE Finalize
    <2>1. DOMAIN files' \subseteq FileName
      BY <1>1, <1>2, <1>17 DEF Finalize
    <2> QED BY <1>0, <1>17, <2>1 DEF Finalize, ImageTypeOK, Stage, Finalizing
  <1>b. CASE Tears
    <2>1. DOMAIN files' \subseteq FileName
      BY <1>1, <1>2, <1>b DEF Tears, Finalizing
    <2> QED BY <1>0, <1>b, <2>1 DEF Tears, Stops, ImageTypeOK, Stage, Finalizing, TrapStage
  <1>18. CASE Gate
    BY <1>0, <1>18 DEF Gate, ImageTypeOK, Stage, Finalizing, TrapStage
  <1>19. CASE Disturb
    <2>1. DOMAIN files' \subseteq FileName
      <3>1. PICK n \in FileName :
           \/ n \in DOMAIN files /\ files' = [m \in DOMAIN files \ {n} |-> files[m]]
           \/ \E content : Store(n, content)
        BY <1>19, Zenon DEF Disturb
      <3>2. CASE files' = [m \in DOMAIN files \ {n} |-> files[m]]
        BY <1>0, <3>2 DEF ImageTypeOK
      <3>3. CASE \E content : Store(n, content)
        BY <1>2, <3>3
      <3> QED BY <3>1, <3>2, <3>3
    <2> QED BY <1>0, <1>19, <2>1 DEF Disturb, ImageTypeOK
  <1>20. CASE UNCHANGED imageVars
    BY <1>0, <1>20 DEF ImageTypeOK, imageVars
  <1> QED BY <1>5, <1>6, <1>7, <1>8, <1>9, <1>10, <1>11, <1>12, <1>13, <1>14, <1>15, <1>16, <1>17,
             <1>18, <1>a, <1>b, <1>19, <1>20 DEF ImageNext

----------------------------------------------------------------------------
(* The script, up to the reports. *)

\* A step of the script before it finalizes.
LEMMA MovesUnsealed ==
  ASSUME ImageInv, ImageTypeOK', stage \notin {"verify", "over"} \cup TrapStage,
         UNCHANGED <<status, disturbed>>, ~Sealed',
         stage' \notin {"findings", "summary", "manifest", "COMPLETE", "verify", "over"},
         Collected', CleanedUp'
  PROVE  ImageInv'
  <1>1. ~disturbed' /\ status' # 0
    BY Unsealed
  <1>2. Finalized' /\ Decided'
    BY <1>1 DEF Finalized, Decided
  <1> QED BY <1>2 DEF ImageInv

LEMMA ScriptSteps ==
  ASSUME ImageInv, ImageTypeOK',
         \/ Acquire \/ AcquisitionFails \/ CreateVolume \/ StartScan \/ EndScan \/ ScannedAll
         \/ ScannerVersion \/ StepFails
  PROVE  ImageInv'
  <1>0. /\ ImageTypeOK /\ Collected /\ Images \in Nat /\ Images >= 1
        /\ image \in Nat /\ \A i \in Image : i \in Nat /\ i <= Images
    BY ImageScanAssumption DEF ImageInv, ImageTypeOK, Image
  <1>1. \A k, l : The(k) = The(l) <=> k = l
    BY SingleFiles
  <1>2. \A i \in Image : Of("report", i) # The("COMPLETE") /\ Of("stderr", i) # The("COMPLETE")
    BY SingleFiles
  <1>3. CASE Acquire
    <2>1. ~Sealed' BY <1>3, Unsealed DEF Acquire, Sealed, Marked, TrapStage
    <2>2. Collected' BY <1>0, <1>3 DEF Acquire, Collected
    <2>3. CleanedUp' BY <1>3, <2>1 DEF Acquire, CleanedUp, Finalizing
    <2> QED BY <1>3, <2>1, <2>2, <2>3, MovesUnsealed DEF Acquire, TrapStage
  <1>4. CASE AcquisitionFails
    <2>1. ~Sealed'
      <3>1. ~Sealed /\ Store(The("acquisition"), 1) /\ The("acquisition") # The("COMPLETE")
        BY <1>1, <1>4, Unsealed DEF AcquisitionFails, TrapStage
      <3> QED BY <3>1, StoredUnsealed
    <2> QED BY <1>4, <2>1, StopsUnsealed DEF AcquisitionFails, Stops
  <1>5. CASE CreateVolume
    <2>1. ~Sealed' BY <1>5, Unsealed DEF CreateVolume, Sealed, Marked, TrapStage
    <2>2. Collected' BY <1>0, <1>5 DEF CreateVolume, Collected, Image
    <2>3. CleanedUp' BY <1>5, <2>1 DEF CreateVolume, CleanedUp, Finalizing
    <2> QED BY <1>5, <2>1, <2>2, <2>3, MovesUnsealed DEF CreateVolume, TrapStage
  <1>6. CASE StartScan
    <2> DEFINE log == Of("stderr", image)
    <2>0. image \in Image /\ Store(log, 0) /\ stage = "inspect"
      BY <1>0, <1>6 DEF StartScan, Image, ImageTypeOK
    <2>1. ~Sealed'
      <3>1. ~Sealed /\ log # The("COMPLETE")
        BY <1>2, <2>0, Unsealed DEF TrapStage
      <3> QED BY <2>0, <3>1, StoredUnsealed
    <2>2. Collected'
      <3>1. DOMAIN files' = DOMAIN files \cup {log}
        BY <2>0, Stored, Zenon
      <3>2. \A n \in DOMAIN files \ {log} : files'[n] = files[n]
        BY <2>0, Stored, Zenon
      <3>3. \A i \in Image : Of("report", i) # log /\ log \in Scanned
        BY <2>0, FileNamesDiffer
      <3>4. \A i \in Image : Of("report", i) \in DOMAIN files' =>
              Of("report", i) \in DOMAIN files /\ files'[Of("report", i)] = files[Of("report", i)]
        BY <3>1, <3>2, <3>3
      <3>5. DOMAIN files' \subseteq Scanned
        BY <1>0, <2>0, <3>1, <3>3 DEF Collected
      <3>6. \A i \in Image : Ended(i) => Ended(i)'
        BY <1>6, <3>1 DEF Ended, StartScan
      <3>7. \A i \in Image : Of("report", i) \in DOMAIN files' => ReportOf(i)'.found \subseteq Vulnerability
        BY <1>0, <2>0, <3>4 DEF Collected, ReportOf, TrapStage
      <3>8. stage' = "scan" /\ image' = image /\ image <= Images /\ log \in DOMAIN files'
        BY <1>6, <3>1 DEF StartScan
      <3>9. \A i \in Image : i < image => Ended(i)
        BY <1>0, <2>0 DEF Collected
      <3> QED BY <3>5, <3>6, <3>7, <3>8, <3>9 DEF Collected, TrapStage
    <2>3. CleanedUp' BY <1>6, <2>1 DEF StartScan, CleanedUp, Finalizing
    <2> QED BY <1>6, <2>1, <2>2, <2>3, MovesUnsealed DEF StartScan, TrapStage
  <1>7. CASE EndScan
    <2> DEFINE file == Of("report", image)
    <2>0. image \in Image /\ stage = "scan" /\ Of("stderr", image) \in DOMAIN files
      BY <1>0, <1>7 DEF EndScan, Collected, Image, ImageTypeOK
    <2>1. \/ files' = files
          \/ \E found \in SUBSET Vulnerability, usable \in BOOLEAN :
               Store(file, [usable |-> usable, found |-> found])
      BY <1>7 DEF EndScan, Unusable, Report
    <2>2. ~Sealed'
      <3>1. ~Sealed /\ file # The("COMPLETE")
        BY <1>2, <2>0, Unsealed DEF TrapStage
      <3>2. CASE files' = files BY <3>1, <3>2 DEF Sealed, Marked
      <3>3. ASSUME NEW content, Store(file, content) PROVE ~Sealed'
        BY <3>1, <3>3, StoredUnsealed
      <3> QED BY <2>1, <3>2, <3>3
    <2>3. /\ DOMAIN files \subseteq DOMAIN files' /\ DOMAIN files' \subseteq DOMAIN files \cup {file}
          /\ \A n \in DOMAIN files \ {file} : files'[n] = files[n]
          /\ file \in DOMAIN files' /\ files' # files => files'[file].found \subseteq Vulnerability
      <3>1. CASE files' = files BY <3>1
      <3>2. ASSUME NEW found \in SUBSET Vulnerability, NEW usable \in BOOLEAN,
                   Store(file, [usable |-> usable, found |-> found])
            PROVE  /\ DOMAIN files' = DOMAIN files \cup {file}
                   /\ \A n \in DOMAIN files \ {file} : files'[n] = files[n]
                   /\ files'[file].found \subseteq Vulnerability
        <4> DEFINE content == [usable |-> usable, found |-> found]
        <4>1. content.found \subseteq Vulnerability
          OBVIOUS
        <4> HIDE DEF content
        <4>2. /\ DOMAIN files' = DOMAIN files \cup {file} /\ files'[file] = content
              /\ \A n \in DOMAIN files \ {file} : files'[n] = files[n]
          BY <3>2, Stored, Zenon DEF content
        <4> QED BY <4>1, <4>2
      <3> QED BY <2>1, <3>1, <3>2
    <2>4. \A i \in Image : Of("report", i) \in DOMAIN files' => ReportOf(i)'.found \subseteq Vulnerability
      <3>1. \A i \in Image : Of("report", i) \in DOMAIN files => files[Of("report", i)].found \subseteq Vulnerability
        BY <1>0, <2>0 DEF Collected, ReportOf, TrapStage
      <3> QED BY <2>3, <3>1 DEF ReportOf
    <2>5. file \in Scanned /\ DOMAIN files' \subseteq Scanned
      BY <1>0, <2>0, <2>3, FileNamesDiffer DEF Collected
    <2>6. exits'[image] \in {0, 1} /\ \A i \in Image \ {image} : exits'[i] = exits[i]
      BY <1>0, <1>7, <2>0 DEF EndScan, ImageTypeOK
    <2>7. \A i \in Image : i < image + 1 => Ended(i)'
      <3>1. ASSUME NEW i \in Image, i < image + 1, i # image PROVE Ended(i)'
        <4>1. Ended(i) BY <1>0, <2>0, <3>1 DEF Collected
        <4> QED BY <2>3, <2>6, <3>1, <4>1 DEF Ended
      <3>2. ASSUME NEW i \in Image, i = image PROVE Ended(i)'
        BY <2>0, <2>3, <2>6, <3>2 DEF Ended
      <3> QED BY <3>1, <3>2
    <2>8. stage' = "inspect" /\ image' = image + 1
      BY <1>7 DEF EndScan
    <2>9. Collected' BY <2>4, <2>5, <2>7, <2>8 DEF Collected
    <2>10. CleanedUp' BY <2>2, <2>8 DEF CleanedUp, Finalizing
    <2> QED BY <1>7, <2>0, <2>2, <2>8, <2>9, <2>10, MovesUnsealed DEF EndScan, TrapStage
  <1>8. CASE ScannedAll
    <2>1. ~Sealed' BY <1>8, Unsealed DEF ScannedAll, Sealed, Marked, TrapStage
    <2>2. Collected'
      BY <1>0, <1>8 DEF ScannedAll, Collected, Ended, ReportOf, TrapStage, ImageTypeOK
    <2>3. CleanedUp' BY <1>8, <2>1 DEF ScannedAll, CleanedUp, Finalizing
    <2> QED BY <1>8, <2>1, <2>2, <2>3, MovesUnsealed DEF ScannedAll, TrapStage
  <1>9. CASE ScannerVersion
    <2>0. stage = "version" /\ \E right : Store(The("version"), right)
      BY <1>9 DEF ScannerVersion
    <2>1. ~Sealed'
      <3>1. ~Sealed /\ The("version") # The("COMPLETE")
        BY <1>1, <2>0, Unsealed DEF TrapStage
      <3> QED BY <2>0, <3>1, StoredUnsealed
    <2>2. /\ DOMAIN files' = DOMAIN files \cup {The("version")}
          /\ \A n \in DOMAIN files \ {The("version")} : files'[n] = files[n]
      BY <2>0, Stored, Zenon
    <2>3. Collected'
      <3>1. \A i \in Image : Ended(i)
        BY <1>0, <2>0 DEF Collected
      <3>2. \A i \in Image : Ended(i)'
        BY <1>9, <2>2, <3>1 DEF Ended, ScannerVersion
      <3>3. \A i \in Image : Of("report", i) \in DOMAIN files' => ReportOf(i)'.found \subseteq Vulnerability
        <4>1. \A i \in Image : Of("report", i) # The("version")
          BY SingleFiles
        <4>2. \A i \in Image : Of("report", i) \in DOMAIN files => files[Of("report", i)].found \subseteq Vulnerability
          BY <1>0, <2>0 DEF Collected, ReportOf, TrapStage
        <4> QED BY <2>2, <4>1, <4>2 DEF ReportOf
      <3>4. DOMAIN files' \subseteq Inputs
        BY <1>0, <2>0, <2>2 DEF Collected, Inputs
      <3>5. stage' = "drop-volume" BY <1>9 DEF ScannerVersion
      <3> QED BY <2>2, <3>2, <3>3, <3>4, <3>5 DEF Collected
    <2>4. CleanedUp'
      BY <1>0, <1>9, <2>1 DEF ScannerVersion, CleanedUp, Finalizing, ImageTypeOK, Resource
    <2> QED BY <1>9, <2>1, <2>3, <2>4, MovesUnsealed DEF ScannerVersion, TrapStage
  <1>10. CASE StepFails
    <2>1. ~Sealed' BY <1>10, Unsealed DEF StepFails, Sealed, Marked, TrapStage
    <2> QED BY <1>10, <2>1, StopsUnsealed DEF StepFails, Stops
  <1> QED BY <1>3, <1>4, <1>5, <1>6, <1>7, <1>8, <1>9, <1>10

----------------------------------------------------------------------------
(* The cleanup. *)

\* A failed cleanup writes into the first log, when there is one, and nowhere else.
LEMMA Diagnosed ==
  ASSUME ImageTypeOK, Diagnostic
  PROVE  \E name \in {Of("stderr", 1), The("acquisition")} :
           /\ name = The("acquisition") => Of("stderr", 1) \notin DOMAIN files
           /\ DOMAIN files' = DOMAIN files \cup {name}
           /\ \A n \in DOMAIN files \ {name} : files'[n] = files[n]
  <1>1. CASE Of("stderr", 1) \in DOMAIN files
    <2>1. files' = [files EXCEPT ![Of("stderr", 1)] = @ + 1]
      BY <1>1 DEF Diagnostic
    <2>2. /\ DOMAIN files' = DOMAIN files
          /\ \A n \in DOMAIN files \ {Of("stderr", 1)} : files'[n] = files[n]
      BY <2>1
    <2>3. Of("stderr", 1) # The("acquisition")
      BY FileNamesDiffer
    <2> QED BY <1>1, <2>2, <2>3
  <1>2. CASE Of("stderr", 1) \notin DOMAIN files
    <2>1. Store(The("acquisition"), 1)
      BY <1>2 DEF Diagnostic
    <2>2. /\ DOMAIN files' = DOMAIN files \cup {The("acquisition")}
          /\ \A n \in DOMAIN files \ {The("acquisition")} : files'[n] = files[n]
      BY <2>1, Stored, Zenon
    <2> QED BY <1>2, <2>2
  <1> QED BY <1>1, <1>2

\* The script cleans up itself: its logs are there, so that no file is added.
LEMMA DropSteps ==
  ASSUME ImageInv, ImageTypeOK', DropVolume \/ DropScanner
  PROVE  ImageInv'
  <1>0. /\ ImageTypeOK /\ Collected /\ CleanedUp /\ ~Sealed /\ 1 \in Image
        /\ stage \in {"drop-volume", "drop-scanner"}
    <2>1. stage \in {"drop-volume", "drop-scanner"} BY DEF DropVolume, DropScanner
    <2> QED BY <2>1, Unsealed, ImageScanAssumption DEF ImageInv, Image, TrapStage
  <1>1. PICK what \in {"volume", "scanner"} :
          /\ CleanUp(what)
          /\ stage = "drop-volume" => what = "volume" /\ stage' = "drop-scanner"
          /\ stage = "drop-scanner" => what = "scanner" /\ stage' = "parse"
    BY DEF DropVolume, DropScanner
  <1>2. UNCHANGED <<image, exits, signal, status, disturbed>>
    BY DEF DropVolume, DropScanner
  <1>3. held' \subseteq held /\ tried \subseteq tried' /\ (what \notin held' \/ what \in tried')
    BY <1>1 DEF CleanUp, Pending
  <1>4. /\ DOMAIN files' = DOMAIN files
        /\ \A n \in DOMAIN files \ {Of("stderr", 1)} : files'[n] = files[n]
    <2>1. Of("stderr", 1) \in DOMAIN files
      BY <1>0 DEF Collected, Ended
    <2>2. CASE UNCHANGED files BY <2>2
    <2>3. CASE Diagnostic
      <3>1. PICK name \in {Of("stderr", 1), The("acquisition")} :
              /\ name = The("acquisition") => Of("stderr", 1) \notin DOMAIN files
              /\ DOMAIN files' = DOMAIN files \cup {name}
              /\ \A n \in DOMAIN files \ {name} : files'[n] = files[n]
        BY <1>0, <2>3, Diagnosed
      <3> QED BY <2>1, <3>1
    <2> QED BY <1>1, <2>2, <2>3 DEF CleanUp
  <1>5. ~Sealed'
    BY <1>0, <1>4, FileNamesDiffer DEF Sealed, Marked
  <1>6. Collected'
    <2>1. \A i \in Image : Of("report", i) # Of("stderr", 1)
      BY FileNamesDiffer
    <2>2. \A i \in Image : Of("report", i) \in DOMAIN files' => ReportOf(i)'.found \subseteq Vulnerability
      BY <1>0, <1>4, <2>1 DEF Collected, ReportOf, TrapStage
    <2>3. \A i \in Image : Ended(i)'
      BY <1>0, <1>2, <1>4 DEF Collected, Ended
    <2>4. DOMAIN files' \subseteq Inputs /\ The("version") \in DOMAIN files'
      BY <1>0, <1>4 DEF Collected
    <2> QED BY <1>0, <1>1, <2>2, <2>3, <2>4 DEF Collected
  <1>7. CleanedUp'
    <2>1. CASE stage = "drop-volume"
      BY <1>0, <1>1, <1>3, <1>5, <2>1 DEF CleanedUp, Finalizing
    <2>2. CASE stage = "drop-scanner"
      BY <1>0, <1>1, <1>3, <1>5, <2>2 DEF CleanedUp, Finalizing
    <2> QED BY <1>0, <2>1, <2>2
  <1> QED BY <1>0, <1>1, <1>2, <1>5, <1>6, <1>7, MovesUnsealed DEF TrapStage

\* The trap writes to a log only where COMPLETE is not there: for a sealed directory
\* nothing is left to clean up.
LEMMA TrapKeeps ==
  ASSUME ImageInv, ImageTypeOK', Trap
  PROVE  ImageInv'
  <1>0. /\ ImageTypeOK /\ CleanedUp /\ Finalized /\ Decided /\ ~disturbed
        /\ stage \in TrapStage /\ stage # "over" /\ stage' \in TrapStage \cup {"over"}
        /\ UNCHANGED <<image, exits, disturbed>>
        /\ status' = IF tried' # tried /\ held' = held THEN 1 ELSE status
        /\ signal' = "none" => signal = "none"
    BY DEF ImageInv, Decided, Trap, TrapStage
  <1>1. PICK what \in Resource : CleanUp(what)
    BY DEF Trap, TrapStage, Resource
  <1>2. CASE Sealed
    <2>1. held \subseteq tried
      BY <1>0, <1>2 DEF CleanedUp, Finalizing
    <2>2. UNCHANGED <<held, tried, files>>
      BY <1>1, <2>1 DEF CleanUp, Pending
    <2>3. Sealed' /\ SealedFiles'
      BY <1>0, <1>2, <2>2, SameFiles DEF Finalized
    <2>4. Collected'
      BY <1>0 DEF Collected, TrapStage
    <2>5. CleanedUp' /\ Finalized'
      BY <1>0, <2>1, <2>2, <2>3 DEF CleanedUp, Finalizing, Finalized, TrapStage
    <2>6. Decided'
      BY <1>0, <2>2, <2>3 DEF Decided
    <2> QED BY <2>4, <2>5, <2>6 DEF ImageInv
  <1>3. CASE ~Sealed
    <2>1. ~Sealed'
      <3>1. CASE UNCHANGED files BY <1>3, <3>1 DEF Sealed, Marked
      <3>2. CASE Diagnostic
        <4>1. PICK name \in {Of("stderr", 1), The("acquisition")} :
                /\ DOMAIN files' = DOMAIN files \cup {name}
                /\ \A n \in DOMAIN files \ {name} : files'[n] = files[n]
          BY <1>0, <3>2, Diagnosed
        <4>2. name # The("COMPLETE") BY FileNamesDiffer
        <4> QED BY <1>3, <4>1, <4>2 DEF Sealed, Marked
      <3> QED BY <1>1, <3>1, <3>2 DEF CleanUp
    <2>2. Collected'
      BY <1>0 DEF Collected, TrapStage
    <2>3. CleanedUp' /\ Finalized'
      BY <1>0, <2>1 DEF CleanedUp, Finalizing, Finalized, TrapStage
    <2>4. Decided'
      BY <1>0, <1>3 DEF Decided
    <2> QED BY <2>2, <2>3, <2>4 DEF ImageInv
  <1> QED BY <1>2, <1>3

----------------------------------------------------------------------------
(* finalize *)

LEMMA ParseKeeps ==
  ASSUME ImageInv, ImageTypeOK', Parse
  PROVE  ImageInv'
  <1>0. /\ stage = "parse" /\ Collected /\ CleanedUp /\ ~Sealed /\ ~disturbed /\ status # 0
        /\ UNCHANGED <<image, exits, files, held, tried, signal, disturbed>>
    BY Unsealed DEF Parse, ImageInv, TrapStage
  <1>1. ~Sealed' BY <1>0 DEF Sealed, Marked
  <1>2. CASE ~ParsesAll
    BY <1>0, <1>1, <1>2, StopsUnsealed DEF Parse, Stops
  <1>3. CASE ParsesAll
    <2>1. stage' = "findings" /\ status' = status
      BY <1>3 DEF Parse
    <2>2. Parsed
      BY <1>0, <1>3 DEF ParsesAll, Parses, Parsed, Collected, TrapStage
    <2>3. DOMAIN files = Inputs
      <3>1. Inputs \subseteq DOMAIN files
        BY <1>0, <2>2 DEF Parsed, Parses, Ended, Collected, Inputs, Scanned
      <3> QED BY <1>0, <3>1 DEF Collected
    <2>4. Parsed' /\ DOMAIN files' = Inputs
      BY <1>0, <2>2, <2>3, SameFiles
    <2>5. Collected'
      BY <2>1, <2>4 DEF Collected, Parsed
    <2>a. CleanedUp'
      BY <1>0, <1>1, <2>1 DEF CleanedUp, Finalizing
    <2>6. Finalized' /\ Decided'
      BY <1>0, <1>1, <2>1, <2>4 DEF Finalized, Decided
    <2> QED BY <2>5, <2>a, <2>6 DEF ImageInv
  <1> QED BY <1>2, <1>3

\* One of the four files of finalize is written: the reports and the earlier ones stay.
LEMMA FinalFile ==
  ASSUME Parsed, Inputs \subseteq DOMAIN files, UNCHANGED exits,
         NEW k \in {"findings", "summary", "manifest", "COMPLETE"}, NEW content,
         Store(The(k), content)
  PROVE  /\ Parsed' /\ Reports' = Reports
         /\ DOMAIN files' = DOMAIN files \cup {The(k)} /\ files'[The(k)] = content
         /\ \A n \in DOMAIN files \ {The(k)} : files'[n] = files[n]
         /\ \A l : l # k /\ The(l) \in DOMAIN files => files'[The(l)] = files[The(l)]
         /\ k \in {"manifest", "COMPLETE"} /\ {The("findings"), The("summary")} \subseteq DOMAIN files
              => Bound' = Bound
  <1>1. /\ DOMAIN files' = DOMAIN files \cup {The(k)} /\ files'[The(k)] = content
        /\ \A n \in DOMAIN files \ {The(k)} : files'[n] = files[n]
    BY Stored, Zenon
  <1>2. The(k) \notin Inputs
    BY SingleFiles
  <1>3. \A n \in Inputs : files'[n] = files[n]
    BY <1>1, <1>2
  <1>4. \A i \in Image : ReportOf(i)' = ReportOf(i)
    BY <1>3, SingleFiles DEF ReportOf
  <1>5. Reports' = Reports
    BY <1>4 DEF Reports
  <1>6. Parsed'
    BY <1>1, <1>4 DEF Parsed, Ended, Parses
  <1>7. \A l : l # k /\ The(l) \in DOMAIN files => files'[The(l)] = files[The(l)]
    BY <1>1, SingleFiles
  <1>8. k \in {"manifest", "COMPLETE"} /\ {The("findings"), The("summary")} \subseteq DOMAIN files
          => Bound' = Bound
    <2> SUFFICES ASSUME k \in {"manifest", "COMPLETE"},
                        {The("findings"), The("summary")} \subseteq DOMAIN files
                 PROVE  Bound' = Bound
      OBVIOUS
    <2>1. \A n \in {The("version"), The("findings"), The("summary")}
                     \cup {Of(l, i) : l \in {"report", "stderr"}, i \in Image} : files'[n] = files[n]
      BY <1>3, <1>7 DEF Inputs, Scanned
    <2> QED BY <2>1 DEF Bound
  <1> QED BY <1>1, <1>5, <1>6, <1>7, <1>8

LEMMA FinalizeKeeps ==
  ASSUME ImageInv, ImageTypeOK', Finalize
  PROVE  ImageInv'
  <1>0. /\ stage \in {"findings", "summary", "manifest", "COMPLETE"}
        /\ Finalized /\ Collected /\ CleanedUp /\ ~Sealed /\ ~disturbed /\ status # 0
        /\ UNCHANGED <<image, exits, held, tried, signal, status, disturbed>>
    <2>1. stage \in {"findings", "summary", "manifest", "COMPLETE"}
      BY DEF Finalize
    <2> QED BY <2>1, Unsealed DEF Finalize, ImageInv, TrapStage
  <1>1. Parsed /\ Inputs \subseteq DOMAIN files
    BY <1>0 DEF Finalized
  <1>a. /\ stage' \in {"summary", "manifest", "COMPLETE", "verify"} /\ held' \subseteq tried'
        /\ held \subseteq tried
    BY <1>0 DEF CleanedUp, Finalizing, Finalize
  <1>2. Decided'
    BY <1>0 DEF Decided
  <1>3. CleanedUp'
    BY <1>a DEF CleanedUp, Finalizing
  <1>4. Parsed' => Collected'
    BY <1>a DEF Collected, Parsed
  <1>5. \A k, l : The(k) = The(l) <=> k = l
    BY SingleFiles
  <1>6. CASE stage = "findings"
    <2>0. The("findings") # The("COMPLETE") BY <1>5
    <2>1. Store(The("findings"), Findings(Reports)) /\ stage' = "summary"
      BY <1>6 DEF Finalize
    <2>2. /\ Parsed' /\ Reports' = Reports
          /\ DOMAIN files' = DOMAIN files \cup {The("findings")}
          /\ files'[The("findings")] = Findings(Reports)
      BY <1>0, <1>1, <2>1, FinalFile, Zenon
    <2>3. ~Sealed' BY <1>0, <2>0, <2>1, StoredUnsealed
    <2>4. Finalized'
      BY <1>0, <1>6, <2>1, <2>2, <2>3 DEF Finalized, HasFindings
    <2> QED BY <1>2, <1>3, <1>4, <2>2, <2>4 DEF ImageInv
  <1>7. CASE stage = "summary"
    <2>0. The("summary") # The("COMPLETE") BY <1>5
    <2>1. Store(The("summary"), Summary(Reports)) /\ stage' = "manifest"
      BY <1>7 DEF Finalize
    <2>2. /\ Parsed' /\ Reports' = Reports
          /\ DOMAIN files' = DOMAIN files \cup {The("summary")}
          /\ files'[The("summary")] = Summary(Reports)
          /\ \A l : l # "summary" /\ The(l) \in DOMAIN files => files'[The(l)] = files[The(l)]
      BY <1>0, <1>1, <2>1, FinalFile, Zenon
    <2>3. ~Sealed' BY <1>0, <2>0, <2>1, StoredUnsealed
    <2>4. The("findings") \in DOMAIN files /\ HasFindings
      BY <1>0, <1>7 DEF Finalized
    <2>5. HasFindings' /\ HasSummary'
      BY <2>2, <2>4 DEF HasFindings, HasSummary
    <2>6. Finalized'
      BY <1>0, <1>7, <2>1, <2>2, <2>3, <2>5 DEF Finalized
    <2> QED BY <1>2, <1>3, <1>4, <2>2, <2>6 DEF ImageInv
  <1>8. CASE stage = "manifest"
    <2>0. The("manifest") # The("COMPLETE") BY <1>5
    <2>1. Store(The("manifest"), Manifest(Reports, Bound)) /\ stage' = "COMPLETE"
      BY <1>8 DEF Finalize
    <2>2. /\ Parsed' /\ Reports' = Reports
          /\ DOMAIN files' = DOMAIN files \cup {The("manifest")}
          /\ files'[The("manifest")] = Manifest(Reports, Bound)
          /\ \A l : l # "manifest" /\ The(l) \in DOMAIN files => files'[The(l)] = files[The(l)]
          /\ {The("findings"), The("summary")} \subseteq DOMAIN files => Bound' = Bound
      BY <1>0, <1>1, <2>1, FinalFile, Zenon
    <2>3. ~Sealed' BY <1>0, <2>0, <2>1, StoredUnsealed
    <2>4. /\ The("findings") \in DOMAIN files /\ The("summary") \in DOMAIN files
          /\ HasFindings /\ HasSummary
      BY <1>0, <1>8 DEF Finalized
    <2>5. HasFindings' /\ HasSummary' /\ HasManifest'
      BY <2>2, <2>4 DEF HasFindings, HasSummary, HasManifest
    <2>6. Finalized'
      BY <1>0, <1>8, <2>1, <2>2, <2>3, <2>5 DEF Finalized
    <2> QED BY <1>2, <1>3, <1>4, <2>2, <2>6 DEF ImageInv
  <1>9. CASE stage = "COMPLETE"
    <2>1. Store(The("COMPLETE"), Marker(files[The("manifest")])) /\ stage' = "verify"
      BY <1>9 DEF Finalize
    <2>2. /\ Parsed' /\ Reports' = Reports
          /\ DOMAIN files' = DOMAIN files \cup {The("COMPLETE")}
          /\ files'[The("COMPLETE")] = Marker(files[The("manifest")])
          /\ \A l : l # "COMPLETE" /\ The(l) \in DOMAIN files => files'[The(l)] = files[The(l)]
          /\ {The("findings"), The("summary")} \subseteq DOMAIN files => Bound' = Bound
      BY <1>0, <1>1, <2>1, FinalFile, Zenon
    <2>3. /\ The("findings") \in DOMAIN files /\ The("summary") \in DOMAIN files
          /\ The("manifest") \in DOMAIN files
          /\ HasFindings /\ HasSummary /\ HasManifest
          /\ DOMAIN files = Inputs \cup {The("findings"), The("summary"), The("manifest")}
      BY <1>0, <1>9 DEF Finalized
    <2>4. HasFindings' /\ HasSummary' /\ HasManifest' /\ HasMarker'
      BY <2>2, <2>3 DEF HasFindings, HasSummary, HasManifest, HasMarker
    <2>5. Sealed' BY <2>2, MarkersAreWhole DEF Sealed, Marked
    <2>6. SealedFiles'
      BY <2>2, <2>3, <2>4 DEF SealedFiles
    <2>7. Finalized'
      BY <2>1, <2>5, <2>6 DEF Finalized
    <2> QED BY <1>2, <1>3, <1>4, <2>2, <2>7 DEF ImageInv
  <1> QED BY <1>0, <1>6, <1>7, <1>8, <1>9

----------------------------------------------------------------------------
(* The end of the script, and afterwards. *)

LEMMA TearsKeeps ==
  ASSUME ImageInv, ImageTypeOK', Tears
  PROVE  ImageInv'
  <1>1. /\ ~Sealed /\ stage # "over" /\ stage' = "trap-container" /\ status' = 1
        /\ Store(The(stage), TornFile) /\ UNCHANGED disturbed
    BY Unsealed DEF Tears, Stops, Finalizing, TrapStage
  <1>2. ~Sealed'
    <2>1. CASE stage = "COMPLETE"
      BY <1>1, <2>1, Stored DEF Sealed, Marked
    <2>2. CASE stage # "COMPLETE"
      <3>1. The(stage) # The("COMPLETE") BY <2>2, SingleFiles
      <3> QED BY <1>1, <3>1, StoredUnsealed
    <2> QED BY <2>1, <2>2
  <1> QED BY <1>1, <1>2, StopsUnsealed

LEMMA SignalKeeps ==
  ASSUME ImageInv, ImageTypeOK', Signal
  PROVE  ImageInv'
  <1>1. CASE ~Sealed
    <2>1. ~Sealed' BY <1>1 DEF Sealed, Marked, Signal
    <2> QED BY <2>1, StopsUnsealed DEF Signal
  <1>2. CASE Sealed
    <2>1. /\ stage = "verify" /\ ~disturbed /\ SealedFiles /\ held \subseteq tried
          /\ stage' = "trap-container" /\ signal' = "caught"
          /\ UNCHANGED <<image, exits, files, held, tried, disturbed>>
      BY <1>2 DEF ImageInv, Finalized, Decided, CleanedUp, Finalizing, Signal
    <2>2. Sealed' /\ SealedFiles'
      BY <1>2, <2>1, SameFiles
    <2>3. Collected' /\ CleanedUp' /\ Finalized' /\ Decided'
      BY <2>1, <2>2 DEF Collected, CleanedUp, Finalizing, Finalized, Decided, TrapStage
    <2> QED BY <2>3 DEF ImageInv
  <1> QED BY <1>1, <1>2

LEMMA GateKeeps ==
  ASSUME ImageInv, ImageTypeOK', Gate
  PROVE  ImageInv'
  <1>1. /\ stage = "verify" /\ ~disturbed /\ Sealed /\ SealedFiles /\ held \subseteq tried
        /\ stage' = "trap-container"
        /\ UNCHANGED <<image, exits, files, held, tried, disturbed>>
    BY DEF ImageInv, Finalized, Decided, CleanedUp, Finalizing, Gate
  <1>2. status' = 0 => (\A i \in Image : exits[i] = 0) /\ held = {}
    BY DEF Gate
  <1>3. Sealed' /\ SealedFiles'
    BY <1>1, SameFiles
  <1>4. Collected' /\ CleanedUp' /\ Finalized'
    BY <1>1, <1>3 DEF Collected, CleanedUp, Finalizing, Finalized, TrapStage
  <1>5. Decided'
    BY <1>1, <1>2, <1>3 DEF Decided, TrapStage
  <1> QED BY <1>4, <1>5 DEF ImageInv

LEMMA DisturbKeeps ==
  ASSUME ImageInv, ImageTypeOK', Disturb
  PROVE  ImageInv'
  <1>1. /\ stage = "over" /\ stage' = "over" /\ Sealed /\ ~disturbed /\ disturbed'
        /\ SealedFiles /\ held \subseteq tried
        /\ UNCHANGED <<image, exits, held, tried, signal, status>>
    BY DEF ImageInv, Finalized, CleanedUp, Finalizing, Disturb, Sealed, Marked
  <1>2. ~Verifies(files')
    BY <1>1, DisturbedFails
  <1>3. Collected' /\ CleanedUp' /\ Finalized'
    BY <1>1 DEF Collected, CleanedUp, Finalizing, Finalized, TrapStage
  <1>4. Decided'
    BY <1>1, <1>2 DEF ImageInv, Decided, Verifies, FindingsMatch, NothingElse, Entries
  <1> QED BY <1>3, <1>4 DEF ImageInv

LEMMA ImageStep == ImageInv /\ [ImageNext]_imageVars => ImageInv'
  <1> SUFFICES ASSUME ImageInv, [ImageNext]_imageVars PROVE ImageInv'
    OBVIOUS
  <1>1. ImageTypeOK'
    BY ImageTypeStep
  <1>2. CASE \/ Acquire \/ AcquisitionFails \/ CreateVolume \/ StartScan \/ EndScan \/ ScannedAll
             \/ ScannerVersion \/ StepFails
    BY <1>1, <1>2, ScriptSteps
  <1>3. CASE Signal BY <1>1, <1>3, SignalKeeps
  <1>4. CASE DropVolume \/ DropScanner BY <1>1, <1>4, DropSteps
  <1>5. CASE Trap BY <1>1, <1>5, TrapKeeps
  <1>6. CASE Parse BY <1>1, <1>6, ParseKeeps
  <1>7. CASE Finalize BY <1>1, <1>7, FinalizeKeeps
  <1>a. CASE Tears BY <1>1, <1>a, TearsKeeps
  <1>8. CASE Gate BY <1>1, <1>8, GateKeeps
  <1>9. CASE Disturb BY <1>1, <1>9, DisturbKeeps
  <1>10. CASE UNCHANGED imageVars
    <2>1. UNCHANGED <<stage, image, exits, files, held, tried, signal, status, disturbed>>
      BY <1>10 DEF imageVars
    <2>2. Collected' /\ CleanedUp'
      BY <2>1 DEF ImageInv, Collected, CleanedUp, Finalizing, Ended, ReportOf, Sealed, Marked
    <2>3. Finalized'
      BY <2>1, SameFiles DEF ImageInv, Finalized
    <2>4. Decided'
      BY <2>1 DEF ImageInv, Decided, Sealed, Marked, Verifies, FindingsMatch, NothingElse, Entries
    <2> QED BY <1>1, <2>2, <2>3, <2>4 DEF ImageInv
  <1> QED BY <1>2, <1>3, <1>4, <1>5, <1>6, <1>7, <1>a, <1>8, <1>9, <1>10 DEF ImageNext

\* The inductive invariant of the image scan: what is collected, cleaned up and sealed at
\* each stage of the script.
THEOREM ImageInvariance == ImageSpec => []ImageInv
  <1>1. ImageInit => ImageInv
    BY ImageInitInv
  <1>2. ImageInv /\ [ImageNext]_imageVars => ImageInv'
    BY ImageStep
  <1> QED BY <1>1, <1>2, PTL DEF ImageSpec

\* A directory with COMPLETE verifies from then on, whatever signal, failing cleanup or
\* second trap ends the script: what the manifest binds is not written any more.  With one
\* file changed, removed, added or exchanged it does not, whatever another scan of the
\* images found.
THEOREM SealedVerifiesAlways == ImageSpec => []SealedStaysVerifiable
  <1>1. ImageInv => (Sealed /\ ~disturbed => Verifies(files))
    BY SealedVerifies DEF ImageInv, Finalized
  <1>2. ImageInv => (disturbed => ~Verifies(files))
    BY DEF ImageInv, Decided
  <1>3. ImageInv => SealedStaysVerifiable
    BY <1>1, <1>2 DEF SealedStaysVerifiable
  <1> QED BY <1>3, ImageInvariance, PTL

\* The summary agrees with the scanners' statuses whatever ended the script, and its exit
\* status with the reports and with what is left in Docker when no signal did.
THEOREM VerdictsAgree == ImageSpec => []VerdictAgrees
  <1>1. ImageInv => VerdictAgrees
    <2> SUFFICES ASSUME ImageInv PROVE VerdictAgrees
      OBVIOUS
    <2>1. ASSUME Sealed, ~disturbed
          PROVE  (files[The("summary")].outcome = "blocked") = (\E i \in Image : exits[i] = 1)
      <3>1. SealedFiles /\ Parsed
        BY <2>1 DEF ImageInv, Finalized, SealedFiles
      <3>2. files[The("summary")].outcome = IF Findings(Reports) = {} THEN "clean" ELSE "blocked"
        BY <3>1 DEF SealedFiles, HasSummary, Summary
      <3>3. (Findings(Reports) = {}) <=> \A i \in Image : SevereOf(ReportOf(i)) = {}
        <4>1. \A i \in Image : SevereOf(Reports[i]) = SevereOf(ReportOf(i))
          BY DEF Reports
        <4>2. ASSUME NEW i \in Image, NEW x \in SevereOf(Reports[i]) PROVE <<i, x>> \in Findings(Reports)
          BY DEF Findings
        <4>3. ASSUME NEW r \in Findings(Reports) PROVE \E i \in Image : SevereOf(Reports[i]) # {}
          BY DEF Findings
        <4> HIDE DEF Findings
        <4> QED BY <4>1, <4>2, <4>3
      <3>4. \A i \in Image : exits[i] \in {0, 1} /\ (exits[i] = 0) = (SevereOf(ReportOf(i)) = {})
        BY <3>1 DEF Parsed, Ended, Parses
      <3>5. (Findings(Reports) # {}) <=> \E i \in Image : exits[i] = 1
        BY <3>3, <3>4
      <3> QED BY <3>2, <3>5
    <2>2. ASSUME status = 0, signal = "none", ~disturbed
          PROVE  Sealed /\ held = {} /\ \A i \in Image : ReportOf(i).usable /\ SevereOf(ReportOf(i)) = {}
      <3>1. Sealed /\ held = {} /\ \A i \in Image : exits[i] = 0
        BY <2>2 DEF ImageInv, Decided
      <3>2. Parsed
        BY <2>2, <3>1 DEF ImageInv, Finalized, SealedFiles
      <3> QED BY <3>1, <3>2 DEF Parsed, Parses
    <2> QED BY <2>1, <2>2 DEF VerdictAgrees
  <1> QED BY <1>1, ImageInvariance, PTL

----------------------------------------------------------------------------
(* Measurements.  Every order has its sequence; the vector-only fusion     *)
(* orders the rows by their scores; so the first gold row in it has the    *)
(* best score of the gold, and what the diagnosis counts is in front of it.*)

\* A set of numbers that is not empty has a least one.
LEMMA LeastNumber ==
  ASSUME NEW N \in SUBSET Nat, N # {}
  PROVE  \E n \in N : \A k \in N : n <= k
<1>1. IsWellFoundedOn(OpToRel(<, Nat), Nat)  BY NatLessThanWellFounded
<1>2. PICK n \in N : \A k \in N : <<k, n>> \notin OpToRel(<, Nat)  BY <1>1, WFMin, Zenon
<1>3. \A k \in N : k \in Nat  BY Zenon
<1>4. \A k \in N : ~(k < n)
  <2> SUFFICES ASSUME NEW k \in N, k < n PROVE FALSE  OBVIOUS
  <2>1. <<k, n>> \in Nat \X Nat /\ <<k, n>>[1] = k /\ <<k, n>>[2] = n  BY <1>3
  <2>2. <<k, n>>[1] < <<k, n>>[2]  BY <2>1, Zenon
  <2>3. <<k, n>> \in OpToRel(<, Nat)  BY <2>1, <2>2, Zenon DEF OpToRel
  <2> QED  BY <1>2, <2>3
<1> QED  BY <1>3, <1>4

\* Rows are finitely many.
LEMMA RowsFinite ==
  ASSUME NEW S \in SUBSET Row
  PROVE  IsFiniteSet(S) /\ Cardinality(S) \in Nat /\ Cardinality(S) <= Rows
<1>0. Rows \in Nat /\ Rows >= 1  BY RankingAssumption
<1>a. IsFiniteSet(1..Rows) /\ Cardinality(1..Rows) = Rows  BY <1>0, FS_Interval
<1>1. Rows \in Nat /\ IsFiniteSet(Row) /\ Cardinality(Row) = Rows  BY <1>0, <1>a DEF Row
<1>2. IsFiniteSet(S) /\ Cardinality(S) <= Cardinality(Row)  BY <1>1, FS_Subset
<1> QED  BY <1>1, <1>2, FS_CardinalityType

\* Every strict order of some rows has its sequence: a row's place is one more than the
\* number of those before it.
LEMMA OrderExists ==
  ASSUME NEW S \in SUBSET Row, NEW R,
         \A a \in S : <<a, a>> \notin R,
         \A a, b \in S : a # b => <<a, b>> \in R \/ <<b, a>> \in R,
         \A a, b, c \in S : <<a, b>> \in R /\ <<b, c>> \in R => <<a, c>> \in R
  PROVE  \E s \in SetToSeqs(S) : \A i, j \in DOMAIN s : i < j => <<s[i], s[j]>> \in R
<1> DEFINE ahead(r) == {x \in S : <<x, r>> \in R}
           size == Cardinality(S)
           place == [r \in S |-> Cardinality(ahead(r)) + 1]
<1>1. size \in Nat /\ IsFiniteSet(S) /\ Cardinality(S) = size  BY RowsFinite
<1> HIDE DEF size
<1>2. ASSUME NEW r \in S
      PROVE  /\ IsFiniteSet(ahead(r)) /\ Cardinality(ahead(r)) \in Nat
             /\ Cardinality(ahead(r)) < size
  <2>1. ahead(r) \in SUBSET S /\ r \notin ahead(r)  OBVIOUS
  <2> HIDE DEF ahead
  <2>2. IsFiniteSet(ahead(r)) /\ Cardinality(ahead(r)) <= size
        /\ (Cardinality(ahead(r)) = size => ahead(r) = S)
    BY <1>1, <2>1, FS_Subset
  <2>3. Cardinality(ahead(r)) \in Nat  BY <2>2, FS_CardinalityType
  <2> QED  BY <1>1, <2>1, <2>2, <2>3
<1>3. ASSUME NEW a \in S, NEW b \in S, <<a, b>> \in R
      PROVE  Cardinality(ahead(a)) < Cardinality(ahead(b))
  <2>1. ahead(a) \cup {a} \in SUBSET ahead(b) /\ a \notin ahead(a)  BY <1>3
  <2> HIDE DEF ahead
  <2>2. Cardinality(ahead(a) \cup {a}) = Cardinality(ahead(a)) + 1  BY <1>2, <2>1, FS_AddElement
  <2>3. Cardinality(ahead(a) \cup {a}) <= Cardinality(ahead(b))  BY <1>2, <2>1, FS_Subset
  <2> QED  BY <1>2, <2>2, <2>3
<1>4. \A r \in S : place[r] = Cardinality(ahead(r)) + 1 /\ place[r] \in 1..size
  <2> TAKE r \in S
  <2>1. place[r] = Cardinality(ahead(r)) + 1  OBVIOUS
  <2> HIDE DEF ahead, place
  <2> QED  BY <1>1, <1>2, <2>1
<1>5. place \in [S -> 1..size]  BY <1>4
<1> HIDE DEF ahead, place
<1>6. \A a, b \in S : <<a, b>> \in R => place[a] < place[b]
  BY <1>2, <1>3, <1>4
<1>7. \A a, b \in S : place[a] = place[b] => a = b
  <2> SUFFICES ASSUME NEW a \in S, NEW b \in S, place[a] = place[b], a # b PROVE FALSE
    OBVIOUS
  <2>1. place[a] \in Int /\ place[b] \in Int  BY <1>4
  <2>2. place[a] < place[b] \/ place[b] < place[a]  BY <1>6
  <2> QED  BY <2>1, <2>2
<1>8. place \in Injection(S, 1..size)  BY <1>5, <1>7 DEF Injection, IsInjective
<1>9. IsFiniteSet(1..size) /\ Cardinality(1..size) = size  BY <1>1, FS_Interval
<1>10. \A i \in 1..size : \E r \in S : place[r] = i
  <2>1. place \in Surjection(S, 1..size)  BY <1>1, <1>8, <1>9, FS_Injection
  <2> QED  BY <2>1 DEF Surjection
<1> DEFINE s == [i \in 1..size |-> CHOOSE r \in S : place[r] = i]
<1>11. \A i \in 1..size : s[i] \in S /\ place[s[i]] = i  BY <1>10
<1>12. s \in [1..size -> S] /\ DOMAIN s = 1..size  BY <1>11
<1> HIDE DEF s
<1>13. \A i, j \in 1..size : i # j => s[i] # s[j]  BY <1>11
<1>14. s \in SetToSeqs(S)  BY <1>1, <1>12, <1>13 DEF SetToSeqs
<1>15. ASSUME NEW i \in 1..size, NEW j \in 1..size, i < j PROVE <<s[i], s[j]>> \in R
  <2>1. s[i] \in S /\ s[j] \in S /\ s[i] # s[j] /\ place[s[i]] = i /\ place[s[j]] = j
    BY <1>11, <1>13, <1>15
  <2>2. <<s[j], s[i]>> \notin R  BY <1>6, <1>15, <2>1
  <2> QED  BY <2>1, <2>2
<1> QED  BY <1>12, <1>14, <1>15

\* What a sequence of some rows is.
LEMMA RowsInOrder ==
  ASSUME NEW S \in SUBSET Row, NEW s \in SetToSeqs(S)
  PROVE  /\ s \in Seq(Row) /\ Len(s) = Cardinality(S) /\ DOMAIN s = 1..Cardinality(S)
         /\ \A i \in 1..Cardinality(S) : s[i] \in S
         /\ \A i, j \in 1..Cardinality(S) : s[i] = s[j] => i = j
         /\ \A r \in S : \E i \in 1..Cardinality(S) : s[i] = r
<1> DEFINE size == Cardinality(S)
<1>1. size \in Nat /\ IsFiniteSet(S) /\ Cardinality(S) = size  BY RowsFinite
<1>2. s \in [1..size -> S] /\ \A i, j \in 1..size : i # j => s[i] # s[j]
  BY DEF SetToSeqs
<1> HIDE DEF size
<1>3. s \in Seq(Row) /\ Len(s) = size  BY <1>1, <1>2
<1>4. s \in Injection(1..size, S)  BY <1>2 DEF Injection, IsInjective
<1>5. IsFiniteSet(1..size) /\ Cardinality(1..size) = size  BY <1>1, FS_Interval
<1>6. s \in Surjection(1..size, S)  BY <1>1, <1>4, <1>5, FS_Injection
<1>7. \A r \in S : \E i \in 1..size : s[i] = r  BY <1>6 DEF Surjection
<1> QED  BY <1>2, <1>3, <1>7 DEF size

\* ... and of all of them.
LEMMA AllRows ==
  ASSUME NEW s \in SetToSeqs(Row)
  PROVE  /\ s \in Seq(Row) /\ Len(s) = Rows /\ DOMAIN s = 1..Rows
         /\ \A i \in 1..Rows : s[i] \in Row
         /\ \A i, j \in 1..Rows : s[i] = s[j] => i = j
         /\ \A r \in Row : \E i \in 1..Rows : s[i] = r
<1>1. Cardinality(Row) = Rows  BY RankingAssumption, FS_Interval DEF Row
<1> QED  BY <1>1, RowsInOrder

\* Ties are broken by the rows' own order, so that Higher is a strict order.
LEMMA HigherOrders ==
  ASSUME NEW S \in SUBSET Row, NEW score \in [Row -> Int]
  PROVE  \E s \in SetToSeqs(S) : \A i, j \in DOMAIN s : i < j => Higher(score, s[i], s[j])
<1> DEFINE R == {p \in S \X S : Higher(score, p[1], p[2])}
<1>1. \A a, b \in S : <<a, b>> \in R <=> Higher(score, a, b)  OBVIOUS
<1>2. \A a \in S : score[a] \in Int /\ a \in Int  BY DEF Row
<1> HIDE DEF R
<1>3. \A a \in S : <<a, a>> \notin R  BY <1>1, <1>2 DEF Higher
<1>4. \A a, b \in S : a # b => <<a, b>> \in R \/ <<b, a>> \in R  BY <1>1, <1>2 DEF Higher
<1>5. \A a, b, c \in S : <<a, b>> \in R /\ <<b, c>> \in R => <<a, c>> \in R
  BY <1>1, <1>2 DEF Higher
<1>6. PICK s \in SetToSeqs(S) : \A i, j \in DOMAIN s : i < j => <<s[i], s[j]>> \in R
  BY <1>3, <1>4, <1>5, OrderExists
<1>7. \A i \in DOMAIN s : s[i] \in S  BY RowsInOrder
<1> QED  BY <1>1, <1>6, <1>7

LEMMA ByScoreSorts ==
  ASSUME NEW S \in SUBSET Row, NEW score \in [Row -> Int]
  PROVE  LET order == ByScore(score, S) IN
         /\ order \in SetToSeqs(S)
         /\ \A i, j \in DOMAIN order : i < j => Higher(score, order[i], order[j])
<1>1. \E s \in SetToSeqs(S) : \A i, j \in DOMAIN s : i < j => Higher(score, s[i], s[j])
  BY HigherOrders
<1>2. ByScore(score, S) = CHOOSE s \in SetToSeqs(S) :
        \A i, j \in DOMAIN s : i < j => Higher(score, s[i], s[j])
  BY Zenon DEF ByScore, Sorted
<1> QED  BY <1>1, <1>2, Zenon

\* The ranks of a ranker are the rows' places in its order.
LEMMA RanksAre ==
  ASSUME NEW score \in [Row -> Int]
  PROVE  /\ \A r \in Row : RanksOf(score)[r] \in 1..Rows
         /\ \A a, b \in Row : RanksOf(score)[a] < RanksOf(score)[b] <=> Higher(score, a, b)
         /\ \A a, b \in Row : RanksOf(score)[a] = RanksOf(score)[b] => a = b
<1> DEFINE order == ByScore(score, Row)  ranks == RanksOf(score)
<1>1. order \in SetToSeqs(Row) /\ \A i, j \in DOMAIN order : i < j => Higher(score, order[i], order[j])
  BY ByScoreSorts
<1>2. /\ DOMAIN order = 1..Rows /\ \A i \in 1..Rows : order[i] \in Row
      /\ \A r \in Row : \E i \in 1..Rows : order[i] = r
  BY <1>1, AllRows
<1>3. ranks = [r \in Row |-> CHOOSE i \in Row : order[i] = r]  BY DEF RanksOf
<1>4. Row = 1..Rows  BY DEF Row
<1> HIDE DEF order, ranks
<1>5. \A r \in Row : ranks[r] \in 1..Rows /\ order[ranks[r]] = r  BY <1>2, <1>3, <1>4
<1>6. \A a, b \in Row : ranks[a] < ranks[b] => Higher(score, a, b)  BY <1>1, <1>2, <1>5
<1>7. \A a, b \in Row : ranks[a] = ranks[b] => a = b  BY <1>5
<1>8. \A a, b \in Row : Higher(score, a, b) => ranks[a] < ranks[b]
  <2> SUFFICES ASSUME NEW a \in Row, NEW b \in Row, Higher(score, a, b) PROVE ranks[a] < ranks[b]
    OBVIOUS
  <2>1. score[a] \in Int /\ score[b] \in Int /\ a \in Int /\ b \in Int  BY <1>4
  <2>2. ~Higher(score, b, a) /\ a # b  BY <2>1 DEF Higher
  <2>3. ~(ranks[b] < ranks[a]) /\ ranks[a] # ranks[b]  BY <1>6, <1>7, <2>2
  <2>4. ranks[a] \in Int /\ ranks[b] \in Int  BY <1>5
  <2> QED  BY <2>3, <2>4
<1> QED  BY <1>5, <1>6, <1>7, <1>8 DEF ranks

\* Fractions with the weight over one rank: the smaller rank is the greater fraction.
LEMMA GreaterFraction ==
  ASSUME NEW v \in Nat, NEW w \in Nat, NEW b \in Nat, NEW c \in Nat
  PROVE  /\ 2 * (60 + b) * ((60 + w) * (60 + c)) > 2 * (60 + c) * ((60 + v) * (60 + b)) <=> v < w
         /\ 2 * (60 + b) * ((60 + w) * (60 + c)) = 2 * (60 + c) * ((60 + v) * (60 + b)) <=> v = w
<1> DEFINE x == (60 + b) * (60 + c)
<1>1. x \in Nat /\ x > 0  OBVIOUS
<1>2. 2 * (60 + b) * ((60 + w) * (60 + c)) = 2 * (x * (60 + w))  OBVIOUS
<1>3. 2 * (60 + c) * ((60 + v) * (60 + b)) = 2 * (x * (60 + v))  OBVIOUS
<1> HIDE DEF x
<1>4. v < w => x * (60 + v) < x * (60 + w)  BY <1>1
<1>5. w < v => x * (60 + w) < x * (60 + v)  BY <1>1
<1>6. x * (60 + v) \in Int /\ x * (60 + w) \in Int  BY <1>1
<1> QED  BY <1>2, <1>3, <1>4, <1>5, <1>6

\* With a weight of 0 for BM25 the fusion orders the rows as their scores do.
LEMMA VectorOnlyOrder ==
  ASSUME NEW q, q.score \in [Row -> Int], q.bm25 \in [Row -> Int]
  PROVE  LET order == FusedOrder(Configs["vectorOnly"], q) IN
         /\ order \in SetToSeqs(Row)
         /\ \A i, j \in DOMAIN order : i < j => Higher(q.score, order[i], order[j])
<1> DEFINE v == RanksOf(q.score)  b == RanksOf(q.bm25)  config == Configs["vectorOnly"]
           fused == [r \in Row |-> Rrf(config, v[r], b[r])]
           Ahead(x, y) == \/ fused[x].over * fused[y].under > fused[y].over * fused[x].under
                          \/ /\ fused[x].over * fused[y].under = fused[y].over * fused[x].under
                             /\ x < y
<1>1. FusedOrder(config, q) = CHOOSE s \in SetToSeqs(Row) :
        \A i, j \in DOMAIN s : i < j => Ahead(s[i], s[j])
  BY Zenon DEF FusedOrder, Sorted
<1>2. config.k = 60 /\ config.vector = 2 /\ config.bm25 = 0  BY DEF Configs
<1>3. \A r \in Row : v[r] \in Nat /\ b[r] \in Nat
  <2>1. \A r \in Row : v[r] \in 1..Rows /\ b[r] \in 1..Rows  BY RanksAre
  <2> QED  BY <2>1
<1>4. /\ \A x, y \in Row : v[x] < v[y] <=> Higher(q.score, x, y)
      /\ \A x, y \in Row : v[x] = v[y] => x = y
  BY RanksAre
<1> HIDE DEF v, b, config
<1>5. \A r \in Row : /\ fused[r].over = 2 * (60 + b[r])
                     /\ fused[r].under = (60 + v[r]) * (60 + b[r])
  <2> TAKE r \in Row
  <2>1. fused[r] = [over |-> 2 * (60 + b[r]) + 0 * (60 + v[r]),
                    under |-> (60 + v[r]) * (60 + b[r])]
    BY <1>2 DEF Rrf
  <2>2. 2 * (60 + b[r]) + 0 * (60 + v[r]) = 2 * (60 + b[r])  BY <1>3
  <2> HIDE DEF fused
  <2> QED  BY <2>1, <2>2
<1> HIDE DEF fused
<1>6. \A x, y \in Row : Ahead(x, y) <=> Higher(q.score, x, y)
  <2> TAKE x \in Row, y \in Row
  <2> DEFINE vx == v[x]  vy == v[y]  bx == b[x]  by == b[y]
             left == 2 * (60 + bx) * ((60 + vy) * (60 + by))
             right == 2 * (60 + by) * ((60 + vx) * (60 + bx))
  <2>1. (left > right <=> vx < vy) /\ (left = right <=> vx = vy)
    <3>1. vx \in Nat /\ vy \in Nat /\ bx \in Nat /\ by \in Nat  BY <1>3
    <3> HIDE DEF vx, vy, bx, by
    <3> QED  BY <3>1, GreaterFraction
  <2>2. Ahead(x, y) <=> left > right \/ (left = right /\ x < y)  BY <1>5
  <2>3. ~(x < x)  BY DEF Row
  <2> HIDE DEF left, right, Ahead
  <2>4. left = right => ~(x < y)  BY <1>4, <2>1, <2>3
  <2> QED  BY <1>4, <2>1, <2>2, <2>4
<1> HIDE DEF Ahead
<1>7. ASSUME NEW s \in SetToSeqs(Row)
      PROVE  (\A i, j \in DOMAIN s : i < j => Ahead(s[i], s[j]))
               <=> (\A i, j \in DOMAIN s : i < j => Higher(q.score, s[i], s[j]))
  <2>1. \A i \in DOMAIN s : s[i] \in Row  BY AllRows
  <2> QED  BY <1>6, <2>1
<1>8. \E s \in SetToSeqs(Row) : \A i, j \in DOMAIN s : i < j => Ahead(s[i], s[j])
  <2>1. \E s \in SetToSeqs(Row) : \A i, j \in DOMAIN s : i < j => Higher(q.score, s[i], s[j])
    BY HigherOrders
  <2> QED  BY <1>7, <2>1
<1>9. /\ FusedOrder(config, q) \in SetToSeqs(Row)
      /\ \A i, j \in DOMAIN FusedOrder(config, q) : i < j =>
           Ahead(FusedOrder(config, q)[i], FusedOrder(config, q)[j])
  BY <1>1, <1>8, Zenon
<1> QED  BY <1>7, <1>9 DEF config

\* The rows with a higher score than one of an order by score are in front of it, when
\* none of them is missing from the order.
LEMMA BetterAreAhead ==
  ASSUME NEW score \in [Row -> Int], NEW S \in SUBSET Row, NEW s \in SetToSeqs(S),
         \A i, j \in DOMAIN s : i < j => Higher(score, s[i], s[j]),
         NEW p \in 1..Cardinality(S), \A r \in Row : score[r] > score[s[p]] => r \in S
  PROVE  Cardinality({r \in Row : score[r] > score[s[p]]}) + 1 <= p
<1> DEFINE size == Cardinality(S)  better == {r \in Row : score[r] > score[s[p]]}
<1>1. /\ DOMAIN s = 1..size /\ \A i \in 1..size : s[i] \in S
      /\ \A i, j \in 1..size : s[i] = s[j] => i = j
      /\ \A r \in S : \E i \in 1..size : s[i] = r
  BY RowsInOrder
<1>2. size \in Nat  BY RowsFinite
<1>3. p \in 1..size  OBVIOUS
<1> HIDE DEF size
<1>4. s[p] \in Row /\ \A r \in Row : score[r] \in Int  BY <1>1, <1>3
<1>5. \A i \in 1..size : p < i => score[s[p]] >= score[s[i]]
  BY <1>1, <1>3, <1>4 DEF Higher
<1> DEFINE at == [r \in better |-> CHOOSE i \in 1..size : s[i] = r]
<1>6. \A r \in better : at[r] \in 1..(p - 1) /\ s[at[r]] = r
  <2> TAKE r \in better
  <2>1. r \in Row /\ score[r] > score[s[p]] /\ r \in S  OBVIOUS
  <2>2. at[r] \in 1..size /\ s[at[r]] = r  BY <1>1, <2>1
  <2> HIDE DEF at, better
  <2>3. at[r] # p  BY <1>4, <2>1, <2>2
  <2>4. ~(p < at[r])  BY <1>4, <1>5, <2>1, <2>2
  <2> QED  BY <1>2, <1>3, <2>2, <2>3, <2>4
<1>7. at \in Injection(better, 1..(p - 1))
  <2>1. at \in [better -> 1..(p - 1)]  BY <1>6
  <2>2. \A x, y \in better : at[x] = at[y] => x = y  BY <1>6
  <2> HIDE DEF at, better
  <2>3. DOMAIN at = better  BY <2>1
  <2> QED  BY <2>1, <2>2, <2>3 DEF Injection, IsInjective
<1>8. IsFiniteSet(1..(p - 1)) /\ Cardinality(1..(p - 1)) = p - 1
  BY <1>2, <1>3, FS_Interval
<1>9. better \in SUBSET Row  OBVIOUS
<1> HIDE DEF at, better
<1>10. Cardinality(better) <= p - 1  BY <1>7, <1>8, FS_Injection
<1>11. Cardinality(better) \in Nat  BY <1>9, RowsFinite
<1> QED  BY <1>2, <1>3, <1>10, <1>11 DEF better

\* No gold chunk has fewer rows above it than the diagnosis counts.
LEMMA DiagnosedByTheBest ==
  ASSUME NEW q, q.score \in [Row -> Int], NEW gold \in SUBSET Row, NEW g \in gold
  PROVE  /\ RankCase(q, gold) \in Nat
         /\ RankCase(q, gold) <= Cardinality({r \in Row : q.score[r] > q.score[g]}) + 1
<1> DEFINE Scores == {q.score[r] : r \in gold}  Above(x) == {r \in Row : q.score[r] > x}
<1>1. \A r \in Row : q.score[r] \in Int  OBVIOUS
<1>2. PICK s \in SetToSeqs(gold) :
        \A i, j \in DOMAIN s : i < j => Higher(q.score, s[i], s[j])
  BY HigherOrders
<1>3. /\ DOMAIN s = 1..Cardinality(gold) /\ \A i \in DOMAIN s : s[i] \in gold
      /\ \A r \in gold : \E i \in DOMAIN s : s[i] = r
  BY <1>2, RowsInOrder
<1>4. 1 \in DOMAIN s /\ \A i \in DOMAIN s : i = 1 \/ 1 < i
  <2>1. Cardinality(gold) \in Nat  BY RowsFinite
  <2> QED  BY <1>3, <2>1
<1> DEFINE best == q.score[s[1]]
<1>5. s[1] \in gold /\ best \in Int  BY <1>1, <1>3, <1>4
<1>6. ASSUME NEW r \in gold PROVE best >= q.score[r]
  <2>1. PICK i \in DOMAIN s : s[i] = r  BY <1>3
  <2> QED  BY <1>1, <1>2, <1>4, <1>5, <2>1 DEF Higher
<1>7. best \in Scores /\ \A x \in Scores : x \in Int /\ best >= x  BY <1>1, <1>5, <1>6
<1>8. Max(Scores) = best
  <2> HIDE DEF best, Scores
  <2>1. \A x \in Scores : (\A y \in Scores : x >= y) => x = best  BY <1>5, <1>7
  <2> QED  BY <1>7, <2>1 DEF Max
<1>9. RankCase(q, gold) = Cardinality(Above(best)) + 1  BY <1>8, Zenon DEF RankCase
<1>10. Above(best) \in SUBSET Above(q.score[g]) /\ Above(q.score[g]) \in SUBSET Row
       /\ Above(best) \in SUBSET Row
  BY <1>1, <1>5, <1>6
<1> DEFINE few == Above(best)  many == Above(q.score[g])
<1> HIDE DEF few, many
<1>11. few \in SUBSET many /\ many \in SUBSET Row /\ few \in SUBSET Row
  BY <1>10 DEF few, many
<1>12. IsFiniteSet(many) /\ Cardinality(many) \in Nat /\ Cardinality(few) \in Nat
  BY <1>11, RowsFinite
<1>13. Cardinality(few) <= Cardinality(many)  BY <1>11, <1>12, FS_Subset
<1>14. RankCase(q, gold) = Cardinality(few) + 1  BY <1>9 DEF few
<1>15. RankCase(q, gold) \in Nat /\ RankCase(q, gold) <= Cardinality(many) + 1
  BY <1>12, <1>13, <1>14
<1> QED  BY <1>15 DEF many

\* A case that the experiment finds gold for is diagnosed no worse.
LEMMA NoWorse ==
  ASSUME NEW q, q.score \in [Row -> Int], q.bm25 \in [Row -> Int], NEW gold \in SUBSET Row,
         EvaluateCase(FusedOrder(Configs["vectorOnly"], q), gold) # 0
  PROVE  /\ EvaluateCase(FusedOrder(Configs["vectorOnly"], q), gold) \in Nat
         /\ RankCase(q, gold) \in Nat
         /\ RankCase(q, gold) <= EvaluateCase(FusedOrder(Configs["vectorOnly"], q), gold)
<1> DEFINE s == FusedOrder(Configs["vectorOnly"], q)
           n == IF TopK < Len(s) THEN TopK ELSE Len(s)
           found == {i \in DOMAIN Best(s, TopK) : s[i] \in gold}
<1>1. s \in SetToSeqs(Row) /\ \A i, j \in DOMAIN s : i < j => Higher(q.score, s[i], s[j])
  BY VectorOnlyOrder
<1>2. s \in Seq(Row) /\ Len(s) = Rows /\ DOMAIN s = 1..Rows  BY <1>1, AllRows
<1>3. EvaluateCase(s, gold) = IF found = {} THEN 0 ELSE Min(found)  BY Zenon DEF EvaluateCase
<1> HIDE DEF s
<1>4. n \in Nat /\ n <= Rows /\ DOMAIN Best(s, TopK) = 1..n
  BY <1>2, RankingAssumption DEF Best
<1>5. found \in SUBSET Nat /\ found # {} /\ EvaluateCase(s, gold) = Min(found)
  BY <1>3, <1>4 DEF s
<1>6. PICK p \in found : \A i \in found : p <= i  BY <1>5, LeastNumber
<1>7. Min(found) = p
  <2> HIDE DEF found
  <2>1. \A x \in found : (\A y \in found : x <= y) => x = p  BY <1>5, <1>6
  <2> QED  BY <1>5, <1>6, <2>1 DEF Min
<1>8. s[p] \in gold /\ p \in 1..Rows  BY <1>2, <1>4
<1>9. Cardinality({r \in Row : q.score[r] > q.score[s[p]]}) + 1 <= p
  <2>1. Cardinality(Row) = Rows  BY RankingAssumption, FS_Interval DEF Row
  <2> QED  BY <1>1, <1>8, <2>1, BetterAreAhead
<1>10. /\ RankCase(q, gold) \in Nat
       /\ RankCase(q, gold) <= Cardinality({r \in Row : q.score[r] > q.score[s[p]]}) + 1
  BY <1>8, DiagnosedByTheBest
<1>11. Cardinality({r \in Row : q.score[r] > q.score[s[p]]}) \in Nat  BY RowsFinite
<1>12. RankCase(q, gold) <= p  BY <1>8, <1>9, <1>10, <1>11, RankingAssumption
<1> QED  BY <1>5, <1>7, <1>8, <1>10, <1>12 DEF s

\* The best of an order are in its set, and stand at the front of it.
LEMMA BestAre ==
  ASSUME NEW S \in SUBSET Row, NEW s \in SetToSeqs(S), NEW n \in Nat,
         NEW r \in ToSet(Best(s, n))
  PROVE  r \in S /\ \E p \in 1..Cardinality(S) : p <= n /\ s[p] = r
<1> DEFINE size == Cardinality(S)  m == IF n < size THEN n ELSE size
<1>1. /\ s \in Seq(Row) /\ Len(s) = size /\ DOMAIN s = 1..size
      /\ \A i \in 1..size : s[i] \in S
  BY RowsInOrder
<1>2. size \in Nat  BY RowsFinite
<1> HIDE DEF size
<1>3. Best(s, n) = SubSeq(s, 1, m)  BY <1>1, Zenon DEF Best
<1>4. m \in Nat /\ m <= size /\ m <= n  BY <1>2
<1> HIDE DEF m
<1>5. DOMAIN SubSeq(s, 1, m) = 1..m /\ \A i \in 1..m : SubSeq(s, 1, m)[i] = s[i]
  BY <1>1, <1>4
<1>6. PICK i \in 1..m : s[i] = r  BY <1>3, <1>5 DEF ToSet
<1>7. i \in 1..size /\ i <= n  BY <1>2, <1>4, <1>6
<1> QED  BY <1>1, <1>6, <1>7 DEF size

\* Rows of the category in front, by score among equals: a strict order, too.
LEMMA CategorySorts ==
  ASSUME NEW S \in SUBSET Row, NEW score \in [Row -> Int], NEW matched
  PROVE  \E s \in SetToSeqs(S) : \A i, j \in DOMAIN s : i < j =>
           \/ s[i] \in matched /\ s[j] \notin matched
           \/ (s[i] \in matched) = (s[j] \in matched) /\ Higher(score, s[i], s[j])
<1> DEFINE InFront(a, b) == \/ a \in matched /\ b \notin matched
                            \/ (a \in matched) = (b \in matched) /\ Higher(score, a, b)
           R == {p \in S \X S : InFront(p[1], p[2])}
<1>1. \A a, b \in S : <<a, b>> \in R <=> InFront(a, b)  OBVIOUS
<1>2. \A a \in S : score[a] \in Int /\ a \in Int  BY DEF Row
<1> HIDE DEF R
<1>3. \A a \in S : <<a, a>> \notin R  BY <1>1, <1>2 DEF Higher
<1>4. \A a, b \in S : a # b => <<a, b>> \in R \/ <<b, a>> \in R  BY <1>1, <1>2 DEF Higher
<1>5. \A a, b, c \in S : <<a, b>> \in R /\ <<b, c>> \in R => <<a, c>> \in R
  BY <1>1, <1>2 DEF Higher
<1>6. PICK s \in SetToSeqs(S) : \A i, j \in DOMAIN s : i < j => <<s[i], s[j]>> \in R
  BY <1>3, <1>4, <1>5, OrderExists
<1>7. \A i \in DOMAIN s : s[i] \in S  BY RowsInOrder
<1> QED  BY <1>1, <1>6, <1>7

\* What the search shows was among the first TopN candidates by score.
LEMMA ShownFromWindow ==
  ASSUME NEW q, q.score \in [Row -> Int], NEW scored \in SUBSET Row,
         NEW r \in ToSet(RankCandidates(scored, q))
  PROVE  LET candidates == {x \in scored : q.score[x] >= q.minScore}
         IN r \in ToSet(Best(ByScore(q.score, candidates), TopN))
<1> DEFINE candidates == {x \in scored : q.score[x] >= q.minScore}
           initial == ToSet(Best(ByScore(q.score, candidates), TopN))
           InFront(a, b) == \/ a \in q.matched /\ b \notin q.matched
                            \/ (a \in q.matched) = (b \in q.matched) /\ Higher(q.score, a, b)
           order == CHOOSE s \in SetToSeqs(initial) :
                      \A i, j \in DOMAIN s : i < j => InFront(s[i], s[j])
<1>1. RankCandidates(scored, q) = Best(order, TopK)  BY Zenon DEF RankCandidates, Sorted
<1>2. initial \in SUBSET Row
  <2>1. candidates \in SUBSET Row  OBVIOUS
  <2> HIDE DEF candidates
  <2>2. ByScore(q.score, candidates) \in SetToSeqs(candidates)  BY <2>1, ByScoreSorts
  <2> QED  BY <2>1, <2>2, BestAre, RankingAssumption
<1> HIDE DEF initial
<1>3. \E s \in SetToSeqs(initial) : \A i, j \in DOMAIN s : i < j => InFront(s[i], s[j])
  <2> DEFINE score == q.score  matched == q.matched
  <2>1. score \in [Row -> Int]  OBVIOUS
  <2> HIDE DEF candidates, order, score, matched
  <2>2. \E s \in SetToSeqs(initial) : \A i, j \in DOMAIN s : i < j =>
          \/ s[i] \in matched /\ s[j] \notin matched
          \/ (s[i] \in matched) = (s[j] \in matched) /\ Higher(score, s[i], s[j])
    BY <1>2, <2>1, CategorySorts
  <2> QED  BY <2>2, Zenon DEF score, matched
<1> HIDE DEF InFront
<1>4. order \in SetToSeqs(initial)  BY <1>3, Zenon
<1> HIDE DEF order
<1>5. r \in initial  BY <1>1, <1>2, <1>4, BestAre, RankingAssumption
<1> QED  BY <1>5 DEF initial

\* A gold chunk shown to a query that may see every chunk is diagnosed within TopN.
LEMMA ShownIsRecalled ==
  ASSUME NEW q, q.score \in [Row -> Int], q.minScore \in Int, q.eligible = Row,
         NEW gold \in SUBSET Row, NEW g \in gold, g \in ToSet(Search(q))
  PROVE  RankCase(q, gold) \in Nat /\ RankCase(q, gold) <= TopN
<1> DEFINE candidates == {x \in Row : q.score[x] >= q.minScore}
           s == ByScore(q.score, candidates)
           above == {r \in Row : q.score[r] > q.score[g]}
<1>1. Row # {} /\ EligibleRows(q) = Row  BY RankingAssumption DEF Row, EligibleRows
<1>2. g \in ToSet(RankCandidates(Row, q))  BY <1>1 DEF Search
<1>3. g \in ToSet(Best(s, TopN))  BY <1>2, ShownFromWindow
<1>4. candidates \in SUBSET Row /\ \A x \in Row : x \in candidates <=> q.score[x] >= q.minScore
  OBVIOUS
<1> HIDE DEF candidates
<1>5. s \in SetToSeqs(candidates) /\ \A i, j \in DOMAIN s : i < j => Higher(q.score, s[i], s[j])
  BY <1>4, ByScoreSorts
<1> HIDE DEF s
<1>6. PICK p \in 1..Cardinality(candidates) : p <= TopN /\ s[p] = g
  BY <1>3, <1>4, <1>5, BestAre, RankingAssumption
<1>7. g \in candidates  BY <1>4, <1>5, <1>6, RowsInOrder
<1>8. \A r \in Row : q.score[r] > q.score[s[p]] => r \in candidates
  <2> SUFFICES ASSUME NEW r \in Row, q.score[r] > q.score[g] PROVE q.score[r] >= q.minScore
    BY <1>4, <1>6
  <2>1. q.score[r] \in Int /\ q.score[g] \in Int /\ q.score[g] >= q.minScore  BY <1>4, <1>7
  <2> QED  BY <2>1
<1>9. Cardinality({r \in Row : q.score[r] > q.score[s[p]]}) + 1 <= p
  BY <1>4, <1>5, <1>8, BetterAreAhead
<1>10. RankCase(q, gold) \in Nat /\ RankCase(q, gold) <= Cardinality(above) + 1
  BY DiagnosedByTheBest
<1>11. Cardinality(above) + 1 <= p  BY <1>6, <1>9
<1> HIDE DEF above
<1>12. Cardinality(above) \in Nat  BY RowsFinite DEF above
<1>13. p \in Nat /\ p <= TopN  BY <1>4, <1>6, RowsFinite
<1> QED  BY <1>10, <1>11, <1>12, <1>13, RankingAssumption

----------------------------------------------------------------------------
(* The invariant: a report says of its cases what the programs compute. *)

VectorOnly == Configs["vectorOnly"]

RankingIInv ==
  /\ cases \in Seq(Cases)
  /\ Reported => /\ report.ranks["vectorOnly"] = EvaluateConfig(VectorOnly)
                 /\ report.diagnosis = [i \in Measured |-> RankCase(cases[i], GoldRows(cases[i]))]
                 /\ report.hits = [i \in DOMAIN cases |-> Search(cases[i])]

LEMMA RankingInitIInv == RankingInit => RankingIInv
BY DEF RankingInit, RankingIInv, Reported

LEMMA RankingInvariance == RankingIInv /\ [Measure]_rankingVars => RankingIInv'
<1> SUFFICES ASSUME RankingIInv, [Measure]_rankingVars PROVE RankingIInv'  OBVIOUS
<1>1. CASE Measure
  <2>1. /\ cases' = cases /\ cases \in Seq(Cases)
        /\ report'.ranks = [c \in DOMAIN Configs |-> EvaluateConfig(Configs[c])]
        /\ report'.diagnosis = [i \in Measured |-> RankCase(cases[i], GoldRows(cases[i]))]
        /\ report'.hits = [i \in DOMAIN cases |-> Search(cases[i])]
    BY <1>1, Zenon DEF Measure, RankingIInv
  <2>2. "vectorOnly" \in DOMAIN Configs  BY DEF Configs
  <2>3. report'.ranks["vectorOnly"] = EvaluateConfig(VectorOnly)
    BY <2>1, <2>2, Zenon DEF VectorOnly
  <2>4. Measured' = Measured  BY <2>1, Zenon DEF Measured
  <2>5. EvaluateConfig(VectorOnly)' = EvaluateConfig(VectorOnly)
    BY <2>1, <2>4, Zenon DEF EvaluateConfig, VectorOnly
  <2>6. [i \in Measured |-> RankCase(cases[i], GoldRows(cases[i]))]'
          = [i \in Measured |-> RankCase(cases[i], GoldRows(cases[i]))]
    BY <2>1, <2>4, Zenon
  <2> QED  BY <2>1, <2>3, <2>5, <2>6, Zenon DEF RankingIInv
<1>2. CASE UNCHANGED rankingVars
  <2>1. cases' = cases /\ report' = report  BY <1>2 DEF rankingVars
  <2>2. Measured' = Measured  BY <2>1, Zenon DEF Measured
  <2>3. EvaluateConfig(VectorOnly)' = EvaluateConfig(VectorOnly)
    BY <2>1, <2>2, Zenon DEF EvaluateConfig, VectorOnly
  <2>4. [i \in Measured |-> RankCase(cases[i], GoldRows(cases[i]))]'
          = [i \in Measured |-> RankCase(cases[i], GoldRows(cases[i]))]
    BY <2>1, <2>2, Zenon
  <2> QED  BY <2>1, <2>3, <2>4, Zenon DEF RankingIInv, Reported
<1> QED  BY <1>1, <1>2

\* The diagnosis of a case, and its recall over all of them, bound what the experiment
\* finds with vectors alone and what the search shows, for any scores with any ties,
\* threshold, categories and window.
THEOREM DiagnosisBounds == RankingSpec => []DiagnosisBoundsEvaluation
<1>1. RankingIInv /\ Reported => BoundsExperiment
  <2> SUFFICES ASSUME RankingIInv, Reported PROVE
        LET ranks == report.ranks["vectorOnly"]
        IN /\ \A i \in Measured : ranks[i] # 0 => report.diagnosis[i] <= ranks[i]
           /\ \A point \in 1..TopK : GoldAt(ranks, point) <= RecallAt(report.diagnosis, point)
    BY Zenon DEF BoundsExperiment
  <2> DEFINE ranks == report.ranks["vectorOnly"]  diagnosis == report.diagnosis
  <2>1. /\ cases \in Seq(Cases) /\ ranks = EvaluateConfig(VectorOnly)
        /\ diagnosis = [i \in Measured |-> RankCase(cases[i], GoldRows(cases[i]))]
    BY Zenon DEF RankingIInv
  <2> HIDE DEF ranks, diagnosis
  <2>2. DOMAIN ranks = Measured /\ DOMAIN diagnosis = Measured
    BY <2>1 DEF EvaluateConfig
  <2>3. \A i \in Measured :
          /\ ranks[i] = EvaluateCase(FusedOrder(VectorOnly, cases[i]), GoldRows(cases[i]))
          /\ diagnosis[i] = RankCase(cases[i], GoldRows(cases[i]))
    BY <2>1, Zenon DEF EvaluateConfig
  <2>4. \A i \in Measured : cases[i] \in Cases  BY <2>1 DEF Measured
  <2>5. \A i \in Measured : ranks[i] # 0 =>
          ranks[i] \in Nat /\ diagnosis[i] \in Nat /\ diagnosis[i] <= ranks[i]
    <3> SUFFICES ASSUME NEW i \in Measured, ranks[i] # 0
                 PROVE  ranks[i] \in Nat /\ diagnosis[i] \in Nat /\ diagnosis[i] <= ranks[i]
      OBVIOUS
    <3>1. cases[i].score \in [Row -> Int] /\ cases[i].bm25 \in [Row -> Int]
      BY <2>4, RankingAssumption
    <3>2. GoldRows(cases[i]) \in SUBSET Row  BY DEF GoldRows
    <3>3. EvaluateCase(FusedOrder(Configs["vectorOnly"], cases[i]), GoldRows(cases[i])) # 0
      BY <2>3 DEF VectorOnly
    <3> QED  BY <2>3, <3>1, <3>2, <3>3, NoWorse DEF VectorOnly
  <2>6. ASSUME NEW point \in 1..TopK PROVE GoldAt(ranks, point) <= RecallAt(diagnosis, point)
    <3> DEFINE high == {i \in Measured : ranks[i] \in 1..point}
               recalled == {i \in Measured : diagnosis[i] <= point}
    <3>1. high \in SUBSET recalled
      <4> SUFFICES ASSUME NEW i \in Measured, ranks[i] \in 1..point PROVE diagnosis[i] <= point
        OBVIOUS
      <4>1. ranks[i] # 0 /\ ranks[i] <= point /\ point \in Int  OBVIOUS
      <4> QED  BY <2>5, <4>1
    <3>2. IsFiniteSet(recalled)
      <4>1. IsFiniteSet(1..Len(cases))  BY <2>1, FS_Interval
      <4>2. recalled \in SUBSET (1..Len(cases))  BY <2>1 DEF Measured
      <4> HIDE DEF recalled
      <4> QED  BY <4>1, <4>2, FS_Subset
    <3>3. GoldAt(ranks, point) = Cardinality(high)  BY <2>2, Zenon DEF GoldAt
    <3>4. RecallAt(diagnosis, point) = Cardinality(recalled)  BY <2>2, Zenon DEF RecallAt
    <3> HIDE DEF high, recalled
    <3>5. Cardinality(high) <= Cardinality(recalled)  BY <3>1, <3>2, FS_Subset
    <3> QED  BY <3>3, <3>4, <3>5
  <2> QED  BY <2>5, <2>6, Zenon DEF ranks, diagnosis
<1>2. RankingIInv /\ Reported => BoundsSearch
  <2> SUFFICES ASSUME RankingIInv, Reported, NEW i \in Measured, cases[i].eligible = Row,
                      ToSet(report.hits[i]) \cap GoldRows(cases[i]) # {}
               PROVE  report.diagnosis[i] <= TopN
    BY Zenon DEF BoundsSearch
  <2> DEFINE q == cases[i]
  <2>1. /\ report.diagnosis[i] = RankCase(q, GoldRows(q)) /\ i \in DOMAIN cases
        /\ report.hits[i] = Search(q) /\ cases \in Seq(Cases)
    BY Zenon DEF RankingIInv, Measured
  <2>2. q \in Cases  BY <2>1
  <2>3. q.score \in [Row -> Int] /\ q.minScore \in Int  BY <2>2, RankingAssumption
  <2> HIDE DEF q
  <2>4. PICK g \in GoldRows(q) : g \in ToSet(Search(q))  BY <2>1 DEF q
  <2>5. GoldRows(q) \in SUBSET Row  BY DEF GoldRows
  <2>6. q.eligible = Row  BY DEF q
  <2> QED  BY <2>1, <2>3, <2>4, <2>5, <2>6, ShownIsRecalled
<1>3. RankingIInv => DiagnosisBoundsEvaluation  BY <1>1, <1>2 DEF DiagnosisBoundsEvaluation
<1> QED  BY <1>3, RankingInitIInv, RankingInvariance, PTL DEF RankingSpec
===============================================================================
