------------------------------- MODULE MCEvidence -------------------------------
(***************************************************************************)
(* Small instances of the commands that leave evidence: the measurements   *)
(* and the paid runs that provide their vectors, the publication of the    *)
(* dependency scans, and the scan of the images.                           *)
(***************************************************************************)
EXTENDS RetrievalRanking, PaidEvaluation, ScanEvidence, ImageScan, TLC

CONSTANTS p1, p2, high, low, advisory

\* Four chunks of three documents; one anchor names chunks of two documents.
MCDocumentOf == <<1, 2, 1, 3>>
MCAnchorOf == <<"a", "b", "none", "a">>

MCCases == [score : [Row -> 0..2], bm25 : [Row -> 0..1], minScore : {1},
            matched : {{}, {1, 2}}, eligible : {Row, {1, 2, 4}},
            source : {"a", "b", "none"}]

\* A case that the fusion improves, and one that it degrades.
Improved == [score |-> <<2, 0, 2, 1>>, bm25 |-> <<0, 1, 0, 0>>, minScore |-> 1,
             matched |-> {}, eligible |-> Row, source |-> "b"]
Degraded == [score |-> <<2, 1, 0, 0>>, bm25 |-> <<1, 0, 1, 1>>, minScore |-> 1,
             matched |-> {}, eligible |-> Row, source |-> "b"]

Comparison(gains, losses) ==
  [i \in 1..gains + losses |-> IF i <= gains THEN Improved ELSE Degraded]

\* A clean scan with its report, and a scanner that failed without one.
MCRequestOf ==
  (p1 :> [exit |-> 0, count |-> 0, accepted |-> TRUE, present |-> TRUE, outcome |-> "clean"])
  @@ (p2 :> [exit |-> 2, count |-> None, accepted |-> FALSE, present |-> FALSE, outcome |-> "operational"])

MCOtherReports == [i \in Image |-> IF i = 1 THEN {high, low} ELSE {}]

RunsAndDirectories == Permutations(Run) \cup Permutations(Directory)

----------------------------------------------------------------------------
(* The commands share no state, so that TLC moves one of them, beside the  *)
(* others in their first state.                                            *)

Measuring == cases # <<>>
NoRuns == PaidInit /\ executes = {} /\ \A q, r \in Run : output[q] = output[r]

MCInit ==
  /\ report = <<>>
  /\ \/ cases \in {<<q>> : q \in Cases}
     \/ \E gains, losses \in 0..6 : cases = Comparison(gains, losses)
  /\ PaidInit /\ (Measuring => NoRuns)
  /\ Init /\ ImageInit

MCNext ==
  \/ /\ Measuring /\ NoRuns /\ Init /\ ImageInit
     /\ Measure /\ UNCHANGED <<paidVars, vars, imageVars>>
  \/ /\ ~Measuring /\ Init /\ ImageInit
     /\ PaidNext /\ UNCHANGED <<rankingVars, vars, imageVars>>
  \/ /\ ~Measuring /\ NoRuns /\ ImageInit
     /\ Next /\ UNCHANGED <<rankingVars, paidVars, imageVars>>
  \/ /\ ~Measuring /\ NoRuns /\ Init
     /\ ImageNext /\ UNCHANGED <<rankingVars, paidVars, vars>>

MCSpec == MCInit /\ [][MCNext]_<<rankingVars, paidVars, vars, imageVars>>
===============================================================================
