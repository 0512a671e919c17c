---------------------------- MODULE MCIndexRebuild ----------------------------
(***************************************************************************)
(* Three rebuilds by two processes over one artifact root, and a client    *)
(* that polls; the last task is authorized for fewer calls than it needs   *)
(* when there are two batches.                                             *)
(***************************************************************************)
EXTENDS IndexRebuild

CONSTANTS t1, t2, t3, q1, p1, p2, c1, Small

MCProcessOf == [x \in Task \cup Query |-> IF x \in {t2, q1} THEN p2 ELSE p1]
MCCorpusOf == [t \in Task |-> c1]
MCBudget == [t \in Task |-> IF t \in Small THEN 1 ELSE Batches]
=============================================================================
