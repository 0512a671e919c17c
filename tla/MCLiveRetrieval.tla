--------------------------- MODULE MCLiveRetrieval ---------------------------
(***************************************************************************)
(* Small instances of LiveRetrieval: two releases, two artifacts of the    *)
(* first one.                                                              *)
(***************************************************************************)
EXTENDS LiveRetrieval

CONSTANTS r1, r2, r3, p1, p2, o1, k1, k2, a1, a2, b1

MCProcessOf == [r \in Request |-> IF r = r3 THEN p2 ELSE p1]
MCCorpusOf == [a \in Artifact |-> IF a = b1 THEN k2 ELSE k1]
MCBuiltFor == [c \in Corpus |-> IF c = k2 THEN b1 ELSE a1]
MCEditor == Operator \cup Request
=============================================================================
