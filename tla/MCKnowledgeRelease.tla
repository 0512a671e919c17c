-------------------------- MODULE MCKnowledgeRelease --------------------------
(***************************************************************************)
(* Small instances of KnowledgeRelease: the baseline and two more          *)
(* releases, and five administrators' commands.                            *)
(***************************************************************************)
EXTENDS KnowledgeRelease, FiniteSets, TLC

CONSTANTS base, x1, x2, c1, c2, c3, c4, c5, n1, n2, q1

Commands == Permutations(Command)

\* Bound: two transactions overlap, with any number of commands between the
\* first and the last step of either.
TwoOverlap == Cardinality({c \in Command : pc[c] \in {"sent", "checked"}}) <= 2
=============================================================================
