-------------------------- MODULE MCAnalysisCommand --------------------------
(***************************************************************************)
(* Analyses of one ticket on one API instance: r1 with its retry r2, which *)
(* has the same key, or r1 beside r3, which has its own.                   *)
(***************************************************************************)
EXTENDS AnalysisCommand

CONSTANTS r1, r2, r3, n1, k1, k2, t1, f1, f2

MCKeyOf == [r \in Request |-> IF r = r3 THEN k2 ELSE k1]
MCPrintOf == [r \in Request |-> IF r = r3 THEN f2 ELSE f1]
MCNodeOf == [r \in Request |-> n1]
MCTicketOf == [r \in Request |-> t1]

\* Either r2 or r3 never arrives; nothing obliges a request to.
AtMostTwo == stage[r2] = "idle" \/ stage[r3] = "idle"
=============================================================================
