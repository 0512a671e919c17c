------------------------ MODULE MCCommandIdempotency ------------------------
(***************************************************************************)
(* Small instances of CommandIdempotency: requests of one key on two API   *)
(* instances.  The requests in Other carry another command under the same  *)
(* key; the rest are retries of one command.                               *)
(***************************************************************************)
EXTENDS CommandIdempotency

CONSTANTS r1, r2, r3, n1, n2, k1, f1, f2, Other

MCKeyOf == [r \in Request |-> k1]
MCPrintOf == [r \in Request |-> IF r \in Other THEN f2 ELSE f1]
MCNodeOf == [r \in Request |-> IF r = r1 THEN n1 ELSE n2]
=============================================================================
