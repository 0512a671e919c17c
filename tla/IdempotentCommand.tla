-------------------------- MODULE IdempotentCommand --------------------------
(***************************************************************************)
(* What the durable command idempotency of the Java API promises a caller  *)
(* that sends an Idempotency-Key.  The first request of a key binds the    *)
(* key to its fingerprint; at most one request of the key performs the     *)
(* command's business effect, and every successful answer, first or        *)
(* replayed, on any node and after any restart, is that request's answer.  *)
(*                                                                         *)
(* CommandIdempotency refines this module.                                 *)
(***************************************************************************)
EXTENDS CommandIdentity

VARIABLES
  bound,   \* bound[k]: the fingerprint the key belongs to, or None
  effect,  \* effect[k]: the request whose business effect is in force, or None
  answer   \* answer[r]: None, an Outcome, or the request whose response r got

absVars == <<bound, effect, answer>>

Init ==
  /\ bound = [k \in Key |-> None]
  /\ effect = [k \in Key |-> None]
  /\ answer = [r \in Request |-> None]

\* The first request of a key fixes what the key stands for.
Bind(r) ==
  /\ bound[KeyOf[r]] = None
  /\ bound' = [bound EXCEPT ![KeyOf[r]] = PrintOf[r]]
  /\ UNCHANGED <<effect, answer>>

\* The business effect of a key happens once, for a request of its fingerprint.
Perform(r) ==
  /\ bound[KeyOf[r]] = PrintOf[r]
  /\ effect[KeyOf[r]] = None
  /\ effect' = [effect EXCEPT ![KeyOf[r]] = r]
  /\ UNCHANGED <<bound, answer>>

\* A success, first or replayed, is the response of the one that performed.
Succeed(r) ==
  /\ answer[r] = None
  /\ bound[KeyOf[r]] = PrintOf[r]
  /\ effect[KeyOf[r]] # None
  /\ answer' = [answer EXCEPT ![r] = effect[KeyOf[r]]]
  /\ UNCHANGED <<bound, effect>>

\* 409 conflict: the key belongs to another fingerprint.
Conflict(r) ==
  /\ answer[r] = None
  /\ bound[KeyOf[r]] \notin {None, PrintOf[r]}
  /\ answer' = [answer EXCEPT ![r] = "conflict"]
  /\ UNCHANGED <<bound, effect>>

\* An error or "in progress" answer says nothing about the effect.
Refuse(r) ==
  /\ answer[r] = None
  /\ \E o \in {"error", "inProgress"} : answer' = [answer EXCEPT ![r] = o]
  /\ UNCHANGED <<bound, effect>>

Next ==
  \E r \in Request :
    Bind(r) \/ Perform(r) \/ Succeed(r) \/ Conflict(r) \/ Refuse(r)

Spec == Init /\ [][Next]_absVars
=============================================================================
