--------------------------- MODULE CommandIdentity ---------------------------
(***************************************************************************)
(* The requests that reach the Java API with an Idempotency-Key, and what  *)
(* identifies them: the key, the fingerprint of the command (type, route,  *)
(* body, actor and scopes), and the API instance that handles them.        *)
(* A request is one execution of CommandIdempotencyCoordinator.execute, so *)
(* a client's retry is another request with the same key.                  *)
(***************************************************************************)

CONSTANTS
  Request,      \* executions of the coordinator
  Node,         \* API instances (JVMs) that share one database
  Key,          \* idempotency keys
  Fingerprint,  \* SHA-256 fingerprints of commands
  KeyOf,        \* the key of each request
  PrintOf,      \* the fingerprint of each request
  NodeOf,       \* the node that handles each request
  None          \* SQL NULL, and "nothing yet"

\* Answers that carry no response of the command.
Outcome == {"conflict", "inProgress", "error"}

ASSUME RequestAssumption ==
  /\ KeyOf \in [Request -> Key]
  /\ PrintOf \in [Request -> Fingerprint]
  /\ NodeOf \in [Request -> Node]

ASSUME NoneAssumption ==
  /\ None \notin Request
  /\ None \notin Fingerprint
  /\ None \notin Outcome
  /\ Outcome \cap Request = {}
=============================================================================
