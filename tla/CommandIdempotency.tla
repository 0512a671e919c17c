-------------------------- MODULE CommandIdempotency --------------------------
(***************************************************************************)
(* The durable idempotency of write commands in the Java API:              *)
(* CommandIdempotencyStore (the command_idempotency table: one row per     *)
(* key, with an owner token and a lease), CommandIdempotencyCoordinator    *)
(* (the resolve / wait / execute loop and the heartbeat that renews the    *)
(* lease) and CommandIdempotencyCompletion (the conditional update inside  *)
(* the business transaction).                                              *)
(*                                                                         *)
(* Each database transaction on an existing row is one step: the row is    *)
(* read FOR UPDATE or changed by a conditional UPDATE, which holds its     *)
(* lock until the transaction ends.  A missing row is not locked, so the   *)
(* read that misses it and the insert are two steps.                       *)
(*                                                                         *)
(* An owner token is a fresh UUID and a request owns a key at most once,   *)
(* so the request itself stands for its token.  Time is abstracted to      *)
(* whether a lease has run out, which may happen at any moment: nodes      *)
(* compare leases with their own clocks and a JVM may pause.               *)
(***************************************************************************)
EXTENDS CommandIdentity

VARIABLES
  row,        \* row[k]: the row of command_idempotency with that key
  stage,      \* stage[r]: where request r is in the coordinator
  late,       \* the requests whose wait deadline has passed
  heartbeat,  \* heartbeat[r]: the scheduled lease renewal of r's ownership
  answer,     \* answer[r]: None, an Outcome, or the request whose response it is
  committed   \* requests whose business transaction committed

vars == <<row, stage, late, heartbeat, answer, committed>>

NoRow == [status |-> "ABSENT", print |-> None, owner |-> None,
          lease |-> FALSE, response |-> None]

\* A row of the table.  lease: leaseExpiresAt lies in the future; response:
\* the request whose business transaction stored responseJson.
Row ==
  [status : {"PENDING"}, print : Fingerprint, owner : Request,
   lease : BOOLEAN, response : {None}]
  \cup
  [status : {"COMPLETED"}, print : Fingerprint, owner : {None},
   lease : {FALSE}, response : Request]
  \cup
  [status : {"FAILED"}, print : Fingerprint, owner : {None},
   lease : {FALSE}, response : {None}]

Waiting == {"resolve", "insert", "retry", "reinsert", "pending"}
Executing == {"running", "committed", "failing"}
Ended == {"done", "dead"}
Stage == {"idle"} \cup Waiting \cup Executing \cup Ended

TypeOK ==
  /\ row \in [Key -> Row \cup {NoRow}]
  /\ stage \in [Request -> Stage]
  /\ late \in SUBSET Request
  /\ heartbeat \in [Request -> {"off", "armed", "renewing", "ending"}]
  /\ answer \in [Request -> Request \cup Outcome \cup {None}]
  /\ committed \in SUBSET Request

Init ==
  /\ row = [k \in Key |-> NoRow]
  /\ stage = [r \in Request |-> "idle"]
  /\ late = {}
  /\ heartbeat = [r \in Request |-> "off"]
  /\ answer = [r \in Request |-> None]
  /\ committed = {}

RowOf(r) == row[KeyOf[r]]

Owns(r) == RowOf(r).status = "PENDING" /\ RowOf(r).owner = r

\* Both create and claim leave this row: PENDING, ours, with a fresh lease.
OwnedRow(r) == [status |-> "PENDING", print |-> PrintOf[r], owner |-> r,
                lease |-> TRUE, response |-> None]

Goto(r, s) == stage' = [stage EXCEPT ![r] = s]

\* Mutant: the finally block that cancels the heartbeat is missing.
NeverCancelled(h) == h

\* heartbeat.cancel(false): a renewal that already started is not interrupted.
Cancelled(h) == CASE h = "armed" -> "off" [] h = "renewing" -> "ending" [] OTHER -> h

----------------------------------------------------------------------------
(* The resolve loop. *)

\* A request with a valid key enters the coordinator.
Arrive(r) ==
  /\ stage[r] = "idle"
  /\ Goto(r, "resolve")
  /\ UNCHANGED <<row, late, heartbeat, answer, committed>>

Resolving(r) == stage[r] \in {"resolve", "retry"}

\* findForUpdateByIdempotencyKey finds nothing and locks nothing.
ResolveAbsent(r) ==
  /\ Resolving(r)
  /\ RowOf(r).status = "ABSENT"
  /\ Goto(r, IF stage[r] = "resolve" THEN "insert" ELSE "reinsert")
  /\ UNCHANGED <<row, late, heartbeat, answer, committed>>

\* The key belongs to another command, route or fingerprint.
ResolveConflict(r) ==
  /\ Resolving(r)
  /\ RowOf(r).status # "ABSENT"
  /\ RowOf(r).print # PrintOf[r]
  /\ Goto(r, "done")
  /\ answer' = [answer EXCEPT ![r] = "conflict"]
  /\ UNCHANGED <<row, late, heartbeat, committed>>

\* The same command completed before: its stored response is replayed.
ResolveReplay(r) ==
  /\ Resolving(r)
  /\ RowOf(r).status = "COMPLETED"
  /\ RowOf(r).print = PrintOf[r]
  /\ Goto(r, "done")
  /\ answer' = [answer EXCEPT ![r] = RowOf(r).response]
  /\ UNCHANGED <<row, late, heartbeat, committed>>

\* Mutant: the missing lease of a completed row counts as expired.
ClaimableWithoutLease(r) == RowOf(r).status # "ABSENT" /\ ~RowOf(r).lease

\* A failed command, or one whose lease ran out, gets a new owner.
Claimable(r) ==
  \/ RowOf(r).status = "FAILED"
  \/ RowOf(r).status = "PENDING" /\ ~RowOf(r).lease

ResolveClaim(r) ==
  /\ Resolving(r)
  /\ RowOf(r).print = PrintOf[r]
  /\ Claimable(r)
  /\ row' = [row EXCEPT ![KeyOf[r]] = OwnedRow(r)]
  /\ Goto(r, "running")
  /\ heartbeat' = [heartbeat EXCEPT ![r] = "armed"]
  /\ UNCHANGED <<late, answer, committed>>

ResolvePending(r) ==
  /\ Resolving(r)
  /\ RowOf(r).print = PrintOf[r]
  /\ RowOf(r).status = "PENDING"
  /\ RowOf(r).lease
  /\ Goto(r, "pending")
  /\ UNCHANGED <<row, late, heartbeat, answer, committed>>

Inserting(r) == stage[r] \in {"insert", "reinsert"}

InsertOwned(r) ==
  /\ Inserting(r)
  /\ RowOf(r).status = "ABSENT"
  /\ row' = [row EXCEPT ![KeyOf[r]] = OwnedRow(r)]
  /\ Goto(r, "running")
  /\ heartbeat' = [heartbeat EXCEPT ![r] = "armed"]
  /\ UNCHANGED <<late, answer, committed>>

\* Another request inserted the key first.  The store resolves once more;
\* a second violation would reach the caller.
InsertCollides(r) ==
  /\ Inserting(r)
  /\ RowOf(r).status # "ABSENT"
  /\ Goto(r, IF stage[r] = "insert" THEN "retry" ELSE "done")
  /\ answer' = [answer EXCEPT ![r] = IF stage[r] = "insert" THEN None ELSE "error"]
  /\ UNCHANGED <<row, late, heartbeat, committed>>

\* The wait timeout counts from the request's entry into the loop.
DeadlinePasses(r) ==
  /\ stage[r] \in Waiting
  /\ r \notin late
  /\ late' = late \cup {r}
  /\ UNCHANGED <<row, stage, heartbeat, answer, committed>>

\* Sleep for the poll interval, then resolve again.
PollAgain(r) ==
  /\ stage[r] = "pending"
  /\ r \notin late
  /\ Goto(r, "resolve")
  /\ UNCHANGED <<row, late, heartbeat, answer, committed>>

GiveUp(r) ==
  /\ stage[r] = "pending"
  /\ r \in late
  /\ Goto(r, "done")
  /\ answer' = [answer EXCEPT ![r] = "inProgress"]
  /\ UNCHANGED <<row, late, heartbeat, committed>>

\* The JVM interrupts the sleeping thread when it shuts down.
PauseInterrupted(r) ==
  /\ stage[r] = "pending"
  /\ r \notin late
  /\ Goto(r, "done")
  /\ answer' = [answer EXCEPT ![r] = "inProgress"]
  /\ UNCHANGED <<row, late, heartbeat, committed>>

----------------------------------------------------------------------------
(* The owner's operation, its transaction, and what follows it. *)

\* Mutant: the completion updates the row whoever owns it.
CommitUnowned(r) ==
  /\ stage[r] = "running"
  /\ row' = [row EXCEPT ![KeyOf[r]] =
               [@ EXCEPT !.status = "COMPLETED", !.owner = None,
                         !.lease = FALSE, !.response = r]]
  /\ committed' = committed \cup {r}
  /\ Goto(r, "committed")
  /\ UNCHANGED <<late, heartbeat, answer>>

\* The business transaction: its writes and the conditional completion of
\* the row commit together.
Commit(r) ==
  /\ stage[r] = "running"
  /\ Owns(r)
  /\ row' = [row EXCEPT ![KeyOf[r]] =
               [@ EXCEPT !.status = "COMPLETED", !.owner = None,
                         !.lease = FALSE, !.response = r]]
  /\ committed' = committed \cup {r}
  /\ Goto(r, "committed")
  /\ UNCHANGED <<late, heartbeat, answer>>

\* The completion updates no row: the business writes roll back.
OwnershipLost(r) ==
  /\ stage[r] = "running"
  /\ ~Owns(r)
  /\ Goto(r, "failing")
  /\ UNCHANGED <<row, late, heartbeat, answer, committed>>

\* The operation throws before its transaction commits.
OperationFails(r) ==
  /\ stage[r] = "running"
  /\ Goto(r, "failing")
  /\ UNCHANGED <<row, late, heartbeat, answer, committed>>

\* An owner that lost its key may have joined, inside its JVM, the work of the
\* next owner, and returns the response that one committed.
ReturnJoined(r) ==
  /\ stage[r] = "running"
  /\ RowOf(r).status = "COMPLETED"
  /\ Goto(r, "done")
  /\ answer' = [answer EXCEPT ![r] = RowOf(r).response]
  /\ heartbeat' = [heartbeat EXCEPT ![r] = Cancelled(@)]
  /\ UNCHANGED <<row, late, committed>>

ReturnResult(r) ==
  /\ stage[r] = "committed"
  /\ Goto(r, "done")
  /\ answer' = [answer EXCEPT ![r] = r]
  /\ heartbeat' = [heartbeat EXCEPT ![r] = Cancelled(@)]
  /\ UNCHANGED <<row, late, committed>>

\* The operation throws after the commit: the response is no longer readable
\* under the active knowledge release, or the commit's outcome was lost.
ThrowAfterCommit(r) ==
  /\ stage[r] = "committed"
  /\ Goto(r, "failing")
  /\ UNCHANGED <<row, late, heartbeat, answer, committed>>

\* What repository.fail leaves of a row: only its PENDING owner may fail it.
FailedRow(r) ==
  IF Owns(r)
  THEN [RowOf(r) EXCEPT !.status = "FAILED", !.owner = None, !.lease = FALSE]
  ELSE RowOf(r)

\* store.fail, then the exception reaches the caller.  store.fail may throw
\* itself, and then leaves the row as it is.
Fail(r) ==
  /\ stage[r] = "failing"
  /\ row' \in {[row EXCEPT ![KeyOf[r]] = FailedRow(r)], row}
  /\ Goto(r, "done")
  /\ answer' = [answer EXCEPT ![r] = "error"]
  /\ heartbeat' = [heartbeat EXCEPT ![r] = Cancelled(@)]
  /\ UNCHANGED <<late, committed>>

----------------------------------------------------------------------------
(* The heartbeat, the lease and crashes. *)

HeartbeatFires(r) ==
  /\ heartbeat[r] = "armed"
  /\ heartbeat' = [heartbeat EXCEPT ![r] = "renewing"]
  /\ UNCHANGED <<row, stage, late, answer, committed>>

Renewing(r) == heartbeat[r] \in {"renewing", "ending"}

\* renewLease does not look at the expiry: it also revives a lapsed lease
\* that nobody claimed.
Renew(r) ==
  /\ Renewing(r)
  /\ row' = IF Owns(r) THEN [row EXCEPT ![KeyOf[r]].lease = TRUE] ELSE row
  /\ heartbeat' = [heartbeat EXCEPT ![r] = IF @ = "renewing" THEN "armed" ELSE "off"]
  /\ UNCHANGED <<stage, late, answer, committed>>

\* A renewal that throws suppresses every later run of the fixed-delay task.
RenewThrows(r) ==
  /\ Renewing(r)
  /\ heartbeat' = [heartbeat EXCEPT ![r] = "off"]
  /\ UNCHANGED <<row, stage, late, answer, committed>>

LeaseExpires(k) ==
  /\ row[k].lease
  /\ row' = [row EXCEPT ![k].lease = FALSE]
  /\ UNCHANGED <<stage, late, heartbeat, answer, committed>>

Active(r) == stage[r] \in Waiting \cup Executing

\* The JVM dies with every request on it; the database keeps its rows.
Crash(n) ==
  /\ \E r \in Request : NodeOf[r] = n /\ Active(r)
  /\ stage' = [r \in Request |->
                 IF NodeOf[r] = n /\ Active(r) THEN "dead" ELSE stage[r]]
  /\ heartbeat' = [r \in Request |-> IF NodeOf[r] = n THEN "off" ELSE heartbeat[r]]
  /\ UNCHANGED <<row, late, answer, committed>>

----------------------------------------------------------------------------

Resolve(r) ==
  \/ ResolveAbsent(r)
  \/ ResolveConflict(r)
  \/ ResolveReplay(r)
  \/ ResolveClaim(r)
  \/ ResolvePending(r)
  \/ InsertOwned(r)
  \/ InsertCollides(r)

Wait(r) == DeadlinePasses(r) \/ PollAgain(r) \/ GiveUp(r) \/ PauseInterrupted(r)

Operate(r) ==
  Commit(r) \/ OwnershipLost(r) \/ OperationFails(r) \/ ReturnJoined(r)

Conclude(r) == ReturnResult(r) \/ ThrowAfterCommit(r) \/ Fail(r)

Beat(r) == HeartbeatFires(r) \/ Renew(r) \/ RenewThrows(r)

Next ==
  \/ \E r \in Request :
       Arrive(r) \/ Resolve(r) \/ Wait(r) \/ Operate(r) \/ Conclude(r) \/ Beat(r)
  \/ \E k \in Key : LeaseExpires(k)
  \/ \E n \in Node : Crash(n)

Spec == Init /\ [][Next]_vars

(***************************************************************************)
(* Request threads and the heartbeat pool are scheduled by the JVM, and    *)
(* clocks advance.  Nothing is assumed of the operation itself: an AI call *)
(* or a transaction may hang, and clients need not send requests.          *)
(***************************************************************************)
Fairness ==
  /\ \A r \in Request :
       /\ WF_vars(Resolve(r))
       /\ WF_vars(DeadlinePasses(r))
       /\ WF_vars(PollAgain(r))
       /\ WF_vars(GiveUp(r))
       /\ WF_vars(Conclude(r))
       /\ WF_vars(Beat(r))
  /\ \A k \in Key : WF_vars(LeaseExpires(k))

FairSpec == Spec /\ Fairness

----------------------------------------------------------------------------
(* Properties. *)

\* However leases expire, nodes crash and owners lag behind, the business
\* effect of a key is committed by one request at most.
AtMostOneEffect ==
  \A r, s \in committed : KeyOf[r] = KeyOf[s] => r = s

\* A business effect is in the database exactly when its key's row says
\* COMPLETED with that request's response: complete() joins the business
\* transaction, and no later claim, failure or renewal undoes it.
EffectIffCompleted ==
  \A r \in Request :
    r \in committed <=> RowOf(r).status = "COMPLETED" /\ RowOf(r).response = r

\* Every success, first or replayed on any node, is the response of the
\* committed effect of the same command.
AnswerIsTheEffect ==
  \A r \in Request :
    answer[r] \in Request =>
      /\ answer[r] \in committed
      /\ KeyOf[answer[r]] = KeyOf[r]
      /\ PrintOf[answer[r]] = PrintOf[r]

\* The store retries a unique-key violation once.  That is enough: the retry
\* never misses the row, so no caller sees a second violation.
OneRetrySuffices == \A r \in Request : stage[r] # "reinsert"

\* A request that leaves the loop as an owner works for its own fingerprint:
\* no one executes a command under a key that another command has bound.
OwnerMatchesFingerprint ==
  \A r \in Request : stage[r] \in Executing => RowOf(r).print = PrintOf[r]

\* While the lease of an owner runs, nobody takes the key from it: the row
\* changes hands only through the owner's own commit or failure.
LiveLeaseNeverStolen ==
  [][\A r \in Request :
       Owns(r) /\ RowOf(r).lease /\ ~Owns(r)' =>
         \/ stage[r] = "running" /\ r \in committed'
         \/ stage[r] = "failing" /\ RowOf(r)'.status = "FAILED"]_vars

\* A request that lost its key changes nothing any more: neither its commit,
\* its failure nor a late renewal touches the row of the next owner.
StaleOwnerIsHarmless ==
  [][\A r \in Request :
       /\ ~Owns(r)
       /\ \/ stage[r] \in Executing /\ stage'[r] # stage[r]
          \/ Renewing(r) /\ heartbeat'[r] # heartbeat[r]
       => row' = row]_vars

\* Whatever happens to an owner, the lease it leaves behind lapses for good:
\* a key is never locked forever by a request that ended.
OrphanedLeaseLapses ==
  \A r \in Request :
    stage[r] \in Ended ~> [](Owns(r) => ~RowOf(r).lease)

\* The layer keeps the promise of IdempotentCommand.
Promise == INSTANCE IdempotentCommand WITH
  bound  <- [k \in Key |-> row[k].print],
  effect <- [k \in Key |-> row[k].response]

KeepsPromise == Promise!Spec
=============================================================================
