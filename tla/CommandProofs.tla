---------------------------- MODULE CommandProofs -----------------------------
(***************************************************************************)
(* Proofs about CommandIdempotency, for any number of requests, nodes,     *)
(* keys and fingerprints; and about AnalysisCommand, for any tickets and   *)
(* flights: the analysis command is an operation that the idempotency      *)
(* layer allows, so that what is proved of the layer holds of it.          *)
(***************************************************************************)
EXTENDS AnalysisCommand, TLAPS

USE RequestAssumption, NoneAssumption DEF Outcome

----------------------------------------------------------------------------
(* The idempotency layer: the inductive invariant, which ties a row to the requests it names. *)

\* A row names only requests of its own key and fingerprint.
RowNamesItsRequests ==
  \A k \in Key :
    /\ row[k].owner \in Request =>
         KeyOf[row[k].owner] = k /\ PrintOf[row[k].owner] = row[k].print
    /\ row[k].response \in Request =>
         KeyOf[row[k].response] = k /\ PrintOf[row[k].response] = row[k].print

\* A request past its commit is in the history of commits.
CommittedStage == \A r \in Request : stage[r] = "committed" => r \in committed

\* A success was read from, or written to, the row that is still there.
AnswerInForce ==
  \A r \in Request :
    answer[r] \in Request =>
      RowOf(r).response = answer[r] /\ RowOf(r).print = PrintOf[r]

\* Only a request that is over has an answer.
AnswerAtEnd == \A r \in Request : answer[r] # None => stage[r] \in Ended

\* Rows are never deleted: who collided on an insert will find the row.
RetryFindsRow == \A r \in Request : stage[r] = "retry" => RowOf(r).status # "ABSENT"

\* A heartbeat is scheduled only once the request owns its key.
HeartbeatAfterClaim ==
  \A r \in Request : heartbeat[r] # "off" => stage[r] \in Executing \cup Ended

IInv ==
  /\ TypeOK
  /\ RowNamesItsRequests
  /\ EffectIffCompleted
  /\ CommittedStage
  /\ OwnerMatchesFingerprint
  /\ AnswerInForce
  /\ AnswerAtEnd
  /\ RetryFindsRow
  /\ OneRetrySuffices
  /\ HeartbeatAfterClaim

----------------------------------------------------------------------------

\* What each status says of the other columns.
LEMMA RowShape ==
  ASSUME NEW x \in Row \cup {NoRow}
  PROVE  /\ x.status \in {"ABSENT", "PENDING", "COMPLETED", "FAILED"}
         /\ x.status = "ABSENT" <=> x = NoRow
         /\ x.status = "PENDING" =>
              x.owner \in Request /\ x.response = None /\ x.print \in Fingerprint
         /\ x.status = "COMPLETED" =>
              x.owner = None /\ x.response \in Request /\ x.print \in Fingerprint
         /\ x.status = "FAILED" =>
              x.owner = None /\ x.response = None /\ x.print \in Fingerprint
         /\ x.lease => x.status = "PENDING"
         /\ x.lease \in BOOLEAN
  <1>1. CASE x = NoRow BY <1>1 DEF NoRow
  <1>2. CASE x \in [status : {"PENDING"}, print : Fingerprint, owner : Request,
                    lease : BOOLEAN, response : {None}]
    BY <1>2 DEF NoRow
  <1>3. CASE x \in [status : {"COMPLETED"}, print : Fingerprint, owner : {None},
                    lease : {FALSE}, response : Request]
    <2>1. x.lease = FALSE BY <1>3
    <2>2. ~x.lease BY <2>1, Zenon
    <2>3. x.lease \in BOOLEAN BY <2>1
    <2>4. x # NoRow BY <1>3 DEF NoRow
    <2>5. /\ x.status = "COMPLETED" /\ x.owner = None
          /\ x.print \in Fingerprint /\ x.response \in Request
      BY <1>3
    <2>6. x.status \notin {"ABSENT", "PENDING", "FAILED"}
      BY <2>5
    <2> QED BY <2>2, <2>3, <2>4, <2>5, <2>6, Zenon
  <1>4. CASE x \in [status : {"FAILED"}, print : Fingerprint, owner : {None},
                    lease : {FALSE}, response : {None}]
    <2>1. x.lease = FALSE BY <1>4
    <2>2. ~x.lease BY <2>1, Zenon
    <2>3. x.lease \in BOOLEAN BY <2>1
    <2>4. x # NoRow BY <1>4 DEF NoRow
    <2>5. /\ x.status = "FAILED" /\ x.owner = None
          /\ x.print \in Fingerprint /\ x.response = None
      BY <1>4
    <2>6. x.status \notin {"ABSENT", "PENDING", "COMPLETED"}
      BY <2>5
    <2> QED BY <2>2, <2>3, <2>4, <2>5, <2>6, Zenon
  <1> QED BY <1>1, <1>2, <1>3, <1>4 DEF Row

\* The four updates of an existing row keep it a row.
LEMMA RowUpdates ==
  ASSUME NEW x \in Row, x.status = "PENDING"
  PROVE  /\ \A r \in Request :
              [x EXCEPT !.status = "COMPLETED", !.owner = None,
                        !.lease = FALSE, !.response = r] \in Row
         /\ [x EXCEPT !.status = "FAILED", !.owner = None, !.lease = FALSE] \in Row
         /\ \A b \in BOOLEAN : [x EXCEPT !.lease = b] \in Row
  <1>1. x \in [status : {"PENDING"}, print : Fingerprint, owner : Request,
               lease : BOOLEAN, response : {None}]
    BY DEF Row
  <1>2. \A r \in Request :
          [x EXCEPT !.status = "COMPLETED", !.owner = None, !.lease = FALSE, !.response = r]
            \in [status : {"COMPLETED"}, print : Fingerprint, owner : {None},
                 lease : {FALSE}, response : Request]
    BY <1>1
  <1>3. [x EXCEPT !.status = "FAILED", !.owner = None, !.lease = FALSE]
          \in [status : {"FAILED"}, print : Fingerprint, owner : {None},
               lease : {FALSE}, response : {None}]
    BY <1>1
  <1>4. \A b \in BOOLEAN :
          [x EXCEPT !.lease = b]
            \in [status : {"PENDING"}, print : Fingerprint, owner : Request,
                 lease : BOOLEAN, response : {None}]
    BY <1>1
  <1> QED BY <1>2, <1>3, <1>4 DEF Row

\* No key, no owner, no heartbeat and no answer exist at first.
LEMMA InitIInv == Init => IInv
  BY DEF Init, IInv, TypeOK, NoRow, Row, Stage, Waiting, Executing, Ended,
         RowNamesItsRequests, EffectIffCompleted, CommittedStage, RowOf,
         OwnerMatchesFingerprint, AnswerInForce, AnswerAtEnd, RetryFindsRow,
         OneRetrySuffices, HeartbeatAfterClaim

\* The type invariant alone is inductive: every step leaves every row in one
\* of the three shapes that the store writes.
LEMMA TypeStep == TypeOK /\ [Next]_vars => TypeOK'
  <1> SUFFICES ASSUME TypeOK, [Next]_vars PROVE TypeOK'
    OBVIOUS
  <1> USE DEF TypeOK, RowOf, Goto, Stage, Waiting, Executing, Ended
  <1>1. ASSUME NEW r \in Request, Arrive(r) PROVE TypeOK'
    BY <1>1 DEF Arrive
  <1>2. ASSUME NEW r \in Request, Resolve(r) PROVE TypeOK'
    <2>1. KeyOf[r] \in Key /\ PrintOf[r] \in Fingerprint /\ OwnedRow(r) \in Row
      BY DEF OwnedRow, Row
    <2>2. CASE ResolveAbsent(r) BY <2>2 DEF ResolveAbsent
    <2>3. CASE ResolveConflict(r) BY <2>3 DEF ResolveConflict
    <2>4. CASE ResolveReplay(r)
      <3>1. RowOf(r).response \in Request
        BY <2>4, <2>1, RowShape DEF ResolveReplay
      <3> QED BY <3>1, <2>4 DEF ResolveReplay
    <2>5. CASE ResolveClaim(r) BY <2>1, <2>5 DEF ResolveClaim
    <2>6. CASE ResolvePending(r) BY <2>6 DEF ResolvePending
    <2>7. CASE InsertOwned(r) BY <2>1, <2>7 DEF InsertOwned
    <2>8. CASE InsertCollides(r) BY <2>8 DEF InsertCollides
    <2> QED BY <1>2, <2>2, <2>3, <2>4, <2>5, <2>6, <2>7, <2>8 DEF Resolve
  <1>3. ASSUME NEW r \in Request, Wait(r) PROVE TypeOK'
    BY <1>3 DEF Wait, DeadlinePasses, PollAgain, GiveUp, PauseInterrupted
  <1>4. ASSUME NEW r \in Request, Operate(r) PROVE TypeOK'
    <2>1. CASE Commit(r)
      <3>1. KeyOf[r] \in Key /\ row[KeyOf[r]] \in Row
        BY <2>1 DEF Commit, Owns, NoRow
      <3>2. [row[KeyOf[r]] EXCEPT !.status = "COMPLETED", !.owner = None,
                                  !.lease = FALSE, !.response = r] \in Row
        BY <2>1, <3>1, RowUpdates DEF Commit, Owns
      <3> QED BY <2>1, <3>1, <3>2 DEF Commit
    <2>2. CASE OwnershipLost(r) BY <2>2 DEF OwnershipLost
    <2>3. CASE OperationFails(r) BY <2>3 DEF OperationFails
    <2>4. CASE ReturnJoined(r)
      <3>1. RowOf(r).response \in Request
        BY <2>4, RowShape DEF ReturnJoined
      <3> QED BY <3>1, <2>4 DEF ReturnJoined, Cancelled
    <2> QED BY <1>4, <2>1, <2>2, <2>3, <2>4 DEF Operate
  <1>5. ASSUME NEW r \in Request, Conclude(r) PROVE TypeOK'
    <2> USE DEF Cancelled
    <2>1. CASE ReturnResult(r) BY <2>1 DEF ReturnResult
    <2>2. CASE ThrowAfterCommit(r) BY <2>2 DEF ThrowAfterCommit
    <2>3. CASE Fail(r)
      <3>1. KeyOf[r] \in Key /\ FailedRow(r) \in Row \cup {NoRow}
        <4>1. CASE Owns(r)
          <5>1. row[KeyOf[r]] \in Row
            BY <4>1 DEF Owns, NoRow
          <5> QED BY <4>1, <5>1, RowUpdates DEF FailedRow, Owns
        <4>2. CASE ~Owns(r) BY <4>2 DEF FailedRow
        <4> QED BY <4>1, <4>2
      <3> QED BY <2>3, <3>1 DEF Fail
    <2> QED BY <1>5, <2>1, <2>2, <2>3 DEF Conclude
  <1>6. ASSUME NEW r \in Request, Beat(r) PROVE TypeOK'
    <2>1. CASE HeartbeatFires(r) BY <2>1 DEF HeartbeatFires
    <2>2. CASE Renew(r)
      <3>1. Owns(r) => [row[KeyOf[r]] EXCEPT !.lease = TRUE] \in Row
        <4> HAVE Owns(r)
        <4>1. row[KeyOf[r]] \in Row
          BY DEF Owns, NoRow
        <4> QED BY <4>1, RowUpdates DEF Owns
      <3> QED BY <2>2, <3>1 DEF Renew
    <2>3. CASE RenewThrows(r) BY <2>3 DEF RenewThrows
    <2> QED BY <1>6, <2>1, <2>2, <2>3 DEF Beat
  <1>7. ASSUME NEW k \in Key, LeaseExpires(k) PROVE TypeOK'
    <2>1. [row[k] EXCEPT !.lease = FALSE] \in Row
      <3>1. row[k] \in Row /\ row[k].status = "PENDING"
        BY <1>7, RowShape DEF LeaseExpires, NoRow
      <3> QED BY <3>1, RowUpdates
    <2> QED BY <1>7, <2>1 DEF LeaseExpires
  <1>8. ASSUME NEW n \in Node, Crash(n) PROVE TypeOK'
    BY <1>8 DEF Crash
  <1>9. CASE UNCHANGED vars
    BY <1>9 DEF vars
  <1> QED BY <1>1, <1>2, <1>3, <1>4, <1>5, <1>6, <1>7, <1>8, <1>9 DEF Next

\* Every row is always absent, or one of the three shapes the store writes.
THEOREM TypeCorrect == Spec => []TypeOK
  <1>1. Init => TypeOK
    BY InitIInv DEF IInv
  <1> QED BY <1>1, TypeStep, PTL DEF Spec
----------------------------------------------------------------------------
\* The strengthened invariant is inductive: one step per action, and under it
\* the conjuncts that the action can disturb.
LEMMA StepIInv == IInv /\ [Next]_vars => IInv'
  <1> SUFFICES ASSUME IInv, [Next]_vars PROVE IInv'
    OBVIOUS
  <1>0. TypeOK /\ TypeOK'
    BY TypeStep DEF IInv
  <1>s. \A k \in Key : row[k] \in Row \cup {NoRow} /\ row'[k] \in Row \cup {NoRow}
    BY <1>0 DEF TypeOK
  <1> USE <1>0 DEF IInv, RowNamesItsRequests, EffectIffCompleted, CommittedStage,
          OwnerMatchesFingerprint, AnswerInForce, AnswerAtEnd, RetryFindsRow,
          OneRetrySuffices, HeartbeatAfterClaim, Cancelled, RowOf, Goto, Resolving, TypeOK, Executing, Ended, Waiting
  <1>1. ASSUME NEW r \in Request, Arrive(r) PROVE IInv'
    BY <1>1, <1>s, RowShape DEF Arrive
  <1>2. ASSUME NEW r \in Request, ResolveAbsent(r) PROVE IInv'
    BY <1>2, <1>s, RowShape DEF ResolveAbsent
  <1>3. ASSUME NEW r \in Request, ResolveConflict(r) PROVE IInv'
    BY <1>3, <1>s, RowShape DEF ResolveConflict
  <1>4. ASSUME NEW r \in Request, ResolveReplay(r) PROVE IInv'
    BY <1>4, <1>s, RowShape DEF ResolveReplay
  <1>5. ASSUME NEW r \in Request, ResolveClaim(r) PROVE IInv'
    BY <1>5, <1>s, RowShape DEF ResolveClaim, OwnedRow, Claimable
  <1>6. ASSUME NEW r \in Request, ResolvePending(r) PROVE IInv'
    BY <1>6, <1>s, RowShape DEF ResolvePending
  <1>7. ASSUME NEW r \in Request, InsertOwned(r) PROVE IInv'
    <2>1. KeyOf[r] \in Key /\ row[KeyOf[r]] = NoRow
      BY <1>7, <1>s, RowShape DEF InsertOwned
    <2>2. row' = [row EXCEPT ![KeyOf[r]] = OwnedRow(r)]
      BY <1>7 DEF InsertOwned
    <2>3. RowNamesItsRequests' BY <2>1, <2>2, <1>7 DEF OwnedRow, InsertOwned
    <2>4. EffectIffCompleted'
      BY <2>1, <2>2, <1>7 DEF OwnedRow, InsertOwned, NoRow
    <2>5. AnswerInForce'
      BY <2>1, <2>2, <1>7 DEF OwnedRow, InsertOwned, NoRow
    <2>6. OwnerMatchesFingerprint' /\ RetryFindsRow'
      BY <2>1, <2>2, <1>7 DEF OwnedRow, InsertOwned, NoRow
    <2> QED BY <2>3, <2>4, <2>5, <2>6, <1>7 DEF InsertOwned, Inserting
  <1>8. ASSUME NEW r \in Request, InsertCollides(r) PROVE IInv'
    BY <1>8, <1>s, RowShape DEF InsertCollides, Inserting
  <1>9. ASSUME NEW r \in Request, DeadlinePasses(r) PROVE IInv'
    BY <1>9, <1>s, RowShape DEF DeadlinePasses
  <1>10. ASSUME NEW r \in Request, PollAgain(r) PROVE IInv'
    BY <1>10, <1>s, RowShape DEF PollAgain
  <1>11. ASSUME NEW r \in Request, GiveUp(r) PROVE IInv'
    BY <1>11, <1>s, RowShape DEF GiveUp
  <1>12. ASSUME NEW r \in Request, PauseInterrupted(r) PROVE IInv'
    BY <1>12, <1>s, RowShape DEF PauseInterrupted
  <1>13. ASSUME NEW r \in Request, Commit(r) PROVE IInv'
    BY <1>13, <1>s, RowShape DEF Commit, Owns
  <1>14. ASSUME NEW r \in Request, OwnershipLost(r) PROVE IInv'
    BY <1>14, <1>s, RowShape DEF OwnershipLost
  <1>15. ASSUME NEW r \in Request, OperationFails(r) PROVE IInv'
    BY <1>15, <1>s, RowShape DEF OperationFails
  <1>16. ASSUME NEW r \in Request, ReturnJoined(r) PROVE IInv'
    BY <1>16, <1>s, RowShape DEF ReturnJoined
  <1>17. ASSUME NEW r \in Request, ReturnResult(r) PROVE IInv'
    BY <1>17, <1>s, RowShape DEF ReturnResult
  <1>18. ASSUME NEW r \in Request, ThrowAfterCommit(r) PROVE IInv'
    BY <1>18, <1>s, RowShape DEF ThrowAfterCommit
  <1>19. ASSUME NEW r \in Request, Fail(r) PROVE IInv'
    <2>1. CASE row' = row
      BY <1>19, <2>1 DEF Fail
    <2>2. CASE row' = [row EXCEPT ![KeyOf[r]] = FailedRow(r)] /\ ~Owns(r)
      <3>1. row' = row BY <2>2 DEF FailedRow
      <3> QED BY <1>19, <3>1 DEF Fail
    <2>3. CASE row' = [row EXCEPT ![KeyOf[r]] = FailedRow(r)] /\ Owns(r)
      <3> DEFINE new == [row[KeyOf[r]] EXCEPT !.status = "FAILED", !.owner = None,
                                              !.lease = FALSE]
      <3>1. row' = [row EXCEPT ![KeyOf[r]] = new] BY <2>3 DEF FailedRow
      <3>2. row[KeyOf[r]] \in Row /\ row[KeyOf[r]].status = "PENDING"
        BY <1>s, <2>3 DEF Owns, NoRow
      <3>3. /\ new.status = "FAILED" /\ new.owner = None
            /\ new.response = None /\ new.print = row[KeyOf[r]].print
        BY <3>2, RowShape DEF Row
      <3> HIDE DEF new
      <3>4. row[KeyOf[r]].response = None BY <3>2, RowShape
      <3> QED BY <1>19, <3>1, <3>2, <3>3, <3>4 DEF Fail
    <2> QED BY <1>19, <2>1, <2>2, <2>3 DEF Fail
  <1>20. ASSUME NEW r \in Request, HeartbeatFires(r) PROVE IInv'
    BY <1>20, <1>s, RowShape DEF HeartbeatFires
  <1>21. ASSUME NEW r \in Request, Renew(r) PROVE IInv'
    BY <1>21, <1>s, RowShape DEF Renew, Owns
  <1>22. ASSUME NEW r \in Request, RenewThrows(r) PROVE IInv'
    BY <1>22, <1>s, RowShape DEF RenewThrows
  <1>23. ASSUME NEW k \in Key, LeaseExpires(k) PROVE IInv'
    BY <1>23, <1>s, RowShape DEF LeaseExpires
  <1>24. ASSUME NEW n \in Node, Crash(n) PROVE IInv'
    BY <1>24, <1>s, RowShape DEF Crash, Active
  <1>25. CASE UNCHANGED vars
    BY <1>25 DEF vars
  <1> QED
    BY <1>1, <1>2, <1>3, <1>4, <1>5, <1>6, <1>7, <1>8, <1>9, <1>10, <1>11, <1>12,
       <1>13, <1>14, <1>15, <1>16, <1>17, <1>18, <1>19, <1>20, <1>21, <1>22, <1>23,
       <1>24, <1>25
       DEF Next, Resolve, Wait, Operate, Conclude, Beat

\* Hence it holds in every reachable state of CommandIdempotency.
LEMMA Invariance == Spec => []IInv
  BY InitIInv, StepIInv, PTL DEF Spec

\* At most one request of a key commits: two that did would both be the
\* response of the key's one row.
THEOREM AtMostOnce == Spec => []AtMostOneEffect
  <1>1. IInv => AtMostOneEffect
    <2> SUFFICES ASSUME IInv, NEW r \in committed, NEW s \in committed,
                        KeyOf[r] = KeyOf[s]
                 PROVE  r = s
      BY DEF AtMostOneEffect
    <2> r \in Request /\ s \in Request
      BY DEF IInv, TypeOK
    <2> QED BY DEF IInv, EffectIffCompleted, RowOf
  <1> QED BY <1>1, Invariance, PTL

\* A business effect is committed exactly when its row is COMPLETED with its
\* response, whatever crashes, failures and renewals come after the commit.
THEOREM Durability == Spec => []EffectIffCompleted
  <1>1. IInv => EffectIffCompleted BY DEF IInv
  <1> QED BY <1>1, Invariance, PTL

\* An answer in force is the row's response, which the row attributes to a
\* request of its own key and fingerprint.
THEOREM FaithfulAnswers == Spec => []AnswerIsTheEffect
  <1>1. IInv => AnswerIsTheEffect
    <2> SUFFICES ASSUME IInv, NEW r \in Request, answer[r] \in Request
                 PROVE  /\ answer[r] \in committed
                        /\ KeyOf[answer[r]] = KeyOf[r]
                        /\ PrintOf[answer[r]] = PrintOf[r]
      BY DEF AnswerIsTheEffect
    <2>1. KeyOf[r] \in Key BY DEF IInv
    <2>2. row[KeyOf[r]].response = answer[r] /\ row[KeyOf[r]].print = PrintOf[r]
      BY DEF IInv, AnswerInForce, RowOf
    <2>3. KeyOf[answer[r]] = KeyOf[r] /\ PrintOf[answer[r]] = PrintOf[r]
      BY <2>1, <2>2 DEF IInv, RowNamesItsRequests
    <2>4. row[KeyOf[r]].status = "COMPLETED"
      <3>1. row[KeyOf[r]] \in Row \cup {NoRow}
        BY <2>1 DEF IInv, TypeOK
      <3>2. row[KeyOf[r]].response \in Request
        BY <2>2
      <3> QED BY <3>1, <3>2, RowShape DEF NoRow
    <2> QED BY <2>2, <2>3, <2>4 DEF IInv, EffectIffCompleted, RowOf
  <1> QED BY <1>1, Invariance, PTL

\* The retry after a unique-key violation always finds the row.
THEOREM RetrySuffices == Spec => []OneRetrySuffices
  <1>1. IInv => OneRetrySuffices BY DEF IInv
  <1> QED BY <1>1, Invariance, PTL

\* A request executes only under a key that is bound to its own fingerprint.
THEOREM OwnFingerprint == Spec => []OwnerMatchesFingerprint
  <1>1. IInv => OwnerMatchesFingerprint BY DEF IInv
  <1> QED BY <1>1, Invariance, PTL

----------------------------------------------------------------------------
(* Steps that touch a row, and who takes them. *)

\* A row that its owner loses under a live lease was committed or failed by
\* that owner: claims and inserts need a free row, renewals and failures of
\* others need their own token.
LEMMA LiveLeaseStep ==
  ASSUME IInv, [Next]_vars, NEW r \in Request, Owns(r), RowOf(r).lease, ~Owns(r)'
  PROVE  \/ stage[r] = "running" /\ r \in committed'
         \/ stage[r] = "failing" /\ RowOf(r)'.status = "FAILED"
  <1>0. TypeOK /\ \A q \in Request : row[KeyOf[q]] \in Row \cup {NoRow}
    BY DEF IInv, TypeOK
  <1>1. row' # row
    BY DEF Owns, RowOf
  <1> USE DEF Owns, RowOf
  <1>2. ASSUME NEW q \in Request, Resolve(q) PROVE FALSE
    <2>1. PICK k \in Key : k = KeyOf[q] /\ row' = [row EXCEPT ![k] = OwnedRow(q)]
                          /\ (ResolveClaim(q) \/ InsertOwned(q))
      BY <1>1, <1>2 DEF Resolve, ResolveAbsent, ResolveConflict, ResolveReplay,
                        ResolveClaim, ResolvePending, InsertOwned, InsertCollides
    <2>2. k = KeyOf[r]
      BY <2>1
    <2> QED BY <2>1, <2>2 DEF ResolveClaim, InsertOwned, Claimable
  <1>3. ASSUME NEW q \in Request, Operate(q)
        PROVE  stage[r] = "running" /\ r \in committed'
    <2>1. Commit(q)
      BY <1>1, <1>3 DEF Operate, OwnershipLost, OperationFails, ReturnJoined
    <2>2. KeyOf[q] = KeyOf[r]
      BY <1>0, <2>1 DEF Commit, TypeOK
    <2> QED BY <2>1, <2>2 DEF Commit
  <1>4. ASSUME NEW q \in Request, Conclude(q)
        PROVE  stage[r] = "failing" /\ RowOf(r)'.status = "FAILED"
    <2>1. Fail(q) /\ row' = [row EXCEPT ![KeyOf[q]] = FailedRow(q)]
      BY <1>1, <1>4 DEF Conclude, ReturnResult, ThrowAfterCommit, Fail
    <2>2. KeyOf[q] = KeyOf[r] /\ Owns(q)
      BY <1>0, <1>1, <2>1 DEF FailedRow, TypeOK
    <2>3. q = r BY <2>2
    <2>4. row[KeyOf[r]] \in Row BY <1>0 DEF NoRow
    <2>5. FailedRow(r).status = "FAILED"
      BY <2>2, <2>3, <2>4 DEF FailedRow, Row
    <2>6. stage[r] = "failing" BY <2>1, <2>3 DEF Fail
    <2> HIDE DEF FailedRow
    <2> QED BY <1>0, <2>1, <2>3, <2>5, <2>6 DEF TypeOK
  <1>5. ASSUME NEW q \in Request, Beat(q) PROVE FALSE
    <2>1. Owns(q) /\ row' = [row EXCEPT ![KeyOf[q]].lease = TRUE]
      BY <1>1, <1>5 DEF Beat, HeartbeatFires, Renew, RenewThrows
    <2>2. row'[KeyOf[r]].status = row[KeyOf[r]].status
          /\ row'[KeyOf[r]].owner = row[KeyOf[r]].owner
      BY <1>0, <2>1 DEF TypeOK
    <2> QED BY <2>2
  <1>6. ASSUME NEW k \in Key, LeaseExpires(k) PROVE FALSE
    <2>1. row'[KeyOf[r]].status = row[KeyOf[r]].status
          /\ row'[KeyOf[r]].owner = row[KeyOf[r]].owner
      BY <1>0, <1>6 DEF LeaseExpires, TypeOK
    <2> QED BY <2>1
  <1>7. (\A q \in Request : ~Arrive(q) /\ ~Wait(q)) /\ \A n \in Node : ~Crash(n)
    BY <1>1 DEF Arrive, Wait, DeadlinePasses, PollAgain, GiveUp,
                PauseInterrupted, Crash
  <1> QED BY <1>1, <1>2, <1>3, <1>4, <1>5, <1>6, <1>7 DEF Next, vars

\* Nobody takes a key from an owner whose lease still runs.
THEOREM LiveLeases == Spec => LiveLeaseNeverStolen
  <1>1. IInv /\ [Next]_vars =>
          [\A r \in Request :
             Owns(r) /\ RowOf(r).lease /\ ~Owns(r)' =>
               \/ stage[r] = "running" /\ r \in committed'
               \/ stage[r] = "failing" /\ RowOf(r)'.status = "FAILED"]_vars
    BY LiveLeaseStep
  <1> QED BY <1>1, Invariance, PTL DEF Spec, LiveLeaseNeverStolen

\* A request without ownership that ends its operation, fails or renews writes
\* nothing: each of those updates is conditional on its own token.
LEMMA StaleOwnerStep ==
  ASSUME IInv, [Next]_vars, NEW r \in Request, ~Owns(r),
         \/ stage[r] \in Executing /\ stage'[r] # stage[r]
         \/ Renewing(r) /\ heartbeat'[r] # heartbeat[r]
  PROVE  row' = row
  <1>0. TypeOK BY DEF IInv
  <1>1. stage[r] \in Executing \cup Ended
    BY DEF IInv, HeartbeatAfterClaim, Renewing
  <1>2. stage'[r] # stage[r] \/ heartbeat'[r] # heartbeat[r]
    OBVIOUS
  <1> USE <1>0 DEF TypeOK, Goto
  <1>3. ASSUME NEW q \in Request, Arrive(q) \/ Wait(q) PROVE row' = row
    BY <1>3 DEF Arrive, Wait, DeadlinePasses, PollAgain, GiveUp, PauseInterrupted
  <1>4. ASSUME NEW q \in Request, Resolve(q) PROVE row' = row
    <2>1. CASE ResolveClaim(q) \/ InsertOwned(q)
      <3>1. q # r
        BY <1>1, <2>1 DEF ResolveClaim, InsertOwned, Resolving, Inserting,
                          Executing, Ended
      <3>2. stage'[r] = stage[r] /\ heartbeat'[r] = heartbeat[r]
        BY <2>1, <3>1 DEF ResolveClaim, InsertOwned
      <3> QED BY <1>2, <3>2
    <2>2. CASE ~(ResolveClaim(q) \/ InsertOwned(q))
      BY <1>4, <2>2 DEF Resolve, ResolveAbsent, ResolveConflict, ResolveReplay,
                        ResolvePending, InsertCollides
    <2> QED BY <2>1, <2>2
  <1>5. ASSUME NEW q \in Request, Operate(q) PROVE row' = row
    <2>1. CASE Commit(q)
      <3>1. q # r BY <2>1 DEF Commit
      <3>2. stage'[r] = stage[r] /\ heartbeat'[r] = heartbeat[r]
        BY <2>1, <3>1 DEF Commit
      <3> QED BY <1>2, <3>2
    <2>2. CASE OwnershipLost(q) \/ OperationFails(q) \/ ReturnJoined(q)
      BY <2>2 DEF OwnershipLost, OperationFails, ReturnJoined
    <2> QED BY <1>5, <2>1, <2>2 DEF Operate
  <1>6. ASSUME NEW q \in Request, Conclude(q) PROVE row' = row
    <2>1. CASE Fail(q)
      <3>1. CASE q = r
        BY <2>1, <3>1 DEF Fail, FailedRow, RowOf
      <3>2. CASE q # r
        <4>1. stage'[r] = stage[r] /\ heartbeat'[r] = heartbeat[r]
          BY <2>1, <3>2 DEF Fail
        <4> QED BY <1>2, <4>1
      <3> QED BY <3>1, <3>2
    <2>2. CASE ReturnResult(q) \/ ThrowAfterCommit(q)
      BY <2>2 DEF ReturnResult, ThrowAfterCommit
    <2> QED BY <1>6, <2>1, <2>2 DEF Conclude
  <1>7. ASSUME NEW q \in Request, Beat(q) PROVE row' = row
    <2>1. CASE Renew(q)
      <3>1. CASE q = r BY <2>1, <3>1 DEF Renew
      <3>2. CASE q # r
        <4>1. stage'[r] = stage[r] /\ heartbeat'[r] = heartbeat[r]
          BY <2>1, <3>2 DEF Renew
        <4> QED BY <1>2, <4>1
      <3> QED BY <3>1, <3>2
    <2>2. CASE HeartbeatFires(q) \/ RenewThrows(q)
      BY <2>2 DEF HeartbeatFires, RenewThrows
    <2> QED BY <1>7, <2>1, <2>2 DEF Beat
  <1>8. ASSUME NEW k \in Key, LeaseExpires(k) PROVE row' = row
    BY <1>2, <1>8 DEF LeaseExpires
  <1>9. ASSUME NEW n \in Node, Crash(n) PROVE row' = row
    BY <1>9 DEF Crash
  <1> QED BY <1>3, <1>4, <1>5, <1>6, <1>7, <1>8, <1>9 DEF Next, vars

\* The late steps of a request that lost its key never reach the database.
THEOREM StaleOwners == Spec => StaleOwnerIsHarmless
  <1>1. IInv /\ [Next]_vars =>
          [\A r \in Request :
             /\ ~Owns(r)
             /\ \/ stage[r] \in Executing /\ stage'[r] # stage[r]
                \/ Renewing(r) /\ heartbeat'[r] # heartbeat[r]
             => row' = row]_vars
    BY StaleOwnerStep
  <1> QED BY <1>1, Invariance, PTL DEF Spec, StaleOwnerIsHarmless

----------------------------------------------------------------------------
(* CommandIdempotency implements IdempotentCommand. *)

\* What a caller can see of the rows: fingerprints and stored responses.
SameView == \A k \in Key : row'[k].print = row[k].print
                            /\ row'[k].response = row[k].response

\* A step of the coordinator or the store that a caller cannot see.
LEMMA ViewStutters ==
  ASSUME TypeOK, SameView, answer' = answer
  PROVE  UNCHANGED Promise!absVars
  BY DEF SameView, TypeOK, Promise!absVars

\* The functions a caller sees keep their values when every entry does.
LEMMA ViewAnswers ==
  ASSUME TypeOK, SameView
  PROVE  /\ [k \in Key |-> row[k].print]' = [k \in Key |-> row[k].print]
         /\ [k \in Key |-> row[k].response]' = [k \in Key |-> row[k].response]
  BY DEF SameView, TypeOK

\* Requests still in the loop or executing have no answer yet.
LEMMA NoAnswerYet ==
  ASSUME IInv, NEW r \in Request, stage[r] \notin Ended
  PROVE  answer[r] = None
  BY DEF IInv, AnswerAtEnd

\* Every step of the layer is a step of IdempotentCommand or a stutter.
LEMMA StepKeepsPromise == IInv /\ [Next]_vars => [Promise!Next]_(Promise!absVars)
  <1> SUFFICES ASSUME IInv, [Next]_vars
               PROVE  [Promise!Next]_(Promise!absVars)
    OBVIOUS
  <1>0. TypeOK /\ \A k \in Key : row[k] \in Row \cup {NoRow}
    BY DEF IInv, TypeOK
  <1>k. \A r \in Request : KeyOf[r] \in Key /\ PrintOf[r] \in Fingerprint
    OBVIOUS
  <1>v. ASSUME row' = row PROVE SameView
    BY <1>v DEF SameView
  <1>1. ASSUME NEW r \in Request, Arrive(r) PROVE UNCHANGED Promise!absVars
    BY <1>0, <1>1, <1>v, ViewStutters DEF Arrive
  <1>2. ASSUME NEW r \in Request, Resolve(r) PROVE [Promise!Next]_(Promise!absVars)
    <2>1. CASE ResolveAbsent(r)
      BY <1>0, <2>1, <1>v, ViewStutters DEF ResolveAbsent
    <2>2. CASE ResolveConflict(r)
      <3>1. answer[r] = None
        BY <2>2, NoAnswerYet DEF ResolveConflict, Resolving, Ended
      <3>2. RowOf(r).print \notin {None, PrintOf[r]}
        BY <1>0, <1>k, <2>2, RowShape DEF ResolveConflict, RowOf
      <3>3. SameView BY <2>2, <1>v DEF ResolveConflict
      <3>4. Promise!Conflict(r)
        BY <1>0, <1>k, <2>2, <3>1, <3>2, <3>3, ViewAnswers
           DEF ResolveConflict, Promise!Conflict, RowOf
      <3> QED BY <3>4 DEF Promise!Next
    <2>3. CASE ResolveReplay(r)
      <3>1. answer[r] = None
        BY <2>3, NoAnswerYet DEF ResolveReplay, Resolving, Ended
      <3>2. RowOf(r).response # None /\ RowOf(r).print = PrintOf[r]
        BY <1>0, <1>k, <2>3, RowShape DEF ResolveReplay, RowOf
      <3>3. SameView BY <2>3, <1>v DEF ResolveReplay
      <3>4. Promise!Succeed(r)
        BY <1>0, <1>k, <2>3, <3>1, <3>2, <3>3, ViewAnswers
           DEF ResolveReplay, Promise!Succeed, RowOf
      <3> QED BY <3>4 DEF Promise!Next
    <2>4. CASE ResolveClaim(r)
      <3>1. RowOf(r).response = None
        BY <1>0, <1>k, <2>4, RowShape DEF ResolveClaim, Claimable, RowOf
      <3>2. SameView
        BY <1>0, <1>k, <2>4, <3>1
           DEF ResolveClaim, SameView, OwnedRow, RowOf, TypeOK
      <3> QED BY <1>0, <3>2, <2>4, ViewStutters DEF ResolveClaim
    <2>5. CASE ResolvePending(r)
      BY <1>0, <2>5, <1>v, ViewStutters DEF ResolvePending
    <2>6. CASE InsertOwned(r)
      <3>1. RowOf(r) = NoRow
        BY <1>0, <1>k, <2>6, RowShape DEF InsertOwned, RowOf
      <3>2. row' = [row EXCEPT ![KeyOf[r]] = OwnedRow(r)] /\ answer' = answer
        BY <2>6 DEF InsertOwned
      <3>3. [k \in Key |-> row[k].print]' =
              [[k \in Key |-> row[k].print] EXCEPT ![KeyOf[r]] = PrintOf[r]]
        BY <1>0, <1>k, <3>2 DEF OwnedRow, TypeOK
      <3>4. [k \in Key |-> row[k].response]' = [k \in Key |-> row[k].response]
        BY <1>0, <1>k, <3>1, <3>2 DEF OwnedRow, TypeOK, NoRow, RowOf
      <3>5. Promise!Bind(r)
        BY <1>k, <3>1, <3>2, <3>3, <3>4 DEF Promise!Bind, NoRow, RowOf
      <3> QED BY <3>5 DEF Promise!Next
    <2>7. CASE InsertCollides(r)
      <3>1. answer[r] = None
        BY <2>7, NoAnswerYet DEF InsertCollides, Inserting, Ended
      <3>2. stage[r] = "insert"
        BY <2>7 DEF InsertCollides, Inserting, IInv, OneRetrySuffices
      <3>3. answer' = answer
        BY <1>0, <2>7, <3>1, <3>2 DEF InsertCollides, TypeOK
      <3> QED BY <1>0, <2>7, <3>3, <1>v, ViewStutters DEF InsertCollides
    <2> QED BY <1>2, <2>1, <2>2, <2>3, <2>4, <2>5, <2>6, <2>7 DEF Resolve
  <1>3. ASSUME NEW r \in Request, Wait(r) PROVE [Promise!Next]_(Promise!absVars)
    <2>1. CASE DeadlinePasses(r) \/ PollAgain(r)
      BY <1>0, <2>1, <1>v, ViewStutters DEF DeadlinePasses, PollAgain
    <2>2. CASE GiveUp(r) \/ PauseInterrupted(r)
      <3>1. answer[r] = None
        BY <2>2, NoAnswerYet DEF GiveUp, PauseInterrupted, Ended
      <3>2. SameView BY <2>2, <1>v DEF GiveUp, PauseInterrupted
      <3>3. Promise!Refuse(r)
        BY <1>0, <2>2, <3>1, <3>2, ViewAnswers
           DEF GiveUp, PauseInterrupted, Promise!Refuse
      <3> QED BY <3>3 DEF Promise!Next
    <2> QED BY <1>3, <2>1, <2>2 DEF Wait
  <1>4. ASSUME NEW r \in Request, Operate(r) PROVE [Promise!Next]_(Promise!absVars)
    <2>1. CASE Commit(r)
      <3>1. /\ row[KeyOf[r]].status = "PENDING"
            /\ row[KeyOf[r]].owner = r
            /\ row[KeyOf[r]].response = None
        BY <1>0, <1>k, <2>1, RowShape DEF Commit, Owns, RowOf
      <3>2. row[KeyOf[r]].print = PrintOf[r]
        BY <1>k, <3>1 DEF IInv, RowNamesItsRequests
      <3>3. row[KeyOf[r]] \in Row
        BY <1>0, <1>k, <3>1 DEF NoRow
      <3> DEFINE new == [row[KeyOf[r]] EXCEPT !.status = "COMPLETED", !.owner = None,
                                              !.lease = FALSE, !.response = r]
      <3>4. new.print = row[KeyOf[r]].print /\ new.response = r
        BY <3>3, <3>1 DEF Row
      <3>5. row' = [row EXCEPT ![KeyOf[r]] = new] /\ answer' = answer
        BY <2>1 DEF Commit
      <3> HIDE DEF new
      <3>6. [k \in Key |-> row[k].print]' = [k \in Key |-> row[k].print]
        BY <1>0, <1>k, <3>4, <3>5 DEF TypeOK
      <3>7. [k \in Key |-> row[k].response]' =
              [[k \in Key |-> row[k].response] EXCEPT ![KeyOf[r]] = r]
        BY <1>0, <1>k, <3>4, <3>5 DEF TypeOK
      <3>8. Promise!Perform(r)
        BY <1>k, <3>1, <3>2, <3>5, <3>6, <3>7 DEF Promise!Perform
      <3> QED BY <3>8 DEF Promise!Next
    <2>2. CASE OwnershipLost(r) \/ OperationFails(r)
      BY <1>0, <2>2, <1>v, ViewStutters DEF OwnershipLost, OperationFails
    <2>3. CASE ReturnJoined(r)
      <3>1. answer[r] = None
        BY <2>3, NoAnswerYet DEF ReturnJoined, Ended
      <3>2. /\ row[KeyOf[r]].response # None
            /\ row[KeyOf[r]].print = PrintOf[r]
        BY <1>0, <1>k, <2>3, RowShape
           DEF ReturnJoined, IInv, OwnerMatchesFingerprint, Executing, RowOf
      <3>3. SameView BY <2>3, <1>v DEF ReturnJoined
      <3>4. Promise!Succeed(r)
        BY <1>0, <1>k, <2>3, <3>1, <3>2, <3>3, ViewAnswers
           DEF ReturnJoined, Promise!Succeed, RowOf
      <3> QED BY <3>4 DEF Promise!Next
    <2> QED BY <1>4, <2>1, <2>2, <2>3 DEF Operate
  <1>5. ASSUME NEW r \in Request, Conclude(r) PROVE [Promise!Next]_(Promise!absVars)
    <2>1. CASE ReturnResult(r)
      <3>1. answer[r] = None
        BY <2>1, NoAnswerYet DEF ReturnResult, Ended
      <3>2. /\ row[KeyOf[r]].response = r
            /\ row[KeyOf[r]].print = PrintOf[r]
        BY <1>k, <2>1 DEF ReturnResult, IInv, CommittedStage, EffectIffCompleted,
                          OwnerMatchesFingerprint, Executing, RowOf
      <3>3. SameView BY <2>1, <1>v DEF ReturnResult
      <3>4. Promise!Succeed(r)
        BY <1>0, <1>k, <2>1, <3>1, <3>2, <3>3, ViewAnswers
           DEF ReturnResult, Promise!Succeed
      <3> QED BY <3>4 DEF Promise!Next
    <2>2. CASE ThrowAfterCommit(r)
      BY <1>0, <2>2, <1>v, ViewStutters DEF ThrowAfterCommit
    <2>3. CASE Fail(r)
      <3>1. answer[r] = None
        BY <2>3, NoAnswerYet DEF Fail, Ended
      <3>2. SameView
        <4>1. FailedRow(r).print = RowOf(r).print
              /\ FailedRow(r).response = RowOf(r).response
          <5>1. CASE Owns(r)
            <6>1. row[KeyOf[r]] \in Row
              BY <1>0, <1>k, <5>1 DEF Owns, NoRow, RowOf
            <6> QED BY <5>1, <6>1 DEF FailedRow, Row, RowOf
          <5>2. CASE ~Owns(r) BY <5>2 DEF FailedRow
          <5> QED BY <5>1, <5>2
        <4> HIDE DEF FailedRow
        <4> QED BY <1>0, <1>k, <2>3, <4>1 DEF Fail, SameView, TypeOK, RowOf
      <3>3. Promise!Refuse(r)
        BY <1>0, <2>3, <3>1, <3>2, ViewAnswers DEF Fail, Promise!Refuse
      <3> QED BY <3>3 DEF Promise!Next
    <2> QED BY <1>5, <2>1, <2>2, <2>3 DEF Conclude
  <1>6. ASSUME NEW r \in Request, Beat(r) PROVE UNCHANGED Promise!absVars
    <2>1. CASE HeartbeatFires(r) \/ RenewThrows(r)
      BY <1>0, <2>1, <1>v, ViewStutters DEF HeartbeatFires, RenewThrows
    <2>2. CASE Renew(r)
      <3>1. SameView
        BY <1>0, <1>k, <2>2 DEF Renew, SameView, TypeOK
      <3> QED BY <1>0, <2>2, <3>1, ViewStutters DEF Renew
    <2> QED BY <1>6, <2>1, <2>2 DEF Beat
  <1>7. ASSUME NEW k \in Key, LeaseExpires(k) PROVE UNCHANGED Promise!absVars
    <2>1. SameView BY <1>0, <1>7 DEF LeaseExpires, SameView, TypeOK
    <2> QED BY <1>0, <1>7, <2>1, ViewStutters DEF LeaseExpires
  <1>8. ASSUME NEW n \in Node, Crash(n) PROVE UNCHANGED Promise!absVars
    BY <1>0, <1>8, <1>v, ViewStutters DEF Crash
  <1>9. CASE UNCHANGED vars
    BY <1>0, <1>9, <1>v, ViewStutters DEF vars
  <1> QED BY <1>1, <1>2, <1>3, <1>4, <1>5, <1>6, <1>7, <1>8, <1>9 DEF Next

\* However the coordinator, the store, leases and crashes interleave, callers
\* see what IdempotentCommand allows: a key is bound once, its effect happens
\* once, and every success is the response of that effect.
THEOREM Implements == Spec => KeepsPromise
  <1>1. Init => Promise!Init
    BY DEF Init, NoRow, Promise!Init
  <1> QED BY <1>1, StepKeepsPromise, Invariance, PTL DEF Spec, KeepsPromise, Promise!Spec

----------------------------------------------------------------------------
(* The analysis command: the inductive invariant. *)

\* An operation belongs to an owner in the coordinator: it runs until it has saved,
\* and then its commit is done.
OperationInStage ==
  \A r \in Request :
    /\ phase[r] \in {"read", "joined", "leading", "analyzed", "thrown"} => stage[r] = "running"
    /\ phase[r] = "saved" => stage[r] = "committed"
    /\ phase[r] = "published" => stage[r] \in {"running", "committed"}

\* A request joins only flights of its own key.
JoinedOwnKey ==
  \A r \in Request :
    phase[r] = "joined" => leader[r] \in Request /\ KeyOf[leader[r]] = KeyOf[r]

CallInv ==
  /\ IInv
  /\ CallTypeOK
  /\ OperationInStage
  /\ JoinedOwnKey
  /\ RunIffCommitted
  /\ OneRunPerVersion

\* Nothing has run at first.
LEMMA InitCallInv == CallInit => CallInv
  <1> SUFFICES ASSUME CallInit PROVE CallInv
    OBVIOUS
  <1>1. IInv
    BY InitIInv DEF CallInit
  <1>2. CallTypeOK
    BY DEF CallInit, CallTypeOK, Phase, Leading
  <1>3. \A r \in Request : phase[r] = "off"
    BY DEF CallInit
  <1>4. OperationInStage /\ JoinedOwnKey
    BY <1>3 DEF OperationInStage, JoinedOwnKey
  <1>5. RunIffCommitted /\ OneRunPerVersion
    BY DEF CallInit, Init, RunIffCommitted, OneRunPerVersion
  <1> QED BY <1>1, <1>2, <1>4, <1>5 DEF CallInv

LEMMA CallTypes ==
  ASSUME CallInv
  PROVE  /\ version \in [Ticket -> Nat] /\ open \in [Ticket -> BOOLEAN]
         /\ runs \in SUBSET Run
         /\ phase \in [Request -> Phase] /\ basis \in [Request -> Nat]
         /\ leader \in [Request -> Request \cup {None}]
         /\ \A r \in Request : phase[r] \in Leading => leader[r] = r
         /\ stage \in [Request -> Stage]
         /\ \A r \in Request : TicketOf[r] \in Ticket
  BY TicketAssumption DEF CallInv, CallTypeOK, IInv, TypeOK

----------------------------------------------------------------------------
(* Every step is a step of the layer. *)

\* The steps of an operation that the layer does not see.
LEMMA HiddenSteps ==
  ASSUME NEW r \in Request,
         \/ ReadTicket(r) \/ LeadFlight(r) \/ JoinFlight(r) \/ AiAnswers(r) \/ AiFails(r)
         \/ Reject(r) \/ Publish(r)
  PROVE  UNCHANGED vars
  BY DEF ReadTicket, LeadFlight, JoinFlight, AiAnswers, AiFails, Reject, Publish

\* A joiner returns what its own key records: its leader has the same key, and a key
\* that completed says whose response it has.
LEMMA JoinedReturnsAllowed ==
  ASSUME CallInv, NEW r \in Request, JoinedReturns(r)
  PROVE  ReturnJoined(r)
  <1>1. phase[r] = "joined" /\ leader[r] \in committed
    BY DEF JoinedReturns
  <1>2. stage[r] = "running" /\ leader[r] \in Request /\ KeyOf[leader[r]] = KeyOf[r]
    BY <1>1 DEF CallInv, OperationInStage, JoinedOwnKey
  <1>3. RowOf(leader[r]).status = "COMPLETED" /\ RowOf(leader[r]).response = leader[r]
    BY <1>1, <1>2 DEF CallInv, IInv, EffectIffCompleted
  <1>4. RowOf(r).status = "COMPLETED" /\ RowOf(r).response = leader[r]
    BY <1>2, <1>3 DEF RowOf
  <1> QED BY <1>2, <1>4 DEF JoinedReturns, ReturnJoined

LEMMA FlyAllowed ==
  ASSUME CallInv, NEW r \in Request, Fly(r)
  PROVE  [Next]_vars
  <1>1. CASE \/ ReadTicket(r) \/ LeadFlight(r) \/ JoinFlight(r) \/ AiAnswers(r) \/ AiFails(r)
             \/ Reject(r) \/ Publish(r)
    BY <1>1, HiddenSteps
  <1>2. CASE Persist(r)
    BY <1>2 DEF Persist, Next, Operate
  <1>3. CASE LeaveFlight(r)
    BY <1>3 DEF LeaveFlight, Next, Operate
  <1>4. CASE JoinedReturns(r)
    BY <1>4, JoinedReturnsAllowed DEF Next, Operate
  <1>5. CASE JoinedThrows(r)
    BY <1>5 DEF JoinedThrows, Next, Operate
  <1> QED BY <1>1, <1>2, <1>3, <1>4, <1>5 DEF Fly

LEMMA StepAllowed ==
  ASSUME CallInv, [CallNext]_allVars
  PROVE  [Next]_vars
  <1>1. ASSUME NEW r \in Request, Coordinate(r)
        PROVE  [Next]_vars
    BY <1>1 DEF Coordinate, Next
  <1>2. ASSUME NEW k \in Key, Lapse(k)
        PROVE  [Next]_vars
    BY <1>2 DEF Lapse, Next
  <1>3. ASSUME NEW t \in Ticket, EditTicket(t)
        PROVE  [Next]_vars
    BY <1>3 DEF EditTicket
  <1>4. ASSUME NEW n \in Node, CrashCalls(n)
        PROVE  [Next]_vars
    BY <1>4 DEF CrashCalls, Next
  <1>5. CASE UNCHANGED allVars
    BY <1>5 DEF allVars
  <1> QED BY <1>1, <1>2, <1>3, <1>4, <1>5, FlyAllowed DEF CallNext

----------------------------------------------------------------------------
(* The steps preserve the invariant. *)

\* The rest of the invariant, when no run is stored and no operation moves.
LEMMA CoordinateStep ==
  ASSUME CallInv, NEW r \in Request, Coordinate(r)
  PROVE  (CallTypeOK /\ OperationInStage /\ JoinedOwnKey /\ RunIffCommitted /\ OneRunPerVersion)'
  <1>1. UNCHANGED <<version, open, runs, phase, basis, leader>>
    BY DEF Coordinate, ticketVars, callVars
  <1>2. /\ stage' = [stage EXCEPT ![r] = stage'[r]]
        /\ committed' = committed
    BY CallTypes DEF Coordinate, Arrive, Resolve, Wait, Beat, Conclude, ResolveAbsent,
       ResolveConflict, ResolveReplay, ResolveClaim, ResolvePending, InsertOwned, InsertCollides,
       DeadlinePasses, PollAgain, GiveUp, PauseInterrupted, HeartbeatFires, Renew, RenewThrows,
       ReturnResult, ThrowAfterCommit, Fail, Goto
  <1>3. phase[r] # "off" => stage'[r] = stage[r]
    BY DEF Coordinate
  <1>4. \A q \in Request : phase[q] # "off" => stage'[q] = stage[q]
    BY <1>2, <1>3, CallTypes
  <1>5. OperationInStage'
    BY <1>1, <1>4 DEF CallInv, OperationInStage
  <1> QED BY <1>1, <1>2, <1>5
          DEF CallInv, CallTypeOK, JoinedOwnKey, RunIffCommitted, OneRunPerVersion

\* An operation that moves without a commit.
LEMMA OneOperation ==
  ASSUME CallInv, NEW r \in Request, NEW p \in Phase, NEW l \in Request \cup {None},
         Reach(r, p), leader' = [leader EXCEPT ![r] = l], basis' \in [Request -> Nat],
         UNCHANGED <<ticketVars, committed>>,
         stage' \in [Request -> Stage], \A q \in Request \ {r} : stage'[q] = stage[q],
         p \in Leading => l = r,
         p \in {"read", "joined", "leading", "analyzed", "thrown"} => stage'[r] = "running",
         p = "saved" => stage'[r] = "committed",
         p = "published" => stage'[r] \in {"running", "committed"},
         p = "joined" => l \in Request /\ KeyOf[l] = KeyOf[r]
  PROVE  (CallTypeOK /\ OperationInStage /\ JoinedOwnKey /\ RunIffCommitted /\ OneRunPerVersion)'
  <1>1. /\ phase' = [phase EXCEPT ![r] = p] /\ phase' \in [Request -> Phase]
        /\ leader' \in [Request -> Request \cup {None}]
    BY CallTypes DEF Reach
  <1>2. \A q \in Request : phase'[q] \in Leading => leader'[q] = q
    BY <1>1, CallTypes
  <1>3. OperationInStage'
    <2>1. SUFFICES ASSUME NEW q \in Request
                   PROVE  /\ phase'[q] \in {"read", "joined", "leading", "analyzed", "thrown"} =>
                               stage'[q] = "running"
                          /\ phase'[q] = "saved" => stage'[q] = "committed"
                          /\ phase'[q] = "published" => stage'[q] \in {"running", "committed"}
      BY DEF OperationInStage
    <2>2. CASE q = r
      BY <1>1, <2>2, CallTypes
    <2>3. CASE q # r
      BY <1>1, <2>3, CallTypes DEF CallInv, OperationInStage
    <2> QED BY <2>2, <2>3
  <1>4. JoinedOwnKey'
    <2>1. SUFFICES ASSUME NEW q \in Request, phase'[q] = "joined"
                   PROVE  leader'[q] \in Request /\ KeyOf[leader'[q]] = KeyOf[q]
      BY DEF JoinedOwnKey
    <2>2. CASE q = r
      BY <1>1, <2>1, <2>2, CallTypes
    <2>3. CASE q # r
      BY <1>1, <2>1, <2>3, CallTypes DEF CallInv, JoinedOwnKey
    <2> QED BY <2>2, <2>3
  <1>5. CallTypeOK'
    BY <1>1, <1>2, CallTypes DEF CallTypeOK, ticketVars
  <1> QED BY <1>3, <1>4, <1>5 DEF CallInv, RunIffCommitted, OneRunPerVersion, ticketVars

\* What the layer's own steps leave alone.
LEMMA Unmoved ==
  ASSUME CallInv, UNCHANGED vars
  PROVE  committed' = committed /\ stage' = stage /\ stage' \in [Request -> Stage]
  BY CallTypes DEF vars

LEMMA FlightStep ==
  ASSUME CallInv, NEW r \in Request,
         \/ ReadTicket(r) \/ LeadFlight(r) \/ JoinFlight(r) \/ AiAnswers(r) \/ AiFails(r)
         \/ Reject(r) \/ Publish(r)
  PROVE  (CallTypeOK /\ OperationInStage /\ JoinedOwnKey /\ RunIffCommitted /\ OneRunPerVersion)'
  <1>0. committed' = committed /\ stage' = stage /\ stage' \in [Request -> Stage]
    BY HiddenSteps, Unmoved
  <1>1. CASE ReadTicket(r)
    <2>1. /\ Reach(r, "read") /\ UNCHANGED <<ticketVars, leader>> /\ stage[r] = "running"
          /\ basis' = [basis EXCEPT ![r] = version[TicketOf[r]]]
      BY <1>1 DEF ReadTicket
    <2>2. basis' \in [Request -> Nat]
      BY <2>1, CallTypes
    <2>3. leader' = [leader EXCEPT ![r] = leader[r]] /\ leader[r] \in Request \cup {None}
      BY <2>1, CallTypes
    <2>4. "read" \in Phase /\ "read" \notin Leading
      BY DEF Phase, Leading
    <2> QED BY <1>0, <2>1, <2>2, <2>3, <2>4, OneOperation
  <1>2. CASE LeadFlight(r)
    <2>1. /\ Reach(r, "leading") /\ UNCHANGED <<ticketVars, basis>>
          /\ leader' = [leader EXCEPT ![r] = r] /\ stage[r] = "running"
          /\ basis' \in [Request -> Nat]
      BY <1>2, CallTypes DEF LeadFlight, CallInv, OperationInStage
    <2>2. "leading" \in Phase
      BY DEF Phase, Leading
    <2> QED BY <1>0, <2>1, <2>2, OneOperation
  <1>3. CASE JoinFlight(r)
    <2>1. PICK q \in Flights(r) : leader' = [leader EXCEPT ![r] = q]
      BY <1>3 DEF JoinFlight
    <2>2. q \in Request /\ KeyOf[q] = KeyOf[r]
      BY <2>1 DEF Flights, FlightKey
    <2>3. /\ Reach(r, "joined") /\ UNCHANGED <<ticketVars, basis>> /\ stage[r] = "running"
          /\ basis' \in [Request -> Nat]
      BY <1>3, CallTypes DEF JoinFlight, CallInv, OperationInStage
    <2>4. "joined" \in Phase /\ "joined" \notin Leading
      BY DEF Phase, Leading
    <2> QED BY <1>0, <2>1, <2>2, <2>3, <2>4, OneOperation
  <1>4. CASE AiAnswers(r) \/ AiFails(r) \/ Reject(r)
    <2>1. PICK p \in {"analyzed", "thrown"} : Reach(r, p)
      BY <1>4 DEF AiAnswers, AiFails, Reject
    <2>2. /\ UNCHANGED <<ticketVars, basis>> /\ stage[r] = "running" /\ basis' \in [Request -> Nat]
          /\ phase[r] \in Leading
      BY <1>4, CallTypes DEF AiAnswers, AiFails, Reject, CallInv, OperationInStage, Leading
    <2>3. leader' = [leader EXCEPT ![r] = r]
      BY <1>4, <2>2, CallTypes DEF AiAnswers, AiFails, Reject
    <2>4. p \in Phase
      BY DEF Phase, Leading
    <2> QED BY <1>0, <2>1, <2>2, <2>3, <2>4, OneOperation
  <1>5. CASE Publish(r)
    <2>1. /\ Reach(r, "published") /\ UNCHANGED <<ticketVars, basis>>
          /\ stage[r] \in {"running", "committed"} /\ basis' \in [Request -> Nat]
          /\ phase[r] \in Leading
      BY <1>5, CallTypes DEF Publish, CallInv, OperationInStage, Leading
    <2>2. leader' = [leader EXCEPT ![r] = r]
      BY <1>5, <2>1, CallTypes DEF Publish
    <2>3. "published" \in Phase
      BY DEF Phase, Leading
    <2> QED BY <1>0, <2>1, <2>2, <2>3, OneOperation
  <1> QED BY <1>1, <1>2, <1>3, <1>4, <1>5

LEMMA LeaveStep ==
  ASSUME CallInv, NEW r \in Request, LeaveFlight(r) \/ JoinedReturns(r) \/ JoinedThrows(r)
  PROVE  (CallTypeOK /\ OperationInStage /\ JoinedOwnKey /\ RunIffCommitted /\ OneRunPerVersion)'
  <1>1. /\ Reach(r, "off") /\ leader' = [leader EXCEPT ![r] = None]
        /\ UNCHANGED <<ticketVars, basis>>
    BY DEF LeaveFlight, JoinedReturns, JoinedThrows
  <1>2. PICK s \in Stage : stage' = [stage EXCEPT ![r] = s]
    <2>1. stage' = stage \/ Goto(r, "failing") \/ Goto(r, "done")
      BY DEF LeaveFlight, JoinedReturns, JoinedThrows, OperationFails, vars
    <2>2. "failing" \in Stage /\ "done" \in Stage
      BY DEF Stage, Executing, Ended
    <2>3. stage[r] \in Stage /\ (stage' = stage => stage' = [stage EXCEPT ![r] = stage[r]])
      BY CallTypes
    <2> QED BY <2>1, <2>2, <2>3 DEF Goto
  <1>3. committed' = committed
    BY DEF LeaveFlight, JoinedReturns, JoinedThrows, OperationFails, vars
  <1>4. "off" \in Phase /\ "off" \notin Leading /\ basis' \in [Request -> Nat]
    BY <1>1, CallTypes DEF Phase, Leading
  <1>5. stage' \in [Request -> Stage] /\ \A q \in Request \ {r} : stage'[q] = stage[q]
    BY <1>2, CallTypes
  <1> QED BY <1>1, <1>3, <1>4, <1>5, OneOperation

\* An analysis that is stored is the first of its command and of its version.
LEMMA PersistStep ==
  ASSUME CallInv, NEW r \in Request, Persist(r)
  PROVE  (CallTypeOK /\ OperationInStage /\ JoinedOwnKey /\ RunIffCommitted /\ OneRunPerVersion)'
  <1> DEFINE t == TicketOf[r]
             new == [ticket |-> t, source |-> basis[r], by |-> r]
  <1>1. /\ phase[r] = "analyzed" /\ version[t] = basis[r] /\ Commit(r)
        /\ runs' = runs \cup {new} /\ version' = [version EXCEPT ![t] = @ + 1]
        /\ Reach(r, "saved") /\ UNCHANGED <<open, basis, leader>>
    BY DEF Persist, Fresh
  <1>2. /\ version \in [Ticket -> Nat] /\ runs \in SUBSET Run /\ t \in Ticket /\ basis[r] \in Nat
    BY CallTypes
  <1>3. /\ committed' = committed \cup {r} /\ stage' = [stage EXCEPT ![r] = "committed"]
        /\ Owns(r)
    BY <1>1 DEF Commit, Goto
  <1>4. new \in Run /\ new.by = r /\ new.source = basis[r] /\ new.ticket = t
    BY <1>2 DEF Run
  <1> HIDE DEF new, t
  <1>5. r \notin committed
    BY <1>3 DEF Owns, CallInv, IInv, EffectIffCompleted
  <1>6. RunIffCommitted'
    <2>1. /\ committed = {run.by : run \in runs}
          /\ \A run, other \in runs : run.by = other.by => run = other
      BY DEF CallInv, RunIffCommitted
    <2>2. committed' = {run.by : run \in runs'}
      BY <1>1, <1>3, <1>4, <2>1
    <2>3. \A run \in runs : run.by # r
      BY <1>5, <2>1
    <2>4. \A run, other \in runs' : run.by = other.by => run = other
      BY <1>1, <1>4, <2>1, <2>3
    <2> QED BY <2>2, <2>4 DEF RunIffCommitted
  <1>7. OneRunPerVersion'
    <2>1. /\ \A run, other \in runs :
               run.ticket = other.ticket /\ run.source = other.source => run = other
          /\ \A run \in runs : run.source < version[run.ticket] /\ run.source \in Nat
                               /\ run.ticket \in Ticket
      BY <1>2 DEF CallInv, OneRunPerVersion, Run
    <2>2. \A run \in runs : run.ticket = t => run.source # basis[r]
      BY <1>1, <1>2, <2>1
    <2>3. ASSUME NEW run \in runs', NEW other \in runs',
                 run.ticket = other.ticket, run.source = other.source
          PROVE  run = other
      BY <1>1, <1>4, <2>1, <2>2, <2>3
    <2>4. ASSUME NEW run \in runs'
          PROVE  run.source < version'[run.ticket]
      <3>1. CASE run \in runs
        BY <1>1, <1>2, <2>1, <3>1
      <3>2. CASE run = new
        BY <1>1, <1>2, <1>4, <3>2
      <3> QED BY <1>1, <3>1, <3>2
    <2> QED BY <2>3, <2>4 DEF OneRunPerVersion
  <1>8. /\ phase' = [phase EXCEPT ![r] = "saved"] /\ "saved" \in Phase
    BY <1>1 DEF Reach, Phase, Leading
  <1>9. OperationInStage'
    <2>1. SUFFICES ASSUME NEW q \in Request
                   PROVE  /\ phase'[q] \in {"read", "joined", "leading", "analyzed", "thrown"} =>
                               stage'[q] = "running"
                          /\ phase'[q] = "saved" => stage'[q] = "committed"
                          /\ phase'[q] = "published" => stage'[q] \in {"running", "committed"}
      BY DEF OperationInStage
    <2>2. CASE q = r
      BY <1>3, <1>8, <2>2, CallTypes
    <2>3. CASE q # r
      BY <1>3, <1>8, <2>3, CallTypes DEF CallInv, OperationInStage
    <2> QED BY <2>2, <2>3
  <1>10. JoinedOwnKey'
    BY <1>1, <1>8, CallTypes DEF CallInv, JoinedOwnKey
  <1>11. CallTypeOK'
    <2>1. runs' \in SUBSET Run /\ version' \in [Ticket -> Nat] /\ phase' \in [Request -> Phase]
      BY <1>1, <1>2, <1>4, <1>8, CallTypes
    <2>2. \A q \in Request : phase'[q] \in Leading => leader'[q] = q
      BY <1>1, <1>8, CallTypes DEF Leading
    <2> QED BY <1>1, <2>1, <2>2, CallTypes DEF CallTypeOK
  <1> QED BY <1>6, <1>7, <1>9, <1>10, <1>11

LEMMA SurroundingsStep ==
  ASSUME CallInv,
         \/ \E k \in Key : Lapse(k)
         \/ \E t \in Ticket : EditTicket(t)
         \/ \E n \in Node : CrashCalls(n)
         \/ UNCHANGED allVars
  PROVE  (CallTypeOK /\ OperationInStage /\ JoinedOwnKey /\ RunIffCommitted /\ OneRunPerVersion)'
  <1>1. ASSUME NEW k \in Key, Lapse(k)
        PROVE  (CallTypeOK /\ OperationInStage /\ JoinedOwnKey /\ RunIffCommitted /\ OneRunPerVersion)'
    BY <1>1 DEF Lapse, LeaseExpires, ticketVars, callVars, CallInv, CallTypeOK, OperationInStage,
                JoinedOwnKey, RunIffCommitted, OneRunPerVersion
  <1>2. ASSUME NEW t \in Ticket, EditTicket(t)
        PROVE  (CallTypeOK /\ OperationInStage /\ JoinedOwnKey /\ RunIffCommitted /\ OneRunPerVersion)'
    <2>1. /\ version' = [version EXCEPT ![t] = @ + 1]
          /\ \E b \in BOOLEAN : open' = [open EXCEPT ![t] = b]
          /\ UNCHANGED <<vars, runs, callVars>>
      BY <1>2 DEF EditTicket
    <2>2. version' \in [Ticket -> Nat] /\ open' \in [Ticket -> BOOLEAN]
      BY <2>1, CallTypes
    <2>3. OneRunPerVersion'
      <3>1. \A run \in runs : run.source < version[run.ticket] /\ run.source \in Nat
                              /\ run.ticket \in Ticket
        BY CallTypes DEF CallInv, OneRunPerVersion, Run
      <3>2. \A run \in runs : run.source < version'[run.ticket]
        BY <2>1, <3>1, CallTypes
      <3> QED BY <2>1, <3>2 DEF CallInv, OneRunPerVersion
    <2> QED BY <2>1, <2>2, <2>3 DEF vars, callVars, CallInv, CallTypeOK, OperationInStage,
                                    JoinedOwnKey, RunIffCommitted
  <1>3. ASSUME NEW n \in Node, CrashCalls(n)
        PROVE  (CallTypeOK /\ OperationInStage /\ JoinedOwnKey /\ RunIffCommitted /\ OneRunPerVersion)'
    <2>1. /\ phase' = [r \in Request |-> IF NodeOf[r] = n THEN "off" ELSE phase[r]]
          /\ leader' = [r \in Request |-> IF NodeOf[r] = n THEN None ELSE leader[r]]
          /\ stage' = [r \in Request |-> IF NodeOf[r] = n /\ Active(r) THEN "dead" ELSE stage[r]]
          /\ UNCHANGED <<version, open, runs, basis, committed>>
      BY <1>3 DEF CrashCalls, Crash, ticketVars
    <2>2. phase' \in [Request -> Phase] /\ leader' \in [Request -> Request \cup {None}]
      BY <2>1, CallTypes DEF Phase
    <2>3. \A r \in Request : phase'[r] \in Leading => leader'[r] = r
      BY <2>1, CallTypes DEF Leading
    <2>4. CallTypeOK'
      BY <2>1, <2>2, <2>3, CallTypes DEF CallTypeOK
    <2>5. OperationInStage'
      BY <2>1 DEF CallInv, OperationInStage
    <2>6. JoinedOwnKey'
      BY <2>1 DEF CallInv, JoinedOwnKey
    <2> QED BY <2>1, <2>4, <2>5, <2>6 DEF CallInv, RunIffCommitted, OneRunPerVersion
  <1>4. CASE UNCHANGED allVars
    BY <1>4 DEF allVars, vars, ticketVars, callVars, CallInv, CallTypeOK, OperationInStage,
                JoinedOwnKey, RunIffCommitted, OneRunPerVersion
  <1> QED BY <1>1, <1>2, <1>3, <1>4

LEMMA StepCallInv ==
  ASSUME CallInv, [CallNext]_allVars
  PROVE  CallInv'
  <1>1. IInv'
    BY StepAllowed, StepIInv DEF CallInv
  <1>2. (CallTypeOK /\ OperationInStage /\ JoinedOwnKey /\ RunIffCommitted /\ OneRunPerVersion)'
    BY CoordinateStep, FlightStep, LeaveStep, PersistStep, SurroundingsStep DEF CallNext, Fly
  <1> QED BY <1>1, <1>2 DEF CallInv

LEMMA CallInvariance == CallSpec => []CallInv
  BY InitCallInv, StepCallInv, PTL DEF CallSpec

----------------------------------------------------------------------------
(* The theorems. *)

\* Every reachable state of the analysis command is well-typed.
THEOREM CallTypeCorrect == CallSpec => []CallTypeOK
  <1>1. CallInv => CallTypeOK
    BY DEF CallInv
  <1> QED BY <1>1, CallInvariance, PTL

\* A run is stored for exactly the commands whose key is completed.
THEOREM RunsAreCommitted == CallSpec => []RunIffCommitted
  <1>1. CallInv => RunIffCommitted
    BY DEF CallInv
  <1> QED BY <1>1, CallInvariance, PTL

\* Concurrent analyses of one version of a ticket never both persist.
THEOREM OneRunAVersion == CallSpec => []OneRunPerVersion
  <1>1. CallInv => OneRunPerVersion
    BY DEF CallInv
  <1> QED BY <1>1, CallInvariance, PTL

\* The analysis command commits, fails and returns only as the idempotency layer lets an
\* owner do; a joined flight reports no success that the request's own key lacks.
THEOREM Respects == CallSpec => RespectsIdempotency
  <1>1. CallInit => Init
    BY DEF CallInit
  <1>2. CallInv /\ [CallNext]_allVars => [Next]_vars
    BY StepAllowed
  <1> QED BY <1>1, <1>2, CallInvariance, PTL DEF CallSpec, RespectsIdempotency, Spec

\* However often a client repeats an analysis under one key, on whatever node and through
\* whatever flight, one run is stored for it.
OneRunPerKey ==
  \A run, other \in runs : KeyOf[run.by] = KeyOf[other.by] => run = other

\* The layer's promise of one effect carries over to the rows of analysis_runs.
THEOREM OneRunAKey == CallSpec => []OneRunPerKey
  <1>1. CallInv /\ AtMostOneEffect => OneRunPerKey
    BY DEF CallInv, AtMostOneEffect, RunIffCommitted, OneRunPerKey
  <1> QED BY <1>1, CallInvariance, Respects, AtMostOnce, PTL DEF RespectsIdempotency
===============================================================================
