---------------------------- MODULE KnowledgeRelease ----------------------------
(***************************************************************************)
(* Knowledge releases in the Java API: their lifecycle DRAFT -> APPROVED   *)
(* -> PUBLISHED -> ARCHIVED, the one active pointer, the administrators'   *)
(* commands (KnowledgeReleaseService), the start of an API instance        *)
(* (KnowledgeBaselineInitializer) and the readers of the active release    *)
(* (ActiveKnowledgeAccessProvider).                                        *)
(*                                                                         *)
(* Every command is a transaction: its first read of the target release,   *)
(* and later, in one step, its lock on the pointer, the remaining reads,   *)
(* the flush (each UPDATE conditional on the version read) and the commit. *)
(* Only holders of the pointer's lock change a PUBLISHED row, so nothing   *)
(* can come between those.  Under REPEATABLE READ (MySQL's default, set    *)
(* nowhere to another level) plain reads after the first come from the     *)
(* snapshot of the first; under READ COMMITTED (H2) they are current.      *)
(***************************************************************************)
EXTENDS Naturals, Sequences

CONSTANTS
  Release,         \* release ids
  Baseline,        \* the release configured and deployed with the API
  Command,         \* administrators' requests
  Node,            \* starting API instances
  Reader,          \* reads of the active release
  None,
  Levels,          \* the isolation levels considered, see above
  MaxVersion       \* bound: transitions of a release stop at this version

ASSUME ReleaseAssumption ==
  /\ Baseline \in Release
  /\ None \notin Release
  /\ Levels \subseteq {"REPEATABLE READ", "READ COMMITTED"}
  /\ MaxVersion \in Nat

VARIABLES
  level,     \* the database's isolation level
  release,   \* release[x]: the row of knowledge_releases
  pointer,   \* knowledge_active_release: a release, or None before the row exists
  audit,     \* knowledge events, in the order of their commits
  request,   \* request[c]: an administrator's request
  pc,        \* pc[c]: how far the command is
  snapshot,  \* snapshot[c]: the releases at the transaction's first read
  node,      \* node[n]: how far the start of an instance is
  access     \* access[q]: what a reader read so far

rows == <<level, release, pointer, audit>>
vars == <<level, release, pointer, audit, request, pc, snapshot, node, access>>

Status == {"DRAFT", "APPROVED", "PUBLISHED", "ARCHIVED"}
NoRow == [status |-> "ABSENT", version |-> 0]
Table == [Release -> [status : Status, version : Nat] \cup {NoRow}]
Kind == {"approve", "publish", "rollback"}
Request == [kind : Kind, target : Release, expected : Nat]
NoRequest == [kind |-> "none"]
NoSnapshot == [x \in Release |-> NoRow]
Event == [action : {"APPROVED", "PUBLISHED", "ROLLED_BACK"}, target : Release, version : Nat]
NothingRead == [pointer |-> None, status |-> "ABSENT", granted |-> None]
Access == [pointer : Release \cup {None}, status : Status \cup {"ABSENT"},
           granted : Release \cup {None}]

ReleaseTypeOK ==
  /\ level \in Levels
  /\ release \in Table
  /\ pointer \in Release \cup {None}
  /\ pointer # None => release[pointer].status = "PUBLISHED"
  /\ audit \in Seq(Event)
  /\ request \in [Command -> Request \cup {NoRequest}]
  /\ pc \in [Command -> {"idle", "sent", "checked", "ok", "refused"}]
  /\ snapshot \in [Command -> Table]
  /\ node \in [Node -> {"down", "starting", "up", "failed"}]
  /\ access \in [Reader -> Access]

Init ==
  /\ level \in Levels
  /\ release = [x \in Release |-> NoRow]
  /\ pointer = None
  /\ audit = <<>>
  /\ request = [c \in Command |-> NoRequest]
  /\ pc = [c \in Command |-> "idle"]
  /\ snapshot = [c \in Command |-> NoSnapshot]
  /\ node = [n \in Node |-> "down"]
  /\ access = [q \in Reader |-> NothingRead]

Goto(c, place) == pc' = [pc EXCEPT ![c] = place]

\* A command is answered; its transaction and its snapshot are gone.
End(c, outcome) ==
  /\ Goto(c, outcome)
  /\ request' = [request EXCEPT ![c] = NoRequest]
  /\ snapshot' = [snapshot EXCEPT ![c] = NoSnapshot]

Target(c) == request[c].target

\* A flushed entity: its new status and the next version.
Moved(row, status) == [status |-> status, version |-> row.version + 1]

Audit(action, x, version) ==
  audit' = Append(audit, [action |-> action, target |-> x, version |-> version])

----------------------------------------------------------------------------
(* Drafts, and what an administrator asks for. *)

\* Requests are served once an instance is up, and so has found or inserted
\* the pointer.
Served == \E n \in Node : node[n] = "up"

Create(x) ==
  /\ Served
  /\ release[x] = NoRow
  /\ release' = [release EXCEPT ![x] = [status |-> "DRAFT", version |-> 0]]
  /\ UNCHANGED <<level, pointer, audit, request, pc, snapshot, node, access>>

\* The request carries the version shown to the administrator.
Send(c) ==
  /\ Served
  /\ pc[c] = "idle"
  /\ \E k \in Kind, x \in Release :
       /\ release[x] # NoRow
       /\ release[x].version < MaxVersion
       /\ request' = [request EXCEPT ![c] =
                        [kind |-> k, target |-> x, expected |-> release[x].version]]
  /\ Goto(c, "sent")
  /\ UNCHANGED <<rows, snapshot, node, access>>

\* The status from which each command is legal.
Source(k) == CASE k = "approve" -> "DRAFT" [] k = "publish" -> "APPROVED"
               [] k = "rollback" -> "ARCHIVED"

Legal(c) ==
  /\ release[Target(c)].version = request[c].expected
  /\ release[Target(c)].status = Source(request[c].kind)

\* checked(), and the comparison of the status.
Check(c) ==
  /\ pc[c] = "sent"
  /\ Legal(c)
  /\ snapshot' = [snapshot EXCEPT ![c] = release]
  /\ Goto(c, "checked")
  /\ UNCHANGED <<rows, request, node, access>>

Refuse(c) ==
  /\ pc[c] = "sent"
  /\ ~Legal(c)
  /\ End(c, "refused")
  /\ UNCHANGED <<rows, node, access>>

----------------------------------------------------------------------------
(* The rest of a command's transaction. *)

\* UPDATE ... WHERE version = ? finds the row that was read.
Updates(read, x) == release[x].version = read[x].version

Approve(c) ==
  /\ pc[c] = "checked" /\ request[c].kind = "approve"
  /\ Updates(snapshot[c], Target(c))
  /\ release' = [release EXCEPT ![Target(c)] = Moved(snapshot[c][Target(c)], "APPROVED")]
  /\ Audit("APPROVED", Target(c), snapshot[c][Target(c)].version + 1)
  /\ End(c, "ok")
  /\ UNCHANGED <<level, pointer, node, access>>

\* What plain reads after the pointer's lock return.
View(c) == IF level = "REPEATABLE READ" THEN snapshot[c] ELSE release

\* archive(): an entity whose status does not change is not dirty, and then no
\* UPDATE is issued and no version compared.
Dirty(c, x) == View(c)[x].status # "ARCHIVED"

\* current.archive() can be flushed.
CanArchive(c, x) ==
  /\ View(c)[x] # NoRow
  /\ Dirty(c, x) => Updates(View(c), x)

\* Mutant: the previous release is not archived.
SwitchedOnly(c) ==
  [release EXCEPT ![Target(c)] = Moved(snapshot[c][Target(c)], "PUBLISHED")]

\* The rows after the switch from the release the pointer named to the target.
Switched(c) ==
  [x \in Release |->
     CASE x = Target(c) -> Moved(snapshot[c][x], "PUBLISHED")
       [] x = pointer /\ x # Target(c) /\ Dirty(c, x) -> Moved(View(c)[x], "ARCHIVED")
       [] OTHER -> release[x]]

CanPublish(c) ==
  /\ Updates(snapshot[c], Target(c))
  /\ pointer # Target(c) => CanArchive(c, pointer)

Publish(c) ==
  /\ pc[c] = "checked" /\ request[c].kind = "publish"
  /\ CanPublish(c)
  /\ release' = Switched(c)
  /\ pointer' = Target(c)
  /\ Audit("PUBLISHED", Target(c), snapshot[c][Target(c)].version + 1)
  /\ End(c, "ok")
  /\ UNCHANGED <<level, node, access>>

\* rollback: the current release must look PUBLISHED; if the pointer already
\* names the target, the target's own ARCHIVED entity is what is found.
CanRollback(c) ==
  /\ pointer # Target(c)
  /\ View(c)[pointer].status = "PUBLISHED"
  /\ Updates(View(c), pointer)
  /\ Updates(snapshot[c], Target(c))

Rollback(c) ==
  /\ pc[c] = "checked" /\ request[c].kind = "rollback"
  /\ CanRollback(c)
  /\ release' = Switched(c)
  /\ pointer' = Target(c)
  /\ Audit("ROLLED_BACK", Target(c), snapshot[c][Target(c)].version + 1)
  /\ End(c, "ok")
  /\ UNCHANGED <<level, node, access>>

\* Mutant: the audit event survives the transaction that rolls back.
AuditedFailure(c) ==
  /\ pc[c] = "checked" /\ request[c].kind = "publish" /\ ~CanPublish(c)
  /\ Audit("PUBLISHED", Target(c), snapshot[c][Target(c)].version + 1)
  /\ End(c, "refused")
  /\ UNCHANGED <<level, release, pointer, node, access>>

\* A stale version, or a current release that is not there or not PUBLISHED:
\* the transaction rolls back.
Fail(c) ==
  /\ pc[c] = "checked"
  /\ CASE request[c].kind = "approve" -> ~Updates(snapshot[c], Target(c))
       [] request[c].kind = "publish" -> ~CanPublish(c)
       [] request[c].kind = "rollback" -> ~CanRollback(c)
  /\ End(c, "refused")
  /\ UNCHANGED <<rows, node, access>>

----------------------------------------------------------------------------
(* An instance starts. *)

\* The pointer exists: the active release must be PUBLISHED and be the one the
\* deployed corpus belongs to.
StartOnPointer(n) ==
  /\ node[n] = "down"
  /\ pointer # None
  /\ node' = [node EXCEPT ![n] =
       IF pointer = Baseline /\ release[Baseline].status = "PUBLISHED"
       THEN "up" ELSE "failed"]
  /\ UNCHANGED <<rows, request, pc, snapshot, access>>

\* existsById finds no pointer.
StartWithoutPointer(n) ==
  /\ node[n] = "down"
  /\ pointer = None
  /\ node' = [node EXCEPT ![n] = "starting"]
  /\ UNCHANGED <<rows, request, pc, snapshot, access>>

\* The baseline is created PUBLISHED and the pointer inserted.
InsertBaseline(n) ==
  /\ node[n] = "starting"
  /\ pointer = None
  /\ release' = [release EXCEPT ![Baseline] = [status |-> "PUBLISHED", version |-> 0]]
  /\ pointer' = Baseline
  /\ node' = [node EXCEPT ![n] = "up"]
  /\ UNCHANGED <<level, audit, request, pc, snapshot, access>>

\* Another instance inserted the rows first.  Depending on what this one has
\* read, it finds the same rows, or its insert or its versions collide; it
\* never changes rows that an administrator has moved since.
StartLate(n) ==
  /\ node[n] = "starting"
  /\ pointer # None
  /\ \E outcome \in {"up", "failed"} :
       /\ outcome = "up" => release[Baseline].version = 0
       /\ node' = [node EXCEPT ![n] = outcome]
  /\ UNCHANGED <<rows, request, pc, snapshot, access>>

----------------------------------------------------------------------------
(* Readers of the active release. *)

\* The first read of the transaction, which fixes its snapshot: with the pointer
\* it fixes the status in which the snapshot shows the pointer's release.
ReadPointer(q) ==
  /\ Served
  /\ access[q] = NothingRead
  /\ access' = [access EXCEPT ![q] =
       [pointer |-> pointer, status |-> release[pointer].status, granted |-> None]]
  /\ UNCHANGED <<rows, request, pc, snapshot, node>>

\* The second read finds the release as the snapshot has it, or as it is now.
Found(q) ==
  IF level = "REPEATABLE READ" THEN access[q].status ELSE release[access[q].pointer].status

\* Mutant: the release's status is not compared.
GrantAnyStatus(q) ==
  /\ access[q].pointer # None /\ access[q].granted = None
  /\ access' = [access EXCEPT ![q].granted = access[q].pointer]
  /\ UNCHANGED <<rows, request, pc, snapshot, node>>

\* The release is read and found PUBLISHED.
Grant(q) ==
  /\ access[q].pointer # None /\ access[q].granted = None
  /\ Found(q) = "PUBLISHED"
  /\ access' = [access EXCEPT ![q].granted = access[q].pointer]
  /\ UNCHANGED <<rows, request, pc, snapshot, node>>

\* KNOWLEDGE_RELEASE_INACTIVE: the caller may read again.
Inactive(q) ==
  /\ access[q].pointer # None /\ access[q].granted = None
  /\ Found(q) # "PUBLISHED"
  /\ access' = [access EXCEPT ![q] = NothingRead]
  /\ UNCHANGED <<rows, request, pc, snapshot, node>>

----------------------------------------------------------------------------

Administer(c) ==
  \/ Send(c) \/ Check(c) \/ Refuse(c)
  \/ Approve(c) \/ Publish(c) \/ Rollback(c) \/ Fail(c)

Start(n) ==
  StartOnPointer(n) \/ StartWithoutPointer(n) \/ InsertBaseline(n) \/ StartLate(n)

Read(q) == ReadPointer(q) \/ Grant(q) \/ Inactive(q)

Next ==
  \/ \E x \in Release : Create(x)
  \/ \E c \in Command : Administer(c)
  \/ \E n \in Node : Start(n)
  \/ \E q \in Reader : Read(q)

Spec == Init /\ [][Next]_vars

----------------------------------------------------------------------------
(* Properties. *)

\* However commands, instance starts and stale requests interleave, the
\* pointer's release is PUBLISHED; with current reads no other one is.
PublishedIsThePointer ==
  \A x \in Release :
    /\ pointer = x => release[x].status = "PUBLISHED"
    /\ level = "READ COMMITTED" /\ release[x].status = "PUBLISHED" => pointer = x

\* README.md:341: publishing and rolling back archive the previous release in
\* the transaction that moves the pointer.
SwitchArchivesPrevious ==
  [][pointer' # pointer /\ pointer # None =>
       release'[pointer].status = "ARCHIVED"]_vars

\* Audit and database agree: the last activation in the audit is the pointer,
\* and each release was approved before its first publication.
AuditTellsThePointer ==
  LET activations == {i \in DOMAIN audit : audit[i].action # "APPROVED"}
  IN  /\ \A i \in activations :
           (\A j \in activations : j <= i) => audit[i].target = pointer
      /\ activations = {} => pointer \in {None, Baseline}
      /\ \A i \in DOMAIN audit :
           audit[i].action = "PUBLISHED" =>
             \E j \in 1 .. i - 1 :
               audit[j].action = "APPROVED" /\ audit[j].target = audit[i].target

\* currentAccess() reads the pointer and its release without a lock.  With current
\* reads what it grants is the active release when it ends, and it refuses only when
\* the pointer moved since it read it.  Under one snapshot no switch makes it refuse,
\* and what it grants was active at its first read: by then it may be superseded.
ReaderSeesOneMoment ==
  [][\A q \in Reader :
       LET granted == access'[q].granted # access[q].granted
           refused == access[q].pointer # None /\ access'[q].pointer = None
       IN  /\ granted /\ level = "READ COMMITTED" => access'[q].granted = pointer
           /\ refused => level = "READ COMMITTED" /\ pointer # access[q].pointer]_vars
=============================================================================
