------------------------ MODULE KnowledgeReleaseProofs ------------------------
(***************************************************************************)
(* Proofs about KnowledgeRelease, for any number of releases,              *)
(* administrators' commands, starting instances and readers, under either  *)
(* isolation level and for any bound on the versions.                      *)
(***************************************************************************)
EXTENDS KnowledgeRelease, TLAPS

----------------------------------------------------------------------------
(* The inductive invariant: what a transaction may rely on after its first *)
(* read.                                                                   *)

Row == [status : Status, version : Nat]

\* A command under way has a request.
Asked == \A c \in Command : pc[c] \in {"sent", "checked"} => request[c] \in Request

\* What a transaction read is not ahead of the table, and it is the table's row
\* unless the versions differ.
NotAhead(read, x, now) ==
  read[x] # NoRow =>
    /\ now # NoRow
    /\ read[x].version <= now.version
    /\ read[x].version = now.version => read[x] = now

\* A checked command read its target in the status it needs.
SnapshotAgrees ==
  \A c \in Command : pc[c] = "checked" =>
    /\ snapshot[c][Target(c)].status = Source(request[c].kind)
    /\ \A x \in Release : NotAhead(snapshot[c], x, release[x])

\* Before the baseline is inserted there is nothing to administer or to read.
NothingBeforeBaseline ==
  pointer = None =>
    /\ \A x \in Release : release[x] = NoRow
    /\ \A n \in Node : node[n] # "up"
    /\ \A c \in Command : pc[c] = "idle"

\* A snapshot shows the release its pointer names PUBLISHED, whatever it is by now.
SnapshotsShowPublished ==
  \A q \in Reader : access[q].pointer # None => access[q].status = "PUBLISHED"

IInv ==
  /\ ReleaseTypeOK
  /\ PublishedIsThePointer
  /\ Asked
  /\ SnapshotAgrees
  /\ NothingBeforeBaseline
  /\ SnapshotsShowPublished

----------------------------------------------------------------------------

\* A row and the absence of one are different things.
LEMMA TableRows == Table = [Release -> Row \cup {NoRow}]
  BY Zenon DEF Row, Table

LEMMA RowOrNone ==
  ASSUME NEW x \in Row \cup {NoRow}
  PROVE  /\ x.version \in Nat
         /\ x \in Row => x.status \in Status
         /\ x = NoRow <=> x.status = "ABSENT"
         /\ x \in Row <=> x # NoRow
  <1>1. CASE x \in Row BY <1>1 DEF Row, NoRow, Status
  <1>2. CASE x = NoRow BY <1>2 DEF Row, NoRow, Status
  <1> QED BY <1>1, <1>2

\* A row that is flushed is a row, with another version.
LEMMA MovedRow ==
  ASSUME NEW x \in Row \cup {NoRow}, NEW s \in Status
  PROVE  /\ Moved(x, s) \in Row
         /\ Moved(x, s).status = s
         /\ Moved(x, s).version = x.version + 1
  <1>1. x.version + 1 \in Nat BY RowOrNone
  <1> QED BY <1>1 DEF Moved, Row

\* Nothing exists at first.
LEMMA InitIInv == Init => IInv
  <1> SUFFICES ASSUME Init PROVE IInv
    OBVIOUS
  <1> USE DEF Init
  <1>1. NoSnapshot \in Table /\ release \in Table
    BY DEF NoSnapshot, Table
  <1>2. ReleaseTypeOK
    <2>1. audit \in Seq(Event) OBVIOUS
    <2> QED BY <1>1, <2>1 DEF ReleaseTypeOK, NothingRead, Access, Event
  <1>3. PublishedIsThePointer
    BY ReleaseAssumption DEF PublishedIsThePointer, NoRow
  <1>4. Asked /\ SnapshotAgrees /\ NothingBeforeBaseline /\ SnapshotsShowPublished
    BY DEF Asked, SnapshotAgrees, NothingBeforeBaseline, SnapshotsShowPublished, NothingRead
  <1> QED BY <1>2, <1>3, <1>4 DEF IInv

\* A row of the table is never removed, and changes only with its version.
RowAdvances(x) ==
  \/ release'[x] = release[x]
  \/ release[x] = NoRow /\ release'[x] \in Row
  \/ release'[x] \in Row /\ release'[x].version > release[x].version

\* A transaction reads on in a table that only advances.
LEMMA StillNotAhead ==
  ASSUME release \in Table, release' \in Table, NEW read \in Table, NEW x \in Release,
         NotAhead(read, x, release[x]), RowAdvances(x)
  PROVE  NotAhead(read, x, release'[x])
  <1>1. release[x] \in Row \cup {NoRow} /\ release'[x] \in Row \cup {NoRow}
        /\ read[x] \in Row \cup {NoRow}
    BY TableRows
  <1>2. /\ release[x].version \in Nat /\ release'[x].version \in Nat
        /\ read[x].version \in Nat
    BY <1>1, RowOrNone
  <1>3. NoRow \notin Row BY RowOrNone
  <1> HIDE DEF Row, NoRow
  <1> QED BY <1>1, <1>2, <1>3 DEF NotAhead, RowAdvances

\* What a checked command knows of the row it is to change.
LEMMA TargetIsCurrent ==
  ASSUME IInv, NEW c \in Command, pc[c] = "checked", Updates(snapshot[c], Target(c))
  PROVE  /\ request[c] \in Request /\ Target(c) \in Release
         /\ snapshot[c][Target(c)] = release[Target(c)]
         /\ release[Target(c)] \in Row
         /\ release[Target(c)].status = Source(request[c].kind)
         /\ pointer # Target(c)
         /\ pointer \in Release
  <1> USE DEF IInv
  <1>1. request[c] \in Request /\ Target(c) \in Release
    BY DEF Asked, Target, Request
  <1>2. snapshot[c][Target(c)].status \in {"DRAFT", "APPROVED", "ARCHIVED"}
    BY <1>1 DEF SnapshotAgrees, Source, Request, Kind
  <1>3. snapshot[c][Target(c)] \in Row
    <2>1. snapshot[c] \in [Release -> Row \cup {NoRow}]
      BY TableRows DEF ReleaseTypeOK
    <2>2. snapshot[c][Target(c)] \in Row \cup {NoRow}
      BY <1>1, <2>1
    <2> QED BY <1>2, <2>2, RowOrNone
  <1>4. snapshot[c][Target(c)] = release[Target(c)]
    BY <1>1, <1>3, RowOrNone DEF SnapshotAgrees, NotAhead, Updates
  <1>5. release[Target(c)].status = Source(request[c].kind)
    BY <1>4 DEF SnapshotAgrees
  <1>6. pointer # Target(c)
    BY <1>1, <1>2, <1>4 DEF PublishedIsThePointer
  <1>7. pointer \in Release
    BY DEF NothingBeforeBaseline, ReleaseTypeOK
  <1> QED BY <1>1, <1>3, <1>4, <1>5, <1>6, <1>7

----------------------------------------------------------------------------
(* Each step of a transaction. *)

\* What the flush of a publication or a rollback leaves in the table.
LEMMA SwitchedRows ==
  ASSUME IInv, NEW c \in Command, pc[c] = "checked", Updates(snapshot[c], Target(c)),
         CanArchive(c, pointer)
  PROVE  /\ Switched(c) \in Table
         /\ Switched(c)[Target(c)].status = "PUBLISHED"
         /\ Switched(c)[Target(c)].version = release[Target(c)].version + 1
         /\ level = "READ COMMITTED" => Switched(c)[pointer].status = "ARCHIVED"
         /\ \A x \in Release :
              \/ Switched(c)[x] = release[x]
              \/ Switched(c)[x] \in Row /\ Switched(c)[x].version > release[x].version
         /\ \A x \in Release :
              Switched(c)[x].status = "PUBLISHED" =>
                x = Target(c) \/ release[x].status = "PUBLISHED"
         /\ \A x \in Release :
              Switched(c)[x].status = "APPROVED" => release[x].status = "APPROVED"
  <1>0. /\ Target(c) \in Release /\ pointer \in Release /\ pointer # Target(c)
        /\ snapshot[c][Target(c)] = release[Target(c)]
        /\ release[Target(c)] \in Row
    BY TargetIsCurrent
  <1>1. release \in [Release -> Row \cup {NoRow}] /\ View(c) \in [Release -> Row \cup {NoRow}]
    BY TableRows DEF IInv, ReleaseTypeOK, View
  <1>2. \A x \in Release : release[x].version \in Nat
    BY <1>1, RowOrNone
  <1>3. /\ Moved(release[Target(c)], "PUBLISHED") \in Row
        /\ Moved(release[Target(c)], "PUBLISHED").status = "PUBLISHED"
        /\ Moved(release[Target(c)], "PUBLISHED").version = release[Target(c)].version + 1
    BY <1>0, MovedRow DEF Status
  <1>4. /\ Moved(View(c)[pointer], "ARCHIVED") \in Row
        /\ Moved(View(c)[pointer], "ARCHIVED").status = "ARCHIVED"
        /\ Moved(View(c)[pointer], "ARCHIVED").version = View(c)[pointer].version + 1
    BY <1>0, <1>1, MovedRow DEF Status
  <1>5. Dirty(c, pointer) => View(c)[pointer].version = release[pointer].version
    BY DEF CanArchive, Updates
  <1>6. level = "READ COMMITTED" => Dirty(c, pointer)
    BY <1>0 DEF IInv, PublishedIsThePointer, Dirty, View
  <1>7. \A x \in Release :
          \/ x = Target(c) /\ Switched(c)[x] = Moved(release[x], "PUBLISHED")
          \/ /\ x = pointer /\ Dirty(c, x)
             /\ Switched(c)[x] = Moved(View(c)[x], "ARCHIVED")
          \/ /\ x # Target(c) /\ (x # pointer \/ ~Dirty(c, x))
             /\ Switched(c)[x] = release[x]
    BY <1>0 DEF Switched
  <1>8. Switched(c)[Target(c)] = Moved(release[Target(c)], "PUBLISHED")
    BY <1>0, <1>7
  <1>9. level = "READ COMMITTED" => Switched(c)[pointer].status = "ARCHIVED"
    BY <1>0, <1>4, <1>6, <1>7
  <1>10. \A x \in Release :
           \/ Switched(c)[x] = release[x]
           \/ Switched(c)[x] \in Row /\ Switched(c)[x].version > release[x].version
    <2> SUFFICES ASSUME NEW x \in Release
                 PROVE  \/ Switched(c)[x] = release[x]
                        \/ /\ Switched(c)[x] \in Row
                           /\ Switched(c)[x].version > release[x].version
      OBVIOUS
    <2>1. release[x].version + 1 > release[x].version
      BY <1>2
    <2>2. CASE x = Target(c) /\ Switched(c)[x] = Moved(release[x], "PUBLISHED")
      BY <1>3, <2>1, <2>2
    <2>3. CASE /\ x = pointer /\ Dirty(c, x)
               /\ Switched(c)[x] = Moved(View(c)[x], "ARCHIVED")
      <3>1. /\ Switched(c)[x] \in Row
            /\ Switched(c)[x].version = release[x].version + 1
        BY <1>4, <1>5, <2>3
      <3> QED BY <2>1, <3>1
    <2>4. CASE Switched(c)[x] = release[x]
      BY <2>4
    <2> QED BY <1>7, <2>2, <2>3, <2>4
  <1>11. \A x \in Release : Switched(c)[x].status = "PUBLISHED" =>
           x = Target(c) \/ release[x].status = "PUBLISHED"
    BY <1>4, <1>7
  <1>12. Switched(c) \in Table
    <2>1. \A x \in Release : Switched(c)[x] \in Row \cup {NoRow}
      BY <1>1, <1>10
    <2>2. Switched(c) = [x \in Release |-> Switched(c)[x]]
      BY DEF Switched
    <2> HIDE DEF Switched
    <2> QED BY <2>1, <2>2, TableRows
  <1>13. \A x \in Release :
           Switched(c)[x].status = "APPROVED" => release[x].status = "APPROVED"
    BY <1>3, <1>4, <1>7
  <1> QED BY <1>3, <1>8, <1>9, <1>10, <1>11, <1>12, <1>13

\* A publication or a rollback finds its target and the pointer's release as its
\* transaction saw them.
LEMMA SwitchIsCurrent ==
  ASSUME IInv, NEW c \in Command, Publish(c) \/ Rollback(c)
  PROVE  /\ pc[c] = "checked"
         /\ Updates(snapshot[c], Target(c))
         /\ CanArchive(c, pointer)
         /\ release' = Switched(c) /\ pointer' = Target(c) /\ level' = level
         /\ pointer \in Release /\ Target(c) \in Release /\ pointer # Target(c)
  <1>1. pc[c] = "checked" /\ Updates(snapshot[c], Target(c))
    BY DEF Publish, Rollback, CanPublish, CanRollback
  <1>2. pointer \in Release /\ Target(c) \in Release /\ pointer # Target(c)
    BY <1>1, TargetIsCurrent
  <1>3. CanArchive(c, pointer)
    <2>1. CASE Publish(c) BY <1>2, <2>1 DEF Publish, CanPublish
    <2>2. CASE Rollback(c)
      <3>1. View(c)[pointer].status = "PUBLISHED" /\ Updates(View(c), pointer)
        BY <2>2 DEF Rollback, CanRollback
      <3> QED BY <3>1 DEF CanArchive, NoRow
    <2> QED BY <2>1, <2>2
  <1> QED BY <1>1, <1>2, <1>3 DEF Publish, Rollback

\* An approval moves a draft.
LEMMA ApprovalIsCurrent ==
  ASSUME IInv, NEW c \in Command, Approve(c)
  PROVE  /\ Target(c) \in Release /\ pointer # Target(c)
         /\ release' = [release EXCEPT ![Target(c)] = Moved(release[Target(c)], "APPROVED")]
         /\ Moved(release[Target(c)], "APPROVED") \in Row
         /\ Moved(release[Target(c)], "APPROVED").status = "APPROVED"
         /\ Moved(release[Target(c)], "APPROVED").version > release[Target(c)].version
  <1>1. pc[c] = "checked" /\ Updates(snapshot[c], Target(c))
    BY DEF Approve
  <1>2. /\ Target(c) \in Release /\ pointer # Target(c)
        /\ snapshot[c][Target(c)] = release[Target(c)]
        /\ release[Target(c)] \in Row
    BY <1>1, TargetIsCurrent
  <1>3. /\ Moved(release[Target(c)], "APPROVED") \in Row
        /\ Moved(release[Target(c)], "APPROVED").status = "APPROVED"
        /\ Moved(release[Target(c)], "APPROVED").version = release[Target(c)].version + 1
    BY <1>2, MovedRow DEF Status
  <1>4. release[Target(c)].version \in Nat
    BY <1>2, RowOrNone
  <1> QED BY <1>2, <1>3, <1>4 DEF Approve

----------------------------------------------------------------------------
(* The invariant is kept. *)

\* Whatever a step does to the table, its rows advance.
LEMMA TableStep ==
  ASSUME IInv, Next
  PROVE  release' \in Table /\ \A x \in Release : RowAdvances(x)
  <1>0. release \in [Release -> Row \cup {NoRow}]
    BY TableRows DEF IInv, ReleaseTypeOK
  <1> DEFINE Goal == release' \in Table /\ \A x \in Release : RowAdvances(x)
  <1>1. ASSUME UNCHANGED release PROVE Goal
    BY <1>1 DEF RowAdvances, IInv, ReleaseTypeOK
  <1>2. ASSUME NEW x \in Release, NEW row \in Row,
               release' = [release EXCEPT ![x] = row],
               release[x] = NoRow \/ row.version > release[x].version
        PROVE  Goal
    <2>1. release' \in Table
      BY <1>0, <1>2, TableRows
    <2>2. \A y \in Release : release'[y] = IF y = x THEN row ELSE release[y]
      BY <1>0, <1>2
    <2> QED BY <1>2, <2>1, <2>2 DEF RowAdvances
  <1>3. ASSUME NEW x \in Release, Create(x) PROVE Goal
    <2>1. [status |-> "DRAFT", version |-> 0] \in Row
      BY DEF Row, Status
    <2> QED BY <1>2, <1>3, <2>1 DEF Create
  <1>4. ASSUME NEW c \in Command, Administer(c) PROVE Goal
    <2>1. CASE Send(c) \/ Check(c) \/ Refuse(c) \/ Fail(c)
      BY <1>1, <2>1 DEF Send, Check, Refuse, Fail, rows
    <2>2. CASE Approve(c)
      BY <1>2, <2>2, ApprovalIsCurrent
    <2>3. CASE Publish(c) \/ Rollback(c)
      BY <2>3, SwitchIsCurrent, SwitchedRows DEF RowAdvances
    <2> QED BY <1>4, <2>1, <2>2, <2>3 DEF Administer
  <1>5. ASSUME NEW n \in Node, Start(n) PROVE Goal
    <2>1. CASE InsertBaseline(n)
      <3>1. [status |-> "PUBLISHED", version |-> 0] \in Row
        BY DEF Row, Status
      <3>2. release[Baseline] = NoRow /\ Baseline \in Release
        BY <2>1, ReleaseAssumption DEF InsertBaseline, IInv, NothingBeforeBaseline
      <3> QED BY <1>2, <2>1, <3>1, <3>2 DEF InsertBaseline
    <2>2. CASE StartOnPointer(n) \/ StartWithoutPointer(n) \/ StartLate(n)
      BY <1>1, <2>2 DEF StartOnPointer, StartWithoutPointer, StartLate, rows
    <2> QED BY <1>5, <2>1, <2>2 DEF Start
  <1>6. ASSUME NEW q \in Reader, Read(q) PROVE Goal
    BY <1>1, <1>6 DEF Read, ReadPointer, Grant, Inactive, rows
  <1> QED BY <1>3, <1>4, <1>5, <1>6 DEF Next

\* The pointer's release is PUBLISHED, and with current reads it is the only one.
LEMMA PublishedStep ==
  ASSUME IInv, Next
  PROVE  /\ level' = level
         /\ pointer' \in Release \cup {None}
         /\ pointer # None => pointer' # None
         /\ PublishedIsThePointer'
         /\ pointer' # None => release'[pointer'].status = "PUBLISHED"
  <1> DEFINE Goal == /\ level' = level
                     /\ pointer' \in Release \cup {None}
                     /\ pointer # None => pointer' # None
                     /\ PublishedIsThePointer'
                     /\ pointer' # None => release'[pointer'].status = "PUBLISHED"
  <1>0. /\ release \in [Release -> Row \cup {NoRow}]
        /\ pointer \in Release \cup {None}
        /\ pointer # None => release[pointer].status = "PUBLISHED"
        /\ PublishedIsThePointer
    BY TableRows DEF IInv, ReleaseTypeOK
  <1>1. ASSUME UNCHANGED <<level, release, pointer>> PROVE Goal
    BY <1>0, <1>1 DEF PublishedIsThePointer
  <1>2. ASSUME NEW x \in Release, NEW row, UNCHANGED <<level, pointer>>,
               release' = [release EXCEPT ![x] = row],
               row.status # "PUBLISHED", pointer # x
        PROVE  Goal
    <2>1. \A y \in Release : release'[y] = IF y = x THEN row ELSE release[y]
      BY <1>0, <1>2
    <2> QED BY <1>0, <1>2, <2>1 DEF PublishedIsThePointer
  <1>3. ASSUME NEW x \in Release, Create(x) PROVE Goal
    <2>1. pointer # x
      <3>1. NoRow.status # "PUBLISHED" BY DEF NoRow
      <3>2. release[x].status # "PUBLISHED" BY <1>3, <3>1 DEF Create
      <3> QED BY <1>0, <3>2 DEF PublishedIsThePointer
    <2>2. [status |-> "DRAFT", version |-> 0].status # "PUBLISHED"
      OBVIOUS
    <2> QED BY <1>2, <1>3, <2>1, <2>2 DEF Create
  <1>4. ASSUME NEW c \in Command, Administer(c) PROVE Goal
    <2>1. CASE Send(c) \/ Check(c) \/ Refuse(c) \/ Fail(c)
      BY <1>1, <2>1 DEF Send, Check, Refuse, Fail, rows
    <2>2. CASE Approve(c)
      <3>1. Moved(release[Target(c)], "APPROVED").status # "PUBLISHED"
        BY <2>2, ApprovalIsCurrent
      <3> QED BY <1>2, <2>2, <3>1, ApprovalIsCurrent DEF Approve
    <2>3. CASE Publish(c) \/ Rollback(c)
      <3>1. /\ release' = Switched(c) /\ pointer' = Target(c) /\ level' = level
            /\ pointer \in Release /\ Target(c) \in Release
        BY <2>3, SwitchIsCurrent
      <3>2. /\ Switched(c)[Target(c)].status = "PUBLISHED"
            /\ level = "READ COMMITTED" => Switched(c)[pointer].status = "ARCHIVED"
            /\ \A x \in Release : Switched(c)[x].status = "PUBLISHED" =>
                 x = Target(c) \/ release[x].status = "PUBLISHED"
        BY <2>3, SwitchIsCurrent, SwitchedRows
      <3>3. ASSUME NEW x \in Release, level = "READ COMMITTED",
                   Switched(c)[x].status = "PUBLISHED"
            PROVE  x = Target(c)
        BY <1>0, <3>2, <3>3 DEF PublishedIsThePointer
      <3>4. PublishedIsThePointer'
        BY <3>1, <3>2, <3>3 DEF PublishedIsThePointer
      <3> QED BY <3>1, <3>2, <3>4, ReleaseAssumption
    <2> QED BY <1>4, <2>1, <2>2, <2>3 DEF Administer
  <1>5. ASSUME NEW n \in Node, Start(n) PROVE Goal
    <2>1. CASE InsertBaseline(n)
      <3>1. \A x \in Release : release[x] = NoRow
        BY <2>1 DEF InsertBaseline, IInv, NothingBeforeBaseline
      <3>2. \A x \in Release :
              release'[x].status = "PUBLISHED" <=> x = Baseline
        BY <1>0, <2>1, <3>1 DEF InsertBaseline, NoRow
      <3> QED BY <2>1, <3>2, ReleaseAssumption DEF InsertBaseline, PublishedIsThePointer
    <2>2. CASE StartOnPointer(n) \/ StartWithoutPointer(n) \/ StartLate(n)
      BY <1>1, <2>2 DEF StartOnPointer, StartWithoutPointer, StartLate, rows
    <2> QED BY <1>5, <2>1, <2>2 DEF Start
  <1>6. ASSUME NEW q \in Reader, Read(q) PROVE Goal
    BY <1>1, <1>6 DEF Read, ReadPointer, Grant, Inactive, rows
  <1> QED BY <1>3, <1>4, <1>5, <1>6 DEF Next

\* The columns that no other lemma is about.
LEMMA TypeStep ==
  ASSUME IInv, Next
  PROVE  /\ audit' \in Seq(Event)
         /\ request' \in [Command -> Request \cup {NoRequest}]
         /\ pc' \in [Command -> {"idle", "sent", "checked", "ok", "refused"}]
         /\ snapshot' \in [Command -> Table]
         /\ node' \in [Node -> {"down", "starting", "up", "failed"}]
         /\ access' \in [Reader -> Access]
  <1>0. ReleaseTypeOK /\ NoSnapshot \in Table
    BY DEF IInv, NoSnapshot, Table
  <1> USE DEF ReleaseTypeOK
  <1>1. ASSUME NEW x \in Release, Create(x)
        PROVE  UNCHANGED <<audit, request, pc, snapshot, node, access>>
    BY <1>1 DEF Create
  <1>2. ASSUME NEW c \in Command, Administer(c)
        PROVE  /\ audit' \in Seq(Event)
               /\ request' \in [Command -> Request \cup {NoRequest}]
               /\ pc' \in [Command -> {"idle", "sent", "checked", "ok", "refused"}]
               /\ snapshot' \in [Command -> Table]
               /\ UNCHANGED <<node, access>>
    <2>1. CASE Send(c)
      <3>1. \A k \in Kind, x \in Release :
              [kind |-> k, target |-> x, expected |-> release[x].version] \in Request
        BY <1>0, TableRows, RowOrNone DEF Request
      <3> QED BY <1>0, <2>1, <3>1 DEF Send, Goto, rows
    <2>2. CASE Check(c) BY <1>0, <2>2 DEF Check, Goto, rows
    <2>3. CASE Refuse(c) \/ Fail(c) BY <1>0, <2>3 DEF Refuse, Fail, End, Goto, rows
    <2>4. CASE Approve(c) \/ Publish(c) \/ Rollback(c)
      <3>1. Target(c) \in Release /\ snapshot[c][Target(c)].version + 1 \in Nat
        <4>1. pc[c] = "checked" /\ Updates(snapshot[c], Target(c))
          BY <2>4 DEF Approve, Publish, Rollback, CanPublish, CanRollback
        <4> QED BY <4>1, TargetIsCurrent, RowOrNone
      <3>2. ASSUME NEW a \in {"APPROVED", "PUBLISHED", "ROLLED_BACK"},
                   Audit(a, Target(c), snapshot[c][Target(c)].version + 1)
            PROVE  audit' \in Seq(Event)
        <4>1. [action |-> a, target |-> Target(c),
               version |-> snapshot[c][Target(c)].version + 1] \in Event
          BY <3>1 DEF Event
        <4> QED BY <1>0, <3>2, <4>1 DEF Audit
      <3>3. End(c, "ok") /\ UNCHANGED <<node, access>>
        BY <2>4 DEF Approve, Publish, Rollback
      <3>4. audit' \in Seq(Event)
        BY <2>4, <3>2 DEF Approve, Publish, Rollback
      <3> QED BY <1>0, <3>3, <3>4 DEF End, Goto
    <2> QED BY <1>2, <2>1, <2>2, <2>3, <2>4 DEF Administer
  <1>3. ASSUME NEW n \in Node, Start(n)
        PROVE  /\ node' \in [Node -> {"down", "starting", "up", "failed"}]
               /\ UNCHANGED <<audit, request, pc, snapshot, access>>
    <2>1. CASE StartOnPointer(n) BY <1>0, <2>1 DEF StartOnPointer, rows
    <2>2. CASE StartWithoutPointer(n) BY <1>0, <2>2 DEF StartWithoutPointer, rows
    <2>3. CASE InsertBaseline(n) BY <1>0, <2>3 DEF InsertBaseline
    <2>4. CASE StartLate(n) BY <1>0, <2>4 DEF StartLate, rows
    <2> QED BY <1>3, <2>1, <2>2, <2>3, <2>4 DEF Start
  <1>4. ASSUME NEW q \in Reader, Read(q)
        PROVE  /\ access' \in [Reader -> Access]
               /\ UNCHANGED <<audit, request, pc, snapshot, node>>
    <2>1. CASE ReadPointer(q)
      <3>1. pointer \in Release
        BY <1>0, <2>1 DEF ReadPointer, Served, IInv, NothingBeforeBaseline
      <3>2. release[pointer].status \in Status
        BY <3>1 DEF IInv, PublishedIsThePointer, Status
      <3> QED BY <1>0, <2>1, <3>1, <3>2 DEF ReadPointer, Access, rows
    <2>2. CASE Grant(q) BY <1>0, <2>2 DEF Grant, Access, rows
    <2>3. CASE Inactive(q) BY <1>0, <2>3 DEF Inactive, NothingRead, Access, rows
    <2> QED BY <1>4, <2>1, <2>2, <2>3 DEF Read
  <1> QED BY <1>0, <1>1, <1>2, <1>3, <1>4 DEF Next

\* A command has a request from its sending to its answer.
LEMMA AskedStep ==
  ASSUME IInv, Next
  PROVE  Asked'
  <1>0. /\ Asked
        /\ release \in [Release -> Row \cup {NoRow}]
        /\ pc \in [Command -> {"idle", "sent", "checked", "ok", "refused"}]
        /\ request \in [Command -> Request \cup {NoRequest}]
    BY TableRows DEF IInv, ReleaseTypeOK
  <1>1. ASSUME NEW c \in Command, Administer(c) PROVE Asked'
    <2>1. CASE Send(c)
      <3>1. \A k \in Kind, x \in Release :
              [kind |-> k, target |-> x, expected |-> release[x].version] \in Request
        BY <1>0, RowOrNone DEF Request
      <3> QED BY <1>0, <2>1, <3>1 DEF Send, Goto, Asked
    <2>2. CASE Check(c) BY <1>0, <2>2 DEF Check, Goto, Asked
    <2>3. CASE Refuse(c) \/ Fail(c) \/ Approve(c) \/ Publish(c) \/ Rollback(c)
      <3>1. End(c, "refused") \/ End(c, "ok")
        BY <2>3 DEF Refuse, Fail, Approve, Publish, Rollback
      <3> QED BY <1>0, <3>1 DEF End, Goto, Asked
    <2> QED BY <1>1, <2>1, <2>2, <2>3 DEF Administer
  <1>2. ASSUME UNCHANGED <<request, pc>> PROVE Asked'
    BY <1>0, <1>2 DEF Asked
  <1>3. ASSUME NEW x \in Release, Create(x) PROVE UNCHANGED <<request, pc>>
    BY <1>3 DEF Create
  <1>4. ASSUME NEW n \in Node, Start(n) PROVE UNCHANGED <<request, pc>>
    BY <1>4 DEF Start, StartOnPointer, StartWithoutPointer, InsertBaseline, StartLate
  <1>5. ASSUME NEW q \in Reader, Read(q) PROVE UNCHANGED <<request, pc>>
    BY <1>5 DEF Read, ReadPointer, Grant, Inactive
  <1> QED BY <1>1, <1>2, <1>3, <1>4, <1>5 DEF Next

\* A transaction that goes on keeps its snapshot, and the table advances past it.
LEMMA SnapshotStep ==
  ASSUME IInv, Next
  PROVE  SnapshotAgrees'
  <1>0. /\ SnapshotAgrees /\ Asked
        /\ release \in Table
        /\ snapshot \in [Command -> Table]
        /\ pc \in [Command -> {"idle", "sent", "checked", "ok", "refused"}]
        /\ request \in [Command -> Request \cup {NoRequest}]
    BY DEF IInv, ReleaseTypeOK
  <1>1. release' \in Table /\ \A x \in Release : RowAdvances(x)
    BY TableStep
  <1>2. ASSUME NEW c \in Command, pc[c] = "checked"
        PROVE  \A x \in Release : NotAhead(snapshot[c], x, release'[x])
    <2>1. snapshot[c] \in Table /\ \A x \in Release : NotAhead(snapshot[c], x, release[x])
      BY <1>0, <1>2 DEF SnapshotAgrees
    <2> QED BY <1>0, <1>1, <2>1, StillNotAhead
  <1>3. ASSUME NEW c \in Command, Check(c)
        PROVE  /\ snapshot[c]'[Target(c)'].status = Source(request'[c].kind)
               /\ \A x \in Release : NotAhead(snapshot'[c], x, release'[x])
    <2>1. snapshot'[c] = release /\ release' = release /\ request' = request
      BY <1>0, <1>3 DEF Check, rows
    <2>2. release[Target(c)].status = Source(request[c].kind)
      BY <1>3 DEF Check, Legal
    <2>3. \A x \in Release : release[x] \in Row \cup {NoRow}
      BY <1>0, TableRows
    <2>4. \A x \in Release : NotAhead(release, x, release[x])
      BY <2>3, RowOrNone DEF NotAhead
    <2> QED BY <2>1, <2>2, <2>4 DEF Target
  <1>4. ASSUME NEW c \in Command, Administer(c), NEW d \in Command, pc'[d] = "checked"
        PROVE  \/ pc[d] = "checked" /\ snapshot'[d] = snapshot[d] /\ request'[d] = request[d]
               \/ c = d /\ Check(c)
    <2>1. CASE Send(c) BY <1>0, <1>4, <2>1 DEF Send, Goto
    <2>2. CASE Check(c) BY <1>0, <1>4, <2>2 DEF Check, Goto
    <2>3. CASE Refuse(c) \/ Fail(c) \/ Approve(c) \/ Publish(c) \/ Rollback(c)
      <3>1. End(c, "refused") \/ End(c, "ok")
        BY <2>3 DEF Refuse, Fail, Approve, Publish, Rollback
      <3> QED BY <1>0, <1>4, <3>1 DEF End, Goto
    <2> QED BY <1>4, <2>1, <2>2, <2>3 DEF Administer
  <1>5. ASSUME NEW d \in Command, pc[d] = "checked",
               snapshot'[d] = snapshot[d], request'[d] = request[d]
        PROVE  /\ snapshot'[d][Target(d)'].status = Source(request'[d].kind)
               /\ \A x \in Release : NotAhead(snapshot'[d], x, release'[x])
    BY <1>0, <1>2, <1>5 DEF SnapshotAgrees, Target
  <1>6. ASSUME NEW c \in Command, Administer(c) PROVE SnapshotAgrees'
    BY <1>3, <1>4, <1>5, <1>6 DEF SnapshotAgrees
  <1>7. ASSUME UNCHANGED <<request, pc, snapshot>> PROVE SnapshotAgrees'
    BY <1>5, <1>7 DEF SnapshotAgrees
  <1>8. ASSUME NEW x \in Release, Create(x) PROVE UNCHANGED <<request, pc, snapshot>>
    BY <1>8 DEF Create
  <1>9. ASSUME NEW n \in Node, Start(n) PROVE UNCHANGED <<request, pc, snapshot>>
    BY <1>9 DEF Start, StartOnPointer, StartWithoutPointer, InsertBaseline, StartLate
  <1>10. ASSUME NEW q \in Reader, Read(q) PROVE UNCHANGED <<request, pc, snapshot>>
    BY <1>10 DEF Read, ReadPointer, Grant, Inactive
  <1> QED BY <1>6, <1>7, <1>8, <1>9, <1>10 DEF Next

\* Nothing but the start of an instance moves before the baseline is there.
LEMMA BaselineStep ==
  ASSUME IInv, Next
  PROVE  NothingBeforeBaseline' /\ SnapshotsShowPublished'
  <1>0. /\ NothingBeforeBaseline /\ SnapshotsShowPublished
        /\ node \in [Node -> {"down", "starting", "up", "failed"}]
        /\ access \in [Reader -> Access] /\ release \in Table /\ pointer \in Release \cup {None}
        /\ PublishedIsThePointer
    BY DEF IInv, ReleaseTypeOK
  <1>1. (pointer # None => pointer' # None) /\ level' = level
    BY PublishedStep
  <1>2. ASSUME pointer = None PROVE NothingBeforeBaseline'
    <2>0. ~Served
      BY <1>0, <1>2 DEF Served, NothingBeforeBaseline
    <2>1. ASSUME NEW x \in Release, Create(x) PROVE FALSE
      BY <2>0, <2>1 DEF Create
    <2>2. ASSUME NEW c \in Command, Administer(c) PROVE FALSE
      BY <1>0, <1>2, <2>0, <2>2
         DEF Administer, NothingBeforeBaseline, Send, Check, Refuse, Approve, Publish, Rollback, Fail
    <2>3. ASSUME NEW n \in Node, Start(n) PROVE NothingBeforeBaseline'
      <3>1. CASE StartWithoutPointer(n)
        BY <1>0, <1>2, <3>1 DEF StartWithoutPointer, NothingBeforeBaseline, rows
      <3>2. CASE InsertBaseline(n)
        BY <3>2, ReleaseAssumption DEF InsertBaseline, NothingBeforeBaseline
      <3> QED BY <1>2, <2>3, <3>1, <3>2 DEF Start, StartOnPointer, StartLate
    <2>4. ASSUME NEW q \in Reader, Read(q) PROVE NothingBeforeBaseline'
      BY <1>0, <1>2, <2>4 DEF Read, ReadPointer, Grant, Inactive, NothingBeforeBaseline, rows
    <2> QED BY <2>1, <2>2, <2>3, <2>4 DEF Next
  <1>3. NothingBeforeBaseline'
    BY <1>1, <1>2 DEF NothingBeforeBaseline
  <1>4. SnapshotsShowPublished'
    <2>1. ASSUME UNCHANGED access PROVE SnapshotsShowPublished'
      BY <1>0, <1>1, <2>1 DEF SnapshotsShowPublished
    <2>2. ASSUME NEW q \in Reader, Read(q) PROVE SnapshotsShowPublished'
      <3>1. CASE ReadPointer(q)
        <4>1. pointer \in Release
          BY <1>0, <3>1 DEF ReadPointer, Served, NothingBeforeBaseline
        <4>2. release[pointer].status = "PUBLISHED"
          BY <1>0, <4>1 DEF PublishedIsThePointer
        <4> QED BY <1>0, <3>1, <4>2 DEF ReadPointer, SnapshotsShowPublished
      <3>2. CASE Grant(q)
        BY <1>0, <1>1, <3>2 DEF Grant, SnapshotsShowPublished, Access
      <3>3. CASE Inactive(q)
        BY <1>0, <1>1, <3>3 DEF Inactive, SnapshotsShowPublished, NothingRead
      <3> QED BY <2>2, <3>1, <3>2, <3>3 DEF Read
    <2>3. ASSUME NEW x \in Release, Create(x) PROVE UNCHANGED access
      BY <2>3 DEF Create
    <2>4. ASSUME NEW c \in Command, Administer(c) PROVE UNCHANGED access
      BY <2>4 DEF Administer, Send, Check, Refuse, Approve, Publish, Rollback, Fail
    <2>5. ASSUME NEW n \in Node, Start(n) PROVE UNCHANGED access
      BY <2>5 DEF Start, StartOnPointer, StartWithoutPointer, InsertBaseline, StartLate
    <2> QED BY <2>1, <2>2, <2>3, <2>4, <2>5 DEF Next
  <1> QED BY <1>3, <1>4

\* The invariant is inductive.
LEMMA StepIInv == IInv /\ [Next]_vars => IInv'
  <1> SUFFICES ASSUME IInv, [Next]_vars PROVE IInv'
    OBVIOUS
  <1>1. CASE Next
    <2>1. level' \in Levels
      BY <1>1, PublishedStep DEF IInv, ReleaseTypeOK
    <2>2. ReleaseTypeOK'
      BY <1>1, <2>1, TableStep, PublishedStep, TypeStep DEF ReleaseTypeOK
    <2> QED BY <1>1, <2>2, PublishedStep, AskedStep, SnapshotStep, BaselineStep DEF IInv
  <1>2. CASE UNCHANGED vars
    BY <1>2 DEF vars, rows, IInv, ReleaseTypeOK, PublishedIsThePointer, Asked, SnapshotAgrees,
                NotAhead, Target, NothingBeforeBaseline, SnapshotsShowPublished, Served
  <1> QED BY <1>1, <1>2

----------------------------------------------------------------------------
(* What follows. *)

\* Every reachable state satisfies it.
LEMMA Invariance == Spec => []IInv
  BY InitIInv, StepIInv, PTL DEF Spec

\* Every reachable state is well-typed, and the pointer names a PUBLISHED release.
THEOREM TypeCorrect == Spec => []ReleaseTypeOK
  BY Invariance, PTL DEF IInv

\* Whatever stale requests, overlapping transactions of old snapshots and starting
\* instances meet, the pointer's release is PUBLISHED; with current reads no other is.
THEOREM PointerIsPublished == Spec => []PublishedIsThePointer
  BY Invariance, PTL DEF IInv

----------------------------------------------------------------------------
(* The audit. *)

\* Every approval that is still in force was audited.
ApprovedIsAudited ==
  \A x \in Release : release[x].status = "APPROVED" =>
    \E j \in DOMAIN audit : audit[j].action = "APPROVED" /\ audit[j].target = x

AuditInv == AuditTellsThePointer /\ ApprovedIsAudited

\* Nothing that the audit says is said of another release by a step that neither
\* appends to it nor approves nor moves the pointer.
LEMMA AuditStays ==
  ASSUME AuditInv, UNCHANGED audit,
         \/ pointer' = pointer
         \/ pointer' = Baseline /\ pointer = None /\ audit = <<>>,
         \A x \in Release : release'[x].status = "APPROVED" => release[x].status = "APPROVED"
  PROVE  AuditInv'
  BY DEF AuditInv, AuditTellsThePointer, ApprovedIsAudited

\* Before there is a pointer, nothing has been audited.
AuditStarts == pointer = None => audit = <<>>

LEMMA AuditStep ==
  ASSUME IInv, AuditInv, AuditStarts, [Next]_vars
  PROVE  AuditInv' /\ AuditStarts'
  <1> DEFINE Goal == AuditInv' /\ AuditStarts'
             APPROVED(rel) == \A x \in Release : rel[x].status = "APPROVED" => release[x].status = "APPROVED"
  <1>0. /\ release \in [Release -> Row \cup {NoRow}] /\ audit \in Seq(Event)
        /\ pointer \in Release \cup {None}
    BY TableRows DEF IInv, ReleaseTypeOK
  <1>1. ASSUME UNCHANGED <<audit, pointer, release>> PROVE Goal
    BY <1>1, AuditStays DEF AuditStarts
  <1>2. ASSUME NEW x \in Release, Create(x) PROVE Goal
    <2>1. APPROVED(release')
      BY <1>0, <1>2 DEF Create
    <2> QED BY <1>2, <2>1, AuditStays DEF Create, AuditStarts
  <1>3. ASSUME NEW c \in Command, Approve(c) PROVE Goal
    <2>1. /\ Target(c) \in Release /\ pointer # Target(c) /\ pointer' = pointer
          /\ pointer # None
      <3>1. pc[c] = "checked" BY <1>3 DEF Approve
      <3>2. pointer # None BY <3>1 DEF IInv, NothingBeforeBaseline
      <3> QED BY <1>3, <3>2, ApprovalIsCurrent DEF Approve
    <2>2. /\ audit' = Append(audit, [action |-> "APPROVED", target |-> Target(c),
                                     version |-> snapshot[c][Target(c)].version + 1])
          /\ release' = [release EXCEPT ![Target(c)] = Moved(snapshot[c][Target(c)], "APPROVED")]
      BY <1>3 DEF Approve, Audit
    <2>3. /\ Len(audit) \in Nat /\ DOMAIN audit = 1 .. Len(audit)
          /\ DOMAIN audit' = 1 .. (Len(audit) + 1)
          /\ \A i \in DOMAIN audit : audit'[i] = audit[i]
          /\ audit'[Len(audit) + 1].action = "APPROVED"
          /\ audit'[Len(audit) + 1].target = Target(c)
      BY <1>0, <2>2
    <2>4. AuditTellsThePointer'
      BY <2>1, <2>3 DEF AuditInv, AuditTellsThePointer
    <2>5. ApprovedIsAudited'
      <3>1. \A x \in Release \ {Target(c)} : release'[x] = release[x]
        BY <1>0, <2>2
      <3> QED BY <2>1, <2>3, <3>1 DEF AuditInv, ApprovedIsAudited
    <2> QED BY <2>1, <2>4, <2>5 DEF AuditInv, AuditStarts
  <1>4. ASSUME NEW c \in Command, Publish(c) \/ Rollback(c) PROVE Goal
    <2>1. /\ pc[c] = "checked" /\ Updates(snapshot[c], Target(c))
          /\ CanArchive(c, pointer)
          /\ release' = Switched(c) /\ pointer' = Target(c) /\ Target(c) \in Release
      BY <1>4, SwitchIsCurrent
    <2>2. APPROVED(release')
      BY <2>1, SwitchedRows
    <2>3. PICK action \in {"PUBLISHED", "ROLLED_BACK"} :
            /\ audit' = Append(audit, [action |-> action, target |-> Target(c),
                                       version |-> snapshot[c][Target(c)].version + 1])
            /\ action = "PUBLISHED" => request[c].kind = "publish"
      BY <1>4 DEF Publish, Rollback, Audit
    <2>4. /\ Len(audit) \in Nat /\ DOMAIN audit = 1 .. Len(audit)
          /\ DOMAIN audit' = 1 .. (Len(audit) + 1)
          /\ \A i \in DOMAIN audit : audit'[i] = audit[i]
          /\ audit'[Len(audit) + 1].action = action
          /\ audit'[Len(audit) + 1].target = Target(c)
      BY <1>0, <2>3
    <2>5. action = "PUBLISHED" =>
            \E j \in DOMAIN audit : audit[j].action = "APPROVED" /\ audit[j].target = Target(c)
      <3> HAVE action = "PUBLISHED"
      <3>1. release[Target(c)].status = "APPROVED"
        BY <2>1, <2>3, TargetIsCurrent DEF Source
      <3> QED BY <2>1, <3>1 DEF AuditInv, ApprovedIsAudited
    <2>6. \A i \in DOMAIN audit' : audit'[i].action = "PUBLISHED" =>
            \E j \in 1 .. i - 1 :
              audit'[j].action = "APPROVED" /\ audit'[j].target = audit'[i].target
      <3> SUFFICES ASSUME NEW i \in DOMAIN audit', audit'[i].action = "PUBLISHED"
                   PROVE  \E j \in 1 .. i - 1 :
                            audit'[j].action = "APPROVED" /\ audit'[j].target = audit'[i].target
        OBVIOUS
      <3>1. CASE i \in DOMAIN audit
        <4>1. PICK j \in 1 .. i - 1 :
                audit[j].action = "APPROVED" /\ audit[j].target = audit[i].target
          BY <2>4, <3>1 DEF AuditInv, AuditTellsThePointer
        <4>2. j \in DOMAIN audit
          BY <2>4, <3>1
        <4> QED BY <2>4, <3>1, <4>1, <4>2
      <3>2. CASE i = Len(audit) + 1
        BY <2>4, <2>5, <3>2
      <3> QED BY <2>4, <3>1, <3>2
    <2>7. AuditTellsThePointer'
      <3> DEFINE activations == {i \in DOMAIN audit' : audit'[i].action # "APPROVED"}
      <3>1. Len(audit) + 1 \in activations
        BY <2>3, <2>4
      <3>2. ASSUME NEW i \in activations, \A j \in activations : j <= i
            PROVE  audit'[i].target = pointer'
        <4>1. i = Len(audit) + 1
          BY <2>4, <3>1, <3>2
        <4> QED BY <2>1, <2>4, <4>1
      <3> QED BY <2>6, <3>1, <3>2 DEF AuditTellsThePointer
    <2>8. ApprovedIsAudited'
      BY <2>2, <2>4 DEF AuditInv, ApprovedIsAudited
    <2> QED BY <2>1, <2>7, <2>8, ReleaseAssumption DEF AuditInv, AuditStarts
  <1>5. ASSUME NEW c \in Command, Send(c) \/ Check(c) \/ Refuse(c) \/ Fail(c) PROVE Goal
    BY <1>1, <1>5 DEF Send, Check, Refuse, Fail, rows
  <1>6. ASSUME NEW n \in Node, InsertBaseline(n) PROVE Goal
    <2>1. APPROVED(release')
      BY <1>0, <1>6 DEF InsertBaseline
    <2> QED BY <1>6, <2>1, AuditStays, ReleaseAssumption DEF InsertBaseline, AuditStarts
  <1>7. ASSUME NEW n \in Node, StartOnPointer(n) \/ StartWithoutPointer(n) \/ StartLate(n)
        PROVE  Goal
    BY <1>1, <1>7 DEF StartOnPointer, StartWithoutPointer, StartLate, rows
  <1>8. ASSUME NEW q \in Reader, Read(q) PROVE Goal
    BY <1>1, <1>8 DEF Read, ReadPointer, Grant, Inactive, rows
  <1>9. CASE UNCHANGED vars
    BY <1>1, <1>9 DEF vars, rows
  <1> QED BY <1>2, <1>3, <1>4, <1>5, <1>6, <1>7, <1>8, <1>9 DEF Next, Administer, Start

\* The last activation in the audit is the pointer, and nothing was published that had
\* not been approved, although a transaction may fail after it wrote its event.
THEOREM AuditIsTrue == Spec => []AuditTellsThePointer
  <1>1. Init => AuditInv /\ AuditStarts
    BY DEF Init, AuditInv, AuditTellsThePointer, ApprovedIsAudited, AuditStarts, NoRow
  <1>2. IInv /\ AuditInv /\ AuditStarts /\ [Next]_vars => AuditInv' /\ AuditStarts'
    BY AuditStep
  <1>3. AuditInv => AuditTellsThePointer
    BY DEF AuditInv
  <1> QED BY <1>1, <1>2, <1>3, Invariance, PTL DEF Spec

----------------------------------------------------------------------------
(* What readers and operators rely on. *)

\* Under current reads a reader is granted the release that is active when it ends and
\* refused only because the pointer moved meanwhile: no other release can be found
\* PUBLISHED, and the pointer's is.  Under one snapshot it is never refused.
THEOREM ReadsAreConsistent == Spec => ReaderSeesOneMoment
  <1> DEFINE Granted(q) == access'[q].granted # access[q].granted
             Refused(q) == access[q].pointer # None /\ access'[q].pointer = None
             OneMoment(q) ==
               /\ Granted(q) /\ level = "READ COMMITTED" => access'[q].granted = pointer
               /\ Refused(q) => level = "READ COMMITTED" /\ pointer # access[q].pointer
  <1>1. ASSUME IInv, [Next]_vars
        PROVE  [\A q \in Reader : OneMoment(q)]_vars
    <2> SUFFICES ASSUME Next, NEW q \in Reader PROVE OneMoment(q)
      BY <1>1
    <2>0. /\ access \in [Reader -> Access]
          /\ level \in {"REPEATABLE READ", "READ COMMITTED"}
          /\ PublishedIsThePointer /\ SnapshotsShowPublished
      BY <1>1, ReleaseAssumption DEF IInv, ReleaseTypeOK
    <2>1. ASSUME UNCHANGED access PROVE OneMoment(q)
      BY <2>1
    <2>2. ASSUME NEW x \in Release, Create(x) PROVE UNCHANGED access
      BY <2>2 DEF Create
    <2>3. ASSUME NEW c \in Command, Administer(c) PROVE UNCHANGED access
      BY <2>3 DEF Administer, Send, Check, Refuse, Approve, Publish, Rollback, Fail
    <2>4. ASSUME NEW n \in Node, Start(n) PROVE UNCHANGED access
      BY <2>4 DEF Start, StartOnPointer, StartWithoutPointer, InsertBaseline, StartLate
    <2>5. ASSUME NEW p \in Reader, Read(p) PROVE OneMoment(q)
      <3>1. CASE p # q
        BY <2>0, <2>5, <3>1 DEF Read, ReadPointer, Grant, Inactive
      <3>2. CASE p = q /\ ReadPointer(q)
        <4>1. access[q].pointer = None /\ access[q].granted = None
          BY <3>2 DEF ReadPointer, NothingRead
        <4>2. access'[q].granted = None
          BY <2>0, <3>2 DEF ReadPointer
        <4> QED BY <4>1, <4>2
      <3>3. CASE p = q /\ Grant(q)
        <4>1. /\ access'[q].granted = access[q].pointer
              /\ access'[q].pointer = access[q].pointer
              /\ access[q].pointer \in Release
          BY <2>0, <3>3 DEF Grant, Access
        <4>2. level = "READ COMMITTED" => release[access[q].pointer].status = "PUBLISHED"
          BY <3>3 DEF Grant, Found
        <4> QED BY <2>0, <4>1, <4>2, ReleaseAssumption DEF PublishedIsThePointer
      <3>4. CASE p = q /\ Inactive(q)
        <4>1. /\ access[q].pointer # None /\ access[q].granted = None
              /\ access'[q] = NothingRead /\ access[q].pointer \in Release
          BY <2>0, <3>4 DEF Inactive, Access
        <4>2. level = "READ COMMITTED" /\ release[access[q].pointer].status # "PUBLISHED"
          BY <2>0, <3>4, <4>1 DEF Inactive, Found, SnapshotsShowPublished
        <4>3. pointer # access[q].pointer
          BY <2>0, <4>1, <4>2 DEF PublishedIsThePointer
        <4>4. access'[q].granted = None
          BY <4>1 DEF NothingRead
        <4> QED BY <4>1, <4>2, <4>3, <4>4
      <3> QED BY <2>5, <3>1, <3>2, <3>3, <3>4 DEF Read
    <2> QED BY <2>1, <2>2, <2>3, <2>4, <2>5 DEF Next
  <1> QED BY <1>1, Invariance, PTL DEF Spec, ReaderSeesOneMoment

\* What README.md:341 says does hold when the reads behind the pointer's lock are
\* current: the release the pointer leaves is archived in the same transaction.
THEOREM CurrentReadsArchive ==
  Spec /\ level = "READ COMMITTED" => SwitchArchivesPrevious
  <1> DEFINE Current == level = "READ COMMITTED"
  <1>1. ASSUME IInv, Current, [Next]_vars
        PROVE  /\ Current'
               /\ [pointer' # pointer /\ pointer # None =>
                     release'[pointer].status = "ARCHIVED"]_vars
    <2>1. CASE UNCHANGED vars
      BY <1>1, <2>1 DEF vars, rows
    <2>2. CASE Next
      <3>1. Current'
        BY <1>1, <2>2, PublishedStep
      <3>2. ASSUME pointer' # pointer, pointer # None
            PROVE  release'[pointer].status = "ARCHIVED"
        <4>1. ASSUME NEW x \in Release, Create(x) PROVE FALSE
          BY <3>2, <4>1 DEF Create
        <4>2. ASSUME NEW c \in Command, Administer(c)
              PROVE  release'[pointer].status = "ARCHIVED"
          <5>1. CASE Publish(c) \/ Rollback(c)
            <6>1. /\ pc[c] = "checked" /\ Updates(snapshot[c], Target(c))
                  /\ CanArchive(c, pointer) /\ release' = Switched(c)
              BY <1>1, <5>1, SwitchIsCurrent
            <6>2. Switched(c)[pointer].status = "ARCHIVED"
              BY <1>1, <6>1, SwitchedRows
            <6> QED BY <6>1, <6>2
          <5> QED BY <3>2, <4>2, <5>1 DEF Administer, Send, Check, Refuse, Approve, Fail, rows
        <4>3. ASSUME NEW n \in Node, Start(n) PROVE FALSE
          BY <3>2, <4>3
             DEF Start, StartOnPointer, StartWithoutPointer, InsertBaseline, StartLate, rows
        <4>4. ASSUME NEW q \in Reader, Read(q) PROVE FALSE
          BY <3>2, <4>4 DEF Read, ReadPointer, Grant, Inactive, rows
        <4> QED BY <2>2, <4>1, <4>2, <4>3, <4>4 DEF Next
      <3> QED BY <3>1, <3>2
    <2> QED BY <1>1, <2>1, <2>2
  <1> QED BY <1>1, Invariance, PTL DEF Spec, SwitchArchivesPrevious
===============================================================================
