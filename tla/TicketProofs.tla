----------------------------- MODULE TicketProofs -----------------------------
(***************************************************************************)
(* Proofs about TicketLifecycle, for any number of commands of any kind    *)
(* about one ticket, and any clocks; and about TicketQueueView, for any    *)
(* number of tickets, of requests under way and of things the user does,   *)
(* and for any size of a page.                                             *)
(***************************************************************************)
EXTENDS TicketLifecycle, TicketQueueView, TLAPS

----------------------------------------------------------------------------
(* Tickets: the inductive invariant. *)

Writers == {"update", "unassign", "claim", "analyze"}

\* A command under way has a request, and a kind that its place belongs to.
Asked ==
  \A c \in Command :
    /\ At(c, "sent") => request[c] \in Request
    /\ At(c, "checked") => request[c] \in Request /\ Kind(c) = "claim"
    /\ At(c, "read") => request[c] \in Request /\ Kind(c) \in Writers \cup {"review"}

\* Nobody knows a later ticket than there is.
ExpectedInPast ==
  \A c \in Command :
    At(c, "sent") \/ At(c, "checked") =>
      (Kind(c) \in Writers => request[c].expected <= ticket.version)

\* What a writer read is the ticket, unless its version has moved; and it is what
\* the client expected.
SeenAgrees ==
  \A c \in Command : At(c, "read") /\ Kind(c) \in Writers =>
    /\ seen[c].version = request[c].expected
    /\ seen[c].version <= ticket.version
    /\ seen[c].version = ticket.version => seen[c] = ticket

\* A claim that passed the check of the status will find it again, or another version.
ClaimIsOpen ==
  \A c \in Command :
    /\ At(c, "checked") /\ request[c].expected = ticket.version => ticket.status \notin Final
    /\ At(c, "read") /\ Kind(c) = "claim" => seen[c].status \notin Final

\* Runs are told apart by their command and by their source, the last one tells what
\* the ticket became, and each has its event.
RunsAreDistinct ==
  \A run \in runs :
    /\ At(run.by, "ok")
    /\ \A other \in runs : other.by = run.by \/ other.source = run.source => other = run
    /\ run.source + 1 = ticket.version => ticket.status = run.result
    /\ \E i \in DOMAIN audit :
         /\ audit[i].action = "ANALYSIS_PERSISTED"
         /\ audit[i].version = run.source /\ audit[i].by = run.by

\* The run that a review names exists, and the transaction's snapshot shows it.
ReviewedRunExists ==
  \A c \in Command : (At(c, "sent") \/ At(c, "read")) /\ Kind(c) = "review" =>
    /\ \E run \in runs : run.by = request[c].run
    /\ At(c, "read") => \E run \in snapshot[c].runs : run.by = request[c].run

IInv ==
  /\ LifecycleTypeOK
  /\ Asked
  /\ ExpectedInPast
  /\ SeenAgrees
  /\ ClaimIsOpen
  /\ RunsAreDistinct
  /\ ReviewedRunExists
  /\ AuditTellsEveryVersion

----------------------------------------------------------------------------

\* What a request of each kind carries.
LEMMA RequestShape ==
  ASSUME NEW x \in Request
  PROVE  /\ x.kind \in Writers \cup {"note", "review"}
         /\ x.kind \in Writers \cup {"note"} => x.expected \in Nat
         /\ x.kind = "note" => x.id \in NoteId /\ x.text \in Text
         /\ x.kind = "review" => x.run \in Command /\ x.text \in Text
  <1>1. CASE x \in [kind : {"update", "unassign", "claim", "analyze"}, expected : Nat]
    BY <1>1 DEF Writers
  <1>2. CASE x \in [kind : {"note"}, expected : Nat, id : NoteId, text : Text]
    BY <1>2 DEF Writers
  <1>3. CASE x \in [kind : {"review"}, run : Command, text : Text]
    BY <1>3 DEF Writers
  <1> QED BY <1>1, <1>2, <1>3 DEF Request

\* Nothing has happened at first.
LEMMA InitIInv == Init => IInv
  <1> SUFFICES ASSUME Init PROVE IInv
    OBVIOUS
  <1>1. ticket \in Ticket /\ ticket.version = 0
    BY DEF Init, Ticket
  <1>2. LifecycleTypeOK
    <2>1. reviews \in Seq(Review) /\ audit \in Seq(Event) /\ <<>> \in Seq(Review)
      BY DEF Init
    <2>2. snapshot \in [Command -> [runs : SUBSET runs, reviews : Seq(Review)]]
      BY <2>1 DEF Init, NoSnapshot
    <2> QED BY <1>1, <2>1, <2>2 DEF Init, LifecycleTypeOK
  <1>3. \A c \in Command : ~At(c, "sent") /\ ~At(c, "checked") /\ ~At(c, "read")
    BY DEF Init, At
  <1>4. AuditTellsEveryVersion
    <2>1. Changes = {}
      BY DEF Init, Changes
    <2> QED BY <1>1, <2>1 DEF AuditTellsEveryVersion
  <1>5. RunsAreDistinct
    BY DEF Init, RunsAreDistinct
  <1> QED BY <1>2, <1>3, <1>4, <1>5
      DEF IInv, Asked, ExpectedInPast, SeenAgrees, ClaimIsOpen, ReviewedRunExists

----------------------------------------------------------------------------
(* What a write is. *)

\* The ticket gets its next version, with an event and perhaps a run.
Writes(c, e) ==
  /\ ticket' \in Ticket
  /\ ticket'.version = ticket.version + 1
  /\ audit' = Append(audit, e)
  /\ e \in Event /\ e.action \in Change /\ e.by = c
  /\ Produced(e) = ticket.version + 1
  /\ ticket.status \in Final => ticket'.status \in {ticket.status, "CLOSED"}
  /\ ticket.status \in Final => Kind(c) = "update"
  /\ \/ runs' = runs
     \/ /\ e.action = "ANALYSIS_PERSISTED"
        /\ \E run \in Run :
             /\ runs' = runs \cup {run}
             /\ run.by = c /\ run.source = ticket.version /\ run.result = ticket'.status
  /\ reviews' = reviews
  /\ notes' \in SUBSET Note

\* A writer whose flush succeeds writes on what it read.
LEMMA FlushIsCurrent ==
  ASSUME IInv, NEW c \in Command, At(c, "read"), Kind(c) \in Writers, FlushSucceeds(c)
  PROVE  /\ seen[c] = ticket /\ ticket \in Ticket
         /\ ticket.version = request[c].expected
         /\ request[c] \in Request
  BY DEF IInv, SeenAgrees, FlushSucceeds, LifecycleTypeOK, Asked

LEMMA StoredTicket ==
  ASSUME NEW c \in Command, ticket \in Ticket, seen[c] = ticket,
         NEW s \in Status, NEW a \in BOOLEAN, Store(c, s, a)
  PROVE  /\ ticket' \in Ticket /\ ticket'.version = ticket.version + 1
         /\ ticket'.status = s
  BY DEF Store, Ticket

LEMMA Transitions ==
  ASSUME NEW from \in Status
  PROVE  /\ ManualTransitions(from) \subseteq Status
         /\ from \in Final => ManualTransitions(from) \subseteq {"CLOSED"}
  BY DEF ManualTransitions, Status, Analyzed, Final

LEMMA UpdateWrites ==
  ASSUME IInv, NEW c \in Command, WriteUpdate(c)
  PROVE  \E e : Writes(c, e)
  <1> DEFINE e == [action |-> "TICKET_UPDATED", version |-> seen[c].version + 1, by |-> c]
  <1>1. /\ seen[c] = ticket /\ ticket \in Ticket /\ Kind(c) \in {"update", "claim"}
    BY FlushIsCurrent DEF WriteUpdate, Writers
  <1>2. audit' = Append(audit, e) /\ UNCHANGED <<runs, reviews>> /\ notes' \in SUBSET Note
    BY DEF WriteUpdate, Audit, IInv, LifecycleTypeOK
  <1>3. /\ e \in Event /\ e.action \in Change /\ e.by = c
        /\ Produced(e) = ticket.version + 1
    BY <1>1 DEF Event, Change, Produced, Ticket
  <1>4. ticket.status \in Status /\ ticket.assigned \in BOOLEAN
    BY <1>1 DEF Ticket
  <1>5. CASE Kind(c) = "claim"
    <2>1. Store(c, ticket.status, TRUE)
      BY <1>1, <1>5 DEF WriteUpdate
    <2>2. /\ ticket' \in Ticket /\ ticket'.version = ticket.version + 1
          /\ ticket'.status = ticket.status
      <3>1. TRUE \in BOOLEAN BY Zenon
      <3> QED BY <1>1, <1>4, <2>1, <3>1, StoredTicket
    <2>3. ticket.status \notin Final
      BY <1>1, <1>5 DEF WriteUpdate, IInv, ClaimIsOpen
    <2> QED BY <1>2, <1>3, <2>2, <2>3 DEF Writes
  <1>6. CASE Kind(c) = "update"
    <2>1. PICK s \in ManualTransitions(ticket.status) \cup {ticket.status},
               a \in {ticket.assigned, TRUE} : Store(c, s, a)
      BY <1>1, <1>6 DEF WriteUpdate
    <2>2. s \in Status /\ (ticket.status \in Final => s \in {ticket.status, "CLOSED"})
      BY <1>4, Transitions
    <2>3. a \in BOOLEAN
      BY <1>4, Zenon
    <2>4. /\ ticket' \in Ticket /\ ticket'.version = ticket.version + 1
          /\ ticket'.status = s
      BY <1>1, <2>1, <2>2, <2>3, StoredTicket
    <2> QED BY <1>2, <1>3, <1>6, <2>2, <2>4 DEF Writes
  <1> QED BY <1>1, <1>5, <1>6

LEMMA UnassignWrites ==
  ASSUME IInv, NEW c \in Command, WriteUnassign(c)
  PROVE  \E e : Writes(c, e)
  <1> DEFINE e == [action |-> "TICKET_UNASSIGNED", version |-> seen[c].version + 1, by |-> c]
  <1>1. /\ seen[c] = ticket /\ ticket \in Ticket /\ ticket.status \notin Final
        /\ ticket.status \in Status
    BY FlushIsCurrent DEF WriteUnassign, Writers, Ticket
  <1>2. audit' = Append(audit, e) /\ UNCHANGED <<runs, reviews>> /\ notes' \in SUBSET Note
    BY DEF WriteUnassign, Audit, IInv, LifecycleTypeOK
  <1>3. /\ e \in Event /\ e.action \in Change /\ e.by = c
        /\ Produced(e) = ticket.version + 1
    BY <1>1 DEF Event, Change, Produced, Ticket
  <1>4. /\ ticket' \in Ticket /\ ticket'.version = ticket.version + 1
    <2>1. FALSE \in BOOLEAN BY Zenon
    <2>2. Store(c, ticket.status, FALSE) BY <1>1 DEF WriteUnassign
    <2> QED BY <1>1, <2>1, <2>2, StoredTicket
  <1> QED BY <1>1, <1>2, <1>3, <1>4 DEF Writes

LEMMA AnalysisWrites ==
  ASSUME IInv, NEW c \in Command, WriteAnalysis(c)
  PROVE  \E e : Writes(c, e)
  <1> DEFINE e == [action |-> "ANALYSIS_PERSISTED", version |-> request[c].expected, by |-> c]
  <1>1. /\ seen[c] = ticket /\ ticket \in Ticket /\ ticket.status \notin Final
        /\ request[c].expected = ticket.version /\ ticket.assigned \in BOOLEAN
        /\ ticket.version \in Nat
    BY FlushIsCurrent DEF WriteAnalysis, Writers, Ticket
  <1>2. audit' = Append(audit, e) /\ UNCHANGED reviews /\ notes' \in SUBSET Note
    BY DEF WriteAnalysis, Audit, IInv, LifecycleTypeOK
  <1>3. /\ e \in Event /\ e.action \in Change /\ e.by = c
        /\ Produced(e) = ticket.version + 1
    BY <1>1 DEF Event, Change, Produced
  <1>4. PICK result \in Analyzed, stamp \in Stamp :
          /\ runs' = runs \cup {[by |-> c, source |-> request[c].expected,
                                 result |-> result, createdAt |-> stamp]}
          /\ Store(c, result, ticket.assigned)
    BY <1>1 DEF WriteAnalysis
  <1>5. /\ ticket' \in Ticket /\ ticket'.version = ticket.version + 1 /\ ticket'.status = result
    <2>1. result \in Status BY DEF Status
    <2> QED BY <1>1, <1>4, <2>1, StoredTicket
  <1> DEFINE run == [by |-> c, source |-> request[c].expected, result |-> result, createdAt |-> stamp]
  <1>6. /\ run \in Run /\ run.by = c /\ run.source = ticket.version /\ run.result = ticket'.status
    BY <1>1, <1>5, StampAssumption DEF Run
  <1>7. runs' = runs \cup {run} BY <1>4
  <1> HIDE DEF run
  <1> QED BY <1>1, <1>2, <1>3, <1>5, <1>6, <1>7 DEF Writes

LEMMA NoteWrites ==
  ASSUME IInv, NEW c \in Command, AddNote(c)
  PROVE  \E e : Writes(c, e)
  <1> DEFINE e == [action |-> "TICKET_NOTE_ADDED", version |-> ticket.version + 1, by |-> c]
  <1>1. ticket \in Ticket /\ ticket.status \notin Final
    BY DEF IInv, LifecycleTypeOK, AddNote
  <1>2. audit' = Append(audit, e) /\ UNCHANGED <<runs, reviews>>
    BY DEF AddNote, Audit
  <1>3. /\ e \in Event /\ e.action \in Change /\ e.by = c
        /\ Produced(e) = ticket.version + 1
    BY <1>1 DEF Event, Change, Produced, Ticket
  <1>4. /\ ticket' \in Ticket /\ ticket'.version = ticket.version + 1
    BY <1>1 DEF AddNote, Ticket
  <1>5. notes' \in SUBSET Note
    <2>1. request[c] \in Request /\ request[c].kind = "note"
      BY DEF IInv, Asked, AddNote, Kind
    <2>2. request[c].id \in NoteId /\ request[c].text \in Text
      BY <2>1, RequestShape
    <2>3. notes \in SUBSET Note
      BY DEF IInv, LifecycleTypeOK
    <2> QED BY <2>2, <2>3 DEF AddNote, Note
  <1> QED BY <1>1, <1>2, <1>3, <1>4, <1>5 DEF Writes

----------------------------------------------------------------------------
(* What a step is. *)

Others(c) ==
  \A d \in Command \ {c} :
    pc'[d] = pc[d] /\ request'[d] = request[d] /\ seen'[d] = seen[d] /\ snapshot'[d] = snapshot[d]

Sends(c) ==
  /\ At(c, "idle") /\ pc'[c] = "sent"
  /\ request'[c] \in Request
  /\ request'[c].kind \in Writers => request'[c].expected = ticket.version
  /\ request'[c].kind = "review" => \E run \in runs : run.by = request'[c].run
  /\ UNCHANGED <<rows, seen, snapshot>>

Passes(c) ==
  /\ At(c, "sent") /\ Kind(c) = "claim" /\ pc'[c] = "checked"
  /\ ticket.status \notin Final
  /\ UNCHANGED <<rows, request, seen, snapshot>>

Finishes(c) ==
  /\ pc[c] \in {"sent", "checked", "read"} /\ pc'[c] \in {"ok", "conflict"}
  /\ UNCHANGED <<request, seen, snapshot>>
  /\ \/ UNCHANGED rows
     \/ pc'[c] = "ok" /\ \E e : Writes(c, e)
     \/ pc'[c] = "ok" /\ SaveReview(c)
  /\ pc'[c] = "conflict" /\ Kind(c) = "review" => StaleReview(c)

Moves(c) ==
  /\ Others(c)
  /\ pc' \in [Command -> {"idle", "sent", "checked", "read", "ok", "conflict"}]
  /\ request' \in [Command -> Request \cup {NoRequest}]
  /\ seen' \in [Command -> Ticket]
  /\ snapshot' \in [Command -> [runs : SUBSET runs, reviews : Seq(Review)]]
  /\ \/ Sends(c)
     \/ Passes(c)
     \/ ReadTicket(c)
     \/ ReadRun(c)
     \/ Finishes(c)

\* The types of what belongs to commands.
LEMMA Types ==
  ASSUME IInv
  PROVE  /\ ticket \in Ticket /\ runs \in SUBSET Run /\ reviews \in Seq(Review)
         /\ notes \in SUBSET Note /\ audit \in Seq(Event)
         /\ pc \in [Command -> {"idle", "sent", "checked", "read", "ok", "conflict"}]
         /\ request \in [Command -> Request \cup {NoRequest}]
         /\ seen \in [Command -> Ticket]
         /\ snapshot \in [Command -> [runs : SUBSET runs, reviews : Seq(Review)]]
  BY DEF IInv, LifecycleTypeOK

LEMMA SendMoves ==
  ASSUME IInv, NEW c \in Command, SendEdit(c) \/ SendNote(c) \/ SendReview(c)
  PROVE  Moves(c)
  <1>0. ticket.version \in Nat /\ runs \in SUBSET Run
    BY Types DEF Ticket
  <1>1. PICK req : Send(c, req) /\ req \in Request
                   /\ (req.kind \in Writers => req.expected = ticket.version)
                   /\ (req.kind = "review" => \E run \in runs : run.by = req.run)
    <2>1. CASE SendEdit(c)
      BY <1>0, <2>1 DEF SendEdit, Request, Writers
    <2>2. CASE SendNote(c)
      BY <1>0, <2>2 DEF SendNote, Request, Writers
    <2>3. CASE SendReview(c)
      <3>1. PICK run \in runs, t \in Text :
              Send(c, [kind |-> "review", run |-> run.by, text |-> t])
        BY <2>3 DEF SendReview
      <3>2. run.by \in Command BY <1>0 DEF Run
      <3> QED BY <3>1, <3>2 DEF Request, Writers
    <2> QED BY <2>1, <2>2, <2>3
  <1>2. /\ At(c, "idle") /\ request' = [request EXCEPT ![c] = req]
        /\ pc' = [pc EXCEPT ![c] = "sent"] /\ UNCHANGED <<rows, seen, snapshot>>
    BY <1>1 DEF Send, Goto
  <1>3. pc'[c] = "sent" /\ request'[c] = req
    BY <1>2, Types
  <1>4. Sends(c)
    BY <1>1, <1>2, <1>3 DEF Sends
  <1>5. /\ Others(c)
        /\ pc' \in [Command -> {"idle", "sent", "checked", "read", "ok", "conflict"}]
        /\ request' \in [Command -> Request \cup {NoRequest}]
        /\ seen' \in [Command -> Ticket]
        /\ snapshot' \in [Command -> [runs : SUBSET runs, reviews : Seq(Review)]]
    BY <1>1, <1>2, Types DEF Others
  <1> QED BY <1>4, <1>5 DEF Moves

\* The rest of Moves, for a step that changes nothing of a command but its place.
LEMMA OnlyPlaces ==
  ASSUME IInv, NEW c \in Command,
         NEW place \in {"idle", "sent", "checked", "read", "ok", "conflict"},
         Goto(c, place), UNCHANGED <<request, seen, snapshot>>,
         pc'[c] = place => Passes(c) \/ Finishes(c)
  PROVE  Moves(c)
  BY Types DEF Moves, Others, Goto

\* A command ends in one of three ways: nothing is written, the ticket gets a version,
\* or a decision is saved.
LEMMA EndMoves ==
  ASSUME IInv, NEW c \in Command,
         NEW place \in {"ok", "conflict"}, Goto(c, place),
         pc[c] \in {"sent", "checked", "read"},
         UNCHANGED <<request, seen, snapshot>>,
         \/ UNCHANGED rows
         \/ place = "ok" /\ \E e : Writes(c, e)
         \/ place = "ok" /\ SaveReview(c),
         place = "conflict" /\ Kind(c) = "review" => StaleReview(c)
  PROVE  Moves(c)
  <1>1. pc'[c] = place => Finishes(c)
    BY DEF Finishes
  <1> QED BY <1>1, OnlyPlaces

\* A reading transaction changes only what its own command knows.
LEMMA ReadersMove ==
  ASSUME IInv, NEW c \in Command, ReadTicket(c) \/ ReadRun(c)
  PROVE  Moves(c)
  <1>1. CASE ReadTicket(c)
    BY <1>1, Types DEF ReadTicket, Goto, Others, Moves
  <1>2. CASE ReadRun(c)
    <2>1. [runs |-> runs, reviews |-> reviews] \in [runs : SUBSET runs, reviews : Seq(Review)]
      BY Types
    <2> QED BY <1>2, <2>1, Types DEF ReadRun, Goto, Others, Moves
  <1> QED BY <1>1, <1>2

LEMMA EditMoves ==
  ASSUME IInv, NEW c \in Command, Edit(c)
  PROVE  Moves(c)
  <1>0. Ready(c) => Kind(c) # "review" /\ pc[c] \in {"sent", "checked"}
    BY DEF IInv, Asked, Writers, Ready, At
  <1>1. CASE CheckClaim(c)
    <2>1. CASE ticket.status \in Final
      BY <1>1, <2>1, EndMoves DEF CheckClaim, At
    <2>2. CASE ticket.status \notin Final
      <3>1. Goto(c, "checked") /\ UNCHANGED <<request, seen, snapshot>>
        BY <1>1, <2>2 DEF CheckClaim
      <3>2. pc'[c] = "checked" => Passes(c)
        BY <1>1, <2>2 DEF CheckClaim, Passes
      <3> QED BY <3>1, <3>2, OnlyPlaces
    <2> QED BY <2>1, <2>2
  <1>2. CASE ReadTicket(c)
    BY <1>2, ReadersMove
  <1>3. CASE VersionConflict(c)
    BY <1>0, <1>3, EndMoves DEF VersionConflict
  <1>4. CASE FlushFails(c)
    BY <1>4, EndMoves DEF FlushFails, At
  <1>5. CASE WriteUpdate(c)
    BY <1>5, UpdateWrites, EndMoves DEF WriteUpdate, At
  <1>6. CASE NothingToChange(c)
    BY <1>6, EndMoves DEF NothingToChange, At
  <1>7. CASE StateConflict(c)
    BY <1>7, EndMoves DEF StateConflict, At
  <1>8. CASE WriteUnassign(c)
    BY <1>8, UnassignWrites, EndMoves DEF WriteUnassign, At
  <1>9. CASE WriteAnalysis(c)
    BY <1>9, AnalysisWrites, EndMoves DEF WriteAnalysis, At
  <1> QED BY <1>1, <1>2, <1>3, <1>4, <1>5, <1>6, <1>7, <1>8, <1>9 DEF Edit

LEMMA NoteMoves ==
  ASSUME IInv, NEW c \in Command, TakeNote(c)
  PROVE  Moves(c)
  <1>1. CASE RepeatNote(c)
    <2>1. Goto(c, "ok") \/ Goto(c, "conflict")
      BY <1>1, Zenon DEF RepeatNote
    <2> QED BY <1>1, <2>1, EndMoves DEF RepeatNote, At
  <1>2. CASE AddNote(c)
    BY <1>2, NoteWrites, EndMoves DEF AddNote, At
  <1>3. CASE RefuseNote(c)
    BY <1>3, EndMoves DEF RefuseNote, At
  <1> QED BY <1>1, <1>2, <1>3 DEF TakeNote

LEMMA DecideMoves ==
  ASSUME IInv, NEW c \in Command, Decide(c)
  PROVE  Moves(c)
  <1>1. CASE ReadRun(c)
    BY <1>1, ReadersMove
  <1>2. CASE SaveReview(c)
    <2>1. /\ Goto(c, "ok") /\ pc[c] \in {"sent", "checked", "read"}
          /\ UNCHANGED <<request, seen, snapshot>>
      BY <1>2 DEF SaveReview, At
    <2> QED BY <1>2, <2>1, EndMoves
  <1>3. CASE RepeatReview(c)
    BY <1>3, EndMoves DEF RepeatReview, At
  <1>4. CASE StaleReview(c)
    <2>1. /\ Goto(c, "conflict") /\ pc[c] \in {"sent", "checked", "read"}
          /\ UNCHANGED <<rows, request, seen, snapshot>>
      BY <1>4 DEF StaleReview, At
    <2> QED BY <1>4, <2>1, EndMoves
  <1> QED BY <1>1, <1>2, <1>3, <1>4 DEF Decide

LEMMA NextMoves ==
  ASSUME IInv, Next
  PROVE  \E c \in Command : Moves(c)
  BY SendMoves, EditMoves, NoteMoves, DecideMoves DEF Next

----------------------------------------------------------------------------
(* What a step does to the rows. *)

\* Nothing, a write, or a decision.
RowsMove(c) ==
  \/ UNCHANGED rows
  \/ pc[c] # "ok" /\ pc'[c] = "ok" /\ \E e : Writes(c, e)
  \/ pc[c] # "ok" /\ pc'[c] = "ok" /\ SaveReview(c)

LEMMA MovesRows ==
  ASSUME NEW c \in Command, Moves(c)
  PROVE  RowsMove(c)
  BY DEF Moves, Sends, Passes, ReadTicket, ReadRun, Finishes, RowsMove

\* The ticket changes with its version; runs are only added.
LEMMA RowsGrow ==
  ASSUME IInv, NEW c \in Command, RowsMove(c)
  PROVE  /\ ticket' \in Ticket /\ ticket.version <= ticket'.version
         /\ ticket'.version = ticket.version => ticket' = ticket
         /\ runs \subseteq runs'
         /\ runs' \in SUBSET Run /\ notes' \in SUBSET Note
         /\ reviews' \in Seq(Review) /\ audit' \in Seq(Event)
  <1>0. ticket \in Ticket /\ ticket.version \in Nat
    BY Types DEF Ticket
  <1>1. CASE UNCHANGED rows
    BY <1>0, <1>1, Types DEF rows
  <1>2. CASE \E e : Writes(c, e)
    <2>1. PICK e : Writes(c, e)
      BY <1>2
    <2>2. audit' \in Seq(Event)
      BY <2>1, Types DEF Writes
    <2>3. ticket' \in Ticket /\ ticket'.version = ticket.version + 1
      BY <2>1 DEF Writes
    <2> QED BY <1>0, <2>1, <2>2, <2>3, Types DEF Writes
  <1>3. CASE SaveReview(c)
    <2>1. audit' \in Seq(Event)
      <3>1. [action |-> "ANALYSIS_REVIEWED", version |-> ticket.version, by |-> c] \in Event
        BY <1>0 DEF Event
      <3> QED BY <1>3, <3>1, Types DEF SaveReview, Audit
    <2>2. reviews' \in Seq(Review)
      <3>1. request[c] \in Request /\ request[c].kind = "review"
        BY <1>3 DEF IInv, Asked, SaveReview, Kind
      <3>2. request[c].run \in Command /\ request[c].text \in Text
        BY <3>1, RequestShape
      <3>3. [by |-> c, run |-> request[c].run, text |-> request[c].text] \in Review
        BY <3>2 DEF Review
      <3> QED BY <1>3, <3>3, Types DEF SaveReview
    <2> QED BY <1>0, <1>3, <2>1, <2>2, Types DEF SaveReview
  <1> QED BY <1>1, <1>2, <1>3 DEF RowsMove

----------------------------------------------------------------------------
(* The invariant is preserved, one conjunct at a time. *)

LEMMA StepTypes ==
  ASSUME IInv, NEW c \in Command, Moves(c)
  PROVE  LifecycleTypeOK'
  <1>1. RowsMove(c)
    BY MovesRows
  <1>2. /\ ticket' \in Ticket /\ runs \subseteq runs' /\ runs' \in SUBSET Run
        /\ notes' \in SUBSET Note /\ reviews' \in Seq(Review) /\ audit' \in Seq(Event)
        /\ ticket.version <= ticket'.version
    BY <1>1, RowsGrow
  <1>3. /\ pc' \in [Command -> {"idle", "sent", "checked", "read", "ok", "conflict"}]
        /\ request' \in [Command -> Request \cup {NoRequest}]
        /\ seen' \in [Command -> Ticket]
    BY DEF Moves
  <1>4. snapshot' \in [Command -> [runs : SUBSET runs', reviews : Seq(Review)]]
    <2>1. snapshot' \in [Command -> [runs : SUBSET runs, reviews : Seq(Review)]]
      BY DEF Moves
    <2>2. [runs : SUBSET runs, reviews : Seq(Review)] \subseteq [runs : SUBSET runs', reviews : Seq(Review)]
      BY <1>2
    <2> QED BY <2>1, <2>2
  <1>5. \A run \in runs' : run.source < ticket'.version
    <2>1. \A run \in runs : run.source \in Nat /\ run.source < ticket.version
      BY DEF IInv, LifecycleTypeOK, Run
    <2>2. ticket.version \in Nat /\ ticket'.version \in Nat
      BY <1>2, Types DEF Ticket
    <2>3. CASE runs' = runs
      BY <1>2, <2>1, <2>2, <2>3
    <2>4. CASE \E e : Writes(c, e)
      BY <1>2, <2>1, <2>2, <2>4 DEF Writes
    <2> QED BY <1>1, <2>3, <2>4 DEF RowsMove, rows, SaveReview
  <1> QED BY <1>2, <1>3, <1>4, <1>5 DEF LifecycleTypeOK

LEMMA StepAsked ==
  ASSUME IInv, NEW c \in Command, Moves(c)
  PROVE  Asked'
  <1> SUFFICES ASSUME NEW d \in Command
               PROVE  /\ pc'[d] = "sent" => request'[d] \in Request
                      /\ pc'[d] = "checked" => request'[d] \in Request /\ request'[d].kind = "claim"
                      /\ pc'[d] = "read" => /\ request'[d] \in Request
                                            /\ request'[d].kind \in Writers \cup {"review"}
    BY DEF Asked, At, Kind
  <1>1. CASE d # c
    BY <1>1 DEF Moves, Others, IInv, Asked, At, Kind
  <1>2. CASE d = c
    <2>1. CASE Sends(c)
      BY <1>2, <2>1 DEF Sends
    <2>2. CASE Passes(c)
      BY <1>2, <2>2 DEF Passes, IInv, Asked, At, Kind
    <2>3. CASE ReadTicket(c)
      <3>1. pc'[c] = "read" /\ request' = request
        BY <2>3, Types DEF ReadTicket, Goto
      <3>2. request[c] \in Request /\ request[c].kind \in Writers
        BY <2>3 DEF ReadTicket, Ready, IInv, Asked, At, Kind, Writers
      <3> QED BY <1>2, <3>1, <3>2
    <2>4. CASE ReadRun(c)
      <3>1. pc'[c] = "read" /\ request' = request
        BY <2>4, Types DEF ReadRun, Goto
      <3>2. request[c] \in Request /\ request[c].kind = "review"
        BY <2>4 DEF ReadRun, IInv, Asked, At, Kind
      <3> QED BY <1>2, <3>1, <3>2
    <2>5. CASE Finishes(c)
      BY <1>2, <2>5 DEF Finishes
    <2> QED BY <2>1, <2>2, <2>3, <2>4, <2>5 DEF Moves
  <1> QED BY <1>1, <1>2

\* Numbers that the steps compare.
LEMMA Numbers ==
  ASSUME IInv, NEW c \in Command, Moves(c)
  PROVE  /\ ticket.version \in Nat /\ ticket'.version \in Nat
         /\ ticket.version <= ticket'.version
         /\ ticket'.version = ticket.version => ticket' = ticket
         /\ \A d \in Command : seen[d].version \in Nat
         /\ \A d \in Command : request[d] \in Request /\ Kind(d) \in Writers => request[d].expected \in Nat
  <1>1. ticket \in Ticket /\ ticket' \in Ticket /\ ticket.version <= ticket'.version
        /\ (ticket'.version = ticket.version => ticket' = ticket)
    BY MovesRows, RowsGrow, Types
  <1>2. \A d \in Command : seen[d].version \in Nat
    BY Types DEF Ticket
  <1>3. \A d \in Command : request[d] \in Request /\ Kind(d) \in Writers => request[d].expected \in Nat
    BY RequestShape DEF Kind
  <1> QED BY <1>1, <1>2, <1>3 DEF Ticket

LEMMA StepExpected ==
  ASSUME IInv, NEW c \in Command, Moves(c)
  PROVE  ExpectedInPast'
  <1> SUFFICES ASSUME NEW d \in Command, pc'[d] = "sent" \/ pc'[d] = "checked",
                      request'[d].kind \in Writers
               PROVE  request'[d].expected <= ticket'.version
    BY DEF ExpectedInPast, At, Kind
  <1>0. Asked /\ ExpectedInPast
    BY DEF IInv
  <1>1. CASE (pc[d] = "sent" \/ pc[d] = "checked") /\ request'[d] = request[d]
    <2>1. request[d].expected \in Nat /\ request[d].expected <= ticket.version
      BY <1>0, <1>1, Numbers DEF Asked, ExpectedInPast, At, Kind
    <2> QED BY <1>1, <2>1, Numbers
  <1>2. CASE d = c /\ Sends(c)
    BY <1>2, Numbers DEF Sends, rows
  <1>3. CASE d = c /\ Passes(c)
    BY <1>1, <1>3 DEF Passes, At
  <1>4. CASE d = c /\ ~Sends(c) /\ ~Passes(c)
    BY <1>4, Types DEF Moves, ReadTicket, ReadRun, Finishes, Goto
  <1>5. CASE d # c
    BY <1>1, <1>5 DEF Moves, Others
  <1> QED BY <1>2, <1>3, <1>4, <1>5

LEMMA StepSeen ==
  ASSUME IInv, NEW c \in Command, Moves(c)
  PROVE  SeenAgrees'
  <1> SUFFICES ASSUME NEW d \in Command, pc'[d] = "read", request'[d].kind \in Writers
               PROVE  /\ seen'[d].version = request'[d].expected
                      /\ seen'[d].version <= ticket'.version
                      /\ seen'[d].version = ticket'.version => seen'[d] = ticket'
    BY DEF SeenAgrees, At, Kind
  <1>1. CASE d # c
    <2>1. pc[d] = "read" /\ request'[d] = request[d] /\ seen'[d] = seen[d]
      BY <1>1 DEF Moves, Others
    <2>2. /\ seen[d].version = request[d].expected
          /\ seen[d].version <= ticket.version
          /\ seen[d].version = ticket.version => seen[d] = ticket
      BY <2>1 DEF IInv, SeenAgrees, At, Kind
    <2> QED BY <2>1, <2>2, Numbers
  <1>2. CASE d = c
    <2>1. CASE ReadTicket(c)
      <3>1. seen'[c] = ticket /\ ticket' = ticket /\ request' = request
            /\ ticket.version = request[c].expected
        BY <2>1, Types DEF ReadTicket, rows
      <3> QED BY <1>2, <3>1, Numbers
    <2>2. CASE ReadRun(c)
      BY <1>2, <2>2 DEF ReadRun, Kind, Writers
    <2> QED BY <1>2, <2>1, <2>2 DEF Moves, Sends, Passes, Finishes
  <1> QED BY <1>1, <1>2

LEMMA StepClaim ==
  ASSUME IInv, NEW c \in Command, Moves(c)
  PROVE  ClaimIsOpen'
  <1> SUFFICES ASSUME NEW d \in Command
               PROVE  /\ pc'[d] = "checked" /\ request'[d].expected = ticket'.version
                           => ticket'.status \notin Final
                      /\ pc'[d] = "read" /\ request'[d].kind = "claim"
                           => seen'[d].status \notin Final
    BY DEF ClaimIsOpen, At, Kind
  <1>0. /\ pc[d] = "checked" /\ request[d].expected = ticket.version => ticket.status \notin Final
        /\ pc[d] = "read" /\ request[d].kind = "claim" => seen[d].status \notin Final
    BY DEF IInv, ClaimIsOpen, At, Kind
  <1>1. CASE d # c
    <2>1. /\ pc'[d] = pc[d] /\ request'[d] = request[d] /\ seen'[d] = seen[d]
      BY <1>1 DEF Moves, Others
    <2>2. ASSUME pc[d] = "checked", request[d].expected = ticket'.version
          PROVE  ticket'.status \notin Final
      <3>1. request[d].expected \in Nat /\ request[d].expected <= ticket.version
        BY <2>2, Numbers DEF IInv, Asked, ExpectedInPast, At, Kind, Writers
      <3>2. ticket' = ticket
        BY <2>2, <3>1, Numbers
      <3> QED BY <1>0, <2>2, <3>2
    <2> QED BY <1>0, <2>1, <2>2
  <1>2. CASE d = c
    <2>1. CASE Passes(c)
      BY <1>2, <2>1 DEF Passes, rows
    <2>2. CASE ReadTicket(c)
      <3>1. seen'[c] = ticket /\ pc'[c] = "read" /\ request' = request
            /\ ticket.version = request[c].expected
        BY <2>2, Types DEF ReadTicket, Goto
      <3>2. request[c].kind = "claim" => pc[c] = "checked"
        BY <2>2 DEF ReadTicket, Ready, At, Kind
      <3> QED BY <1>0, <1>2, <3>1, <3>2
    <2>3. CASE ReadRun(c)
      BY <1>2, <2>3, Types DEF ReadRun, Kind, Goto
    <2> QED BY <1>2, <2>1, <2>2, <2>3 DEF Moves, Sends, Finishes
  <1> QED BY <1>1, <1>2

\* What a run's row says is not lost by a step that adds an event at most.
LEMMA EventsStay ==
  ASSUME audit \in Seq(Event), NEW e \in Event, audit' = Append(audit, e)
  PROVE  /\ DOMAIN audit' = DOMAIN audit \cup {Len(audit) + 1}
         /\ Len(audit) \in Nat /\ DOMAIN audit = 1 .. Len(audit)
         /\ \A i \in DOMAIN audit : audit'[i] = audit[i]
         /\ audit'[Len(audit) + 1] = e
  <1>1. Len(audit) \in Nat /\ DOMAIN audit = 1 .. Len(audit)
    OBVIOUS
  <1>2. /\ Len(audit') = Len(audit) + 1 /\ DOMAIN audit' = 1 .. Len(audit) + 1
        /\ \A i \in 1 .. Len(audit) : audit'[i] = audit[i]
        /\ audit'[Len(audit) + 1] = e
    OBVIOUS
  <1> QED BY <1>1, <1>2

\* The event that a decision appends.
LEMMA DecisionEvent ==
  ASSUME IInv, NEW c \in Command, SaveReview(c)
  PROVE  \E e \in Event : e.action = "ANALYSIS_REVIEWED" /\ audit' = Append(audit, e)
  <1> DEFINE e == [action |-> "ANALYSIS_REVIEWED", version |-> ticket.version, by |-> c]
  <1>1. e \in Event /\ e.action = "ANALYSIS_REVIEWED"
    BY Types DEF Event, Ticket
  <1>2. audit' = Append(audit, e)
    BY DEF SaveReview, Audit
  <1> QED BY <1>1, <1>2

LEMMA StepRuns ==
  ASSUME IInv, NEW c \in Command, Moves(c)
  PROVE  RunsAreDistinct'
  <1>0. /\ runs \in SUBSET Run /\ audit \in Seq(Event)
        /\ \A run \in runs : run.source < ticket.version /\ run.source \in Nat
        /\ RunsAreDistinct
        /\ ticket.version \in Nat
    BY Types DEF IInv, LifecycleTypeOK, Run, Ticket
  <1>1. \A run \in runs : pc'[run.by] = "ok"
    <2>1. SUFFICES ASSUME NEW run \in runs PROVE pc'[run.by] = "ok"
      OBVIOUS
    <2>2. run.by \in Command /\ pc[run.by] = "ok"
      BY <1>0 DEF Run, RunsAreDistinct, At
    <2>3. pc[c] # "ok"
      BY DEF Moves, Sends, Passes, ReadTicket, Ready, ReadRun, Finishes, At
    <2> QED BY <2>2, <2>3 DEF Moves, Others
  <1>2. CASE UNCHANGED rows
    BY <1>0, <1>1, <1>2 DEF rows, RunsAreDistinct, At
  <1>3. CASE SaveReview(c)
    <2>1. PICK e \in Event : audit' = Append(audit, e)
      BY <1>3, DecisionEvent
    <2>2. \A i \in DOMAIN audit : i \in DOMAIN audit' /\ audit'[i] = audit[i]
      BY <1>0, <2>1, EventsStay
    <2>3. runs' = runs /\ ticket' = ticket
      BY <1>3 DEF SaveReview
    <2> QED BY <1>0, <1>1, <2>2, <2>3 DEF RunsAreDistinct, At
  <1>4. ASSUME NEW e, Writes(c, e), pc[c] # "ok", pc'[c] = "ok"
        PROVE  RunsAreDistinct'
    <2>1. e \in Event /\ audit' = Append(audit, e) /\ e.by = c
          /\ Produced(e) = ticket.version + 1 /\ ticket'.version = ticket.version + 1
      BY <1>4 DEF Writes
    <2>2. /\ \A i \in DOMAIN audit : i \in DOMAIN audit' /\ audit'[i] = audit[i]
          /\ Len(audit) + 1 \in DOMAIN audit' /\ audit'[Len(audit) + 1] = e
      BY <1>0, <2>1, EventsStay
    <2>3. ASSUME NEW run \in runs
          PROVE  /\ pc'[run.by] = "ok"
                 /\ \A other \in runs : other.by = run.by \/ other.source = run.source => other = run
                 /\ run.source + 1 # ticket'.version
                 /\ \E i \in DOMAIN audit' :
                      /\ audit'[i].action = "ANALYSIS_PERSISTED"
                      /\ audit'[i].version = run.source /\ audit'[i].by = run.by
                 /\ run.by # c /\ run.source # ticket.version
      <3>1. run.source < ticket.version /\ run.source \in Nat
        BY <1>0
      <3>2. pc[run.by] = "ok"
        BY <1>0 DEF RunsAreDistinct, At
      <3>3. \E i \in DOMAIN audit :
              /\ audit[i].action = "ANALYSIS_PERSISTED"
              /\ audit[i].version = run.source /\ audit[i].by = run.by
        BY <1>0 DEF RunsAreDistinct
      <3>4. \A other \in runs : other.by = run.by \/ other.source = run.source => other = run
        BY <1>0 DEF RunsAreDistinct
      <3>5. run.source + 1 # ticket'.version /\ run.source # ticket.version
        BY <1>0, <2>1, <3>1
      <3> QED BY <1>1, <1>4, <2>2, <3>2, <3>3, <3>4, <3>5
    <2>4. CASE runs' = runs
      BY <2>3, <2>4 DEF RunsAreDistinct, At
    <2>5. ASSUME NEW new \in Run, runs' = runs \cup {new}, new.by = c,
                 new.source = ticket.version, new.result = ticket'.status,
                 e.action = "ANALYSIS_PERSISTED"
          PROVE  RunsAreDistinct'
      <3>1. e.version = ticket.version
        <4>1. e.version \in Nat /\ e.version + 1 = ticket.version + 1
          BY <2>1, <2>5 DEF Produced, Event
        <4> QED BY <1>0, <4>1
      <3>2. \E i \in DOMAIN audit' :
              /\ audit'[i].action = "ANALYSIS_PERSISTED"
              /\ audit'[i].version = new.source /\ audit'[i].by = new.by
        BY <2>1, <2>2, <2>5, <3>1
      <3>3. ASSUME NEW run \in runs', NEW other \in runs',
                   other.by = run.by \/ other.source = run.source
            PROVE  other = run
        BY <2>3, <2>5, <3>3
      <3>4. ASSUME NEW run \in runs'
            PROVE  /\ pc'[run.by] = "ok"
                   /\ run.source + 1 = ticket'.version => ticket'.status = run.result
                   /\ \E i \in DOMAIN audit' :
                        /\ audit'[i].action = "ANALYSIS_PERSISTED"
                        /\ audit'[i].version = run.source /\ audit'[i].by = run.by
        BY <1>4, <2>3, <2>5, <3>2, <3>4
      <3> QED BY <3>3, <3>4 DEF RunsAreDistinct, At
    <2>6. runs' = runs \/ \E new \in Run :
             /\ runs' = runs \cup {new} /\ new.by = c /\ new.source = ticket.version
             /\ new.result = ticket'.status /\ e.action = "ANALYSIS_PERSISTED"
      BY <1>4 DEF Writes
    <2> QED BY <2>4, <2>5, <2>6
  <1> QED BY <1>2, <1>3, <1>4, MovesRows DEF RowsMove

LEMMA StepReviewed ==
  ASSUME IInv, NEW c \in Command, Moves(c)
  PROVE  ReviewedRunExists'
  <1> SUFFICES ASSUME NEW d \in Command, pc'[d] = "sent" \/ pc'[d] = "read",
                      request'[d].kind = "review"
               PROVE  /\ \E run \in runs' : run.by = request'[d].run
                      /\ pc'[d] = "read" =>
                           \E run \in snapshot'[d].runs : run.by = request'[d].run
    BY DEF ReviewedRunExists, At, Kind
  <1>0. runs \subseteq runs'
    BY MovesRows, RowsGrow
  <1>1. (pc[d] = "sent" \/ pc[d] = "read") /\ Kind(d) = "review" =>
          /\ \E run \in runs : run.by = request[d].run
          /\ pc[d] = "read" => \E run \in snapshot[d].runs : run.by = request[d].run
    BY DEF IInv, ReviewedRunExists, At
  <1>2. CASE d # c
    BY <1>0, <1>1, <1>2 DEF Moves, Others, Kind
  <1>3. CASE d = c
    <2>1. CASE Sends(c)
      BY <1>0, <1>3, <2>1 DEF Sends
    <2>2. CASE ReadTicket(c)
      <3>1. request[c].kind # "review"
        BY <2>2 DEF ReadTicket, Ready, IInv, Asked, At, Kind
      <3> QED BY <1>3, <2>2, <3>1 DEF ReadTicket
    <2>3. CASE ReadRun(c)
      <3>1. /\ snapshot'[c] = [runs |-> runs, reviews |-> reviews] /\ request' = request
            /\ pc[c] = "sent"
        BY <2>3, Types DEF ReadRun, At
      <3>2. snapshot'[c].runs = runs
        BY <3>1
      <3> QED BY <1>0, <1>1, <1>3, <3>1, <3>2 DEF Kind
    <2> QED BY <1>3, <2>1, <2>2, <2>3 DEF Moves, Passes, Finishes
  <1> QED BY <1>2, <1>3

\* The event that produced a version is one.
LEMMA StepAudit ==
  ASSUME IInv, NEW c \in Command, Moves(c)
  PROVE  AuditTellsEveryVersion'
  <1>0. /\ audit \in Seq(Event) /\ ticket.version \in Nat
        /\ {Produced(audit[i]) : i \in Changes} = 1 .. ticket.version
        /\ \A i, j \in Changes : i < j => Produced(audit[i]) < Produced(audit[j])
        /\ Changes \subseteq DOMAIN audit
    BY Types DEF IInv, AuditTellsEveryVersion, Ticket, Changes
  <1>1. CASE UNCHANGED rows
    BY <1>0, <1>1 DEF rows, AuditTellsEveryVersion, Changes
  <1>2. CASE SaveReview(c)
    <2>1. PICK e \in Event : e.action = "ANALYSIS_REVIEWED" /\ audit' = Append(audit, e)
      BY <1>2, DecisionEvent
    <2>2. /\ DOMAIN audit' = DOMAIN audit \cup {Len(audit) + 1}
          /\ Len(audit) \in Nat /\ DOMAIN audit = 1 .. Len(audit)
          /\ \A i \in DOMAIN audit : audit'[i] = audit[i]
          /\ audit'[Len(audit) + 1] = e
      BY <1>0, <2>1, EventsStay
    <2>3. e.action \notin Change
      BY <2>1 DEF Change
    <2>4. Changes' = Changes
      BY <2>2, <2>3 DEF Changes
    <2>5. \A i \in Changes : audit'[i] = audit[i]
      BY <1>0, <2>2
    <2>6. ticket' = ticket
      BY <1>2 DEF SaveReview
    <2>7. {Produced(audit'[i]) : i \in Changes'} = {Produced(audit[i]) : i \in Changes}
      BY <2>4, <2>5
    <2>8. \A i, j \in Changes' : i < j => Produced(audit'[i]) < Produced(audit'[j])
      BY <1>0, <2>4, <2>5
    <2> QED BY <1>0, <2>6, <2>7, <2>8 DEF AuditTellsEveryVersion
  <1>3. ASSUME NEW e, Writes(c, e)
        PROVE  AuditTellsEveryVersion'
    <2>1. e \in Event /\ audit' = Append(audit, e) /\ e.action \in Change
          /\ Produced(e) = ticket.version + 1 /\ ticket'.version = ticket.version + 1
      BY <1>3 DEF Writes
    <2> DEFINE last == Len(audit) + 1
    <2>2. /\ DOMAIN audit' = DOMAIN audit \cup {last}
          /\ Len(audit) \in Nat /\ DOMAIN audit = 1 .. Len(audit)
          /\ \A i \in DOMAIN audit : audit'[i] = audit[i]
          /\ audit'[last] = e
      BY <1>0, <2>1, EventsStay
    <2>3. last \in Nat /\ last \notin DOMAIN audit /\ \A i \in Changes : i < last /\ i \in Nat
      BY <1>0, <2>2
    <2> HIDE DEF last
    <2>4. Changes' = Changes \cup {last}
      BY <2>1, <2>2 DEF Changes
    <2>5. \A i \in Changes : audit'[i] = audit[i]
      BY <1>0, <2>2
    <2>6. {Produced(audit'[i]) : i \in Changes'} = 1 .. ticket'.version
      <3>1. {Produced(audit'[i]) : i \in Changes'}
              = {Produced(audit[i]) : i \in Changes} \cup {Produced(e)}
        BY <2>2, <2>4, <2>5
      <3>2. 1 .. ticket'.version = (1 .. ticket.version) \cup {ticket.version + 1}
        BY <1>0, <2>1
      <3> QED BY <1>0, <2>1, <3>1, <3>2
    <2>7. ASSUME NEW i \in Changes', NEW j \in Changes', i < j
          PROVE  Produced(audit'[i]) < Produced(audit'[j])
      <3>1. \A k \in Changes : Produced(audit[k]) \in 1 .. ticket.version
        BY <1>0
      <3>2. i \in Changes
        BY <2>3, <2>4, <2>7
      <3>3. CASE j \in Changes
        BY <1>0, <2>5, <2>7, <3>2, <3>3
      <3>4. CASE j = last
        <4>1. Produced(audit'[j]) = ticket.version + 1
          BY <2>1, <2>2, <3>4
        <4>2. Produced(audit'[i]) \in 1 .. ticket.version
          BY <2>5, <3>1, <3>2
        <4> QED BY <1>0, <4>1, <4>2
      <3> QED BY <2>4, <3>3, <3>4
    <2> QED BY <2>6, <2>7 DEF AuditTellsEveryVersion
  <1> QED BY <1>1, <1>2, <1>3, MovesRows DEF RowsMove

----------------------------------------------------------------------------
(* The theorems. *)

LEMMA StepIInv ==
  ASSUME IInv, [Next]_vars
  PROVE  IInv'
  <1>1. CASE Next
    <2>1. PICK c \in Command : Moves(c)
      BY <1>1, NextMoves
    <2> QED BY <2>1, StepTypes, StepAsked, StepExpected, StepSeen, StepClaim, StepRuns,
               StepReviewed, StepAudit DEF IInv
  <1>2. CASE UNCHANGED vars
    BY <1>2 DEF vars, IInv, LifecycleTypeOK, Asked, ExpectedInPast, SeenAgrees, ClaimIsOpen,
                RunsAreDistinct, ReviewedRunExists, AuditTellsEveryVersion, Changes, At, Kind
  <1> QED BY <1>1, <1>2

LEMMA Invariance == Spec => []IInv
  BY InitIInv, StepIInv, PTL DEF Spec

\* Every reachable state is well-typed: what a review's snapshot shows are runs that
\* exist, and every run was made from an earlier version than the ticket's.
THEOREM TypeCorrect == Spec => []LifecycleTypeOK
  <1>1. IInv => LifecycleTypeOK
    BY DEF IInv
  <1> QED BY <1>1, Invariance, PTL

\* No update is lost and none goes unrecorded, however optimistic writers interleave.
THEOREM EveryVersionIsTold == Spec => []AuditTellsEveryVersion
  <1>1. IInv => AuditTellsEveryVersion
    BY DEF IInv
  <1> QED BY <1>1, Invariance, PTL

\* Who changes what: the command whose place changes is the one that moves.
LEMMA WhoMoves ==
  ASSUME NEW c \in Command, Moves(c), NEW d \in Command, pc'[d] # pc[d]
  PROVE  d = c
  BY DEF Moves, Others

\* No command reaches a finished ticket but the PATCH that closes it, although a claim
\* checks the status in an earlier transaction than it writes in.
THEOREM FinishedStays == Spec => FinishedStaysFinished
  <1> DEFINE A == /\ ticket.status \in Final => ticket'.status \in {ticket.status, "CLOSED"}
                  /\ \A c \in Command :
                       /\ Kind(c) \in {"claim", "unassign", "note"}
                       /\ ticket' # ticket /\ pc'[c] # pc[c]
                       => ticket.status \notin Final
  <1>1. ASSUME IInv, [Next]_vars
        PROVE  [A]_vars
    <2>1. CASE Next
      <3>1. PICK c \in Command : Moves(c)
        BY <1>1, <2>1, NextMoves
      <3>2. \/ ticket' = ticket
            \/ \E e : Writes(c, e)
        BY <3>1, MovesRows DEF RowsMove, rows, SaveReview
      <3>3. CASE ticket' = ticket
        BY <3>3
      <3>4. ASSUME NEW e, Writes(c, e)
            PROVE  A
        <4>1. ticket.status \in Final =>
                ticket'.status \in {ticket.status, "CLOSED"} /\ Kind(c) = "update"
          BY <3>4 DEF Writes
        <4> QED BY <3>1, <4>1, WhoMoves
      <3> QED BY <3>2, <3>3, <3>4
    <2>2. CASE UNCHANGED vars
      BY <2>2
    <2> QED BY <1>1, <2>1, <2>2
  <1> QED BY <1>1, Invariance, PTL DEF Spec, FinishedStaysFinished

\* The run that a decision under way is about.
LEMMA TheRun ==
  ASSUME IInv, NEW c \in Command, At(c, "read"), Kind(c) = "review"
  PROVE  /\ RunById(request[c].run) \in runs
         /\ RunById(request[c].run) \in snapshot[c].runs
         /\ snapshot[c].runs \subseteq runs
  <1>1. /\ \E run \in runs : run.by = request[c].run
        /\ \E run \in snapshot[c].runs : run.by = request[c].run
    BY DEF IInv, ReviewedRunExists
  <1>2. snapshot[c].runs \subseteq runs
    BY Types
  <1>3. RunById(request[c].run) \in runs /\ RunById(request[c].run).by = request[c].run
    BY <1>1 DEF RunById
  <1>4. \A run, other \in runs : other.by = run.by => other = run
    BY DEF IInv, RunsAreDistinct
  <1>5. RunById(request[c].run) \in snapshot[c].runs
    BY <1>1, <1>2, <1>3, <1>4
  <1> QED BY <1>2, <1>3, <1>5

\* A decision is recorded on the last analysis and on the ticket as that left it, though
\* the runs are read from a snapshot and the ticket under a lock.
THEOREM ReviewsAreCurrent == Spec => ReviewIsCurrent
  <1> DEFINE Good(run) == /\ \A other \in runs : other.source <= run.source
                          /\ ticket.status = run.result
                          /\ \E i \in Changes :
                               audit[i].by = run.by /\ \A j \in Changes : j <= i
             A == \A c \in Command :
                    Kind(c) = "review" /\ reviews' # reviews /\ pc'[c] # pc[c] =>
                      Good(RunById(request[c].run))
  <1>1. ASSUME IInv, NEW c \in Command, SaveReview(c)
        PROVE  Good(RunById(request[c].run))
    <2> DEFINE run == RunById(request[c].run)
    <2>1. run \in runs /\ ticket.version = run.source + 1
      BY <1>1, TheRun DEF SaveReview, VersionMatches
    <2> HIDE DEF run
    <2>2. /\ \A other \in runs : other.source \in Nat /\ other.source < ticket.version
          /\ audit \in Seq(Event) /\ ticket.version \in Nat
          /\ RunsAreDistinct /\ AuditTellsEveryVersion
      BY <1>1, Types DEF IInv, LifecycleTypeOK, Run, Ticket
    <2>3. \A other \in runs : other.source <= run.source
      BY <2>1, <2>2
    <2>4. ticket.status = run.result
      BY <2>1, <2>2 DEF RunsAreDistinct
    <2>5. PICK i \in DOMAIN audit :
            /\ audit[i].action = "ANALYSIS_PERSISTED"
            /\ audit[i].version = run.source /\ audit[i].by = run.by
      BY <2>1, <2>2 DEF RunsAreDistinct
    <2>6. i \in Changes /\ Produced(audit[i]) = ticket.version
      BY <2>1, <2>5 DEF Changes, Change, Produced
    <2>7. \A j \in Changes : j <= i
      <3>1. SUFFICES ASSUME NEW j \in Changes, ~(j <= i) PROVE FALSE
        OBVIOUS
      <3>2. i \in Nat /\ j \in Nat
        BY <2>2, <2>6 DEF Changes
      <3>3. Produced(audit[i]) < Produced(audit[j])
        BY <2>2, <2>6, <3>1, <3>2 DEF AuditTellsEveryVersion
      <3>4. Produced(audit[j]) \in 1 .. ticket.version
        BY <2>2 DEF AuditTellsEveryVersion
      <3> QED BY <2>2, <2>6, <3>3, <3>4
    <2>8. Good(run)
      BY <2>3, <2>4, <2>5, <2>6, <2>7
    <2> QED BY <2>8 DEF run
  <1>2. ASSUME IInv, [Next]_vars
        PROVE  [A]_vars
    <2>1. CASE Next
      <3>1. PICK c \in Command : Moves(c)
        BY <1>2, <2>1, NextMoves
      <3>2. reviews' # reviews => SaveReview(c)
        BY <3>1, MovesRows DEF RowsMove, rows, Writes
      <3> HIDE DEF Good
      <3> QED BY <1>1, <1>2, <3>1, <3>2, WhoMoves
    <2>2. CASE UNCHANGED vars
      BY <2>2
    <2> QED BY <1>2, <2>1, <2>2
  <1>3. [][A]_vars => ReviewIsCurrent
    BY PTL DEF ReviewIsCurrent
  <1> QED BY <1>2, <1>3, Invariance, PTL DEF Spec

\* A decision is refused only for a change of the ticket or for skewed stamps.
THEOREM RefusalsAreDue == Spec => RefusedOnlyWhenStale
  <1> DEFINE Due(run) == \/ ticket.version > run.source + 1
                         \/ \E other \in runs :
                              other.source < run.source /\ other.createdAt >= run.createdAt
             A == \A c \in Command :
                    Kind(c) = "review" /\ pc'[c] = "conflict" /\ pc[c] # "conflict" =>
                      Due(RunById(request[c].run))
  <1>1. ASSUME IInv, NEW c \in Command, StaleReview(c)
        PROVE  Due(RunById(request[c].run))
    <2> DEFINE run == RunById(request[c].run)
    <2>1. /\ run \in runs /\ run \in snapshot[c].runs /\ snapshot[c].runs \subseteq runs
          /\ LatestRuns(c) # {run} \/ ticket.version # run.source + 1
      BY <1>1, TheRun DEF StaleReview, VersionMatches
    <2> HIDE DEF run
    <2>2. /\ \A other \in runs : /\ other.source \in Nat /\ other.createdAt \in Nat
                                 /\ other.source < ticket.version
          /\ ticket.version \in Nat
          /\ RunsAreDistinct
      BY <1>1, Types DEF IInv, LifecycleTypeOK, Run, Ticket
    <2>3. ticket.version # run.source + 1 => ticket.version > run.source + 1
      BY <2>1, <2>2
    <2>4. ASSUME LatestRuns(c) # {run}, ticket.version = run.source + 1
          PROVE  \E other \in runs :
                   other.source < run.source /\ other.createdAt >= run.createdAt
      <3>1. PICK other \in snapshot[c].runs : other # run /\ other.createdAt >= run.createdAt
        BY <2>1, <2>2, <2>4 DEF LatestRuns
      <3>2. other \in runs /\ other.source # run.source
        BY <2>1, <2>2, <3>1 DEF RunsAreDistinct
      <3>3. other.source < run.source
        BY <2>1, <2>2, <2>4, <3>2
      <3> QED BY <3>1, <3>2, <3>3
    <2>5. Due(run)
      BY <2>1, <2>3, <2>4
    <2> QED BY <2>5 DEF run
  <1>2. ASSUME IInv, [Next]_vars
        PROVE  [A]_vars
    <2>1. CASE Next
      <3>1. PICK c \in Command : Moves(c)
        BY <1>2, <2>1, NextMoves
      <3>2. ASSUME Kind(c) = "review", pc'[c] = "conflict"
            PROVE  StaleReview(c)
        <4>1. ~Sends(c) /\ ~Passes(c) /\ ~ReadTicket(c) /\ ~ReadRun(c)
          BY <1>2, <3>2, Types DEF Sends, Passes, ReadTicket, ReadRun, Goto
        <4> QED BY <3>1, <3>2, <4>1 DEF Moves, Finishes
      <3> HIDE DEF Due
      <3> QED BY <1>1, <1>2, <3>1, <3>2, WhoMoves
    <2>2. CASE UNCHANGED vars
      BY <2>2 DEF vars
    <2> QED BY <1>2, <2>1, <2>2
  <1>3. [][A]_vars => RefusedOnlyWhenStale
    BY PTL DEF RefusedOnlyWhenStale
  <1> QED BY <1>2, <1>3, Invariance, PTL DEF Spec

----------------------------------------------------------------------------
(* The page: the inductive invariant, and what the epoch of an answer says of it. *)

Shown == [Tickets -> Nat]
Filters == {"pending", "all"}

\* What the proofs need of the types: neither the queue nor the ends of its pages.
ViewRecord(v) ==
  /\ DOMAIN v = {"tickets", "queue", "of", "cursor", "loading", "failed", "query",
                 "refresh", "epoch", "lost"}
  /\ v.tickets \in Shown
  /\ v.loading \in BOOLEAN /\ v.failed \in BOOLEAN /\ v.lost \in BOOLEAN
  /\ v.query \in [filter : Filters, object : Nat]
  /\ v.refresh \in Nat
  /\ v.epoch \in Nat

FetchRecord(f) ==
  \/ f = NoFetch
  \/ /\ DOMAIN f = {"state", "filter", "cursor", "epoch", "tickets", "next"}
     /\ f.state \in {"due", "lost", "page"}
     /\ f.filter \in Filters
     /\ f.epoch \in Nat
     /\ f.tickets \in Shown

Call == [kind : Kinds \cup {"none", "get"}, ticket : Tickets \cup {0},
         state : {"none", "due", "lost", "ok", "conflict"}, version : Nat]

\* A slot is free, or has a request about a ticket.
About(c) ==
  \/ c = NoCall
  \/ c.kind # "none" /\ c.state # "none" /\ c.ticket \in Tickets

Typed ==
  /\ server \in [Tickets -> [version : Nat, pending : BOOLEAN]]
  /\ ViewRecord(view)
  /\ FetchRecord(page) /\ FetchRecord(more)
  /\ call \in [Slot -> Call]
  /\ \A s \in Slot : About(call[s])
  /\ acts \in Nat

\* An answer of the current epoch is an answer to the query that is set.
InTime(f, v) ==
  f # NoFetch => /\ f.epoch <= v.epoch
                 /\ f.epoch = v.epoch => f.filter = v.query.filter

Answers(v) == v.of = {v.query.filter}
Awaited(f, v) == f # NoFetch /\ f.epoch = v.epoch

\* A cursor, and a further page that will be taken, continue a queue of that query.
Consistent(v, p, m) ==
  /\ InTime(p, v) /\ InTime(m, v)
  /\ v.cursor # None => Answers(v)
  /\ Awaited(m, v) => Answers(v)
  /\ v.loading \/ v.failed \/ Answers(v)
  /\ v.loading => Awaited(p, v) \/ Awaited(m, v) \/ v.lost

\* Every query was made by an earlier act: the next one is another object.
QueryIsOlder == view.query.object <= acts

ViewIInv == Typed /\ Consistent(view, page, more) /\ QueryIsOlder

----------------------------------------------------------------------------

\* A fetch is a fetch of the query and the epoch it is asked with.
LEMMA AskedFetch ==
  ASSUME NEW filter \in Filters, NEW cursor, NEW epoch \in Nat
  PROVE  /\ FetchRecord(Ask(filter, cursor, epoch))
         /\ Ask(filter, cursor, epoch) # NoFetch
         /\ Ask(filter, cursor, epoch).filter = filter
         /\ Ask(filter, cursor, epoch).epoch = epoch
  <1> DEFINE f == Ask(filter, cursor, epoch)
  <1>1. /\ DOMAIN f = {"state", "filter", "cursor", "epoch", "tickets", "next"}
        /\ f.state = "due" /\ f.filter = filter /\ f.epoch = epoch
        /\ f.tickets = [t \in Tickets |-> 0]
    BY DEF Ask
  <1>2. f # NoFetch
    <2>1. NoFetch.state = "none" BY DEF NoFetch
    <2> QED BY <1>1, <2>1
  <1> HIDE DEF f
  <1>3. FetchRecord(f)
    BY <1>1 DEF FetchRecord, Shown
  <1> QED BY <1>1, <1>2, <1>3 DEF f

\* The effect of a render that asks for another queue leaves the state consistent:
\* what was under way is of an earlier epoch, and the new fetch is awaited.
LEMMA RenderAsks ==
  ASSUME ViewRecord(view), FetchRecord(page), FetchRecord(more), Consistent(view, page, more),
         NEW state, ViewRecord(state), Rendered(state), Deps(state) # Deps(view),
         state.epoch >= view.epoch,
         state.cursor # None =>
           state.cursor = view.cursor /\ state.query = view.query /\ state.of = view.of
  PROVE  /\ ViewRecord(view') /\ FetchRecord(page') /\ Consistent(view', page', more)
         /\ view'.tickets = state.tickets /\ view'.query = state.query
  <1>1. /\ view' = [state EXCEPT !.loading = TRUE, !.failed = FALSE, !.epoch = @ + 1, !.lost = FALSE]
        /\ page' = Ask(state.query.filter, None, state.epoch + 1)
    BY DEF Rendered
  <1>2. /\ DOMAIN view' = DOMAIN state
        /\ view'.tickets = state.tickets /\ view'.query = state.query
        /\ view'.cursor = state.cursor /\ view'.of = state.of /\ view'.refresh = state.refresh
        /\ view'.loading = TRUE /\ view'.failed = FALSE /\ view'.lost = FALSE
        /\ view'.epoch = state.epoch + 1
    BY <1>1 DEF ViewRecord
  <1>3. ViewRecord(view')
    <2>1. /\ DOMAIN state = {"tickets", "queue", "of", "cursor", "loading", "failed", "query",
                             "refresh", "epoch", "lost"}
          /\ state.tickets \in Shown /\ state.refresh \in Nat /\ state.epoch \in Nat
          /\ state.query \in [filter : Filters, object : Nat]
      BY DEF ViewRecord
    <2>2. view'.loading \in BOOLEAN /\ view'.failed \in BOOLEAN /\ view'.lost \in BOOLEAN
      BY <1>2, Zenon
    <2>3. view'.epoch \in Nat
      BY <1>2, <2>1
    <2> QED BY <1>2, <2>1, <2>2, <2>3, Zenon DEF ViewRecord
  <1>4. /\ FetchRecord(page') /\ page' # NoFetch
        /\ page'.filter = view'.query.filter /\ page'.epoch = view'.epoch
    BY <1>1, <1>2, <1>3, AskedFetch DEF ViewRecord
  <1>5. view'.epoch > view.epoch
    BY <1>2 DEF ViewRecord
  <1>6. InTime(more, view') /\ ~Awaited(more, view')
    BY <1>5, <1>3 DEF Consistent, InTime, Awaited, FetchRecord, ViewRecord
  <1>7. view'.cursor # None => Answers(view')
    BY <1>2 DEF Consistent, Answers
  <1>8. InTime(page', view')
    BY <1>3, <1>4 DEF InTime, ViewRecord
  <1> QED BY <1>2, <1>3, <1>4, <1>6, <1>7, <1>8 DEF Consistent, Awaited

\* A render that asks for no queue shows what was set, in the same epoch.
LEMMA RenderShows ==
  ASSUME ViewRecord(view), FetchRecord(page), FetchRecord(more), Consistent(view, page, more),
         NEW tickets \in Shown, NEW state, Rendered(state),
         state = [view EXCEPT !.tickets = tickets]
  PROVE  /\ ViewRecord(view') /\ FetchRecord(page') /\ Consistent(view', page', more)
         /\ view'.tickets = tickets /\ view'.query = view.query
  <1>1. /\ DOMAIN state = DOMAIN view /\ state.tickets = tickets
        /\ state.of = view.of /\ state.cursor = view.cursor
        /\ state.loading = view.loading /\ state.failed = view.failed /\ state.lost = view.lost
        /\ state.query = view.query /\ state.refresh = view.refresh /\ state.epoch = view.epoch
    BY DEF ViewRecord
  <1>2. view' = state /\ page' = page
    BY <1>1 DEF Rendered, Deps
  <1>3. ViewRecord(view')
    BY <1>1, <1>2 DEF ViewRecord
  <1>4. Consistent(view', page', more)
    BY <1>1, <1>2 DEF Consistent, InTime, Awaited, Answers
  <1> QED BY <1>1, <1>2, <1>3, <1>4

\* The first fetch is under way.
LEMMA ViewInitIInv == ViewInit => ViewIInv
  <1> SUFFICES ASSUME ViewInit PROVE ViewIInv
    OBVIOUS
  <1>1. /\ DOMAIN view = {"tickets", "queue", "of", "cursor", "loading", "failed", "query",
                          "refresh", "epoch", "lost"}
        /\ view.tickets = [t \in Tickets |-> 0]
        /\ view.loading = TRUE /\ view.failed = FALSE /\ view.lost = FALSE
        /\ view.cursor = None
        /\ view.query = pendingTicketQuery /\ view.refresh = 0 /\ view.epoch = 1
    BY DEF ViewInit
  <1>2. pendingTicketQuery \in [filter : Filters, object : Nat] /\ pendingTicketQuery.object = 0
    BY DEF pendingTicketQuery, Filters
  <1>3. ViewRecord(view)
    <2>1. view.tickets \in Shown BY <1>1 DEF Shown
    <2>2. view.loading \in BOOLEAN /\ view.failed \in BOOLEAN /\ view.lost \in BOOLEAN
      BY <1>1, Zenon
    <2>3. view.epoch \in Nat /\ view.refresh \in Nat BY <1>1
    <2> QED BY <1>1, <1>2, <2>1, <2>2, <2>3, Zenon DEF ViewRecord
  <1>4. /\ FetchRecord(page) /\ page # NoFetch /\ page.epoch = 1
        /\ page.filter = pendingTicketQuery.filter /\ more = NoFetch
    <2>1. pendingTicketQuery.filter \in Filters BY <1>2
    <2> QED BY <2>1, AskedFetch DEF ViewInit
  <1>5. Consistent(view, page, more)
    BY <1>1, <1>4 DEF Consistent, InTime, Awaited
  <1>6. Typed
    <2>1. server \in [Tickets -> [version : Nat, pending : BOOLEAN]]
      <3>1. server \in [Tickets -> {[version |-> v, pending |-> TRUE] : v \in {0, 1}}]
        BY DEF ViewInit
      <3>2. \A v \in {0, 1} : [version |-> v, pending |-> TRUE] \in [version : Nat, pending : BOOLEAN]
        OBVIOUS
      <3> QED BY <3>1, <3>2
    <2>2. call \in [Slot -> Call] /\ \A s \in Slot : call[s] = NoCall
      BY DEF ViewInit, Call, NoCall, Kinds
    <2>3. acts \in Nat BY DEF ViewInit
    <2>4. \A s \in Slot : About(call[s])
      BY <2>2 DEF About
    <2>5. FetchRecord(more)
      BY <1>4 DEF FetchRecord
    <2> QED BY <1>3, <1>4, <2>1, <2>2, <2>3, <2>4, <2>5 DEF Typed
  <1>7. QueryIsOlder
    BY <1>1, <1>2 DEF QueryIsOlder, ViewInit
  <1> QED BY <1>5, <1>6, <1>7 DEF ViewIInv

----------------------------------------------------------------------------
(* The parts of a step. *)

\* An answer is an answer to the fetch it was asked with.
LEMMA AnsweredFetch ==
  ASSUME Typed, NEW f, FetchRecord(f), f.state = "due", NEW g \in Outcomes(f)
  PROVE  FetchRecord(g) /\ g # NoFetch /\ g.epoch = f.epoch /\ g.filter = f.filter /\ f # NoFetch
  <1>0. f # NoFetch
    <2>1. NoFetch.state = "none" BY DEF NoFetch
    <2> QED BY <2>1
  <1>1. /\ DOMAIN f = {"state", "filter", "cursor", "epoch", "tickets", "next"}
        /\ f.filter \in Filters /\ f.epoch \in Nat /\ f.tickets \in Shown
    BY <1>0 DEF FetchRecord
  <1>2. PICK tickets, next :
          /\ tickets \in Shown
          /\ \/ g = [f EXCEPT !.state = "lost"]
             \/ g = [f EXCEPT !.state = "page", !.tickets = tickets, !.next = next]
    <2> DEFINE rest == {t \in Tickets : Matches(f.filter, t) /\ (f.cursor = None \/ t > f.cursor)}
               items == {t \in rest : Cardinality({u \in rest : u <= t}) <= PageSize}
               shown == [t \in Tickets |-> IF t \in items THEN server[t].version ELSE 0]
               end == IF items = rest THEN None ELSE Max(items)
    <2>1. \A t \in Tickets : server[t].version \in Nat
      BY DEF Typed
    <2>2. shown \in Shown
      <3> HIDE DEF items
      <3> QED BY <2>1 DEF Shown
    <2>3. \/ g = [f EXCEPT !.state = "lost"]
          \/ g = [f EXCEPT !.state = "page", !.tickets = shown, !.next = end]
      BY Zenon DEF Outcomes
    <2> HIDE DEF shown, end
    <2> QED BY <2>2, <2>3
  <1>3. /\ DOMAIN g = DOMAIN f /\ g.filter = f.filter /\ g.epoch = f.epoch
        /\ g.state \in {"lost", "page"} /\ g.tickets \in Shown
    BY <1>1, <1>2
  <1>4. g # NoFetch
    <2>1. NoFetch.state = "none" BY DEF NoFetch
    <2> QED BY <1>3, <2>1
  <1>5. FetchRecord(g)
    BY <1>1, <1>3 DEF FetchRecord
  <1> QED BY <1>0, <1>3, <1>4, <1>5

\* Merging snapshots makes no ticket older.
LEMMA MergedShown ==
  ASSUME NEW current \in Shown, NEW incoming \in Shown
  PROVE  /\ Merged(current, incoming) \in Shown
         /\ \A t \in Tickets : Merged(current, incoming)[t] >= current[t]
  BY DEF Merged, NewerTicket, Shown

LEMMA NewerShown ==
  ASSUME NEW current \in Nat, NEW version \in Nat
  PROVE  NewerTicket(current, version) \in Nat /\ NewerTicket(current, version) >= current
  BY DEF NewerTicket

\* No shown ticket is older afterwards, but for the creation of one.
NotOlder ==
  \A t \in Tickets :
    \/ view'.tickets[t] = 0
    \/ view'.tickets[t] >= view.tickets[t]
    \/ \E s \in Slot : call[s] # call'[s] /\ call[s].kind = "create" /\ call[s].ticket = t

LEMMA SameTickets == ASSUME Typed, view'.tickets = view.tickets PROVE NotOlder
  <1>1. \A t \in Tickets : view.tickets[t] \in Nat
    BY DEF Typed, ViewRecord, Shown
  <1> QED BY <1>1 DEF NotOlder

\* The further page is asked for behind the queue that is shown.
LEMMA LoadMoreStep == ASSUME ViewIInv, LoadMore PROVE ViewIInv' /\ NotOlder
  <1>0. /\ ViewRecord(view) /\ FetchRecord(page) /\ FetchRecord(more) /\ Typed
        /\ Consistent(view, page, more) /\ QueryIsOlder
    BY DEF ViewIInv, Typed
  <1>1. /\ view' = [view EXCEPT !.loading = TRUE] /\ view.cursor # None
        /\ more' = Ask(view.query.filter, view.cursor, view.epoch)
        /\ acts' = acts + 1 /\ UNCHANGED <<server, page, call>>
    BY DEF LoadMore
  <1>2. /\ DOMAIN view' = DOMAIN view /\ view'.tickets = view.tickets
        /\ view'.of = view.of /\ view'.cursor = view.cursor
        /\ view'.loading = TRUE /\ view'.failed = view.failed /\ view'.lost = view.lost
        /\ view'.query = view.query /\ view'.refresh = view.refresh /\ view'.epoch = view.epoch
    BY <1>0, <1>1 DEF ViewRecord
  <1>3. view'.loading \in BOOLEAN
    BY <1>2, Zenon
  <1>4. ViewRecord(view')
    BY <1>0, <1>2, <1>3, Zenon DEF ViewRecord
  <1>5. /\ FetchRecord(more') /\ more' # NoFetch
        /\ more'.filter = view.query.filter /\ more'.epoch = view.epoch
    <2>1. view.query.filter \in Filters /\ view.epoch \in Nat
      BY <1>0 DEF ViewRecord
    <2> QED BY <1>1, <2>1, AskedFetch
  <1>6. InTime(page, view') /\ InTime(more', view') /\ Awaited(more', view')
    <2>1. view.epoch \in Nat BY <1>0 DEF ViewRecord
    <2> QED BY <1>0, <1>2, <1>5, <2>1 DEF Consistent, InTime, Awaited
  <1>7. Consistent(view', page, more')
    BY <1>0, <1>1, <1>2, <1>6 DEF Consistent, Answers
  <1>8. acts' \in Nat /\ QueryIsOlder'
    <2>1. acts \in Nat /\ view.query.object \in Nat
      BY <1>0 DEF Typed, ViewRecord
    <2> QED BY <1>0, <1>1, <1>2, <2>1 DEF QueryIsOlder
  <1>9. Typed'
    BY <1>0, <1>1, <1>4, <1>5, <1>8 DEF Typed
  <1> QED BY <1>0, <1>1, <1>2, <1>7, <1>8, <1>9, SameTickets DEF ViewIInv

\* An answer changes neither the epoch nor the query of a fetch.
LEMMA AnswerFetchStep == ASSUME ViewIInv, AnswerFetch PROVE ViewIInv' /\ NotOlder
  <1>0. Typed /\ FetchRecord(page) /\ FetchRecord(more) /\ Consistent(view, page, more)
    BY DEF ViewIInv, Typed
  <1>1. UNCHANGED <<server, view, call, acts>>
    BY DEF AnswerFetch
  <1>2. CASE page.state = "due" /\ page' \in Outcomes(page) /\ UNCHANGED more
    <2>1. /\ FetchRecord(page') /\ page' # NoFetch /\ page # NoFetch
          /\ page'.epoch = page.epoch /\ page'.filter = page.filter
      BY <1>0, <1>2, AnsweredFetch
    <2>2. Consistent(view, page', more')
      BY <1>0, <1>2, <2>1 DEF Consistent, InTime, Awaited
    <2> QED BY <1>0, <1>1, <1>2, <2>1, <2>2, SameTickets DEF ViewIInv, Typed, QueryIsOlder
  <1>3. CASE more.state = "due" /\ more' \in Outcomes(more) /\ UNCHANGED page
    <2>1. /\ FetchRecord(more') /\ more' # NoFetch /\ more # NoFetch
          /\ more'.epoch = more.epoch /\ more'.filter = more.filter
      BY <1>0, <1>3, AnsweredFetch
    <2>2. Consistent(view, page', more')
      BY <1>0, <1>3, <2>1 DEF Consistent, InTime, Awaited
    <2> QED BY <1>0, <1>1, <1>3, <2>1, <2>2, SameTickets DEF ViewIInv, Typed, QueryIsOlder
  <1> QED BY <1>2, <1>3 DEF AnswerFetch

\* The first page: the queue is what the current query found, or it failed.
LEMMA ShowPageStep == ASSUME ViewIInv, ShowPage PROVE ViewIInv' /\ NotOlder
  <1>0. /\ ViewRecord(view) /\ FetchRecord(page) /\ FetchRecord(more) /\ Typed
        /\ Consistent(view, page, more)
    BY DEF ViewIInv, Typed
  <1>1. page' = NoFetch /\ UNCHANGED <<server, more, call, acts>>
    BY DEF ShowPage
  <1>2. FetchRecord(page') /\ InTime(page', view')
    BY <1>1 DEF FetchRecord, InTime
  <1>3. page # NoFetch
    <2>1. NoFetch.state = "none" BY DEF NoFetch
    <2> QED BY <2>1 DEF ShowPage
  <1>4. ASSUME ViewRecord(view'), Consistent(view', page', more),
               view'.query = view.query
        PROVE  ViewIInv'
    BY <1>0, <1>1, <1>2, <1>4 DEF ViewIInv, Typed, QueryIsOlder
  <1>5. CASE ~Current(page)
    <2>1. view' = view BY <1>5 DEF ShowPage
    <2>2. Consistent(view, page', more)
      BY <1>0, <1>1, <1>5 DEF Consistent, InTime, Awaited, Current
    <2> QED BY <1>0, <1>4, <2>1, <2>2, SameTickets
  <1>6. CASE Current(page) /\ page.state = "page"
    <2>1. view' = [view EXCEPT !.loading = FALSE, !.tickets = Merged(@, page.tickets),
                               !.queue = Held(page.tickets), !.of = {page.filter}, !.cursor = page.next]
      BY <1>6 DEF ShowPage
    <2>2. /\ DOMAIN view' = DOMAIN view /\ view'.tickets = Merged(view.tickets, page.tickets)
          /\ view'.of = {page.filter}
          /\ view'.loading = FALSE /\ view'.failed = view.failed /\ view'.lost = view.lost
          /\ view'.query = view.query /\ view'.refresh = view.refresh /\ view'.epoch = view.epoch
      BY <1>0, <2>1 DEF ViewRecord
    <2>3. /\ view'.tickets \in Shown
          /\ \A t \in Tickets : view'.tickets[t] >= view.tickets[t]
      BY <1>0, <1>3, <2>2, MergedShown DEF ViewRecord, FetchRecord
    <2>4. view'.loading \in BOOLEAN
      BY <2>2, Zenon
    <2>5. ViewRecord(view')
      BY <1>0, <2>2, <2>3, <2>4, Zenon DEF ViewRecord
    <2>6. Answers(view')
      BY <1>0, <1>3, <1>6, <2>2 DEF Answers, Consistent, InTime, Current
    <2>7. Consistent(view', page', more)
      BY <1>0, <1>1, <1>2, <2>2, <2>6 DEF Consistent, InTime, Awaited
    <2> QED BY <1>4, <2>2, <2>3, <2>5, <2>7 DEF NotOlder
  <1>7. CASE Current(page) /\ page.state # "page"
    <2>1. view' = [view EXCEPT !.loading = FALSE, !.failed = TRUE,
                               !.tickets = IF secured THEN [t \in Tickets |-> 0] ELSE @]
      BY <1>7 DEF ShowPage
    <2>2. /\ DOMAIN view' = DOMAIN view
          /\ view'.tickets = IF secured THEN [t \in Tickets |-> 0] ELSE view.tickets
          /\ view'.of = view.of /\ view'.cursor = view.cursor
          /\ view'.loading = FALSE /\ view'.failed = TRUE /\ view'.lost = view.lost
          /\ view'.query = view.query /\ view'.refresh = view.refresh /\ view'.epoch = view.epoch
      BY <1>0, <2>1 DEF ViewRecord
    <2>3. view'.tickets \in Shown /\ NotOlder
      BY <1>0, <2>2 DEF ViewRecord, Shown, NotOlder
    <2>4. view'.loading \in BOOLEAN /\ view'.failed \in BOOLEAN
      BY <2>2, Zenon
    <2>5. ViewRecord(view')
      BY <1>0, <2>2, <2>3, <2>4, Zenon DEF ViewRecord
    <2>6. Consistent(view', page', more)
      BY <1>0, <1>1, <1>2, <2>2 DEF Consistent, InTime, Awaited, Answers
    <2> QED BY <1>4, <2>2, <2>3, <2>5, <2>6
  <1> QED BY <1>5, <1>6, <1>7

\* A further page: it is added to a queue of the same query, or it failed.
LEMMA ShowMoreStep == ASSUME ViewIInv, ShowMore PROVE ViewIInv' /\ NotOlder
  <1>0. /\ ViewRecord(view) /\ FetchRecord(page) /\ FetchRecord(more) /\ Typed
        /\ Consistent(view, page, more)
    BY DEF ViewIInv, Typed
  <1>1. more' = NoFetch /\ UNCHANGED <<server, page, call, acts>>
    BY DEF ShowMore
  <1>2. FetchRecord(more') /\ InTime(more', view') /\ ~Awaited(more', view')
    BY <1>1 DEF FetchRecord, InTime, Awaited
  <1>3. more # NoFetch
    <2>1. NoFetch.state = "none" BY DEF NoFetch
    <2> QED BY <2>1 DEF ShowMore
  <1>4. ASSUME ViewRecord(view'), Consistent(view', page, more'),
               view'.query = view.query
        PROVE  ViewIInv'
    BY <1>0, <1>1, <1>2, <1>4 DEF ViewIInv, Typed, QueryIsOlder
  <1>5. CASE ~Current(more)
    <2>1. view' = view BY <1>5 DEF ShowMore
    <2>2. Consistent(view, page, more')
      BY <1>0, <1>1, <1>5 DEF Consistent, InTime, Awaited, Current
    <2> QED BY <1>0, <1>4, <2>1, <2>2, SameTickets
  <1>6. CASE Current(more) /\ more.state = "page"
    <2>1. view' = [view EXCEPT !.loading = FALSE, !.failed = FALSE,
                               !.tickets = Merged(@, more.tickets),
                               !.queue = @ \cup Held(more.tickets), !.of = @ \cup {more.filter},
                               !.cursor = more.next]
      BY <1>6 DEF ShowMore
    <2>2. /\ DOMAIN view' = DOMAIN view /\ view'.tickets = Merged(view.tickets, more.tickets)
          /\ view'.of = view.of \cup {more.filter}
          /\ view'.loading = FALSE /\ view'.failed = FALSE /\ view'.lost = view.lost
          /\ view'.query = view.query /\ view'.refresh = view.refresh /\ view'.epoch = view.epoch
      BY <1>0, <2>1 DEF ViewRecord
    <2>3. /\ view'.tickets \in Shown
          /\ \A t \in Tickets : view'.tickets[t] >= view.tickets[t]
      BY <1>0, <1>3, <2>2, MergedShown DEF ViewRecord, FetchRecord
    <2>4. view'.loading \in BOOLEAN /\ view'.failed \in BOOLEAN
      BY <2>2, Zenon
    <2>5. ViewRecord(view')
      BY <1>0, <2>2, <2>3, <2>4, Zenon DEF ViewRecord
    <2>6. Answers(view')
      BY <1>0, <1>3, <1>6, <2>2 DEF Answers, Consistent, InTime, Awaited, Current
    <2>7. Consistent(view', page, more')
      BY <1>0, <1>2, <2>2, <2>6 DEF Consistent, InTime, Awaited
    <2> QED BY <1>4, <2>2, <2>3, <2>5, <2>7 DEF NotOlder
  <1>7. CASE Current(more) /\ more.state # "page"
    <2>1. view' = [view EXCEPT !.loading = FALSE, !.failed = TRUE]
      BY <1>7 DEF ShowMore
    <2>2. /\ DOMAIN view' = DOMAIN view /\ view'.tickets = view.tickets
          /\ view'.of = view.of /\ view'.cursor = view.cursor
          /\ view'.loading = FALSE /\ view'.failed = TRUE /\ view'.lost = view.lost
          /\ view'.query = view.query /\ view'.refresh = view.refresh /\ view'.epoch = view.epoch
      BY <1>0, <2>1 DEF ViewRecord
    <2>3. view'.loading \in BOOLEAN /\ view'.failed \in BOOLEAN
      BY <2>2, Zenon
    <2>4. ViewRecord(view')
      BY <1>0, <2>2, <2>3, Zenon DEF ViewRecord
    <2>5. Consistent(view', page, more')
      BY <1>0, <1>2, <2>2 DEF Consistent, InTime, Awaited, Answers
    <2> QED BY <1>0, <1>4, <2>2, <2>4, <2>5, SameTickets
  <1> QED BY <1>5, <1>6, <1>7

----------------------------------------------------------------------------
(* What asks for another queue. *)

LEMMA RequeriedRecord ==
  ASSUME NEW v, ViewRecord(v), NEW q \in [filter : Filters, object : Nat]
  PROVE  /\ ViewRecord(Requeried(v, q))
         /\ Requeried(v, q).tickets = v.tickets /\ Requeried(v, q).query = q
         /\ Requeried(v, q).cursor = None /\ Requeried(v, q).of = v.of
         /\ Requeried(v, q).loading = v.loading /\ Requeried(v, q).failed = v.failed
         /\ Requeried(v, q).lost = v.lost
         /\ Requeried(v, q).refresh = v.refresh /\ Requeried(v, q).epoch = v.epoch + 1
  BY DEF ViewRecord, Requeried

LEMMA InvalidatedRecord ==
  ASSUME NEW v, ViewRecord(v)
  PROVE  /\ ViewRecord(Invalidated(v))
         /\ Invalidated(v).tickets = v.tickets /\ Invalidated(v).query = v.query
         /\ Invalidated(v).cursor = None
         /\ Invalidated(v).refresh = v.refresh + 1 /\ Invalidated(v).epoch = v.epoch + 1
  BY DEF ViewRecord, Invalidated

\* Another object, or another refresh key, runs the effect.
LEMMA OtherDeps ==
  ASSUME NEW v, ViewRecord(v), NEW w, ViewRecord(w),
         v.query.object # w.query.object \/ v.refresh > w.refresh
  PROVE  Deps(v) # Deps(w)
  BY DEF Deps, ViewRecord

LEMMA FilterStep == ASSUME ViewIInv, Filter PROVE ViewIInv' /\ NotOlder
  <1>0. /\ ViewRecord(view) /\ FetchRecord(page) /\ FetchRecord(more) /\ Typed
        /\ Consistent(view, page, more) /\ view.query.object <= acts /\ acts \in Nat
    BY DEF ViewIInv, Typed, QueryIsOlder
  <1>1. PICK filter \in Filters :
          Rendered(Requeried(view, [filter |-> filter, object |-> acts + 1]))
    BY DEF Filter, Filters
  <1> DEFINE q == [filter |-> filter, object |-> acts + 1]
             state == Requeried(view, q)
  <1>2. q \in [filter : Filters, object : Nat] /\ q.object = acts + 1
    BY <1>0
  <1>3. acts' = acts + 1 /\ UNCHANGED <<server, more, call>>
    BY DEF Filter
  <1> HIDE DEF q
  <1>4. /\ ViewRecord(state) /\ state.tickets = view.tickets /\ state.query = q
        /\ state.cursor = None /\ state.epoch = view.epoch + 1
    BY <1>0, <1>2, RequeriedRecord
  <1>5. Rendered(state) BY <1>1 DEF q
  <1> HIDE DEF state
  <1>6. Deps(state) # Deps(view)
    <2>1. state.query.object # view.query.object
      <3>1. view.query.object \in Nat BY <1>0 DEF ViewRecord
      <3> QED BY <1>0, <1>2, <1>4, <3>1
    <2> QED BY <1>0, <1>4, <2>1, OtherDeps
  <1>7. state.epoch >= view.epoch
    BY <1>0, <1>4 DEF ViewRecord
  <1>8. /\ ViewRecord(view') /\ FetchRecord(page') /\ Consistent(view', page', more)
        /\ view'.tickets = view.tickets /\ view'.query = q
    BY <1>0, <1>4, <1>5, <1>6, <1>7, RenderAsks
  <1>9. QueryIsOlder' /\ acts' \in Nat
    BY <1>0, <1>2, <1>3, <1>8 DEF QueryIsOlder
  <1> QED BY <1>0, <1>3, <1>8, <1>9, SameTickets DEF ViewIInv, Typed

LEMMA PendingQuery ==
  pendingTicketQuery \in [filter : Filters, object : Nat] /\ pendingTicketQuery.object = 0
  BY DEF pendingTicketQuery, Filters

\* The retry of a view either asks for the queue, or drops what is under way.
LEMMA RetryViewStep == ASSUME ViewIInv, RetryView PROVE ViewIInv' /\ NotOlder
  <1>0. /\ ViewRecord(view) /\ FetchRecord(page) /\ FetchRecord(more) /\ Typed
        /\ Consistent(view, page, more) /\ acts \in Nat
    BY DEF ViewIInv, Typed
  <1> DEFINE w == Requeried(view, pendingTicketQuery)
             state == [w EXCEPT !.lost = view.loading]
  <1>1. /\ Rendered(state) /\ acts' = acts + 1 /\ UNCHANGED <<server, more, call>>
    BY DEF RetryView
  <1>2. /\ ViewRecord(w) /\ w.tickets = view.tickets /\ w.query = pendingTicketQuery
        /\ w.cursor = None /\ w.of = view.of /\ w.loading = view.loading
        /\ w.failed = view.failed
        /\ w.refresh = view.refresh /\ w.epoch = view.epoch + 1
    BY <1>0, PendingQuery, RequeriedRecord
  <1> HIDE DEF w
  <1>3. /\ DOMAIN state = DOMAIN w
        /\ state.tickets = view.tickets /\ state.query = pendingTicketQuery
        /\ state.cursor = None /\ state.of = view.of /\ state.loading = view.loading
        /\ state.failed = view.failed /\ state.lost = view.loading
        /\ state.refresh = view.refresh /\ state.epoch = view.epoch + 1
    BY <1>2 DEF ViewRecord
  <1> HIDE DEF state
  <1>4. ViewRecord(state)
    BY <1>0, <1>2, <1>3 DEF ViewRecord
  <1>5. state.epoch >= view.epoch
    BY <1>0, <1>3 DEF ViewRecord
  <1>6. /\ acts' \in Nat
        /\ QueryIsOlder' \/ view'.query # pendingTicketQuery
    BY <1>0, <1>1, PendingQuery DEF QueryIsOlder
  <1>7. CASE Deps(state) # Deps(view)
    <2>1. /\ ViewRecord(view') /\ FetchRecord(page') /\ Consistent(view', page', more)
          /\ view'.tickets = view.tickets /\ view'.query = pendingTicketQuery
      BY <1>0, <1>1, <1>3, <1>4, <1>5, <1>7, RenderAsks
    <2> QED BY <1>0, <1>1, <1>6, <2>1, SameTickets DEF ViewIInv, Typed
  <1>8. CASE Deps(state) = Deps(view)
    <2>1. view' = state /\ page' = page /\ view.query = pendingTicketQuery
      BY <1>1, <1>3, <1>8 DEF Rendered, Deps
    <2>2. InTime(page, state) /\ InTime(more, state) /\ ~Awaited(more, state)
      BY <1>0, <1>3 DEF ViewRecord, FetchRecord, Consistent, InTime, Awaited
    <2>3. Consistent(state, page, more)
      BY <1>0, <1>3, <2>1, <2>2 DEF Consistent, Answers
    <2> QED BY <1>0, <1>1, <1>3, <1>4, <1>6, <2>1, <2>3, SameTickets DEF ViewIInv, Typed
  <1> QED BY <1>7, <1>8

LEMMA RefreshStep == ASSUME ViewIInv, Refresh PROVE ViewIInv' /\ NotOlder
  <1>0. /\ ViewRecord(view) /\ FetchRecord(page) /\ FetchRecord(more) /\ Typed
        /\ Consistent(view, page, more) /\ QueryIsOlder /\ acts \in Nat
    BY DEF ViewIInv, Typed
  <1> DEFINE state == [view EXCEPT !.refresh = @ + 1]
  <1>1. /\ Rendered(state) /\ acts' = acts + 1 /\ UNCHANGED <<server, more, call>>
    BY DEF Refresh
  <1>2. /\ ViewRecord(state) /\ state.tickets = view.tickets /\ state.query = view.query
        /\ state.cursor = view.cursor /\ state.of = view.of
        /\ state.refresh = view.refresh + 1 /\ state.epoch = view.epoch
    BY <1>0 DEF ViewRecord
  <1> HIDE DEF state
  <1>3. Deps(state) # Deps(view) /\ state.epoch >= view.epoch
    <2>1. state.refresh > view.refresh /\ state.epoch >= view.epoch
      BY <1>0, <1>2 DEF ViewRecord
    <2> QED BY <1>0, <1>2, <2>1, OtherDeps
  <1>4. /\ ViewRecord(view') /\ FetchRecord(page') /\ Consistent(view', page', more)
        /\ view'.tickets = view.tickets /\ view'.query = view.query
    BY <1>0, <1>1, <1>2, <1>3, RenderAsks
  <1>5. QueryIsOlder' /\ acts' \in Nat
    <2>1. view.query.object \in Nat BY <1>0 DEF ViewRecord
    <2> QED BY <1>0, <1>1, <1>4, <2>1 DEF QueryIsOlder
  <1> QED BY <1>0, <1>1, <1>4, <1>5, SameTickets DEF ViewIInv, Typed

----------------------------------------------------------------------------
(* Requests about one ticket. *)

\* Requests do not touch the page before they are answered.
LEMMA RequestStep ==
  ASSUME ViewIInv, UNCHANGED <<view, page, more>>,
         server' \in [Tickets -> [version : Nat, pending : BOOLEAN]],
         call' \in [Slot -> Call],
         \A s \in Slot : About(call'[s]),
         acts' \in Nat, acts' >= acts
  PROVE  ViewIInv' /\ NotOlder
  <1>1. Typed' BY DEF ViewIInv, Typed
  <1>2. QueryIsOlder'
    <2>1. view.query.object \in Nat /\ acts \in Nat
      BY DEF ViewIInv, Typed, ViewRecord
    <2> QED BY <2>1 DEF ViewIInv, QueryIsOlder
  <1>3. Typed BY DEF ViewIInv
  <1> QED BY <1>1, <1>2, <1>3, SameTickets DEF ViewIInv

\* Other users give a ticket its next version.
LEMMA ChangedServer ==
  ASSUME Typed, NEW t \in Tickets, Changed(t)
  PROVE  server' \in [Tickets -> [version : Nat, pending : BOOLEAN]]
  BY DEF Typed, Changed

LEMMA SubmitStep ==
  ASSUME ViewIInv, NEW s \in Slot, NEW t \in Tickets, NEW kind \in Kinds, Submit(s, kind, t)
  PROVE  ViewIInv' /\ NotOlder
  <1>0. /\ Typed /\ call \in [Slot -> Call] /\ acts \in Nat /\ view.tickets[t] \in Nat
        /\ \A u \in Slot : About(call[u])
    BY DEF ViewIInv, Typed, ViewRecord, Shown
  <1> DEFINE asked == [kind |-> kind, ticket |-> t, state |-> "due", version |-> view.tickets[t]]
  <1>1. call' = [call EXCEPT ![s] = asked] /\ acts' = acts + 1
        /\ UNCHANGED <<server, view, page, more>>
    BY DEF Submit
  <1>2. asked \in Call /\ About(asked)
    BY <1>0 DEF Call, Kinds, About
  <1> HIDE DEF asked
  <1>3. /\ call' \in [Slot -> Call]
        /\ \A u \in Slot : About(call'[u])
    BY <1>0, <1>1, <1>2
  <1>4. server' \in [Tickets -> [version : Nat, pending : BOOLEAN]]
    BY <1>0, <1>1 DEF Typed
  <1> QED BY <1>0, <1>1, <1>3, <1>4, RequestStep

\* An answer, on its way or lost, is still about its ticket.
LEMMA AnsweredCall ==
  ASSUME Typed, NEW s \in Slot, call[s] # NoCall,
         NEW state \in {"due", "lost", "ok", "conflict"}, NEW version \in Nat,
         Answer(s, state, version)
  PROVE  /\ call' \in [Slot -> Call]
         /\ \A u \in Slot : About(call'[u])
  <1>0. /\ call \in [Slot -> Call]
        /\ \A u \in Slot : About(call[u])
    BY DEF Typed
  <1> DEFINE c == [call[s] EXCEPT !.state = state, !.version = version]
  <1>1. c \in Call /\ About(c)
    BY <1>0 DEF Call, About
  <1>2. call' = [call EXCEPT ![s] = c]
    <2>1. call' = [call EXCEPT ![s].state = state, ![s].version = version]
      BY DEF Answer
    <2>2. \A u \in Slot : call'[u] = IF u = s THEN c ELSE call[u]
      BY <1>0, <2>1 DEF Call
    <2>3. call' = [u \in Slot |-> call'[u]]
      BY <1>0, <2>1
    <2> HIDE DEF c
    <2> QED BY <1>0, <2>2, <2>3
  <1> HIDE DEF c
  <1> QED BY <1>0, <1>1, <1>2

LEMMA ServeStep ==
  ASSUME ViewIInv, NEW s \in Slot, Serve(s) \/ Lose(s)
  PROVE  ViewIInv' /\ NotOlder
  <1>0. /\ Typed /\ acts \in Nat
        /\ server \in [Tickets -> [version : Nat, pending : BOOLEAN]]
    BY DEF ViewIInv, Typed
  <1>1. call[s] # NoCall /\ UNCHANGED <<view, page, more, acts>>
    BY DEF Serve, Lose
  <1>2. call[s].ticket \in Tickets
    BY <1>0, <1>1 DEF Typed, About
  <1> DEFINE t == call[s].ticket
  <1>3. server[t].version \in Nat /\ server[t].version + 1 \in Nat
    BY <1>0, <1>2
  <1>4. \/ UNCHANGED server
        \/ Changed(t)
        \/ server' = [server EXCEPT ![t].version = 1]
    BY DEF Serve, Lose
  <1>5. server' \in [Tickets -> [version : Nat, pending : BOOLEAN]]
    BY <1>0, <1>2, <1>4, ChangedServer
  <1>6. \E state \in {"due", "lost", "ok", "conflict"}, version \in Nat : Answer(s, state, version)
    BY <1>3 DEF Serve, Lose
  <1>7. /\ call' \in [Slot -> Call]
        /\ \A u \in Slot : About(call'[u])
    BY <1>0, <1>1, <1>6, AnsweredCall
  <1> QED BY <1>0, <1>1, <1>5, <1>7, RequestStep

LEMMA SomebodyElseStep ==
  ASSUME ViewIInv, NEW t \in Tickets, SomebodyElse(t) PROVE ViewIInv' /\ NotOlder
  <1>0. Typed /\ acts \in Nat
    BY DEF ViewIInv, Typed
  <1>1. server' \in [Tickets -> [version : Nat, pending : BOOLEAN]]
    BY <1>0, ChangedServer DEF SomebodyElse
  <1> QED BY <1>0, <1>1, RequestStep DEF SomebodyElse, Typed

----------------------------------------------------------------------------
(* What an answer to a request about one ticket shows. *)

\* A step that shows tickets and asks for no queue, or asks for it anew.
Shows(tickets) ==
  /\ ViewRecord(view') /\ FetchRecord(page') /\ Consistent(view', page', more)
  /\ view'.tickets = tickets
  /\ view'.query \in {view.query, pendingTicketQuery}

\* What changed on the server may be of any query: the queue is asked for anew.
LEMMA InvalidateShows ==
  ASSUME ViewRecord(view), FetchRecord(page), FetchRecord(more), Consistent(view, page, more),
         NEW v, ViewRecord(v), v.epoch >= view.epoch, v.refresh = view.refresh,
         v.query \in {view.query, pendingTicketQuery}, Rendered(Invalidated(v))
  PROVE  Shows(v.tickets)
  <1> DEFINE state == Invalidated(v)
  <1>1. /\ ViewRecord(state) /\ state.tickets = v.tickets /\ state.query = v.query
        /\ state.cursor = None
        /\ state.refresh = v.refresh + 1 /\ state.epoch = v.epoch + 1
    BY InvalidatedRecord
  <1>2. Rendered(state) OBVIOUS
  <1> HIDE DEF state
  <1>3. Deps(state) # Deps(view)
    <2>1. state.refresh > view.refresh
      BY <1>1 DEF ViewRecord
    <2> QED BY <1>1, <2>1, OtherDeps
  <1>4. state.epoch >= view.epoch
    BY <1>1 DEF ViewRecord
  <1> QED BY <1>1, <1>2, <1>3, <1>4, RenderAsks DEF Shows

LEMMA WithTicketShown ==
  ASSUME ViewRecord(view), NEW t \in Tickets, NEW version \in Nat
  PROVE  \E tickets \in Shown :
           /\ WithTicket(view, t, version) = [view EXCEPT !.tickets = tickets]
           /\ \A u \in Tickets : tickets[u] >= view.tickets[u]
  <1> DEFINE newer == IF view.tickets[t] = 0 THEN 0 ELSE NewerTicket(view.tickets[t], version)
             tickets == [view.tickets EXCEPT ![t] = newer]
  <1>1. view.tickets \in [Tickets -> Nat] /\ "tickets" \in DOMAIN view
    BY DEF ViewRecord, Shown
  <1>2. newer \in Nat /\ newer >= view.tickets[t]
    BY <1>1, NewerShown
  <1>3. WithTicket(view, t, version) = [view EXCEPT !.tickets = tickets]
    BY Zenon DEF WithTicket
  <1> HIDE DEF newer
  <1>4. tickets \in Shown /\ \A u \in Tickets : tickets[u] >= view.tickets[u]
    BY <1>1, <1>2 DEF Shown
  <1> HIDE DEF tickets
  <1> QED BY <1>3, <1>4

\* A call that is over, and one that goes on with a read of the ticket.
LEMMA ReceivedCall ==
  ASSUME Typed, NEW s \in Slot, call[s] # NoCall, Ends(s) \/ Reads(s)
  PROVE  /\ call' \in [Slot -> Call]
         /\ \A u \in Slot : About(call'[u])
         /\ Ends(s) => call'[s] # call[s]
  <1>0. /\ call \in [Slot -> Call]
        /\ \A u \in Slot : About(call[u])
    BY DEF Typed
  <1>1. CASE Ends(s)
    <2>1. NoCall \in Call
      BY DEF NoCall, Call
    <2>2. About(NoCall) BY DEF About
    <2>3. call' = [call EXCEPT ![s] = NoCall]
      BY <1>1 DEF Ends
    <2> QED BY <1>0, <2>1, <2>2, <2>3
  <1>2. CASE Reads(s)
    <2> DEFINE c == [call[s] EXCEPT !.kind = "get", !.state = "due"]
    <2>1. c \in Call /\ About(c)
      BY <1>0 DEF Call, About
    <2>2. call' = [call EXCEPT ![s] = c]
      BY <1>2 DEF Reads
    <2>3. ~Ends(s)
      <3>1. c.state = "due" /\ NoCall.state = "none"
        BY <1>0 DEF Call, NoCall
      <3>2. call'[s] = c BY <1>0, <2>2
      <3> HIDE DEF c
      <3> QED BY <1>0, <3>1, <3>2 DEF Ends
    <2> HIDE DEF c
    <2> QED BY <1>0, <2>1, <2>2, <2>3
  <1> QED BY <1>1, <1>2

LEMMA ReceiveStep ==
  ASSUME ViewIInv, NEW s \in Slot, Receive(s)
  PROVE  ViewIInv' /\ NotOlder
  <1>0. /\ Typed /\ ViewRecord(view) /\ FetchRecord(page) /\ FetchRecord(more)
        /\ Consistent(view, page, more) /\ QueryIsOlder /\ acts \in Nat
        /\ view.tickets \in [Tickets -> Nat] /\ view.epoch \in Nat
    BY DEF ViewIInv, Typed, ViewRecord, Shown
  <1> DEFINE t == call[s].ticket
             version == call[s].version
  <1>1. call[s] # NoCall /\ UNCHANGED <<server, more, acts>>
    BY DEF Receive
  <1>k. /\ call[s].state \in {"lost", "conflict", "ok"}
        /\ call[s].kind \in {"update", "analyze", "review", "create", "search", "get"}
    <2>1. About(call[s]) /\ call[s] \in Call /\ call[s].state # "due"
      BY <1>0 DEF Typed, Receive
    <2> QED BY <1>1, <2>1 DEF About, Call, Kinds
  <1>2. t \in Tickets /\ version \in Nat
    BY <1>0, <1>1 DEF Typed, Call, About
  <1>3. Ends(s) \/ Reads(s)
    BY <1>k DEF Receive
  <1>4. /\ call' \in [Slot -> Call]
        /\ \A u \in Slot : About(call'[u])
        /\ Ends(s) => call'[s] # call[s]
    BY <1>0, <1>1, <1>3, ReceivedCall
  <1>5. ASSUME NEW tickets \in Shown, Shows(tickets)
        PROVE  ViewIInv'
    <2>1. Typed'
      BY <1>0, <1>1, <1>4, <1>5 DEF Typed, Shows
    <2>2. QueryIsOlder'
      BY <1>0, <1>1, <1>5, PendingQuery DEF QueryIsOlder, Shows
    <2> QED BY <1>1, <1>5, <2>1, <2>2 DEF ViewIInv, Shows
  <1>6. ASSUME NEW tickets \in Shown, Shows(tickets),
               \A u \in Tickets : tickets[u] >= view.tickets[u]
        PROVE  ViewIInv' /\ NotOlder
    BY <1>5, <1>6 DEF NotOlder, Shows
  <1>7. ASSUME NEW tickets \in Shown, Rendered([view EXCEPT !.tickets = tickets])
        PROVE  Shows(tickets)
    BY <1>0, <1>7, RenderShows DEF Shows
  <1>8. ASSUME NEW tickets \in Shown, Rendered(Invalidated([view EXCEPT !.tickets = tickets]))
        PROVE  Shows(tickets)
    <2> DEFINE v == [view EXCEPT !.tickets = tickets]
    <2>1. /\ ViewRecord(v) /\ v.tickets = tickets /\ v.epoch = view.epoch
          /\ v.refresh = view.refresh /\ v.query = view.query
      BY <1>0 DEF ViewRecord
    <2>2. Rendered(Invalidated(v)) BY <1>8
    <2> HIDE DEF v
    <2>3. v.epoch >= view.epoch BY <1>0, <2>1
    <2>4. Shows(v.tickets)
      BY <1>0, <2>1, <2>2, <2>3, InvalidateShows
    <2> QED BY <2>1, <2>4
  <1>9. PICK newer \in Shown :
          /\ WithTicket(view, t, version) = [view EXCEPT !.tickets = newer]
          /\ \A u \in Tickets : newer[u] >= view.tickets[u]
    BY <1>0, <1>2, WithTicketShown
  <1>10. CASE UNCHANGED <<view, page>>
    BY <1>0, <1>1, <1>4, <1>10, RequestStep DEF Typed
  <1>11. CASE Rendered(Invalidated(WithTicket(view, t, version)))
    BY <1>6, <1>8, <1>9, <1>11
  <1>12. CASE Rendered(WithTicket(view, t, version))
    BY <1>6, <1>7, <1>9, <1>12
  <1>13. CASE Rendered(Invalidated(view))
    <2>1. Shows(view.tickets)
      BY <1>0, <1>13, InvalidateShows
    <2> QED BY <1>0, <1>6, <2>1 DEF Shown
  <1>14. CASE Rendered([view EXCEPT !.tickets[t] = NewerTicket(@, version)])
    <2> DEFINE tickets == [view.tickets EXCEPT ![t] = NewerTicket(view.tickets[t], version)]
    <2>1. tickets \in Shown /\ \A u \in Tickets : tickets[u] >= view.tickets[u]
      <3>1. view.tickets[t] \in Nat
        BY <1>0, <1>2
      <3>2. /\ NewerTicket(view.tickets[t], version) \in Nat
            /\ NewerTicket(view.tickets[t], version) >= view.tickets[t]
        BY <1>2, <3>1, NewerShown
      <3> QED BY <1>0, <1>2, <3>2 DEF Shown
    <2>2. Rendered([view EXCEPT !.tickets = tickets])
      BY <1>14
    <2> HIDE DEF tickets
    <2> QED BY <1>6, <1>7, <2>1, <2>2
  <1>15. CASE call[s].kind = "create" /\ Rendered(Created(view, t)) /\ Ends(s)
    <2> DEFINE tickets == [view.tickets EXCEPT ![t] = 1]
               queue == {t} \cup (IF view.queue = None THEN {} ELSE view.queue)
               w == [view EXCEPT !.tickets = tickets, !.queue = queue]
               v == Requeried(w, pendingTicketQuery)
    <2>1. tickets \in Shown /\ \A u \in Tickets \ {t} : tickets[u] = view.tickets[u]
      BY <1>0, <1>2 DEF Shown
    <2>2. Created(view, t) = Invalidated(v)
      BY <1>0 DEF Created
    <2> HIDE DEF tickets, queue
    <2>3. ViewRecord(w) /\ w.tickets = tickets /\ w.epoch = view.epoch /\ w.refresh = view.refresh
      BY <1>0, <2>1 DEF ViewRecord
    <2> HIDE DEF w
    <2>4. /\ ViewRecord(v) /\ v.tickets = tickets /\ v.query = pendingTicketQuery
          /\ v.refresh = view.refresh /\ v.epoch = view.epoch + 1
      BY <2>3, PendingQuery, RequeriedRecord
    <2>5. Rendered(Invalidated(v)) BY <1>15, <2>2
    <2> HIDE DEF v
    <2>6. v.epoch >= view.epoch BY <1>0, <2>4
    <2>7. Shows(tickets)
      BY <1>0, <2>4, <2>5, <2>6, InvalidateShows
    <2>8. ViewIInv' BY <1>5, <2>1, <2>7
    <2>9. ASSUME NEW u \in Tickets, u # t PROVE view'.tickets[u] >= view.tickets[u]
      BY <1>0, <2>1, <2>7, <2>9 DEF Shows
    <2>10. NotOlder
      BY <1>4, <1>15, <2>9 DEF NotOlder
    <2> QED BY <2>8, <2>10
  <1> QED BY <1>k, <1>10, <1>11, <1>12, <1>13, <1>14, <1>15 DEF Receive

----------------------------------------------------------------------------
(* The theorems. *)

\* Every step keeps the invariant and makes no ticket older but by creating it.
LEMMA Step ==
  ASSUME ViewIInv, [ViewNext]_viewVars
  PROVE  ViewIInv' /\ NotOlder
  <1>1. CASE UNCHANGED viewVars
    <2>1. Typed BY DEF ViewIInv
    <2>2. acts' >= acts /\ acts' \in Nat
      BY <1>1, <2>1 DEF viewVars, Typed
    <2> QED BY <1>1, <2>1, <2>2, RequestStep DEF viewVars, Typed
  <1>2. CASE \E t \in Tickets : SomebodyElse(t)
    BY <1>2, SomebodyElseStep
  <1>3. CASE LoadMore \/ AnswerFetch \/ ShowPage \/ ShowMore
    BY <1>3, LoadMoreStep, AnswerFetchStep, ShowPageStep, ShowMoreStep
  <1>4. CASE Filter \/ RetryView \/ Refresh
    BY <1>4, FilterStep, RetryViewStep, RefreshStep
  <1>5. ASSUME NEW s \in Slot,
               \/ \E t \in Tickets, kind \in Kinds : Submit(s, kind, t)
               \/ Serve(s) \/ Lose(s) \/ Receive(s)
        PROVE  ViewIInv' /\ NotOlder
    BY <1>5, SubmitStep, ServeStep, ReceiveStep
  <1> QED BY <1>1, <1>2, <1>3, <1>4, <1>5 DEF ViewNext

LEMMA ViewInvariance == ViewSpec => []ViewIInv
  BY ViewInitIInv, Step, PTL DEF ViewSpec

\* The state of the page, its fetches and its calls are well-typed.
THEOREM ViewTypeCorrect == ViewSpec => []Typed
  BY ViewInvariance, PTL DEF ViewIInv

\* In whatever order answers arrive, are dropped or are lost, a queue that stands still
\* is the answer to the query that is set, page after page.
THEOREM AnswersTheQuery == ViewSpec => []QueueAnswersTheQuery
  <1>1. ViewIInv => QueueAnswersTheQuery
    BY DEF ViewIInv, Consistent, Answers, QueueAnswersTheQuery
  <1> QED BY <1>1, ViewInvariance, PTL

\* Whatever the user does while it loads, a queue that loads waits for an answer that
\* will be taken; only the retry of a view can leave it without one.
THEOREM NobodyWaitsForNothing == ViewSpec => []LoadingIsAnswered
  <1>1. ViewIInv => LoadingIsAnswered
    BY DEF ViewIInv, Consistent, Awaited, LoadingIsAnswered
  <1> QED BY <1>1, ViewInvariance, PTL

\* No late answer makes a ticket older, but that to its own creation.
THEOREM SnapshotsAdvance == ViewSpec => OlderOnlyByCreation
  <1>1. ASSUME ViewIInv, [ViewNext]_viewVars
        PROVE  [NotOlder]_viewVars
    BY <1>1, Step
  <1> QED BY <1>1, ViewInvariance, PTL DEF ViewSpec, NotOlder, OlderOnlyByCreation
===============================================================================
