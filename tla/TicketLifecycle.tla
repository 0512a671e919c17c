---------------------------- MODULE TicketLifecycle ----------------------------
(***************************************************************************)
(* One ticket and the commands that agents send about it: PATCH, claim,    *)
(* unassign, internal notes, analyses and reviews (TicketService,          *)
(* TicketAssignmentController, TicketNoteService,                          *)
(* AnalysisPersistenceService, AnalysisReviewService).                     *)
(*                                                                         *)
(* A transaction that reads the ticket with findById reads it without a    *)
(* lock; its flush is an UPDATE conditional on the version it read and     *)
(* holds the row until the commit.  So the read is one step and the write  *)
(* is another.  A transaction that starts with findByIdForUpdate is one    *)
(* step.  A review reads its run first, and MySQL's REPEATABLE READ then   *)
(* answers its later plain reads from that snapshot, while the locking     *)
(* read of the ticket is current.                                          *)
(***************************************************************************)
EXTENDS Naturals, Sequences

CONSTANTS
  Command,  \* HTTP requests
  NoteId,   \* client-chosen ids of notes
  Text,     \* contents of notes and of review decisions
  ActorOf,  \* ActorOf[c]: the agent who sends command c
  Stamp     \* readings of the clocks that stamp analyses, which need not agree

ASSUME StampAssumption == Stamp \subseteq Nat

VARIABLES
  ticket,    \* the row of tickets
  runs,      \* rows of analysis_runs
  reviews,   \* rows of analysis_reviews, in the order of their commits
  notes,     \* rows of ticket_notes
  audit,     \* rows of audit_events, in the order of their commits
  request,   \* request[c]: what the client of c sent, from the page it saw
  pc,        \* pc[c]: how far command c is
  seen,      \* seen[c]: the ticket as c's transaction read it
  snapshot   \* snapshot[c]: the runs and reviews visible to a review

rows == <<ticket, runs, reviews, notes, audit>>
vars == <<ticket, runs, reviews, notes, audit, request, pc, seen, snapshot>>

Analyzed == {"READY_FOR_REVIEW", "NEEDS_ESCALATION"}
Final == {"RESOLVED", "CLOSED"}
Status == Analyzed \cup Final
            \cup {"NEW", "READY_FOR_MANUAL_REVIEW", "IN_PROGRESS", "WAITING_CUSTOMER"}

\* MANUAL_TRANSITIONS: the statuses an agent may request next.
ManualTransitions(from) ==
  CASE from \in Analyzed \cup {"NEW", "READY_FOR_MANUAL_REVIEW"} -> {"IN_PROGRESS"}
    [] from = "IN_PROGRESS" -> {"WAITING_CUSTOMER", "RESOLVED"}
    [] from = "WAITING_CUSTOMER" -> {"IN_PROGRESS"}
    [] from = "RESOLVED" -> {"CLOSED"}
    [] OTHER -> {}

Ticket == [version : Nat, status : Status, assigned : BOOLEAN]
Run == [by : Command, source : Nat, result : Analyzed, createdAt : Nat]
Review == [by : Command, run : Command, text : Text]
Note == [id : NoteId, text : Text, by : Command]
Change == {"TICKET_UPDATED", "TICKET_UNASSIGNED", "TICKET_NOTE_ADDED", "ANALYSIS_PERSISTED"}
Event == [action : Change \cup {"ANALYSIS_REVIEWED"}, version : Nat, by : Command]

\* A request and the page it was sent from: the ticket's version, and for a
\* review the analysis shown.
Request ==
  [kind : {"update", "unassign", "claim", "analyze"}, expected : Nat]
  \cup [kind : {"note"}, expected : Nat, id : NoteId, text : Text]
  \cup [kind : {"review"}, run : Command, text : Text]

NoRequest == [kind |-> "none"]
NoSnapshot == [runs |-> {}, reviews |-> <<>>]

LifecycleTypeOK ==
  /\ ticket \in Ticket
  /\ runs \in SUBSET Run
  /\ reviews \in Seq(Review)
  /\ notes \in SUBSET Note
  /\ audit \in Seq(Event)
  /\ request \in [Command -> Request \cup {NoRequest}]
  /\ pc \in [Command -> {"idle", "sent", "checked", "read", "ok", "conflict"}]
  /\ seen \in [Command -> Ticket]
  /\ snapshot \in [Command -> [runs : SUBSET runs, reviews : Seq(Review)]]
  /\ \A run \in runs : run.source < ticket.version

\* A ticket somewhere in its life; versions are counted from here.
Init ==
  /\ ticket \in [version : {0}, status : Status, assigned : BOOLEAN]
  /\ runs = {}
  /\ reviews = <<>>
  /\ notes = {}
  /\ audit = <<>>
  /\ request = [c \in Command |-> NoRequest]
  /\ pc = [c \in Command |-> "idle"]
  /\ seen = [c \in Command |-> ticket]
  /\ snapshot = [c \in Command |-> NoSnapshot]

At(c, place) == pc[c] = place
Goto(c, place) == pc' = [pc EXCEPT ![c] = place]
Kind(c) == request[c].kind

Audit(action, version, c) ==
  audit' = Append(audit, [action |-> action, version |-> version, by |-> c])

----------------------------------------------------------------------------
(* The client. *)

Send(c, req) ==
  /\ At(c, "idle")
  /\ request' = [request EXCEPT ![c] = req]
  /\ Goto(c, "sent")
  /\ UNCHANGED <<rows, seen, snapshot>>

\* An agent acts on the page it last loaded; for "analyze" this is the read of
\* AnalysisService, before the AI is called.
SendEdit(c) ==
  \E k \in {"update", "unassign", "claim", "analyze"} :
    Send(c, [kind |-> k, expected |-> ticket.version])

SendNote(c) ==
  \E i \in NoteId, t \in Text :
    Send(c, [kind |-> "note", expected |-> ticket.version, id |-> i, text |-> t])

SendReview(c) ==
  \E run \in runs, t \in Text :
    Send(c, [kind |-> "review", run |-> run.by, text |-> t])

----------------------------------------------------------------------------
(* Optimistic writers. *)

\* claim reads the ticket in a transaction of its own and checks its status.
CheckClaim(c) ==
  /\ At(c, "sent") /\ Kind(c) = "claim"
  /\ Goto(c, IF ticket.status \in Final THEN "conflict" ELSE "checked")
  /\ UNCHANGED <<rows, request, seen, snapshot>>

\* Where the transaction of an update, unassign, claim or analysis begins.
Ready(c) ==
  \/ At(c, "sent") /\ Kind(c) \in {"update", "unassign", "analyze"}
  \/ At(c, "checked")

\* Mutant: the version the client saw is not compared.
ReadAnyVersion(c) ==
  /\ Ready(c)
  /\ seen' = [seen EXCEPT ![c] = ticket]
  /\ Goto(c, "read")
  /\ UNCHANGED <<rows, request, snapshot>>

\* findById and the comparison with expectedVersion.
ReadTicket(c) ==
  /\ Ready(c)
  /\ ticket.version = request[c].expected
  /\ seen' = [seen EXCEPT ![c] = ticket]
  /\ Goto(c, "read")
  /\ UNCHANGED <<rows, request, snapshot>>

VersionConflict(c) ==
  /\ Ready(c)
  /\ ticket.version # request[c].expected
  /\ Goto(c, "conflict")
  /\ UNCHANGED <<rows, request, seen, snapshot>>

\* Mutant: the flush is not conditional on the version.
FlushAlways(c) == TRUE

\* Hibernate's UPDATE ... WHERE version = ? finds the row.
FlushSucceeds(c) == ticket.version = seen[c].version

FlushFails(c) ==
  /\ At(c, "read") /\ Kind(c) # "review"
  /\ ~FlushSucceeds(c)
  /\ Goto(c, "conflict")
  /\ UNCHANGED <<rows, request, seen, snapshot>>

\* The row as read, with the command's changes and the next version.
Store(c, status, assigned) ==
  ticket' = [version |-> seen[c].version + 1, status |-> status, assigned |-> assigned]

\* A PATCH: a legal status, other fields, or both; a claim sets the assignee.
WriteUpdate(c) ==
  /\ At(c, "read") /\ Kind(c) \in {"update", "claim"}
  /\ FlushSucceeds(c)
  /\ IF Kind(c) = "claim"
     THEN Store(c, seen[c].status, TRUE)
     ELSE \E s \in ManualTransitions(seen[c].status) \cup {seen[c].status} :
            \E a \in {seen[c].assigned, TRUE} : Store(c, s, a)
  /\ Audit("TICKET_UPDATED", seen[c].version + 1, c)
  /\ Goto(c, "ok")
  /\ UNCHANGED <<runs, reviews, notes, request, seen, snapshot>>

\* Nothing to change: the fields have the requested values, or there is no
\* assignee to remove.  The answer is the ticket as read; nothing is written.
NothingToChange(c) ==
  /\ At(c, "read")
  /\ \/ Kind(c) = "update"
     \/ Kind(c) = "claim" /\ seen[c].assigned
     \/ Kind(c) = "unassign" /\ ~seen[c].assigned
  /\ Goto(c, "ok")
  /\ UNCHANGED <<rows, request, seen, snapshot>>

\* The request is illegal in the status read; for a PATCH, in every status
\* some requested status is.
StateConflict(c) ==
  /\ At(c, "read")
  /\ \/ Kind(c) = "update"
     \/ Kind(c) = "unassign" /\ seen[c].assigned /\ seen[c].status \in Final
     \/ Kind(c) = "analyze" /\ seen[c].status \in Final
  /\ Goto(c, "conflict")
  /\ UNCHANGED <<rows, request, seen, snapshot>>

WriteUnassign(c) ==
  /\ At(c, "read") /\ Kind(c) = "unassign"
  /\ seen[c].assigned /\ seen[c].status \notin Final
  /\ FlushSucceeds(c)
  /\ Store(c, seen[c].status, FALSE)
  /\ Audit("TICKET_UNASSIGNED", seen[c].version + 1, c)
  /\ Goto(c, "ok")
  /\ UNCHANGED <<runs, reviews, notes, request, seen, snapshot>>

\* persistBusinessResult: the run, and the status and version of the ticket.  The
\* run is stamped by the AI service, or by this instance for a fallback.
WriteAnalysis(c) ==
  /\ At(c, "read") /\ Kind(c) = "analyze"
  /\ seen[c].status \notin Final
  /\ FlushSucceeds(c)
  /\ \E result \in Analyzed, stamp \in Stamp :
       /\ runs' = runs \cup {[by |-> c, source |-> request[c].expected,
                              result |-> result, createdAt |-> stamp]}
       /\ Store(c, result, seen[c].assigned)
  /\ Audit("ANALYSIS_PERSISTED", request[c].expected, c)
  /\ Goto(c, "ok")
  /\ UNCHANGED <<reviews, notes, request, seen, snapshot>>

----------------------------------------------------------------------------
(* Notes: serialized by the lock on the ticket. *)

SameId(c) == {n \in notes : n.id = request[c].id}

\* A note with this id exists: the same text of the same agent is a retry and is
\* answered with the note, anything else is a conflict.
RepeatNote(c) ==
  /\ At(c, "sent") /\ Kind(c) = "note"
  /\ SameId(c) # {}
  /\ LET retried == \E n \in SameId(c) :
           ActorOf[n.by] = ActorOf[c] /\ n.text = request[c].text
     IN  Goto(c, IF retried THEN "ok" ELSE "conflict")
  /\ UNCHANGED <<rows, request, seen, snapshot>>

AddNote(c) ==
  /\ At(c, "sent") /\ Kind(c) = "note"
  /\ SameId(c) = {}
  /\ ticket.version = request[c].expected
  /\ ticket.status \notin Final
  /\ ticket' = [ticket EXCEPT !.version = @ + 1]
  /\ notes' = notes \cup {[id |-> request[c].id, text |-> request[c].text, by |-> c]}
  /\ Audit("TICKET_NOTE_ADDED", ticket.version + 1, c)
  /\ Goto(c, "ok")
  /\ UNCHANGED <<runs, reviews, request, seen, snapshot>>

RefuseNote(c) ==
  /\ At(c, "sent") /\ Kind(c) = "note"
  /\ SameId(c) = {}
  /\ ticket.version # request[c].expected \/ ticket.status \in Final
  /\ Goto(c, "conflict")
  /\ UNCHANGED <<rows, request, seen, snapshot>>

----------------------------------------------------------------------------
(* Reviews: a snapshot, then the lock on the ticket. *)

\* findRun: the transaction's first plain read, which fixes its snapshot.
ReadRun(c) ==
  /\ At(c, "sent") /\ Kind(c) = "review"
  /\ snapshot' = [snapshot EXCEPT ![c] = [runs |-> runs, reviews |-> reviews]]
  /\ seen' = [seen EXCEPT ![c] = ticket]
  /\ Goto(c, "read")
  /\ UNCHANGED <<rows, request>>

RunById(id) == CHOOSE run \in runs : run.by = id

\* Mutant: the order of the stamps is ascending.
EarliestRuns(c) ==
  {run \in snapshot[c].runs :
     \A other \in snapshot[c].runs : other.createdAt >= run.createdAt}

\* findFirstByTicketIdOrderByCreatedAtDesc may return any of several runs with
\* the greatest stamp.
LatestRuns(c) ==
  {run \in snapshot[c].runs :
     \A other \in snapshot[c].runs : other.createdAt <= run.createdAt}

\* Mutant: the ticket is read from the snapshot, without a lock.
SnapshotVersionMatches(c) == seen[c].version = RunById(request[c].run).source + 1

\* The locked ticket is still at the version the analysis left.
VersionMatches(c) == ticket.version = RunById(request[c].run).source + 1

\* The latest decision on the run that the snapshot shows.
LatestReview(c) ==
  LET s == SelectSeq(snapshot[c].reviews, LAMBDA v : v.run = request[c].run)
  IN  IF s = <<>> THEN {} ELSE {s[Len(s)]}

AlreadyDecided(c) == \E v \in LatestReview(c) : v.text = request[c].text

SaveReview(c) ==
  /\ At(c, "read") /\ Kind(c) = "review"
  /\ RunById(request[c].run) \in LatestRuns(c)
  /\ VersionMatches(c)
  /\ ~AlreadyDecided(c)
  /\ reviews' = Append(reviews, [by |-> c, run |-> request[c].run, text |-> request[c].text])
  /\ Audit("ANALYSIS_REVIEWED", ticket.version, c)
  /\ Goto(c, "ok")
  /\ UNCHANGED <<ticket, runs, notes, request, seen, snapshot>>

RepeatReview(c) ==
  /\ At(c, "read") /\ Kind(c) = "review"
  /\ RunById(request[c].run) \in LatestRuns(c)
  /\ VersionMatches(c)
  /\ AlreadyDecided(c)
  /\ Goto(c, "ok")
  /\ UNCHANGED <<rows, request, seen, snapshot>>

\* 409 ANALYSIS_REVIEW_STALE.
StaleReview(c) ==
  /\ At(c, "read") /\ Kind(c) = "review"
  /\ LatestRuns(c) # {RunById(request[c].run)} \/ ~VersionMatches(c)
  /\ Goto(c, "conflict")
  /\ UNCHANGED <<rows, request, seen, snapshot>>

----------------------------------------------------------------------------

Edit(c) ==
  \/ CheckClaim(c) \/ ReadTicket(c) \/ VersionConflict(c) \/ FlushFails(c)
  \/ WriteUpdate(c) \/ NothingToChange(c) \/ StateConflict(c)
  \/ WriteUnassign(c) \/ WriteAnalysis(c)

TakeNote(c) == RepeatNote(c) \/ AddNote(c) \/ RefuseNote(c)

Decide(c) == ReadRun(c) \/ SaveReview(c) \/ RepeatReview(c) \/ StaleReview(c)

Next ==
  \E c \in Command :
    SendEdit(c) \/ SendNote(c) \/ SendReview(c) \/ Edit(c) \/ TakeNote(c) \/ Decide(c)

Spec == Init /\ [][Next]_vars

----------------------------------------------------------------------------
(* Properties. *)

\* The events of changes to the ticket, and the version an event's change produced;
\* ANALYSIS_PERSISTED records the one the analysis was made from.
Changes == {i \in DOMAIN audit : audit[i].action \in Change}
Produced(e) == IF e.action = "ANALYSIS_PERSISTED" THEN e.version + 1 ELSE e.version

\* No update is lost and none goes unrecorded: the audit's change events, in
\* the order of their commits, are exactly the versions of the ticket.
AuditTellsEveryVersion ==
  /\ {Produced(audit[i]) : i \in Changes} = 1 .. ticket.version
  /\ \A i, j \in Changes : i < j => Produced(audit[i]) < Produced(audit[j])

\* A finished ticket stays finished: no PATCH, and no analysis that was already
\* under way when the ticket was resolved, brings it back; and no claim,
\* unassignment or note reaches it, although a claim checks the status in an
\* earlier transaction than it writes in.
FinishedStaysFinished ==
  [][/\ ticket.status \in Final => ticket'.status \in {ticket.status, "CLOSED"}
     /\ \A c \in Command :
          /\ Kind(c) \in {"claim", "unassign", "note"}
          /\ ticket' # ticket /\ pc'[c] # pc[c]
          => ticket.status \notin Final]_vars

\* A decision is recorded only on the last analysis, on the ticket exactly as
\* that analysis left it, even though the transaction's snapshot of the runs
\* may be older than its lock and analyses may carry skewed stamps.
ReviewIsCurrent ==
  [][\A c \in Command :
       Kind(c) = "review" /\ reviews' # reviews /\ pc'[c] # pc[c] =>
         LET run == RunById(request[c].run)
         IN  /\ \A other \in runs : other.source <= run.source
             /\ ticket.status = run.result
             /\ \E i \in Changes :
                  audit[i].by = run.by /\ \A j \in Changes : j <= i]_vars

\* A decision is refused as stale only when the ticket did change after the
\* analysis, or when an older analysis carries a stamp that is not older.
RefusedOnlyWhenStale ==
  [][\A c \in Command :
       Kind(c) = "review" /\ pc'[c] = "conflict" /\ pc[c] # "conflict" =>
         LET run == RunById(request[c].run)
         IN  \/ ticket.version > run.source + 1
             \/ \E other \in runs :
                  other.source < run.source /\ other.createdAt >= run.createdAt]_vars
=============================================================================
