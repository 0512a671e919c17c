---------------------------- MODULE AnalysisCommand ----------------------------
(***************************************************************************)
(* The ANALYZE_TICKET command: what the owner of a key runs inside         *)
(* CommandIdempotency.  AnalysisService.analyzeOwned reads the ticket's    *)
(* version outside any transaction, enters the in-memory single flight of  *)
(* its JVM (AnalysisSingleFlightCoordinator), calls the AI service, and    *)
(* persists the result in one transaction that checks the version, bumps   *)
(* it and completes the key (AnalysisPersistenceService).                  *)
(*                                                                         *)
(* A ticket is its version and whether it is open (neither RESOLVED nor    *)
(* CLOSED); the flush that bumps the version is conditional on the version *)
(* read and holds the ticket row until the commit, so the transaction is   *)
(* one step.                                                               *)
(***************************************************************************)
EXTENDS CommandIdempotency, Naturals

CONSTANTS
  Ticket,
  TicketOf,    \* the ticket each request names; part of its fingerprint
  MaxVersion   \* bound: other writers stop at this version

ASSUME TicketAssumption ==
  /\ TicketOf \in [Request -> Ticket]
  /\ \A r, s \in Request : PrintOf[r] = PrintOf[s] => TicketOf[r] = TicketOf[s]
  /\ MaxVersion \in Nat

VARIABLES
  version,  \* version[t]: tickets.version
  open,     \* open[t]: the ticket accepts analysis results
  runs,     \* the persisted rows of analysis_runs
  phase,    \* phase[r]: where r's operation is
  basis,    \* basis[r]: the ticket version r's operation read
  leader    \* leader[r]: the request whose flight r leads or joined

ticketVars == <<version, open, runs>>
callVars == <<phase, basis, leader>>
allVars == <<vars, ticketVars, callVars>>

Run == [ticket : Ticket, source : Nat, by : Request]

\* leading: the AI call is out; analyzed: its response is ready to persist;
\* saved and thrown: how the operation ended, before joiners learn of it;
\* published: the shared future is completed, its map entry still there.
Leading == {"leading", "analyzed", "saved", "thrown", "published"}
Phase == {"off", "read", "joined"} \cup Leading

CallTypeOK ==
  /\ version \in [Ticket -> Nat]
  /\ open \in [Ticket -> BOOLEAN]
  /\ runs \in SUBSET Run
  /\ phase \in [Request -> Phase]
  /\ basis \in [Request -> Nat]
  /\ leader \in [Request -> Request \cup {None}]
  /\ \A r \in Request : phase[r] \in Leading => leader[r] = r

CallInit ==
  /\ Init
  /\ version = [t \in Ticket |-> 0]
  /\ open = [t \in Ticket |-> TRUE]
  /\ runs = {}
  /\ phase = [r \in Request |-> "off"]
  /\ basis = [r \in Request |-> 0]
  /\ leader = [r \in Request |-> None]

Reach(r, p) == phase' = [phase EXCEPT ![r] = p]

----------------------------------------------------------------------------
(* The shared flight. *)

\* ticketRepository.findById: version and content are read, no lock is kept.
ReadTicket(r) ==
  /\ stage[r] = "running"
  /\ phase[r] = "off"
  /\ Reach(r, "read")
  /\ basis' = [basis EXCEPT ![r] = version[TicketOf[r]]]
  /\ UNCHANGED <<vars, ticketVars, leader>>

\* Mutant: the flight key has no command identity.
FlightKeyByVersion(r) == <<NodeOf[r], TicketOf[r], basis[r]>>

\* The key of inFlight, a map of one JVM.
FlightKey(r) == <<NodeOf[r], KeyOf[r], TicketOf[r], basis[r]>>

\* The entries of the maps that r would find under its key.
Flights(r) == {q \in Request : phase[q] \in Leading /\ FlightKey(q) = FlightKey(r)}

\* putIfAbsent stores r's future.
LeadFlight(r) ==
  /\ phase[r] = "read"
  /\ Flights(r) = {}
  /\ Reach(r, "leading")
  /\ leader' = [leader EXCEPT ![r] = r]
  /\ UNCHANGED <<vars, ticketVars, basis>>

\* putIfAbsent returns another request's future.
JoinFlight(r) ==
  /\ phase[r] = "read"
  /\ \E q \in Flights(r) : leader' = [leader EXCEPT ![r] = q]
  /\ Reach(r, "joined")
  /\ UNCHANGED <<vars, ticketVars, basis>>

\* The AI service, or the deterministic fallback, gave a readable analysis.
AiAnswers(r) ==
  /\ phase[r] = "leading"
  /\ Reach(r, "analyzed")
  /\ UNCHANGED <<vars, ticketVars, basis, leader>>

\* A contract error, or a response the caller may not read.
AiFails(r) ==
  /\ phase[r] = "leading"
  /\ Reach(r, "thrown")
  /\ UNCHANGED <<vars, ticketVars, basis, leader>>

----------------------------------------------------------------------------
(* The persistence transaction. *)

\* Mutant: the version check and the version column's condition are missing.
FreshAnyVersion(r) == open[TicketOf[r]]

\* The ticket is at the version the analysis was made from, and open.
Fresh(r) == version[TicketOf[r]] = basis[r] /\ open[TicketOf[r]]

\* persistIdempotent: run, ticket and completed key commit together.
Persist(r) ==
  /\ phase[r] = "analyzed"
  /\ Fresh(r)
  /\ Commit(r)
  /\ runs' = runs \cup {[ticket |-> TicketOf[r], source |-> basis[r], by |-> r]}
  /\ version' = [version EXCEPT ![TicketOf[r]] = @ + 1]
  /\ Reach(r, "saved")
  /\ UNCHANGED <<open, basis, leader>>

\* Mutant: the completion runs in a transaction of its own, after the other.
RejectButKeepRun(r) ==
  /\ phase[r] = "analyzed"
  /\ Fresh(r) /\ ~Owns(r)
  /\ runs' = runs \cup {[ticket |-> TicketOf[r], source |-> basis[r], by |-> r]}
  /\ version' = [version EXCEPT ![TicketOf[r]] = @ + 1]
  /\ Reach(r, "thrown")
  /\ UNCHANGED <<vars, open, basis, leader>>

\* TicketVersionConflict, TicketStateConflict, a lost ownership, or a failure
\* of the database: all writes of the transaction roll back.
Reject(r) ==
  /\ phase[r] = "analyzed"
  /\ Reach(r, "thrown")
  /\ UNCHANGED <<vars, ticketVars, basis, leader>>

----------------------------------------------------------------------------
(* The end of a flight. *)

\* Mutant: an exception leaves the shared future incomplete.
PublishSuccess(r) ==
  /\ phase[r] = "saved"
  /\ Reach(r, "published")
  /\ UNCHANGED <<vars, ticketVars, basis, leader>>

\* candidate.complete or completeExceptionally: joiners may go on.
Publish(r) ==
  /\ phase[r] \in {"saved", "thrown"}
  /\ Reach(r, "published")
  /\ UNCHANGED <<vars, ticketVars, basis, leader>>

\* finally: the entry leaves the map and the operation ends, after its commit
\* with the result or with an exception.
LeaveFlight(r) ==
  /\ phase[r] = "published"
  /\ Reach(r, "off")
  /\ leader' = [leader EXCEPT ![r] = None]
  /\ IF stage[r] = "committed" THEN UNCHANGED vars ELSE OperationFails(r)
  /\ UNCHANGED <<ticketVars, basis>>

\* The future that r joined completed with a response, which r returns as the
\* result of its own command.
JoinedReturns(r) ==
  /\ phase[r] = "joined"
  /\ phase[leader[r]] \in {"published", "off"}
  /\ leader[r] \in committed
  /\ Goto(r, "done")
  /\ answer' = [answer EXCEPT ![r] = leader[r]]
  /\ heartbeat' = [heartbeat EXCEPT ![r] = Cancelled(@)]
  /\ Reach(r, "off")
  /\ leader' = [leader EXCEPT ![r] = None]
  /\ UNCHANGED <<row, late, committed, ticketVars, basis>>

\* The leader failed, or r may not read the shared response.
JoinedThrows(r) ==
  /\ phase[r] = "joined"
  /\ phase[leader[r]] \in {"published", "off"}
  /\ OperationFails(r)
  /\ Reach(r, "off")
  /\ leader' = [leader EXCEPT ![r] = None]
  /\ UNCHANGED <<ticketVars, basis>>

----------------------------------------------------------------------------
(* The surroundings: the coordinator, other writers of the ticket, crashes. *)

\* The coordinator's own steps; a committed request concludes only when its
\* operation is over.
Coordinate(r) ==
  /\ Arrive(r) \/ Resolve(r) \/ Wait(r) \/ Beat(r) \/ Conclude(r)
  /\ phase[r] # "off" => stage'[r] = stage[r]
  /\ UNCHANGED <<ticketVars, callVars>>

Lapse(k) == LeaseExpires(k) /\ UNCHANGED <<ticketVars, callVars>>

\* An agent edits, resolves or reopens the ticket.
EditTicket(t) ==
  /\ version[t] < MaxVersion
  /\ version' = [version EXCEPT ![t] = @ + 1]
  /\ \E b \in BOOLEAN : open' = [open EXCEPT ![t] = b]
  /\ UNCHANGED <<vars, runs, callVars>>

\* The JVM's flights and pending calls die with it.
CrashCalls(n) ==
  /\ Crash(n)
  /\ phase' = [r \in Request |-> IF NodeOf[r] = n THEN "off" ELSE phase[r]]
  /\ leader' = [r \in Request |-> IF NodeOf[r] = n THEN None ELSE leader[r]]
  /\ UNCHANGED <<ticketVars, basis>>

Fly(r) ==
  \/ ReadTicket(r) \/ LeadFlight(r) \/ JoinFlight(r) \/ AiAnswers(r) \/ AiFails(r)
  \/ Persist(r) \/ Reject(r) \/ Publish(r) \/ LeaveFlight(r)
  \/ JoinedReturns(r) \/ JoinedThrows(r)

CallNext ==
  \/ \E r \in Request : Coordinate(r) \/ Fly(r)
  \/ \E k \in Key : Lapse(k)
  \/ \E t \in Ticket : EditTicket(t)
  \/ \E n \in Node : CrashCalls(n)

CallSpec == CallInit /\ [][CallNext]_allVars

\* The AI client bounds every call by a deadline and turns its failures into a
\* fallback or an exception, so an operation does not hang on it.
CallFairSpec == CallSpec /\ \A r \in Request : WF_allVars(Fly(r))

----------------------------------------------------------------------------
(* Properties. *)

\* Analyses and keys commit together: a run is stored for exactly the commands
\* whose key is completed, whatever conflicts, takeovers and crashes intervene.
RunIffCommitted ==
  /\ committed = {run.by : run \in runs}
  /\ \A run, other \in runs : run.by = other.by => run = other

\* Concurrent analyses of one ticket version, under different keys or on
\* different nodes, never both persist; every run left its version behind.
OneRunPerVersion ==
  /\ \A run, other \in runs :
       run.ticket = other.ticket /\ run.source = other.source => run = other
  /\ \A run \in runs : run.source < version[run.ticket]

\* The analysis command is a correct operation for the idempotency layer: it
\* commits, fails and returns only as CommandIdempotency lets an owner do.  In
\* particular a request that joins a flight never reports a success that its
\* own key does not record.
RespectsIdempotency == Spec

\* A request that joined a flight gets out of it, however the flight ends.
JoinerReleased == \A r \in Request : phase[r] = "joined" ~> phase[r] # "joined"

=============================================================================
