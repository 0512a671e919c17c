------------------------------- MODULE MCTickets -------------------------------
(***************************************************************************)
(* Small instances of the tickets and of the page that shows them: a few   *)
(* commands, of any kind, that are sent in any order about one ticket; and *)
(* a queue of two tickets on pages of one, with two requests about a       *)
(* ticket beside the two fetches of the queue.                             *)
(***************************************************************************)
EXTENDS TicketLifecycle, TicketQueueView, TLC

CONSTANT c3

Slots == Permutations(Slot)

\* Two agents, one of whom sends two commands.
MCActorOf == [c \in Command |-> IF c = c3 THEN "second" ELSE "first"]

\* The two share no state, so that TLC moves one of them, beside the other in a first
\* state.
NoCommands == Init /\ ticket.status = "NEW" /\ ~ticket.assigned
NoPage == ViewInit /\ ~secured /\ \A t \in Tickets : server[t].version = 0

MCInit == Init /\ ViewInit /\ (NoCommands \/ NoPage)

MCNext ==
  \/ NoPage /\ Next /\ UNCHANGED viewVars
  \/ NoCommands /\ ViewNext /\ UNCHANGED vars

MCSpec == MCInit /\ [][MCNext]_<<vars, viewVars>>
=============================================================================
