---------------------------- MODULE TicketQueueView ----------------------------
(***************************************************************************)
(* The ticket workflow of the web workbench (useTicketWorkflow.ts, with    *)
(* its callers TicketQueue.tsx, CommandPalette.tsx and App.tsx): one page  *)
(* that shows tickets and a queue, and the requests it has under way.      *)
(* They are answered or lost in any order, while other users change the    *)
(* tickets.  What a handler or an answer sets is rendered, and the effects *)
(* of the render run, before the next answer arrives or the user acts: the *)
(* scheduler needs no round trip.                                          *)
(*                                                                         *)
(* A ticket is its version; what a query matches is a filter.  The total   *)
(* goes with the cursor and is left out, like metrics, toasts, the state   *)
(* of the connection and the tickets without a version of the demo.        *)
(***************************************************************************)
EXTENDS Naturals, FiniteSets, FiniteSetsExt

CONSTANTS
  Tickets,     \* 1..n, in the order of the queue
  Slot,        \* requests about a single ticket that can be under way at once
  PageSize,
  MaxVersion,  \* bound: versions of a ticket
  MaxActs,     \* bound: what the user of the page does
  None

ASSUME ViewAssumption ==
  /\ Tickets = 1..Cardinality(Tickets)
  /\ PageSize \in Nat \ {0}
  /\ None \notin Nat

VARIABLES
  server,    \* server[t]: the version of a ticket, 0 before it is created, and
             \* whether it is pending
  view,      \* the state of the hook, with the epoch
  page,      \* the fetch of the first page under way
  more,      \* the fetch of a further page under way
  call,      \* call[s]: a request about one ticket
  acts,      \* what the user did so far
  secured    \* whether the session is secured

viewVars == <<server, view, page, more, call, acts, secured>>

\* A query is an object: two with the same filter are not the same.
pendingTicketQuery == [filter |-> "pending", object |-> 0]

NoFetch == [state |-> "none"]
NoCall == [kind |-> "none", ticket |-> 0, state |-> "none", version |-> 0]

Ask(filter, cursor, epoch) ==
  [state |-> "due", filter |-> filter, cursor |-> cursor, epoch |-> epoch,
   tickets |-> [t \in Tickets |-> 0], next |-> None]

\* The effect of the first render has asked for the queue.
ViewInit ==
  /\ server \in [Tickets -> {[version |-> v, pending |-> TRUE] : v \in {0, 1}}]
  /\ view = [tickets |-> [t \in Tickets |-> 0], queue |-> None, of |-> {}, cursor |-> None,
             loading |-> TRUE, failed |-> FALSE, query |-> pendingTicketQuery, refresh |-> 0,
             epoch |-> 1, lost |-> FALSE]
  /\ page = Ask(pendingTicketQuery.filter, None, 1) /\ more = NoFetch
  /\ call = [s \in Slot |-> NoCall]
  /\ acts = 0
  /\ secured \in BOOLEAN

----------------------------------------------------------------------------
(* What the server has, and other users. *)

Matches(filter, t) == server[t].version > 0 /\ (filter = "pending" => server[t].pending)

\* A fetch is answered with the tickets as they are, one page behind its cursor, or it
\* is lost: the client waits for eight seconds.
Outcomes(fetch) ==
  LET rest == {t \in Tickets : Matches(fetch.filter, t) /\ (fetch.cursor = None \/ t > fetch.cursor)}
      items == {t \in rest : Cardinality({u \in rest : u <= t}) <= PageSize}
  IN {[fetch EXCEPT !.state = "lost"],
      [fetch EXCEPT !.state = "page",
                    !.tickets = [t \in Tickets |-> IF t \in items THEN server[t].version ELSE 0],
                    !.next = IF items = rest THEN None ELSE Max(items)]}

Changed(t) ==
  /\ server[t].version \in 1..(MaxVersion - 1)
  /\ \E pending \in BOOLEAN :
       server' = [server EXCEPT ![t] = [version |-> @.version + 1, pending |-> pending]]

SomebodyElse(t) ==
  /\ Changed(t)
  /\ UNCHANGED <<view, page, more, call, acts, secured>>

----------------------------------------------------------------------------
(* React, the queue and its fetches. *)

Deps(state) == <<state.query, state.refresh>>

\* What is set is rendered.  When the query or the refresh key is another one, the cleanup
\* of the last effect aborts its fetch and the effect asks for the first page.
Rendered(state) ==
  IF Deps(state) = Deps(view)
  THEN view' = state /\ UNCHANGED page
  ELSE /\ view' = [state EXCEPT !.loading = TRUE, !.failed = FALSE, !.epoch = @ + 1, !.lost = FALSE]
       /\ page' = Ask(state.query.filter, None, state.epoch + 1)

\* A second click finds a button that loads; after an error it is disabled, but for a
\* page that fell back to the demo.
LoadMore ==
  /\ acts < MaxActs /\ acts' = acts + 1
  /\ view.cursor # None /\ ~view.loading /\ (view.failed => ~secured)
  /\ view' = [view EXCEPT !.loading = TRUE]
  /\ more' = Ask(view.query.filter, view.cursor, view.epoch)
  /\ UNCHANGED <<server, page, call, secured>>

AnswerFetch ==
  /\ \/ page.state = "due" /\ page' \in Outcomes(page) /\ UNCHANGED more
     \/ more.state = "due" /\ more' \in Outcomes(more) /\ UNCHANGED page
  /\ UNCHANGED <<server, view, call, acts, secured>>

\* Mutant: a snapshot replaces what is shown, whatever their versions are.
LastTicket(current, incoming) == incoming

NewerTicket(current, incoming) == IF current > incoming THEN current ELSE incoming

\* mergeTicketSnapshots; the version 0 stands for a ticket that is not there.
Merged(current, incoming) ==
  [t \in Tickets |-> IF incoming[t] = 0 THEN current[t] ELSE NewerTicket(current[t], incoming[t])]
Held(tickets) == {t \in Tickets : tickets[t] > 0}

\* Mutant: an answer is taken whatever happened since it was asked for.
AnyEpoch(fetch) == TRUE

\* Nothing was set since that asks for another queue.
Current(fetch) == fetch.epoch = view.epoch

ShowPage ==
  /\ page.state \in {"page", "lost"} /\ page' = NoFetch
  /\ view' = IF ~Current(page) THEN view
             ELSE IF page.state = "page"
             THEN [view EXCEPT !.loading = FALSE, !.tickets = Merged(@, page.tickets),
                               !.queue = Held(page.tickets), !.of = {page.filter}, !.cursor = page.next]
             ELSE [view EXCEPT !.loading = FALSE, !.failed = TRUE,
                               !.tickets = IF secured THEN [t \in Tickets |-> 0] ELSE @]
  /\ UNCHANGED <<server, more, call, acts, secured>>

ShowMore ==
  /\ more.state \in {"page", "lost"} /\ more' = NoFetch
  /\ view' = IF ~Current(more) THEN view
             ELSE IF more.state = "page"
             THEN [view EXCEPT !.loading = FALSE, !.failed = FALSE, !.tickets = Merged(@, more.tickets),
                               !.queue = @ \cup Held(more.tickets), !.of = @ \cup {more.filter},
                               !.cursor = more.next]
             ELSE [view EXCEPT !.loading = FALSE, !.failed = TRUE]
  /\ UNCHANGED <<server, page, call, acts, secured>>

\* setQueueQuery and invalidateQueue drop the answers under way; the second one asks
\* for a fetch, the first one only with a query that is another object.
Requeried(state, query) ==
  [state EXCEPT !.epoch = @ + 1, !.cursor = None, !.query = query]

\* Mutant: the answers under way are dropped, and no fetch is asked for.
DropOnly(state) == [state EXCEPT !.epoch = @ + 1, !.cursor = None]

Invalidated(state) == [state EXCEPT !.epoch = @ + 1, !.cursor = None, !.refresh = @ + 1]

\* The filters of the queue, with a query of their own each time.
Filter ==
  /\ acts < MaxActs /\ acts' = acts + 1
  /\ \E filter \in {"pending", "all"} :
       Rendered(Requeried(view, [filter |-> filter, object |-> acts + 1]))
  /\ UNCHANGED <<server, more, call, secured>>

\* A view that could not be loaded is tried again (App.tsx); when the query is the one
\* that is set, no effect follows.
RetryView ==
  /\ acts < MaxActs /\ acts' = acts + 1
  /\ Rendered([Requeried(view, pendingTicketQuery) EXCEPT !.lost = view.loading])
  /\ UNCHANGED <<server, more, call, secured>>

\* The refresh button, which is idle while the queue loads, or the retry of an error.
Refresh ==
  /\ acts < MaxActs /\ acts' = acts + 1
  /\ view.failed \/ ~view.loading
  /\ Rendered([view EXCEPT !.refresh = @ + 1])
  /\ UNCHANGED <<server, more, call, secured>>

----------------------------------------------------------------------------
(* Requests about one ticket: "update" stands for edits and the assignee. *)

Kinds == {"update", "analyze", "review", "create", "search"}

\* One of a kind and ticket at a time.  An update names the version that is shown.
Submit(s, kind, t) ==
  /\ acts < MaxActs /\ acts' = acts + 1
  /\ call[s] = NoCall
  /\ ~ \E other \in Slot : call[other].kind = kind /\ call[other].ticket = t
  /\ CASE kind = "create" -> server[t].version = 0
       [] kind = "search" -> server[t].version > 0
       [] OTHER -> view.tickets[t] > 0
  /\ call' = [call EXCEPT ![s] = [kind |-> kind, ticket |-> t, state |-> "due",
                                  version |-> view.tickets[t]]]
  /\ UNCHANGED <<server, view, page, more, secured>>

Answer(s, state, version) == call' = [call EXCEPT ![s].state = state, ![s].version = version]

\* The commands of the business service: an update of the version it names, an analysis
\* unless the ticket changes meanwhile, a review unless it is stale, a new ticket.
Serve(s) ==
  LET t == call[s].ticket  kind == call[s].kind IN
  /\ call[s] # NoCall /\ call[s].state = "due"
  /\ \/ kind = "update" /\ call[s].version = server[t].version
        /\ Changed(t) /\ Answer(s, "ok", server[t].version + 1)
     \/ kind = "update" /\ call[s].version # server[t].version
        /\ Answer(s, "conflict", 0) /\ UNCHANGED server
     \/ kind = "analyze" /\ Changed(t) /\ Answer(s, "ok", server[t].version + 1)
     \/ kind \in {"analyze", "review"} /\ Answer(s, "conflict", 0) /\ UNCHANGED server
     \/ kind \in {"review", "search", "get"} /\ Answer(s, "ok", server[t].version) /\ UNCHANGED server
     \/ kind = "create" /\ server[t].version = 0 /\ Answer(s, "ok", 1)
        /\ server' = [server EXCEPT ![t].version = 1]
  /\ UNCHANGED <<view, page, more, acts, secured>>

\* A request is lost before or after it took effect.
Lose(s) ==
  /\ call[s] # NoCall /\ call[s].state # "lost"
  /\ Answer(s, "lost", 0)
  /\ UNCHANGED <<server, view, page, more, acts, secured>>

Ends(s) == call' = [call EXCEPT ![s] = NoCall]
Reads(s) == call' = [call EXCEPT ![s] = [@ EXCEPT !.kind = "get", !.state = "due"]]

\* What is shown of a ticket that is held, by setTickets over map.
WithTicket(state, t, version) ==
  [state EXCEPT !.tickets[t] = IF @ = 0 THEN 0 ELSE NewerTicket(@, version)]

\* A new ticket goes in front of the others, a held one with the same id included, which
\* then is not shown and is left out here.
Created(state, t) ==
  Invalidated(Requeried([state EXCEPT !.tickets[t] = 1,
                                      !.queue = {t} \cup (IF @ = None THEN {} ELSE @)],
                        pendingTicketQuery))

\* runAnalysis, updateAssignee, updateSelectedTicket, recordReview, reconcileTicket,
\* createTicket and openTicket, behind the answer each of them awaits.
Receive(s) ==
  LET t == call[s].ticket  kind == call[s].kind  version == call[s].version IN
  /\ call[s] # NoCall /\ call[s].state # "due"
  /\ CASE call[s].state = "lost" -> UNCHANGED <<view, page>> /\ Ends(s)
       [] call[s].state = "conflict" -> UNCHANGED <<view, page>> /\ Reads(s)
       [] kind = "update" -> Rendered(Invalidated(WithTicket(view, t, version))) /\ Ends(s)
       [] kind = "analyze" -> Rendered(Invalidated(view)) /\ Reads(s)
       [] kind = "get" -> Rendered(WithTicket(view, t, version)) /\ Ends(s)
       [] kind = "review" -> Rendered(Invalidated(view)) /\ Ends(s)
       [] kind = "search" -> Rendered([view EXCEPT !.tickets[t] = NewerTicket(@, version)]) /\ Ends(s)
       [] kind = "create" -> Rendered(Created(view, t)) /\ Ends(s)
  /\ UNCHANGED <<server, more, acts, secured>>

----------------------------------------------------------------------------
ViewNext ==
  \/ \E t \in Tickets : SomebodyElse(t)
  \/ LoadMore \/ AnswerFetch \/ ShowPage \/ ShowMore
  \/ Filter \/ RetryView \/ Refresh
  \/ \E s \in Slot :
       \/ \E t \in Tickets, kind \in Kinds : Submit(s, kind, t)
       \/ Serve(s) \/ Lose(s) \/ Receive(s)

ViewSpec == ViewInit /\ [][ViewNext]_viewVars

----------------------------------------------------------------------------
(* Properties. *)

(* Only the late answer to the creation of a ticket is taken as it comes                 *)
(* (createTicket, useTicketWorkflow.ts:232-241): no other answer makes it older.         *)
OlderOnlyByCreation ==
  [][ \A t \in Tickets :
        \/ view'.tickets[t] = 0
        \/ view'.tickets[t] >= view.tickets[t]
        \/ \E s \in Slot : call[s] # call'[s] /\ call[s].kind = "create" /\ call[s].ticket = t ]_viewVars

(* Once the queue stands still, all its pages answer the query that is set: no late     *)
(* answer to an earlier filter or cursor is added to it or replaces it                   *)
(* (useTicketWorkflow.ts:44-85 and :197-212).                                            *)
QueueAnswersTheQuery ==
  view.loading \/ view.failed \/ view.of = {view.query.filter}

(* A queue that loads waits for an answer it will take; the exception is the retry of a  *)
(* view that sets the query it already has while the queue loads, until the next fetch   *)
(* (App.tsx:79, useTicketWorkflow.ts:26-31).                                             *)
LoadingIsAnswered ==
  view.loading => \/ page # NoFetch /\ page.epoch = view.epoch
                  \/ more # NoFetch /\ more.epoch = view.epoch
                  \/ view.lost
===============================================================================
