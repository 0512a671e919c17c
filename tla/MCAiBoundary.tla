----------------------------- MODULE MCAiBoundary -----------------------------
(* Scenes for AiBoundary: one analysis with every content, one refused, one  *)
(* against the clock, and three at once against the breaker and the bulkhead.*)
EXTENDS AiBoundary, FiniteSetsExt

CONSTANTS r1, r2, r3

Ticket(category, words) ==
  [category |-> category, words |-> words, tier |-> "ENTERPRISE", priority |-> "LOW"]

Hit(chunk, fresh) == [chunk |-> chunk, fresh |-> fresh]

Draft(sufficient, category, cites) ==
  [sufficient |-> sufficient, category |-> category, priority |-> "LOW",
   text |-> {"model"}, cites |-> cites]

LiveSettings == [mode |-> "live", key |-> TRUE, chat |-> TRUE, embedding |-> TRUE,
                 retries |-> 0]
NoKey == [LiveSettings EXCEPT !.mode = "auto", !.key = FALSE]

\* The defaults 20 s, 90 s and 105 s in ticks of 5 s, the first two cut to 1 and 5.
Budget == [provider |-> 1, processing |-> 5, retries |-> 0, java |-> 8,
           client |-> 12]

Plain == [callers |-> {r1}, timed |-> FALSE, settings |-> LiveSettings,
          budget |-> Budget, release |-> "active", token |-> TRUE, body |-> TRUE,
          ticket |-> Ticket("UNCLASSIFIED", {"refund"}),
          hits |-> {<<Hit("payment-04", TRUE)>>},
          drafts |-> {Draft(TRUE, "BILLING", <<1>>)}, faults |-> {}]

HitLists ==
  {<<>>, <<Hit("other", TRUE)>>, <<Hit("privacy-05", FALSE), Hit("other", TRUE)>>} \cup
  {<<Hit("other", TRUE), Hit("billing-07", f), Hit("payment-04", g)>> : f, g \in BOOLEAN}
    \cup {<<Hit("sync-2047", TRUE), Hit("refund-02", f)>> : f \in BOOLEAN}

DraftSet ==
  {Draft(TRUE, c, s) : c \in {"BILLING", "PRIVACY", "TECHNICAL", "GENERAL", "UNKNOWN"},
     s \in {<<>>, <<1>>, <<2, 1>>, <<1, 1>>, <<3>>}} \cup
  {Draft(FALSE, c, s) : c \in {"BILLING", "GENERAL"}, s \in {<<>>, <<1>>}}

Tickets ==
  {Ticket("UNCLASSIFIED", w) : w \in {{}, {"duplicate charge"}, {"refund", "sso"},
     {"deletion"}, {"sync-"}}} \cup {Ticket("LEGAL", {})}

Contents ==
  {[Plain EXCEPT !.ticket = t, !.settings = s, !.hits = HitLists, !.drafts = DraftSet,
      !.faults = {"embedding", "generation", "reload"}] :
     t \in Tickets, s \in {LiveSettings, NoKey}}

Refusals ==
  {[Plain EXCEPT !.token = FALSE, !.faults = {"connection"}],
   [Plain EXCEPT !.body = FALSE, !.faults = {"throttle", "garble"}],
   [Plain EXCEPT !.faults = {"artifact", "overload", "connection", "reload"}]}

Timed ==
  {[Plain EXCEPT !.timed = TRUE, !.budget.java = j, !.budget.processing = p,
      !.faults = {"loss", "connection", "generation"}] : j \in 6 .. 9, p \in 4 .. 5}

Load ==
  {[Plain EXCEPT !.callers = {r1, r2, r3}, !.settings = NoKey,
      !.faults = {"overload", "throttle"}],
   [Plain EXCEPT !.callers = {r1, r2}, !.settings = NoKey,
      !.faults = {"overload", "connection", "interrupt"}]}

MCScenes == Contents \cup Refusals \cup Timed \cup Load
===============================================================================
