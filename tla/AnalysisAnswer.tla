---------------------------- MODULE AnalysisAnswer ----------------------------
(***************************************************************************)
(* How the AI service turns a ticket, the retrieved hits and a draft into  *)
(* an answer: the local rules (app/local_analysis.py), the reply policies  *)
(* that are bound to a source (app/grounded_reply_policy.py with           *)
(* data/response_policies.json), the wording for missing evidence          *)
(* (app/response_language.py) and the checks on a model's draft            *)
(* (app/models.py, app/openai_provider.py).                                *)
(*                                                                         *)
(* A ticket's text is the set of the words that the rules look for; a      *)
(* reply is the set of the paragraphs it is made of; citations are a       *)
(* function to positions among the hits; a hit is the chunk it shows and   *)
(* whether its text is still the one the policies were written for.        *)
(* Intents, sentiments, confidences and wording are left out.              *)
(***************************************************************************)
EXTENDS Naturals, Sequences, Functions

HighRisk == {"BILLING", "PRIVACY", "SECURITY", "LEGAL"}

\* MODEL_CATEGORY_CODES
ModelCategories == HighRisk \cup {"GENERAL", "ACCOUNT_ACCESS", "INVOICE",
  "DATA_EXPORT", "SUBSCRIPTION", "TECHNICAL", "DATA_RECOVERY"}

Rule(category, words) == [category |-> category, words |-> words]

\* The keyword rules, in the order they are tried.
Rules == <<
  Rule("BILLING", {"duplicate charge", "refund"}),
  Rule("ACCOUNT_ACCESS", {"sso"}),
  Rule("INVOICE", {"invoice"}),
  Rule("PRIVACY", {"deletion"}),
  Rule("DATA_EXPORT", {"export"}),
  Rule("SUBSCRIPTION", {"seats"}),
  Rule("TECHNICAL", {"sync-", "client"}),
  Rule("DATA_RECOVERY", {"restore"}) >>

Policy(name, category, chunk, topics) ==
  [name |-> name, category |-> category, chunk |-> chunk, topics |-> topics]

\* The catalogue: a policy without topics holds for every ticket of its category.
Catalog == <<
  Policy("billing-verification", "BILLING", "billing-07", {"duplicate charge"}),
  Policy("billing-information", "BILLING", "payment-04", {}),
  Policy("refund-approval", "BILLING", "refund-02", {}),
  Policy("privacy-authorization", "PRIVACY", "privacy-05", {}),
  Policy("sync-environment", "TECHNICAL", "sync-2047", {"sync-"}) >>

PolicyNames == {Catalog[i].name : i \in DOMAIN Catalog}

Chunks(hits) == {hits[i].chunk : i \in DOMAIN hits}

----------------------------------------------------------------------------
(* The local rules. *)

\* The first rule that finds one of its words decides; otherwise the category
\* the ticket has already, if it has one.
Classify(ticket) ==
  LET found == SelectSeq(Rules, LAMBDA rule : rule.words \cap ticket.words # {})
  IN  IF found # <<>> THEN Head(found).category
      ELSE IF ticket.category # "UNCLASSIFIED" THEN ticket.category ELSE "GENERAL"

LocalPriority(category, ticket) ==
  IF category = "ACCOUNT_ACCESS" /\ ticket.tier = "ENTERPRISE" THEN "URGENT"
  ELSE IF category \in HighRisk \cup {"DATA_EXPORT", "DATA_RECOVERY"} THEN "HIGH"
  ELSE ticket.priority

\* A local draft cites every hit.
LocalDraft(ticket, hits) ==
  [sufficient |-> hits # <<>>,
   category   |-> Classify(ticket),
   priority   |-> LocalPriority(Classify(ticket), ticket),
   text       |-> {"local"},
   cites      |-> [i \in DOMAIN hits |-> i]]

\* decision(): who has to look at the answer.
Escalates(category, missing, forced) == forced \/ missing \/ category \in HighRisk

\* _citation_hits(): the indexes are 1-based positions among the hits, each once,
\* and there is at least one when there are hits.
CitationsHold(cites, hits) ==
  IF hits = <<>>
  THEN cites = <<>>
  ELSE /\ cites # <<>>
       /\ IsInjective(cites)
       /\ \A i \in DOMAIN cites : cites[i] \in DOMAIN hits

----------------------------------------------------------------------------
(* Constraining a draft to what its sources say. *)

\* insufficient_draft()
Insufficient(draft) ==
  [draft EXCEPT !.sufficient = FALSE, !.text = {"insufficient"}, !.cites = <<>>]

Applies(policy, ticket, draft) ==
  /\ policy.category = draft.category
  /\ policy.topics = {} \/ policy.topics \cap ticket.words # {}

\* The policies that apply and whose chunk was retrieved, by their places in the
\* catalogue.
Bound(ticket, draft, hits) ==
  {p \in DOMAIN Catalog :
     Applies(Catalog[p], ticket, draft) /\ Catalog[p].chunk \in Chunks(hits)}

\* What the bound policies say, and the hits they say it of.
Paragraphs(bound) == {Catalog[p].name : p \in bound}

Position(chunk, hits) == CHOOSE i \in DOMAIN hits : hits[i].chunk = chunk

Sources(bound, hits) == [p \in bound |-> Position(Catalog[p].chunk, hits)]

Raised(category, priority) ==
  IF category \in {"BILLING", "PRIVACY"} /\ priority \in {"LOW", "MEDIUM"}
  THEN "HIGH" ELSE priority

\* apply() returns the draft itself: nothing constrains it.
Unconstrained(ticket, draft, hits) ==
  draft.sufficient /\ Bound(ticket, draft, hits) = {}

\* Mutant: a policy speaks for the first hit of the search, whatever its chunk.
ConstrainUnretrieved(ticket, draft, hits) ==
  LET applying == {p \in DOMAIN Catalog : Applies(Catalog[p], ticket, draft)}
  IN  IF ~draft.sufficient \/ ~hits[1].fresh
      THEN Insufficient(draft)
      ELSE IF applying = {} THEN draft
      ELSE [draft EXCEPT !.text = Paragraphs(applying), !.cites = <<1>>,
                         !.priority = Raised(draft.category, @)]

\* apply(): the text of the bound policies replaces the draft's, unless one of
\* their sources has changed.
Constrain(ticket, draft, hits) ==
  LET bound == Bound(ticket, draft, hits)
      cites == Sources(bound, hits)
  IN  IF ~draft.sufficient \/ \E p \in bound : ~hits[cites[p]].fresh
      THEN Insufficient(draft)
      ELSE IF bound = {} THEN draft
      ELSE [draft EXCEPT !.text = Paragraphs(bound),
                         !.cites = cites,
                         !.priority = Raised(draft.category, @)]

----------------------------------------------------------------------------
(* What a chat model may return. *)

\* The structured draft passes the schema: a known category, and no citation in
\* a draft that says the evidence does not suffice.
Parses(draft) ==
  /\ draft.category \in ModelCategories
  /\ draft.sufficient \/ draft.cites = <<>>

----------------------------------------------------------------------------
(* The answer. *)

\* The hits of an answer that lacks evidence are shown, but none as evidence.
Answer(mode, reason, draft, hits, missing, forced) ==
  [status    |-> IF reason = "none" THEN "SUCCEEDED" ELSE "FALLBACK",
   mode      |-> mode,
   reason    |-> reason,
   category  |-> draft.category,
   priority  |-> draft.priority,
   text      |-> draft.text,
   cites     |-> draft.cites,
   shown     |-> hits,
   evidence  |-> ~missing,
   escalated |-> Escalates(draft.category, missing, forced)]
===============================================================================
