--------------------------- MODULE AiBoundaryProofs ---------------------------
(***************************************************************************)
(* Proofs about AiBoundary, for any number of callers, any two deadlines   *)
(* that validate_timeout_budget() admits, any hits and any drafts of the   *)
(* model: what an answer cites and whom it speaks for, what the client     *)
(* makes of the replies it hears, and which deadline speaks first.         *)
(***************************************************************************)
EXTENDS AiBoundary, TLAPS

----------------------------------------------------------------------------
(* The catalogue. *)

\* Policies have names and chunks of their own, and no policy is called as the
\* paragraphs that speak for none.
LEMMA CatalogIsSound ==
  /\ DOMAIN Catalog = 1 .. 5
  /\ \A p, q \in DOMAIN Catalog :
       /\ Catalog[p].name = Catalog[q].name => p = q
       /\ Catalog[p].chunk = Catalog[q].chunk => p = q
  /\ \A p \in DOMAIN Catalog : Catalog[p].name \notin {"local", "model", "insufficient"}
<1>1. DOMAIN Catalog = 1 .. 5
  BY DEF Catalog
<1>2. /\ Catalog[1].name = "billing-verification" /\ Catalog[1].chunk = "billing-07"
      /\ Catalog[2].name = "billing-information" /\ Catalog[2].chunk = "payment-04"
      /\ Catalog[3].name = "refund-approval" /\ Catalog[3].chunk = "refund-02"
      /\ Catalog[4].name = "privacy-authorization" /\ Catalog[4].chunk = "privacy-05"
      /\ Catalog[5].name = "sync-environment" /\ Catalog[5].chunk = "sync-2047"
  BY DEF Catalog, Policy
<1>3. \A p \in DOMAIN Catalog : p \in {1, 2, 3, 4, 5}
  BY <1>1
<1> QED
  BY <1>1, <1>2, <1>3, SMTT(30)
----------------------------------------------------------------------------
(* Answers. *)

HitRecord == [chunk : STRING, fresh : BOOLEAN]

\* What a search returns.
IsResult(hits) ==
  /\ hits \in Seq(HitRecord)
  /\ \A i, j \in DOMAIN hits : hits[i].chunk = hits[j].chunk => i = j

IsDraft(d) ==
  /\ DOMAIN d = {"sufficient", "category", "priority", "text", "cites"}
  /\ d.sufficient \in BOOLEAN

\* CitesOnlyEvidence of one answer.
CitesSoundly(answer) ==
  /\ CitationsHold(answer.cites, IF answer.evidence THEN answer.shown ELSE <<>>)
  /\ answer.status = "SUCCEEDED" => answer.cites # <<>>

\* A text speaks for a policy only if it applies and its unchanged chunk is cited.
SpeaksFor(ticket, draft, text, cites, hits) ==
  \A p \in DOMAIN Catalog : Catalog[p].name \in text =>
    /\ Applies(Catalog[p], ticket, draft)
    /\ \E i \in Range(cites) : i \in DOMAIN hits
         /\ hits[i] = [chunk |-> Catalog[p].chunk, fresh |-> TRUE]

\* OnlySourcesPromise of one answer to a ticket.
PromisesSoundly(ticket, answer) ==
  /\ SpeaksFor(ticket, answer, answer.text, answer.cites, answer.shown)
  /\ Bound(ticket, answer, answer.shown) # {} => answer.text \cap {"local", "model"} = {}
  /\ answer.status = "FALLBACK" => answer.text \cap {"local", "model"} = {}

\* Bound looks only at the category of what it is given.
LEMMA BoundOfCategory ==
  ASSUME NEW ticket, NEW a, NEW b, NEW hits, a.category = b.category
  PROVE  Bound(ticket, a, hits) = Bound(ticket, b, hits)
BY Zenon DEF Bound, Applies

\* A text that speaks for no policy says nothing that a policy would have to.
LEMMA FreeText ==
  ASSUME NEW ticket, NEW draft, NEW cites, NEW hits,
         NEW text \in SUBSET {"local", "model", "insufficient"}
  PROVE  SpeaksFor(ticket, draft, text, cites, hits)
<1>1. \A j \in DOMAIN Catalog : Catalog[j].name \notin text
  BY CatalogIsSound, Zenon
<1> QED
  BY <1>1, Zenon DEF SpeaksFor

LEMMA EmptySequence == DOMAIN <<>> = {}
OBVIOUS

LEMMA InsufficientDraft ==
  ASSUME NEW draft, IsDraft(draft)
  PROVE  /\ IsDraft(Insufficient(draft))
         /\ Insufficient(draft).sufficient = FALSE
         /\ Insufficient(draft).text = {"insufficient"}
         /\ Insufficient(draft).cites = <<>>
         /\ Insufficient(draft).category = draft.category
<1>1. DOMAIN Insufficient(draft) = DOMAIN draft
  BY Zenon DEF Insufficient
<1>2. Insufficient(draft).sufficient = FALSE
  BY SMT DEF IsDraft, Insufficient
<1>3. /\ Insufficient(draft).text = {"insufficient"} /\ Insufficient(draft).cites = <<>>
      /\ Insufficient(draft).category = draft.category
  BY SMT DEF IsDraft, Insufficient
<1> QED
  BY <1>1, <1>2, <1>3, Zenon DEF IsDraft

\* An answer without evidence cites nothing and promises nothing.
LEMMA InsufficientAnswer ==
  ASSUME NEW ticket, NEW draft, IsDraft(draft), NEW hits, NEW mode, NEW reason,
         reason # "none", NEW forced
  PROVE  LET answer == Answer(mode, reason, Insufficient(draft), hits, TRUE, forced)
         IN  CitesSoundly(answer) /\ PromisesSoundly(ticket, answer)
<1> DEFINE answer == Answer(mode, reason, Insufficient(draft), hits, TRUE, forced)
<1>1. /\ answer.status = "FALLBACK" /\ answer.text = {"insufficient"}
      /\ answer.cites = <<>> /\ ~answer.evidence /\ answer.shown = hits
  <2>1. /\ answer.status = IF reason = "none" THEN "SUCCEEDED" ELSE "FALLBACK"
        /\ answer.text = Insufficient(draft).text /\ answer.cites = Insufficient(draft).cites
        /\ answer.shown = hits /\ answer.evidence = ~TRUE
    BY Zenon DEF Answer
  <2> QED
    BY <2>1, InsufficientDraft, Zenon
<1> HIDE DEF answer
<1>3. CitesSoundly(answer)
  BY <1>1, SMT DEF CitesSoundly, CitationsHold
<1>4. SpeaksFor(ticket, answer, answer.text, answer.cites, answer.shown)
  BY <1>1, FreeText
<1>5. PromisesSoundly(ticket, answer)
  BY <1>1, <1>4, SMT DEF PromisesSoundly
<1> QED
  BY <1>3, <1>5 DEF answer

\* The positions of bound policies: each of another hit, whose chunk it names.
LEMMA SourcesAreHits ==
  ASSUME NEW ticket, NEW draft, NEW hits, IsResult(hits)
  PROVE  LET bound == Bound(ticket, draft, hits)
             cites == Sources(bound, hits)
         IN  /\ DOMAIN cites = bound
             /\ \A p \in bound : /\ cites[p] \in DOMAIN hits
                                 /\ hits[cites[p]].chunk = Catalog[p].chunk
             /\ IsInjective(cites)
             /\ bound # {} => hits # <<>> /\ cites # <<>>
<1> DEFINE bound == Bound(ticket, draft, hits)
           cites == Sources(bound, hits)
<1>1. bound \subseteq DOMAIN Catalog /\ \A p \in bound : Catalog[p].chunk \in Chunks(hits)
  BY Zenon DEF Bound
<1> HIDE DEF bound
<1>2. DOMAIN cites = bound /\ \A p \in bound : cites[p] = Position(Catalog[p].chunk, hits)
  BY Zenon DEF Sources
<1> HIDE DEF cites
<1>3. ASSUME NEW p \in bound
      PROVE  cites[p] \in DOMAIN hits /\ hits[cites[p]].chunk = Catalog[p].chunk
  <2>1. PICK i \in DOMAIN hits : hits[i].chunk = Catalog[p].chunk
    BY <1>1, Zenon DEF Chunks
  <2>2. \E n \in DOMAIN hits : hits[n].chunk = Catalog[p].chunk
    BY <2>1
  <2> QED
    BY <2>2, <1>2, Zenon DEF Position
<1>4. IsInjective(cites)
  <2> SUFFICES ASSUME NEW p \in bound, NEW q \in bound, cites[p] = cites[q]
               PROVE  p = q
    BY <1>2, Zenon DEF IsInjective
  <2>1. Catalog[p].chunk = Catalog[q].chunk
    BY <1>3, Zenon
  <2> QED
    BY <2>1, <1>1, CatalogIsSound, Zenon
<1>5. ASSUME bound # {} PROVE hits # <<>> /\ cites # <<>>
  <2>1. PICK p \in bound : TRUE
    BY <1>5
  <2>2. DOMAIN hits # {} /\ DOMAIN cites # {}
    BY <2>1, <1>2, <1>3, Zenon
  <2> QED
    BY <2>2, EmptySequence, Zenon
<1> QED
  BY <1>2, <1>3, <1>4, <1>5 DEF bound, cites

\* apply(): it refuses, it leaves the draft alone, or it lets bound policies speak.
Constrained(draft, kept, bound, hits) ==
  \/ kept = Insufficient(draft)
  \/ bound = {} /\ kept = draft
  \/ /\ bound # {} /\ kept.sufficient = TRUE /\ kept.category = draft.category
     /\ kept.text = Paragraphs(bound) /\ kept.cites = Sources(bound, hits)
     /\ \A p \in bound : hits[Sources(bound, hits)[p]].fresh

LEMMA ConstrainCases ==
  ASSUME NEW ticket, NEW draft, IsDraft(draft), draft.sufficient = TRUE, NEW hits
  PROVE  Constrained(draft, Constrain(ticket, draft, hits), Bound(ticket, draft, hits), hits)
<1> DEFINE bound == Bound(ticket, draft, hits)
           kept == Constrain(ticket, draft, hits)
           cites == Sources(bound, hits)
<1>1. CASE \E p \in bound : ~hits[cites[p]].fresh
  BY <1>1, Zenon DEF Constrain, Constrained
<1>2. CASE (\A p \in bound : hits[cites[p]].fresh) /\ bound = {}
  BY <1>2, Zenon DEF Constrain, Constrained
<1>3. CASE (\A p \in bound : hits[cites[p]].fresh) /\ bound # {}
  <2>1. kept = [draft EXCEPT !.text = Paragraphs(bound), !.cites = cites,
                             !.priority = Raised(draft.category, @)]
    BY <1>3, Zenon DEF Constrain
  <2> HIDE DEF cites, kept, bound
  <2>2. /\ kept.text = Paragraphs(bound) /\ kept.cites = cites
        /\ kept.category = draft.category
    BY <2>1, SMT DEF IsDraft
  <2>3. kept.sufficient = draft.sufficient
    <3>1. /\ "sufficient" \in DOMAIN draft
          /\ "sufficient" # "text" /\ "sufficient" # "cites" /\ "sufficient" # "priority"
      BY DEF IsDraft
    <3> QED
      BY <2>1, <3>1, Zenon
  <2> QED
    BY <2>2, <2>3, <1>3, Zenon DEF cites, kept, bound, Constrained
<1> QED
  BY <1>1, <1>2, <1>3, Zenon

\* Bound policies apply, and each has its unchanged chunk among the sources.
LEMMA BoundSpeaksFor ==
  ASSUME NEW ticket, NEW draft, NEW hits, IsResult(hits),
         \A p \in Bound(ticket, draft, hits) :
           hits[Sources(Bound(ticket, draft, hits), hits)[p]].fresh
  PROVE  /\ SpeaksFor(ticket, draft, Paragraphs(Bound(ticket, draft, hits)),
                      Sources(Bound(ticket, draft, hits), hits), hits)
         /\ Paragraphs(Bound(ticket, draft, hits)) \cap {"local", "model"} = {}
<1> DEFINE bound == Bound(ticket, draft, hits)
           cites == Sources(bound, hits)
<1>1. bound \subseteq DOMAIN Catalog /\ \A p \in bound : Applies(Catalog[p], ticket, draft)
  BY Zenon DEF Bound
<1>2. /\ DOMAIN cites = bound
      /\ \A p \in bound : cites[p] \in DOMAIN hits /\ hits[cites[p]].chunk = Catalog[p].chunk
  BY SourcesAreHits
<1>3. \A p \in bound : hits[cites[p]].fresh
  OBVIOUS
<1> HIDE DEF cites, bound
<1>4. ASSUME NEW j \in DOMAIN Catalog, Catalog[j].name \in Paragraphs(bound)
      PROVE  /\ Applies(Catalog[j], ticket, draft)
             /\ \E i \in Range(cites) : i \in DOMAIN hits
                  /\ hits[i] = [chunk |-> Catalog[j].chunk, fresh |-> TRUE]
  <2>1. PICK p \in bound : Catalog[p].name = Catalog[j].name
    BY <1>4, Zenon DEF Paragraphs
  <2>2. p = j
    BY <2>1, <1>1, CatalogIsSound, Zenon
  <2> DEFINE i == cites[p]
  <2>3. i \in DOMAIN hits /\ hits[i].chunk = Catalog[p].chunk /\ hits[i].fresh
    BY <1>2, <1>3
  <2>4. i \in Range(cites)
    BY <1>2, Zenon DEF Range
  <2> HIDE DEF i
  <2>5. hits[i] \in HitRecord
    BY <2>3, SMT DEF IsResult
  <2>6. hits[i] = [chunk |-> Catalog[p].chunk, fresh |-> TRUE]
    BY <2>3, <2>5, SMT DEF HitRecord
  <2> QED
    BY <1>1, <2>2, <2>3, <2>4, <2>6, Zenon
<1>5. \A n \in Paragraphs(bound) : n \notin {"local", "model"}
  BY <1>1, CatalogIsSound, Zenon DEF Paragraphs
<1> QED
  BY <1>4, <1>5, Zenon DEF SpeaksFor, bound, cites

\* An answer in the words of its bound policies, all of whose sources are unchanged.
LEMMA ConstrainedAnswer ==
  ASSUME NEW ticket, NEW draft, NEW kept, NEW hits, IsResult(hits),
         NEW mode, NEW reason, NEW forced,
         Bound(ticket, draft, hits) # {},
         kept.category = draft.category,
         kept.text = Paragraphs(Bound(ticket, draft, hits)),
         kept.cites = Sources(Bound(ticket, draft, hits), hits),
         \A p \in Bound(ticket, draft, hits) :
           hits[Sources(Bound(ticket, draft, hits), hits)[p]].fresh
  PROVE  LET answer == Answer(mode, reason, kept, hits, FALSE, forced)
         IN  CitesSoundly(answer) /\ PromisesSoundly(ticket, answer)
<1> DEFINE bound == Bound(ticket, draft, hits)
           cites == Sources(bound, hits)
           answer == Answer(mode, reason, kept, hits, FALSE, forced)
<1>1. /\ answer.text = kept.text /\ answer.cites = kept.cites
      /\ answer.category = kept.category /\ answer.shown = hits /\ answer.evidence = ~FALSE
  BY Zenon DEF Answer
<1>2. /\ DOMAIN cites = bound
      /\ \A p \in bound : cites[p] \in DOMAIN hits
      /\ IsInjective(cites)
      /\ hits # <<>> /\ cites # <<>>
  BY SourcesAreHits
<1>3. SpeaksFor(ticket, draft, Paragraphs(bound), cites, hits)
  BY BoundSpeaksFor
<1>4. Paragraphs(bound) \cap {"local", "model"} = {}
  BY BoundSpeaksFor
<1>5. kept.text = Paragraphs(bound) /\ kept.cites = cites
  OBVIOUS
<1> HIDE DEF answer, bound, cites
<1>6. answer.evidence
  BY <1>1, Zenon
<1>7. CitationsHold(cites, hits)
  BY <1>2, Zenon DEF CitationsHold
<1>8. CitesSoundly(answer)
  BY <1>1, <1>2, <1>5, <1>6, <1>7, Zenon DEF CitesSoundly
<1>9. SpeaksFor(ticket, answer, answer.text, answer.cites, answer.shown)
  <2>1. answer.category = draft.category
    BY <1>1
  <2>2. answer.text = Paragraphs(bound) /\ answer.cites = cites /\ answer.shown = hits
    BY <1>1, <1>5, Zenon
  <2>3. ASSUME NEW policy PROVE Applies(policy, ticket, answer) <=> Applies(policy, ticket, draft)
    BY <2>1, Zenon DEF Applies
  <2>4. SpeaksFor(ticket, answer, Paragraphs(bound), cites, hits)
    BY <1>3, <2>3, Zenon DEF SpeaksFor
  <2> QED
    BY <2>2, <2>4, Zenon
<1>10. PromisesSoundly(ticket, answer)
  BY <1>1, <1>4, <1>5, <1>9, Zenon DEF PromisesSoundly
<1> QED
  BY <1>8, <1>10, Zenon DEF answer

LEMMA LocalDraftIs ==
  ASSUME NEW ticket, NEW hits, IsResult(hits)
  PROVE  LET local == LocalDraft(ticket, hits)
         IN  /\ IsDraft(local)
             /\ local.sufficient = (hits # <<>>)
             /\ CitationsHold(local.cites, hits)
<1> DEFINE local == LocalDraft(ticket, hits)
<1>1. /\ DOMAIN local = {"sufficient", "category", "priority", "text", "cites"}
      /\ local.sufficient = (hits # <<>>)
      /\ local.cites = [i \in DOMAIN hits |-> i]
  BY Zenon DEF LocalDraft
<1> HIDE DEF local
<1>2. IsDraft(local)
  BY <1>1, Zenon DEF IsDraft
<1>3. IsInjective(local.cites)
  BY <1>1, Zenon DEF IsInjective
<1>4. \A i \in DOMAIN local.cites : local.cites[i] \in DOMAIN hits
  BY <1>1, Zenon
<1>5. ASSUME hits # <<>> PROVE local.cites # <<>>
  <2>1. hits \in Seq(HitRecord)
    BY DEF IsResult
  <2>2. DOMAIN hits # {}
    BY <2>1, <1>5, SMT
  <2> QED
    BY <2>2, <1>1, EmptySequence, Zenon
<1>6. ASSUME hits = <<>> PROVE local.cites = <<>>
  <2>1. local.cites = [i \in {} |-> i]
    BY <1>1, <1>6, EmptySequence
  <2> QED
    BY <2>1, SMT
<1>7. CitationsHold(local.cites, hits)
  BY <1>3, <1>4, <1>5, <1>6, Zenon DEF CitationsHold
<1> QED
  BY <1>1, <1>2, <1>7 DEF local

\* What answers after a failed provider: the local draft, where policies bind it.
LEMMA FallbackAnswer ==
  ASSUME NEW ticket, NEW hits, IsResult(hits), NEW reason, reason # "none"
  PROVE  LET local == LocalDraft(ticket, hits)
             draft == IF Unconstrained(ticket, local, hits)
                      THEN Insufficient(local) ELSE Constrain(ticket, local, hits)
             answer == Answer("fallback", reason, draft, hits, ~draft.sufficient, TRUE)
         IN  CitesSoundly(answer) /\ PromisesSoundly(ticket, answer)
<1> DEFINE local == LocalDraft(ticket, hits)
           draft == IF Unconstrained(ticket, local, hits)
                    THEN Insufficient(local) ELSE Constrain(ticket, local, hits)
           answer == Answer("fallback", reason, draft, hits, ~draft.sufficient, TRUE)
           bound == Bound(ticket, local, hits)
<1>1. IsDraft(local)
  BY LocalDraftIs
<1> HIDE DEF local
<1>2. ASSUME draft = Insufficient(local)
      PROVE  CitesSoundly(answer) /\ PromisesSoundly(ticket, answer)
  <2>1. draft.sufficient = FALSE
    BY <1>1, <1>2, InsufficientDraft
  <2>2. (~draft.sufficient) = TRUE
    BY <2>1, Zenon
  <2>3. answer = Answer("fallback", reason, Insufficient(local), hits, TRUE, TRUE)
    BY <1>2, <2>2, Zenon
  <2>4. LET a == Answer("fallback", reason, Insufficient(local), hits, TRUE, TRUE)
        IN  CitesSoundly(a) /\ PromisesSoundly(ticket, a)
    BY <1>1, InsufficientAnswer
  <2> QED
    BY <2>3, <2>4, Zenon
<1>3. ASSUME draft # Insufficient(local)
      PROVE  CitesSoundly(answer) /\ PromisesSoundly(ticket, answer)
  <2>1. local.sufficient
    BY <1>3, Zenon DEF Constrain
  <2>2. bound # {} /\ draft = Constrain(ticket, local, hits)
    BY <1>3, <2>1, Zenon DEF Unconstrained
  <2>0. Constrained(local, draft, bound, hits)
    <3>1. local.sufficient = TRUE
      BY <1>1, <2>1, Zenon DEF IsDraft
    <3>2. Constrained(local, Constrain(ticket, local, hits), Bound(ticket, local, hits), hits)
      BY <1>1, <3>1, ConstrainCases
    <3> QED
      BY <2>2, <3>2, Zenon
  <2>3. /\ draft.sufficient = TRUE /\ draft.category = local.category
        /\ draft.text = Paragraphs(bound) /\ draft.cites = Sources(bound, hits)
        /\ \A p \in bound : hits[Sources(bound, hits)[p]].fresh
    BY <1>3, <2>0, <2>2, Zenon DEF Constrained
  <2>4. (~draft.sufficient) = FALSE
    BY <2>3, Zenon
  <2> HIDE DEF draft
  <2>5. answer = Answer("fallback", reason, draft, hits, FALSE, TRUE)
    BY <2>4, Zenon
  <2>6. LET a == Answer("fallback", reason, draft, hits, FALSE, TRUE)
        IN  CitesSoundly(a) /\ PromisesSoundly(ticket, a)
    BY <2>2, <2>3, ConstrainedAnswer
  <2> QED
    BY <2>5, <2>6, Zenon DEF draft
<1> QED
  BY <1>2, <1>3 DEF local

\* The answer of mock mode.
LEMMA MockIsCited ==
  ASSUME NEW hits, IsResult(hits)
  PROVE  CitesSoundly(MockAnswer(hits))
<1> DEFINE local == LocalDraft(scene.ticket, hits)
<1>1. CitationsHold(local.cites, hits)
  BY LocalDraftIs
<1> HIDE DEF local
<1>2. CASE hits = <<>>
  <2> DEFINE answer == Answer("fallback", "insufficient_evidence", local, hits, TRUE, FALSE)
  <2>1. MockAnswer(hits) = answer
    BY <1>2, Zenon DEF MockAnswer, local
  <2>2. /\ answer.cites = local.cites /\ answer.evidence = ~TRUE
        /\ answer.status = IF "insufficient_evidence" = "none" THEN "SUCCEEDED" ELSE "FALLBACK"
    BY Zenon DEF Answer
  <2>3. local.cites = <<>>
    BY <1>1, <1>2, Zenon DEF CitationsHold
  <2> HIDE DEF answer
  <2>4. answer.status # "SUCCEEDED" /\ ~answer.evidence
    BY <2>2, Zenon
  <2> QED
    BY <2>1, <2>2, <2>3, <2>4, Zenon DEF CitesSoundly, CitationsHold
<1>3. CASE hits # <<>>
  <2> DEFINE answer == Answer("mock", "none", local, hits, FALSE, FALSE)
  <2>1. MockAnswer(hits) = answer
    BY <1>3, Zenon DEF MockAnswer, local
  <2>2. answer.cites = local.cites /\ answer.evidence = ~FALSE /\ answer.shown = hits
    BY Zenon DEF Answer
  <2>3. local.cites # <<>>
    BY <1>1, <1>3, Zenon DEF CitationsHold
  <2> HIDE DEF answer
  <2> QED
    BY <1>1, <2>1, <2>2, <2>3, Zenon DEF CitesSoundly
<1> QED
  BY <1>2, <1>3

\* What a scene's model may return.
ModelDrafts == [sufficient : BOOLEAN, category : STRING, priority : STRING,
                text : {{"model"}}, cites : Seq(Nat)]

LEMMA ModelDraftIs ==
  ASSUME NEW draft \in ModelDrafts
  PROVE  IsDraft(draft) /\ draft.text = {"model"}
<1>1. DOMAIN draft = {"sufficient", "category", "priority", "text", "cites"}
  BY Zenon DEF ModelDrafts
<1>2. draft.sufficient \in BOOLEAN /\ draft.text \in {{"model"}}
  BY Zenon DEF ModelDrafts
<1> QED
  BY <1>1, <1>2, Zenon DEF IsDraft

\* The answer with a model's draft whose citations hold.
LEMMA ModelAnswerIsSound ==
  ASSUME NEW draft \in ModelDrafts, NEW hits, IsResult(hits), hits # <<>>,
         DraftHolds(draft, hits)
  PROVE  CitesSoundly(ModelAnswer(draft, hits))
         /\ PromisesSoundly(scene.ticket, ModelAnswer(draft, hits))
<1> DEFINE kept == IF draft.sufficient THEN Constrain(scene.ticket, draft, hits) ELSE draft
           bound == Bound(scene.ticket, draft, hits)
           refused == Answer("fallback", "insufficient_evidence", Insufficient(kept), hits,
                             TRUE, FALSE)
           answer == Answer("live", "none", kept, hits, FALSE, FALSE)
<1>1. IsDraft(draft) /\ draft.text = {"model"}
  BY ModelDraftIs
<1>2. ModelAnswer(draft, hits) = IF kept.sufficient THEN answer ELSE refused
  BY Zenon DEF ModelAnswer
<1>3. \/ IsDraft(kept) /\ ~kept.sufficient
      \/ draft.sufficient /\ bound = {} /\ kept = draft
      \/ /\ bound # {} /\ kept.sufficient = TRUE /\ kept.category = draft.category
         /\ kept.text = Paragraphs(bound) /\ kept.cites = Sources(bound, hits)
         /\ \A p \in bound : hits[Sources(bound, hits)[p]].fresh
  <2>1. CASE ~draft.sufficient
    BY <2>1, <1>1, Zenon
  <2>2. CASE draft.sufficient
    <3>1. kept = Constrain(scene.ticket, draft, hits)
      BY <2>2
    <3>2. Constrained(draft, kept, bound, hits)
      <4>1. draft.sufficient = TRUE
        BY <1>1, <2>2, Zenon DEF IsDraft
      <4>2. Constrained(draft, Constrain(scene.ticket, draft, hits),
                        Bound(scene.ticket, draft, hits), hits)
        BY <1>1, <4>1, ConstrainCases
      <4> QED
        BY <3>1, <4>2, Zenon
    <3>3. IsDraft(Insufficient(draft)) /\ Insufficient(draft).sufficient = FALSE
      BY <1>1, InsufficientDraft
    <3> HIDE DEF kept
    <3> QED
      BY <2>2, <3>2, <3>3, Zenon DEF Constrained
  <2> QED
    BY <2>1, <2>2
<1>4. CASE IsDraft(kept) /\ ~kept.sufficient
  <2>1. ModelAnswer(draft, hits) = refused
    BY <1>2, <1>4
  <2> HIDE DEF kept
  <2>2. CitesSoundly(refused) /\ PromisesSoundly(scene.ticket, refused)
    BY <1>4, InsufficientAnswer
  <2> QED
    BY <2>1, <2>2, Zenon
<1>5. CASE draft.sufficient /\ bound = {} /\ kept = draft
  <2> DEFINE free == Answer("live", "none", draft, hits, FALSE, FALSE)
  <2>1. ModelAnswer(draft, hits) = free
    BY <1>2, <1>5, Zenon
  <2>2. /\ free.cites = draft.cites /\ free.evidence = ~FALSE /\ free.shown = hits
        /\ free.text = draft.text /\ free.category = draft.category
        /\ free.status = IF "none" = "none" THEN "SUCCEEDED" ELSE "FALLBACK"
    BY Zenon DEF Answer
  <2>3. CitationsHold(draft.cites, hits) /\ draft.cites # <<>>
    BY <1>5, Zenon DEF DraftHolds, CitationsHold
  <2>4. Bound(scene.ticket, free, hits) = {}
    <3>1. ASSUME NEW a, a.category = draft.category
          PROVE  Bound(scene.ticket, a, hits) = Bound(scene.ticket, draft, hits)
      BY <3>1, BoundOfCategory
    <3> QED
      BY <1>5, <2>2, <3>1
  <2>5. SpeaksFor(scene.ticket, free, free.text, free.cites, free.shown)
    BY <1>1, <2>2, FreeText
  <2> HIDE DEF free
  <2>6. free.evidence /\ free.status = "SUCCEEDED"
    BY <2>2, Zenon
  <2>7. CitesSoundly(free)
    BY <2>2, <2>3, <2>6, Zenon DEF CitesSoundly
  <2>8. PromisesSoundly(scene.ticket, free)
    BY <2>2, <2>4, <2>5, <2>6, Zenon DEF PromisesSoundly
  <2> QED
    BY <2>1, <2>7, <2>8
<1>6. CASE /\ bound # {} /\ kept.sufficient = TRUE /\ kept.category = draft.category
           /\ kept.text = Paragraphs(bound) /\ kept.cites = Sources(bound, hits)
           /\ \A p \in bound : hits[Sources(bound, hits)[p]].fresh
  <2>1. ModelAnswer(draft, hits) = answer
    BY <1>2, <1>6, Zenon
  <2> HIDE DEF kept
  <2>2. CitesSoundly(answer) /\ PromisesSoundly(scene.ticket, answer)
    BY <1>6, ConstrainedAnswer
  <2> QED
    BY <2>1, <2>2, Zenon
<1> QED
  BY <1>3, <1>4, <1>5, <1>6

----------------------------------------------------------------------------
(* The shape of calls and runs. *)

Workers == {"none", "entering", "calling", "backoff", "ended"}
Places == {"none", "sent", "retrieving", "generating", "replied", "heard", "lost"}

CallFields == {"worker", "clock", "attempts", "cut", "result"}
RunFields == {"at", "age", "wait", "hits", "reply"}

IsCall(c) ==
  /\ DOMAIN c = CallFields
  /\ c.worker \in Workers /\ c.clock \in Nat /\ c.attempts \in 0 .. MaxAttempts
  /\ c.cut \in BOOLEAN

IsRun(x) ==
  /\ DOMAIN x = RunFields
  /\ x.at \in Places /\ x.age \in Nat /\ x.wait \in Nat

AiTypeOK ==
  /\ scene \in Scenes /\ SafeBudget(scene.budget)
  /\ DOMAIN call = Caller /\ \A r \in Caller : IsCall(call[r])
  /\ DOMAIN run = Runs /\ \A k \in Runs : IsRun(run[k])

\* Only the call of r changes, to these values.
CallBecomes(r, worker, clock, attempts, cut, result) ==
  /\ DOMAIN call' = Caller /\ \A q \in Caller \ {r} : call'[q] = call[q]
  /\ DOMAIN call'[r] = CallFields
  /\ call'[r].worker = worker /\ call'[r].clock = clock
  /\ call'[r].attempts = attempts /\ call'[r].cut = cut /\ call'[r].result = result

\* Only run k changes, to these values.
RunBecomes(k, at, age, wait, hits, reply) ==
  /\ DOMAIN run' = Runs /\ \A j \in Runs \ {k} : run'[j] = run[j]
  /\ DOMAIN run'[k] = RunFields
  /\ run'[k].at = at /\ run'[k].age = age /\ run'[k].wait = wait
  /\ run'[k].hits = hits /\ run'[k].reply = reply

LEMMA NoRunIs ==
  /\ IsRun(NoRun) /\ NoRun.at = "none" /\ NoRun.age = 0 /\ NoRun.wait = 0
  /\ NoRun.hits = <<>> /\ NoRun.reply = Reply(0) /\ NoRun.reply.code = 0
BY DEF NoRun, IsRun, RunFields, Places, Reply

LEMMA RunMoves ==
  ASSUME AiTypeOK, NEW k \in Runs, NEW at, run' = [run EXCEPT ![k].at = at]
  PROVE  RunBecomes(k, at, run[k].age, run[k].wait, run[k].hits, run[k].reply)
<1>1. DOMAIN run = Runs /\ DOMAIN run[k] = RunFields
  BY Zenon DEF AiTypeOK, IsRun
<1>2. run'[k] = [run[k] EXCEPT !.at = at]
  BY <1>1, Zenon
<1>3. DOMAIN run' = Runs /\ \A j \in Runs \ {k} : run'[j] = run[j]
  BY <1>1, Zenon
<1>4. DOMAIN run'[k] = RunFields
  BY <1>1, <1>2, Zenon
<1>5. /\ run'[k].at = at /\ run'[k].age = run[k].age /\ run'[k].wait = run[k].wait
      /\ run'[k].hits = run[k].hits /\ run'[k].reply = run[k].reply
  BY <1>1, <1>2, SMT DEF RunFields
<1> QED
  BY <1>3, <1>4, <1>5, Zenon DEF RunBecomes

LEMMA RunResets ==
  ASSUME AiTypeOK, NEW k \in Runs, NEW at, run' = [run EXCEPT ![k] = [NoRun EXCEPT !.at = at]]
  PROVE  RunBecomes(k, at, 0, 0, <<>>, Reply(0))
<1>1. DOMAIN run = Runs
  BY Zenon DEF AiTypeOK
<1>2. run'[k] = [NoRun EXCEPT !.at = at]
  BY <1>1, Zenon
<1>3. DOMAIN run' = Runs /\ \A j \in Runs \ {k} : run'[j] = run[j]
  BY <1>1, Zenon
<1>4. DOMAIN NoRun = RunFields
  BY NoRunIs, Zenon DEF IsRun
<1>5. DOMAIN run'[k] = RunFields
  BY <1>4, <1>2, Zenon
<1>6. /\ run'[k].at = at /\ run'[k].age = 0 /\ run'[k].wait = 0
      /\ run'[k].hits = <<>> /\ run'[k].reply = Reply(0)
  BY <1>2, <1>4, NoRunIs, SMT DEF RunFields
<1> QED
  BY <1>3, <1>5, <1>6, Zenon DEF RunBecomes

LEMMA RunReplies ==
  ASSUME AiTypeOK, NEW k \in Runs, NEW reply, Respond(k, reply)
  PROVE  RunBecomes(k, "replied", 0, 0, <<>>, reply)
<1>1. DOMAIN run = Runs
  BY Zenon DEF AiTypeOK
<1>2. run'[k] = [NoRun EXCEPT !.at = "replied", !.reply = reply]
  BY <1>1, Zenon DEF Respond
<1>3. DOMAIN run' = Runs /\ \A j \in Runs \ {k} : run'[j] = run[j]
  BY <1>1, Zenon DEF Respond
<1>4. DOMAIN NoRun = RunFields
  BY NoRunIs, Zenon DEF IsRun
<1>5. DOMAIN run'[k] = RunFields
  BY <1>4, <1>2, Zenon
<1>6. /\ run'[k].at = "replied" /\ run'[k].age = 0 /\ run'[k].wait = 0
      /\ run'[k].hits = <<>> /\ run'[k].reply = reply
  BY <1>2, <1>4, NoRunIs, SMT DEF RunFields
<1> QED
  BY <1>3, <1>5, <1>6, Zenon DEF RunBecomes

LEMMA CallWorker ==
  ASSUME AiTypeOK, NEW r \in Caller, NEW w, call' = [call EXCEPT ![r].worker = w]
  PROVE  CallBecomes(r, w, call[r].clock, call[r].attempts, call[r].cut, call[r].result)
<1>1. DOMAIN call = Caller /\ DOMAIN call[r] = CallFields
  BY Zenon DEF AiTypeOK, IsCall
<1>2. call'[r] = [call[r] EXCEPT !.worker = w]
  BY <1>1, Zenon
<1>3. DOMAIN call' = Caller /\ \A q \in Caller \ {r} : call'[q] = call[q]
  BY <1>1, Zenon
<1>4. DOMAIN call'[r] = CallFields
  BY <1>1, <1>2, Zenon
<1>5. /\ call'[r].worker = w /\ call'[r].clock = call[r].clock
      /\ call'[r].attempts = call[r].attempts /\ call'[r].result = call[r].result
      /\ call'[r].cut = call[r].cut
  BY <1>1, <1>2, SMT DEF CallFields
<1> QED
  BY <1>3, <1>4, <1>5, Zenon DEF CallBecomes

LEMMA CallEnds ==
  ASSUME AiTypeOK, NEW r \in Caller, NEW result, WorkerEnds(r, result)
  PROVE  CallBecomes(r, "ended", call[r].clock, call[r].attempts, call[r].cut,
                     IF call[r].result = Nothing THEN result ELSE call[r].result)
<1> DEFINE told == IF call[r].result = Nothing THEN result ELSE call[r].result
<1>1. DOMAIN call = Caller /\ DOMAIN call[r] = CallFields
  BY Zenon DEF AiTypeOK, IsCall
<1>2. call'[r] = [call[r] EXCEPT !.worker = "ended", !.result = told]
  BY <1>1, SMT DEF WorkerEnds, CallFields
<1> HIDE DEF told
<1>3. DOMAIN call' = Caller /\ \A q \in Caller \ {r} : call'[q] = call[q]
  BY <1>1, SMT DEF WorkerEnds
<1>4. DOMAIN call'[r] = CallFields
  BY <1>1, <1>2, Zenon
<1>5. /\ call'[r].worker = "ended" /\ call'[r].clock = call[r].clock
      /\ call'[r].attempts = call[r].attempts /\ call'[r].result = told
      /\ call'[r].cut = call[r].cut
  BY <1>1, <1>2, SMT DEF CallFields
<1> QED
  BY <1>3, <1>4, <1>5, Zenon DEF CallBecomes, told

LEMMA CallSends ==
  ASSUME AiTypeOK, NEW r \in Caller, NEW n \in 1 .. MaxAttempts, Send(r, n)
  PROVE  /\ CallBecomes(r, "calling", call[r].clock, n, call[r].cut, call[r].result)
         /\ RunBecomes(<<r, n>>, "sent", run[<<r, n>>].age, run[<<r, n>>].wait,
                       run[<<r, n>>].hits, run[<<r, n>>].reply)
<1> DEFINE k == <<r, n>>
<1>1. DOMAIN call = Caller /\ DOMAIN call[r] = CallFields
  BY Zenon DEF AiTypeOK, IsCall
<1>2. call'[r] = [call[r] EXCEPT !.worker = "calling", !.attempts = n]
  BY <1>1, SMT DEF Send, CallFields
<1>3. DOMAIN call' = Caller /\ \A q \in Caller \ {r} : call'[q] = call[q]
  BY <1>1, SMT DEF Send
<1>4. DOMAIN call'[r] = CallFields
  BY <1>1, <1>2, Zenon
<1>5. /\ call'[r].worker = "calling" /\ call'[r].clock = call[r].clock
      /\ call'[r].attempts = n /\ call'[r].result = call[r].result
      /\ call'[r].cut = call[r].cut
  BY <1>1, <1>2, SMT DEF CallFields
<1>6. k \in Runs
  BY Zenon DEF Runs
<1>7. run' = [run EXCEPT ![k].at = "sent"]
  BY Zenon DEF Send
<1> HIDE DEF k
<1>8. RunBecomes(k, "sent", run[k].age, run[k].wait, run[k].hits, run[k].reply)
  BY <1>6, <1>7, RunMoves
<1> QED
  BY <1>3, <1>4, <1>5, <1>8, Zenon DEF CallBecomes, k

LEMMA CallGivesUp ==
  ASSUME AiTypeOK, NEW r \in Caller, NEW reason, GivesUp(r, reason)
  PROVE  CallBecomes(r, call[r].worker, call[r].clock, call[r].attempts, TRUE,
                     Fallback(reason))
<1> DEFINE told == Fallback(reason)
<1>1. DOMAIN call = Caller /\ DOMAIN call[r] = CallFields
  BY Zenon DEF AiTypeOK, IsCall
<1>2. call'[r] = [call[r] EXCEPT !.result = told, !.cut = TRUE]
  BY <1>1, SMT DEF GivesUp, CallFields
<1> HIDE DEF told
<1>3. DOMAIN call' = Caller /\ \A q \in Caller \ {r} : call'[q] = call[q]
  BY <1>1, SMT DEF GivesUp
<1>4. DOMAIN call'[r] = CallFields
  BY <1>1, <1>2, Zenon
<1>5. /\ call'[r].worker = call[r].worker /\ call'[r].clock = call[r].clock
      /\ call'[r].attempts = call[r].attempts /\ call'[r].result = told
      /\ call'[r].cut = TRUE
  BY <1>1, <1>2, SMT DEF CallFields
<1> QED
  BY <1>3, <1>4, <1>5, Zenon DEF CallBecomes, told

----------------------------------------------------------------------------
(* The service: what it says is sound, and how its runs move. *)

SoundAnswer(answer) ==
  CitesSoundly(answer) /\ (Live => PromisesSoundly(scene.ticket, answer))

SoundReply(reply) == reply.code = 200 => SoundAnswer(reply.answer)

\* Whatever is said to Java, or told by it, is sound; the model sees hits of a search.
AllSound ==
  /\ \A k \in Runs :
       /\ SoundReply(run[k].reply)
       /\ run[k].at = "generating" => run[k].hits \in scene.hits /\ run[k].hits # <<>>
  /\ \A r \in Caller : Answered(r) => SoundAnswer(call[r].result.answer)

Replied(k) ==
  /\ RunBecomes(k, "replied", 0, 0, <<>>, run'[k].reply)
  /\ SoundReply(run'[k].reply)

\* How a run of the service moves on.
ServiceEffect(k) ==
  \/ /\ run[k].at = "sent"
     /\ RunBecomes(k, "retrieving", 0, 0, <<>>, Reply(0))
  \/ /\ run[k].at = "retrieving"
     /\ RunBecomes(k, "generating", run[k].age, 0, run'[k].hits, run[k].reply)
     /\ run'[k].hits \in scene.hits /\ run'[k].hits # <<>>
  \/ /\ run[k].at \in {"sent", "retrieving", "generating"}
     /\ Replied(k)
  \/ /\ run[k].at \in {"sent", "replied"}
     /\ RunBecomes(k, "lost", 0, 0, <<>>, Reply(0))

LEMMA SceneIs ==
  ASSUME AiTypeOK
  PROVE  /\ \A hits \in scene.hits : IsResult(hits)
         /\ scene.drafts \subseteq ModelDrafts
         /\ scene.budget.provider \in Nat /\ scene.budget.processing \in Nat
         /\ scene.budget.retries \in Nat /\ scene.budget.java \in Nat
<1>1. IsScene(scene)
  BY WorkflowAssumption, Zenon DEF AiTypeOK
<1>2. \A hits \in scene.hits : IsResult(hits)
  BY <1>1, Zenon DEF IsScene, IsResult, HitRecord
<1>3. scene.drafts \subseteq ModelDrafts
  BY <1>1, Zenon DEF IsScene, ModelDrafts
<1>4. scene.budget \in [provider : Nat, processing : Nat, retries : Nat, java : Nat,
                       client : Nat]
  BY <1>1, Zenon DEF IsScene
<1> QED
  BY <1>2, <1>3, <1>4

LEMMA Replies ==
  ASSUME AiTypeOK, NEW k \in Runs, NEW reply, SoundReply(reply), Respond(k, reply)
  PROVE  Replied(k)
<1>1. RunBecomes(k, "replied", 0, 0, <<>>, reply)
  BY RunReplies
<1>2. run'[k].reply = reply
  BY <1>1, Zenon DEF RunBecomes
<1> QED
  BY <1>1, <1>2, Zenon DEF Replied

LEMMA Refuses ==
  ASSUME AiTypeOK, NEW k \in Runs, NEW code, code # 200, Respond(k, Reply(code))
  PROVE  Replied(k)
<1>1. Reply(code).code = code
  BY Zenon DEF Reply
<1>2. SoundReply(Reply(code))
  BY <1>1, Zenon DEF SoundReply
<1> QED
  BY <1>2, Replies

LEMMA Answers ==
  ASSUME AiTypeOK, NEW k \in Runs, NEW answer, SoundAnswer(answer), RespondWith(k, answer)
  PROVE  Replied(k)
<1> DEFINE reply == [code |-> 200, answer |-> answer]
<1>1. reply.answer = answer /\ Respond(k, reply)
  BY Zenon DEF RespondWith
<1>2. SoundReply(reply)
  BY <1>1, Zenon DEF SoundReply
<1> HIDE DEF reply
<1> QED
  BY <1>1, <1>2, Replies

LEMMA FallsBackSoundly ==
  ASSUME AiTypeOK, NEW k \in Runs, NEW reason, reason # "none", FallBack(k, reason)
  PROVE  Replied(k)
<1>1. CASE Respond(k, Reply(409))
  BY <1>1, Refuses
<1>2. CASE ~Respond(k, Reply(409))
  <2>1. PICK hits \in scene.hits :
          LET local == LocalDraft(scene.ticket, hits)
              draft == IF Unconstrained(scene.ticket, local, hits)
                       THEN Insufficient(local)
                       ELSE Constrain(scene.ticket, local, hits)
          IN  RespondWith(k, Answer("fallback", reason, draft, hits, ~draft.sufficient, TRUE))
    BY <1>2, Zenon DEF FallBack
  <2> DEFINE local == LocalDraft(scene.ticket, hits)
             draft == IF Unconstrained(scene.ticket, local, hits)
                      THEN Insufficient(local)
                      ELSE Constrain(scene.ticket, local, hits)
             answer == Answer("fallback", reason, draft, hits, ~draft.sufficient, TRUE)
  <2>2. IsResult(hits)
    BY SceneIs, Zenon
  <2>3. CitesSoundly(answer) /\ PromisesSoundly(scene.ticket, answer)
    BY <2>2, FallbackAnswer
  <2>4. RespondWith(k, answer)
    BY <2>1
  <2> HIDE DEF answer
  <2>5. SoundAnswer(answer)
    BY <2>3, Zenon DEF SoundAnswer
  <2> QED
    BY <2>4, <2>5, Answers
<1> QED
  BY <1>1, <1>2

LEMMA ServiceSteps ==
  ASSUME AiTypeOK, AllSound, NEW k \in Runs, PythonStep(k)
  PROVE  ServiceEffect(k)
<1>1. CASE Arrive(k)
  <2>1. CASE Respond(k, Reply(401)) \/ Respond(k, Reply(422)) \/ Respond(k, Reply(409))
    <3>1. Replied(k)
      BY <2>1, Refuses
    <3> QED
      BY <1>1, <3>1, Zenon DEF Arrive, ServiceEffect
  <2>2. CASE run' = [run EXCEPT ![k] = [NoRun EXCEPT !.at = "retrieving"]]
    BY <1>1, <2>2, RunResets, Zenon DEF Arrive, ServiceEffect
  <2>3. CASE ~Live /\ \E hits \in scene.hits : RespondWith(k, MockAnswer(hits))
    <3>1. PICK hits \in scene.hits : RespondWith(k, MockAnswer(hits))
      BY <2>3
    <3>2. SoundAnswer(MockAnswer(hits))
      BY <2>3, SceneIs, MockIsCited, Zenon DEF SoundAnswer
    <3>3. Replied(k)
      BY <3>1, <3>2, Answers
    <3> QED
      BY <1>1, <3>3, Zenon DEF Arrive, ServiceEffect
  <2> QED
    BY <1>1, <2>1, <2>2, <2>3, Zenon DEF Arrive
<1>2. CASE Retrieve(k)
  <2>1. PICK hits \in scene.hits :
          IF hits = <<>>
          THEN RespondWith(k, Answer("fallback", "insufficient_evidence",
                 Insufficient(LocalDraft(scene.ticket, hits)), hits, TRUE, FALSE))
          ELSE run' = [run EXCEPT ![k].at = "generating", ![k].hits = hits, ![k].wait = 0]
    BY <1>2, Zenon DEF Retrieve
  <2>2. IsResult(hits)
    BY SceneIs, Zenon
  <2>3. CASE hits = <<>>
    <3> DEFINE local == LocalDraft(scene.ticket, hits)
               answer == Answer("fallback", "insufficient_evidence", Insufficient(local),
                                hits, TRUE, FALSE)
    <3>1. IsDraft(local)
      BY <2>2, LocalDraftIs
    <3> HIDE DEF local
    <3>2. CitesSoundly(answer) /\ PromisesSoundly(scene.ticket, answer)
      BY <3>1, InsufficientAnswer
    <3>3. RespondWith(k, answer)
      BY <2>1, <2>3, Zenon DEF local
    <3> HIDE DEF answer
    <3>4. SoundAnswer(answer)
      BY <3>2, Zenon DEF SoundAnswer
    <3>5. Replied(k)
      BY <3>3, <3>4, Answers
    <3> QED
      BY <1>2, <3>5, Zenon DEF Retrieve, ServiceEffect
  <2>4. CASE hits # <<>>
    <3>1. run' = [run EXCEPT ![k].at = "generating", ![k].hits = hits, ![k].wait = 0]
      BY <2>1, <2>4
    <3>2. DOMAIN run = Runs /\ DOMAIN run[k] = RunFields
      BY Zenon DEF AiTypeOK, IsRun
    <3>3. run'[k] = [run[k] EXCEPT !.at = "generating", !.hits = hits, !.wait = 0]
      BY <3>1, <3>2, SMT DEF RunFields
    <3>4. DOMAIN run' = Runs /\ \A j \in Runs \ {k} : run'[j] = run[j]
      BY <3>1, <3>2, SMT
    <3>5. DOMAIN run'[k] = RunFields
      BY <3>2, <3>3, Zenon
    <3>6. /\ run'[k].at = "generating" /\ run'[k].age = run[k].age /\ run'[k].wait = 0
          /\ run'[k].hits = hits /\ run'[k].reply = run[k].reply
      BY <3>2, <3>3, SMT DEF RunFields
    <3>7. RunBecomes(k, "generating", run[k].age, 0, run'[k].hits, run[k].reply)
      BY <3>4, <3>5, <3>6, Zenon DEF RunBecomes
    <3> QED
      BY <1>2, <2>4, <3>6, <3>7, Zenon DEF Retrieve, ServiceEffect
  <2> QED
    BY <2>3, <2>4
<1>3. CASE RetrievalFails(k)
  <2>1. PICK reason \in EmbeddingFailures : FallBack(k, reason)
    BY <1>3, Zenon DEF RetrievalFails
  <2>2. reason # "none"
    BY SMT DEF EmbeddingFailures
  <2>3. Replied(k)
    BY <2>1, <2>2, FallsBackSoundly
  <2> QED
    BY <1>3, <2>3, Zenon DEF RetrievalFails, ServiceEffect
<1>4. CASE ArtifactUnusable(k)
  <2>1. Replied(k)
    BY <1>4, Refuses DEF ArtifactUnusable
  <2> QED
    BY <1>4, <2>1, Zenon DEF ArtifactUnusable, ServiceEffect
<1>5. CASE Generate(k)
  <2>1. PICK draft \in scene.drafts :
          \/ DraftHolds(draft, run[k].hits) /\ RespondWith(k, ModelAnswer(draft, run[k].hits))
          \/ FallBack(k, "invalid_model_response")
    BY <1>5, Zenon DEF Generate
  <2>2. CASE DraftHolds(draft, run[k].hits) /\ RespondWith(k, ModelAnswer(draft, run[k].hits))
    <3>1. run[k].hits \in scene.hits /\ run[k].hits # <<>>
      BY <1>5, Zenon DEF Generate, AllSound
    <3>2. IsResult(run[k].hits) /\ draft \in ModelDrafts
      BY <3>1, SceneIs, Zenon
    <3>3. SoundAnswer(ModelAnswer(draft, run[k].hits))
      BY <2>2, <3>1, <3>2, ModelAnswerIsSound, Zenon DEF SoundAnswer
    <3>4. Replied(k)
      BY <2>2, <3>3, Answers
    <3> QED
      BY <1>5, <3>4, Zenon DEF Generate, ServiceEffect
  <2>3. CASE FallBack(k, "invalid_model_response")
    <3>1. Replied(k)
      BY <2>3, FallsBackSoundly
    <3> QED
      BY <1>5, <3>1, Zenon DEF Generate, ServiceEffect
  <2> QED
    BY <2>1, <2>2, <2>3
<1>6. CASE GenerationFails(k)
  <2>1. PICK reason \in GenerationFailures : FallBack(k, reason)
    BY <1>6, Zenon DEF GenerationFails
  <2>2. reason # "none"
    BY SMT DEF GenerationFailures
  <2>3. Replied(k)
    BY <2>1, <2>2, FallsBackSoundly
  <2> QED
    BY <1>6, <2>3, Zenon DEF GenerationFails, ServiceEffect
<1>7. CASE ProcessingDeadline(k)
  <2>1. Replied(k)
    BY <1>7, Refuses DEF ProcessingDeadline
  <2> QED
    BY <1>7, <2>1, Zenon DEF ProcessingDeadline, Processing, ServiceEffect
<1> QED
  BY <1>1, <1>2, <1>3, <1>4, <1>5, <1>6, <1>7, Zenon DEF PythonStep

LEMMA NetworkSteps ==
  ASSUME AiTypeOK, NEW k \in Runs, Overload(k) \/ Lose(k)
  PROVE  ServiceEffect(k)
<1>1. CASE Overload(k)
  <2>1. Replied(k)
    BY <1>1, Refuses DEF Overload, Malformed
  <2> QED
    BY <1>1, <2>1, Zenon DEF Overload, ServiceEffect
<1>2. CASE Lose(k)
  BY <1>2, RunResets, Zenon DEF Lose, ServiceEffect
<1> QED
  BY <1>1, <1>2

----------------------------------------------------------------------------
(* The control of a call. *)

TimedOut == Fallback("ai_service_timeout")

\* What the worker of a call has done and what its caller has been told.
ControlOf(r) ==
  /\ \A n \in 1 .. MaxAttempts :
       /\ run[<<r, n>>].at = "none" <=> call[r].attempts < n
       /\ run[<<r, n>>].at = "none" => run[<<r, n>>].wait = 0
  /\ call[r].worker \in {"none", "entering"} => call[r].attempts = 0
  /\ call[r].worker = "none" => call[r].result = Nothing
  /\ call[r].worker \in {"calling", "backoff"} => call[r].attempts >= 1
  /\ call[r].worker = "backoff" => call[r].attempts < MaxAttempts
  /\ call[r].worker = "ended" => call[r].result # Nothing
  /\ call[r].result # Nothing => call[r].cut \/ call[r].worker = "ended"
  /\ call[r].cut => call[r].result # Nothing
  /\ call[r].result = TimedOut => call[r].cut

\* What a call has heard: replies that are transient, before the last attempt and
\* when it pauses, and no refusal when it falls back.
HearingOf(r) ==
  \A n \in 1 .. MaxAttempts : run[<<r, n>>].at = "heard" =>
    LET code == run[<<r, n>>].reply.code
    IN  /\ call[r].attempts = n => call[r].worker # "calling"
        /\ n < call[r].attempts \/ call[r].worker = "backoff" => Transient(code)
        /\ FellBack(r) => code \notin {200} \cup Rejections

\* How long an open analysis with one attempt has taken, by where its run is.
Young(c, first, processing) ==
  /\ c.worker \in {"none", "entering"} => c.clock = 0
  /\ c.worker = "calling" /\ c.attempts = 1 =>
       /\ first.at = "sent" => c.clock <= first.wait /\ first.wait <= Latency
       /\ first.at \in {"retrieving", "generating"} =>
            c.clock <= Latency + first.age /\ first.age <= processing
       /\ first.at = "replied" =>
            c.clock <= Latency + processing + first.wait /\ first.wait <= Latency
  /\ c.worker = "backoff" /\ c.attempts = 1 =>
       first.at = "lost" \/ c.clock <= 2 * Latency + processing

ClockOf(r) ==
  call[r].result = Nothing => Young(call[r], run[<<r, 1>>], scene.budget.processing)

\* DeadlinesAreAttributed of one call.
DeadlineOf(r) ==
  call[r].result = TimedOut /\ call[r].attempts = 1 => run[<<r, 1>>].at = "lost"

CallInv(r) == ControlOf(r) /\ HearingOf(r) /\ ClockOf(r) /\ DeadlineOf(r)

AiInv == AiTypeOK /\ AllSound /\ \A r \in Caller : CallInv(r)

----------------------------------------------------------------------------
(* The invariant is inductive: runs move. *)

LEMMA InRuns ==
  ASSUME NEW r \in Caller, NEW n \in 1 .. MaxAttempts
  PROVE  <<r, n>> \in Runs
BY DEF Runs

LEMMA FirstRun ==
  ASSUME NEW r \in Caller
  PROVE  <<r, 1>> \in Runs
BY WorkflowAssumption DEF Runs

LEMMA PlacesOf ==
  ASSUME AiTypeOK, NEW k \in Runs
  PROVE  /\ DOMAIN run[k] = RunFields /\ run[k].at \in Places
         /\ run[k].age \in Nat /\ run[k].wait \in Nat
BY Zenon DEF AiTypeOK, IsRun

\* What RunBecomes says of each run.
LEMMA RunTyped ==
  ASSUME AiTypeOK, NEW k \in Runs, NEW at \in Places, NEW age \in Nat, NEW wait \in Nat,
         NEW hits, NEW reply, RunBecomes(k, at, age, wait, hits, reply)
  PROVE  DOMAIN run' = Runs /\ \A j \in Runs : IsRun(run'[j])
<1>1. IsRun(run'[k])
  BY Zenon DEF RunBecomes, IsRun
<1>2. \A j \in Runs \ {k} : IsRun(run'[j])
  BY Zenon DEF RunBecomes, AiTypeOK
<1> QED
  BY <1>1, <1>2, Zenon DEF RunBecomes

LEMMA ServiceKeepsTypes ==
  ASSUME AiTypeOK, NEW k \in Runs, ServiceEffect(k), UNCHANGED <<scene, call>>
  PROVE  AiTypeOK'
<1>1. DOMAIN run' = Runs /\ \A j \in Runs : IsRun(run'[j])
  <2>1. run[k].age \in Nat /\ 0 \in Nat
    BY PlacesOf
  <2>2. /\ "retrieving" \in Places /\ "generating" \in Places /\ "replied" \in Places
        /\ "lost" \in Places
    BY DEF Places
  <2> QED
    BY <2>1, <2>2, RunTyped DEF ServiceEffect, Replied
<1>2. scene' \in Scenes /\ SafeBudget(scene'.budget)
  BY Zenon DEF AiTypeOK
<1>3. DOMAIN call' = Caller /\ \A r \in Caller : IsCall(call'[r])
  BY Zenon DEF AiTypeOK
<1> QED
  BY <1>1, <1>2, <1>3, Zenon DEF AiTypeOK, SafeBudget, IsRun, IsCall

LEMMA ServiceKeepsSoundness ==
  ASSUME AllSound, NEW k \in Runs, ServiceEffect(k), UNCHANGED <<scene, call>>
  PROVE  AllSound'
<1>1. ASSUME NEW j \in Runs
      PROVE  /\ SoundReply(run'[j].reply)
             /\ run'[j].at = "generating" => run'[j].hits \in scene.hits /\ run'[j].hits # <<>>
  <2>1. CASE j # k
    BY <2>1, Zenon DEF ServiceEffect, Replied, RunBecomes, AllSound
  <2>2. CASE j = k
    <3>1. SoundReply(Reply(0))
      BY DEF SoundReply, Reply
    <3>2. SoundReply(run[k].reply)
      BY Zenon DEF AllSound
    <3> QED
      BY <2>2, <3>1, <3>2, Zenon DEF ServiceEffect, Replied, RunBecomes
  <2> QED
    BY <2>1, <2>2
<1>2. \A r \in Caller : Answered(r) => SoundAnswer(call[r].result.answer)
  BY Zenon DEF AllSound
<1> QED
  BY <1>1, <1>2 DEF AllSound, SoundReply, SoundAnswer, Live, Answered

\* Where a run of the service comes from and goes to.
LEMMA ServiceMoves ==
  ASSUME NEW k \in Runs, ServiceEffect(k)
  PROVE  /\ \A j \in Runs \ {k} : run'[j] = run[j]
         /\ run[k].at \in {"sent", "retrieving", "generating", "replied"}
         /\ run'[k].at \in {"retrieving", "generating", "replied", "lost"}
BY Zenon DEF ServiceEffect, Replied, RunBecomes

LEMMA ServiceKeepsControl ==
  ASSUME NEW k \in Runs, ServiceEffect(k), UNCHANGED <<scene, call>>,
         NEW r \in Caller, ControlOf(r)
  PROVE  ControlOf(r)'
<1>1. ASSUME NEW j \in Runs
      PROVE  /\ run'[j].at = "none" <=> run[j].at = "none"
             /\ run'[j].at = "none" => run'[j].wait = run[j].wait
  <2>1. CASE j # k
    BY <2>1, ServiceMoves, Zenon
  <2>2. CASE j = k
    BY <2>2, ServiceMoves, SMT
  <2> QED
    BY <2>1, <2>2
<1>2. ASSUME NEW n \in 1 .. MaxAttempts
      PROVE  /\ run'[<<r, n>>].at = "none" <=> call[r].attempts < n
             /\ run'[<<r, n>>].at = "none" => run'[<<r, n>>].wait = 0
  <2>1. <<r, n>> \in Runs
    BY InRuns
  <2> QED
    BY <1>1, <2>1, Zenon DEF ControlOf
<1> QED
  BY <1>2, Zenon DEF ControlOf

LEMMA ServiceKeepsHearing ==
  ASSUME NEW k \in Runs, ServiceEffect(k), UNCHANGED <<scene, call>>,
         NEW r \in Caller, HearingOf(r)
  PROVE  HearingOf(r)'
<1>1. ASSUME NEW j \in Runs, run'[j].at = "heard"
      PROVE  run'[j] = run[j]
  <2>1. j # k
    BY <1>1, ServiceMoves, SMT
  <2> QED
    BY <2>1, ServiceMoves, Zenon
<1>2. ASSUME NEW n \in 1 .. MaxAttempts, run'[<<r, n>>].at = "heard"
      PROVE  run'[<<r, n>>] = run[<<r, n>>]
  BY <1>1, <1>2, InRuns
<1> QED
  BY <1>2, Zenon DEF HearingOf, FellBack

LEMMA ServiceKeepsDeadlines ==
  ASSUME NEW k \in Runs, ServiceEffect(k), UNCHANGED <<scene, call>>,
         NEW r \in Caller, DeadlineOf(r)
  PROVE  DeadlineOf(r)'
<1>1. ASSUME run[<<r, 1>>].at = "lost"
      PROVE  run'[<<r, 1>>].at = "lost"
  <2>1. <<r, 1>> # k
    BY <1>1, ServiceMoves, SMT
  <2> QED
    BY <1>1, <2>1, FirstRun, ServiceMoves, Zenon
<1> QED
  BY <1>1, Zenon DEF DeadlineOf

LEMMA ServiceKeepsClocks ==
  ASSUME AiTypeOK, NEW k \in Runs, ServiceEffect(k), UNCHANGED <<scene, call>>,
         NEW r \in Caller, ClockOf(r)
  PROVE  ClockOf(r)'
<1> SUFFICES ASSUME call[r].result = Nothing
             PROVE  Young(call[r], run'[<<r, 1>>], scene.budget.processing)
  BY DEF ClockOf, Young
<1> DEFINE first == run[<<r, 1>>]
           clock == call[r].clock
           processing == scene.budget.processing
<1>0. Young(call[r], first, processing)
  BY Zenon DEF ClockOf
<1>1. CASE <<r, 1>> # k
  <2>1. run'[<<r, 1>>] = run[<<r, 1>>]
    BY <1>1, FirstRun, ServiceMoves, Zenon
  <2> QED
    BY <1>0, <2>1, Zenon
<1>2. CASE <<r, 1>> = k
  <2>1. /\ clock \in Nat /\ processing \in Nat /\ Latency \in Nat
        /\ run[k].age \in Nat /\ run[k].wait \in Nat
    BY SceneIs, PlacesOf, BoundaryAssumption DEF AiTypeOK, IsCall
  <2>2. call[r].worker = "backoff" /\ call[r].attempts = 1 =>
          run'[k].at = "lost" \/ clock <= 2 * Latency + processing
    <3>1. run[k].at # "lost"
      BY ServiceMoves, SMT
    <3> QED
      BY <1>0, <1>2, <3>1, Zenon DEF Young
  <2>3. ASSUME call[r].worker = "calling", call[r].attempts = 1
        PROVE  /\ run'[k].at # "sent"
               /\ run'[k].at \in {"retrieving", "generating"} =>
                    clock <= Latency + run'[k].age /\ run'[k].age <= processing
               /\ run'[k].at = "replied" =>
                    clock <= Latency + processing + run'[k].wait /\ run'[k].wait <= Latency
    <3>1. /\ run[k].at = "sent" => clock <= run[k].wait /\ run[k].wait <= Latency
          /\ run[k].at \in {"retrieving", "generating"} =>
               clock <= Latency + run[k].age /\ run[k].age <= processing
      BY <1>0, <1>2, <2>3, Zenon DEF Young
    <3> HIDE DEF clock, processing
    <3>2. CASE run[k].at = "sent" /\ RunBecomes(k, "retrieving", 0, 0, <<>>, Reply(0))
      BY <2>1, <3>1, <3>2, SMT DEF RunBecomes
    <3>3. CASE /\ run[k].at = "retrieving"
               /\ RunBecomes(k, "generating", run[k].age, 0, run'[k].hits, run[k].reply)
      BY <2>1, <3>1, <3>3, SMT DEF RunBecomes
    <3>4. CASE run[k].at \in {"sent", "retrieving", "generating"} /\ Replied(k)
      BY <2>1, <3>1, <3>4, SMT DEF RunBecomes, Replied
    <3>5. CASE RunBecomes(k, "lost", 0, 0, <<>>, Reply(0))
      BY <3>5, SMT DEF RunBecomes
    <3> QED
      BY <3>2, <3>3, <3>4, <3>5, Zenon DEF ServiceEffect
  <2> QED
    BY <1>0, <1>2, <2>2, <2>3, Zenon DEF Young
<1> QED
  BY <1>1, <1>2

LEMMA ServiceKeeps ==
  ASSUME AiInv, NEW k \in Runs, ServiceEffect(k), UNCHANGED <<scene, call>>
  PROVE  AiInv'
<1>1. AiTypeOK' /\ AllSound'
  BY ServiceKeepsTypes, ServiceKeepsSoundness DEF AiInv
<1>2. ASSUME NEW r \in Caller PROVE CallInv(r)'
  BY ServiceKeepsControl, ServiceKeepsHearing, ServiceKeepsClocks, ServiceKeepsDeadlines
     DEF AiInv, CallInv
<1> QED
  BY <1>1, <1>2 DEF AiInv

----------------------------------------------------------------------------
(* The invariant is inductive: the client. *)

LEMMA KindsDiffer ==
  /\ \A reason : Fallback(reason) # Nothing
  /\ \A reason : Fallback(reason).kind = "fallback"
  /\ \A reason : reason # "ai_service_timeout" => Fallback(reason) # TimedOut
  /\ \A answer : Success(answer) # Nothing /\ Success(answer) # TimedOut
  /\ \A answer : Success(answer).kind = "success" /\ Success(answer).answer = answer
  /\ \A code : Rejected(code) # Nothing /\ Rejected(code) # TimedOut
  /\ \A code : Rejected(code).kind = "rejected"
  /\ Nothing.kind = "nothing" /\ Nothing # TimedOut
<1>1. /\ \A reason : Fallback(reason).kind = "fallback" /\ Fallback(reason).reason = reason
      /\ \A answer : Success(answer).kind = "success" /\ Success(answer).answer = answer
      /\ \A code : Rejected(code).kind = "rejected"
      /\ Nothing.kind = "nothing"
  BY Zenon DEF Fallback, Success, Rejected, Nothing
<1> QED
  BY <1>1, SMT DEF TimedOut

LEMMA CallTyped ==
  ASSUME AiTypeOK, NEW r \in Caller, NEW w \in Workers, NEW c \in Nat,
         NEW a \in 0 .. MaxAttempts, NEW x \in BOOLEAN, NEW res,
         CallBecomes(r, w, c, a, x, res)
  PROVE  DOMAIN call' = Caller /\ \A q \in Caller : IsCall(call'[q])
<1>1. IsCall(call'[r])
  BY Zenon DEF CallBecomes, IsCall
<1>2. \A q \in Caller \ {r} : IsCall(call'[q])
  BY Zenon DEF CallBecomes, AiTypeOK
<1> QED
  BY <1>1, <1>2, Zenon DEF CallBecomes

LEMMA CallIs ==
  ASSUME AiTypeOK, NEW r \in Caller
  PROVE  /\ call[r].worker \in Workers /\ call[r].clock \in Nat
         /\ call[r].attempts \in 0 .. MaxAttempts /\ call[r].cut \in BOOLEAN
BY Zenon DEF AiTypeOK, IsCall

LEMMA TypesTogether ==
  ASSUME AiTypeOK, UNCHANGED scene,
         DOMAIN call' = Caller, \A q \in Caller : IsCall(call'[q]),
         DOMAIN run' = Runs, \A j \in Runs : IsRun(run'[j])
  PROVE  AiTypeOK'
BY Zenon DEF AiTypeOK, SafeBudget, IsRun, IsCall

LEMMA TypesOfCalls ==
  ASSUME AiTypeOK, UNCHANGED <<scene, run>>,
         DOMAIN call' = Caller, \A q \in Caller : IsCall(call'[q])
  PROVE  AiTypeOK'
BY Zenon DEF AiTypeOK, SafeBudget, IsRun, IsCall

\* A call that takes no part in a step keeps what is said of it.
LEMMA OthersKeep ==
  ASSUME NEW q \in Caller, CallInv(q), UNCHANGED scene, call'[q] = call[q],
         \A n \in 1 .. MaxAttempts : run'[<<q, n>>] = run[<<q, n>>]
  PROVE  CallInv(q)'
<1>1. run'[<<q, 1>>] = run[<<q, 1>>]
  BY WorkflowAssumption
<1>2. ControlOf(q)'
  <2>1. ASSUME NEW n \in 1 .. MaxAttempts
        PROVE  /\ run'[<<q, n>>].at = "none" <=> call'[q].attempts < n
               /\ run'[<<q, n>>].at = "none" => run'[<<q, n>>].wait = 0
    BY Zenon DEF CallInv, ControlOf
  <2>2. /\ call'[q].worker \in {"none", "entering"} => call'[q].attempts = 0
        /\ call'[q].worker = "none" => call'[q].result = Nothing
        /\ call'[q].worker \in {"calling", "backoff"} => call'[q].attempts >= 1
        /\ call'[q].worker = "backoff" => call'[q].attempts < MaxAttempts
    BY Zenon DEF CallInv, ControlOf
  <2>3. /\ call'[q].worker = "ended" => call'[q].result # Nothing
        /\ call'[q].result # Nothing => call'[q].cut \/ call'[q].worker = "ended"
        /\ call'[q].cut => call'[q].result # Nothing
        /\ call'[q].result = TimedOut => call'[q].cut
    BY SMT DEF CallInv, ControlOf
  <2> QED
    BY <2>1, <2>2, <2>3 DEF ControlOf, TimedOut, Fallback, Nothing
<1>3. HearingOf(q)'
  BY Zenon DEF CallInv, HearingOf, FellBack
<1>4. ClockOf(q)'
  BY <1>1, Zenon DEF CallInv, ClockOf, Young
<1>5. DeadlineOf(q)'
  BY <1>1, Zenon DEF CallInv, DeadlineOf
<1> QED
  BY <1>2, <1>3, <1>4, <1>5 DEF CallInv

\* A worker's step touches its own call, and no run or its own current one.
LEMMA ActorKeeps ==
  ASSUME AiInv, UNCHANGED scene, NEW r \in Caller, CallInv(r)',
         \A q \in Caller \ {r} : call'[q] = call[q],
         \A j \in Runs : j[1] # r => run'[j] = run[j]
  PROVE  \A q \in Caller : CallInv(q)'
<1> SUFFICES ASSUME NEW q \in Caller, q # r PROVE CallInv(q)'
  OBVIOUS
<1>1. ASSUME NEW n \in 1 .. MaxAttempts PROVE run'[<<q, n>>] = run[<<q, n>>]
  <2>1. <<q, n>> \in Runs /\ <<q, n>>[1] = q
    BY InRuns
  <2> QED
    BY <2>1
<1> QED
  BY <1>1, OthersKeep DEF AiInv

\* A step that says nothing unsound and starts no generation.
LEMMA SoundnessKept ==
  ASSUME AllSound, UNCHANGED scene, NEW r \in Caller,
         \A q \in Caller \ {r} : call'[q] = call[q],
         \/ call'[r].result = call[r].result
         \/ call'[r].result.kind # "success"
         \/ SoundAnswer(call'[r].result.answer),
         \A j \in Runs :
           \/ run'[j] = run[j]
           \/ run'[j].reply = run[j].reply /\ run'[j].at # "generating"
  PROVE  AllSound'
<1>1. \A j \in Runs :
        /\ SoundReply(run'[j].reply)
        /\ run'[j].at = "generating" => run'[j].hits \in scene.hits /\ run'[j].hits # <<>>
  BY Zenon DEF AllSound
<1>2. ASSUME NEW q \in Caller, call'[q].result.kind = "success"
      PROVE  SoundAnswer(call'[q].result.answer)
  BY <1>2, Zenon DEF AllSound, Answered
<1> QED
  BY <1>1, <1>2 DEF AllSound, SoundReply, SoundAnswer, Live, Answered

\* The runs of r stay, but for a reply that its worker hears.
Hears(r) ==
  \A n \in 1 .. MaxAttempts :
    \/ run'[<<r, n>>] = run[<<r, n>>]
    \/ /\ n = call[r].attempts /\ call[r].worker = "calling"
       /\ run[<<r, n>>].at = "replied" /\ run'[<<r, n>>].at = "heard"
       /\ run'[<<r, n>>].reply = run[<<r, n>>].reply

LEMMA HearsKeepsRuns ==
  ASSUME NEW r \in Caller, Hears(r), ControlOf(r), call'[r].attempts = call[r].attempts
  PROVE  \A n \in 1 .. MaxAttempts :
           /\ run'[<<r, n>>].at = "none" <=> call'[r].attempts < n
           /\ run'[<<r, n>>].at = "none" => run'[<<r, n>>].wait = 0
           /\ run[<<r, n>>].at = "lost" => run'[<<r, n>>].at = "lost"
<1> SUFFICES ASSUME NEW n \in 1 .. MaxAttempts
             PROVE  /\ run'[<<r, n>>].at = "none" <=> call'[r].attempts < n
                    /\ run'[<<r, n>>].at = "none" => run'[<<r, n>>].wait = 0
                    /\ run[<<r, n>>].at = "lost" => run'[<<r, n>>].at = "lost"
  OBVIOUS
<1>1. /\ run[<<r, n>>].at = "none" <=> call'[r].attempts < n
      /\ run[<<r, n>>].at = "none" => run[<<r, n>>].wait = 0
  BY Zenon DEF ControlOf
<1>2. CASE run'[<<r, n>>] = run[<<r, n>>]
  BY <1>1, <1>2, Zenon
<1>3. CASE run[<<r, n>>].at = "replied" /\ run'[<<r, n>>].at = "heard"
  BY <1>1, <1>3, SMT
<1> QED
  BY <1>2, <1>3, Zenon DEF Hears

\* A worker ends with a result for a caller that has none.
LEMMA EndsKeeps ==
  ASSUME AiInv, NEW r \in Caller, UNCHANGED scene,
         call[r].worker \in {"entering", "calling", "backoff"},
         NEW res, res # TimedOut, res # Nothing \/ call[r].cut,
         CallBecomes(r, "ended", call[r].clock, call[r].attempts, call[r].cut,
                     IF call[r].result = Nothing THEN res ELSE call[r].result),
         Hears(r),
         res.kind = "fallback" => \A n \in 1 .. MaxAttempts :
           run'[<<r, n>>].at = "heard" => run'[<<r, n>>].reply.code \notin {200} \cup Rejections
  PROVE  CallInv(r)'
<1>1. ControlOf(r) /\ HearingOf(r) /\ ClockOf(r) /\ DeadlineOf(r)
  BY DEF AiInv, CallInv
<1>2. /\ call'[r].worker = "ended" /\ call'[r].attempts = call[r].attempts
      /\ call'[r].cut = call[r].cut
      /\ call'[r].result = IF call[r].result = Nothing THEN res ELSE call[r].result
  BY Zenon DEF CallBecomes
<1>3. \A n \in 1 .. MaxAttempts :
        /\ run'[<<r, n>>].at = "none" <=> call'[r].attempts < n
        /\ run'[<<r, n>>].at = "none" => run'[<<r, n>>].wait = 0
        /\ run[<<r, n>>].at = "lost" => run'[<<r, n>>].at = "lost"
  BY <1>1, <1>2, HearsKeepsRuns, Zenon
<1>4. /\ call[r].result # Nothing <=> call[r].cut
      /\ call[r].result = TimedOut => call[r].cut
  BY <1>1, SMT DEF ControlOf
<1>5. call'[r].result # Nothing
  BY <1>2, <1>4, KindsDiffer, SMT
<1>6. call'[r].result = TimedOut => call'[r].cut
  BY <1>2, <1>4, SMT
<1>7. ControlOf(r)'
  BY <1>2, <1>3, <1>5, <1>6, SMT DEF ControlOf, TimedOut, Fallback, Nothing
<1>8. HearingOf(r)'
  <2> SUFFICES ASSUME NEW n \in 1 .. MaxAttempts, run'[<<r, n>>].at = "heard"
               PROVE  /\ n < call'[r].attempts => Transient(run'[<<r, n>>].reply.code)
                      /\ call'[r].result.kind = "fallback" /\ ~call'[r].cut
                           => run'[<<r, n>>].reply.code \notin {200} \cup Rejections
    BY <1>2, SMT DEF HearingOf, FellBack, Transient, Rejections
  <2>1. ASSUME n < call'[r].attempts PROVE Transient(run'[<<r, n>>].reply.code)
    <3>1. n # call[r].attempts
      BY <1>2, <2>1, CallIs, SMT DEF AiInv
    <3>2. run'[<<r, n>>] = run[<<r, n>>]
      BY <3>1, Zenon DEF Hears
    <3> QED
      BY <1>1, <1>2, <2>1, <3>2, Zenon DEF HearingOf
  <2>2. ASSUME call'[r].result.kind = "fallback", ~call'[r].cut
        PROVE  run'[<<r, n>>].reply.code \notin {200} \cup Rejections
    <3>1. call[r].result = Nothing
      BY <1>2, <1>4, <2>2, SMT
    <3>2. res.kind = "fallback"
      BY <1>2, <2>2, <3>1
    <3> QED
      BY <3>2
  <2> QED
    BY <2>1, <2>2
<1>9. ClockOf(r)'
  BY <1>5, Zenon DEF ClockOf
<1>10. DeadlineOf(r)'
  <2> SUFFICES ASSUME call'[r].result = TimedOut, call'[r].attempts = 1
               PROVE  run'[<<r, 1>>].at = "lost"
    BY DEF DeadlineOf, TimedOut, Fallback
  <2>1. call[r].result = TimedOut /\ call[r].attempts = 1
    BY <1>2, SMT
  <2>2. run[<<r, 1>>].at = "lost" /\ 1 \in 1 .. MaxAttempts
    BY <1>1, <2>1, WorkflowAssumption DEF DeadlineOf
  <2> QED
    BY <1>3, <2>2, Zenon
<1> QED
  BY <1>7, <1>8, <1>9, <1>10 DEF CallInv

\* A worker pauses before another attempt.
LEMMA PausesKeeps ==
  ASSUME AiInv, NEW r \in Caller, UNCHANGED scene,
         call[r].worker = "calling", call[r].attempts < MaxAttempts,
         CallBecomes(r, "backoff", call[r].clock, call[r].attempts, call[r].cut,
                     call[r].result),
         Hears(r),
         \A n \in 1 .. MaxAttempts : run'[<<r, n>>] # run[<<r, n>>] =>
           Transient(run'[<<r, n>>].reply.code)
  PROVE  CallInv(r)'
<1>1. ControlOf(r) /\ HearingOf(r) /\ ClockOf(r) /\ DeadlineOf(r)
  BY DEF AiInv, CallInv
<1>2. /\ call'[r].worker = "backoff" /\ call'[r].attempts = call[r].attempts
      /\ call'[r].cut = call[r].cut /\ call'[r].result = call[r].result
      /\ call'[r].clock = call[r].clock
  BY Zenon DEF CallBecomes
<1>3. \A n \in 1 .. MaxAttempts :
        /\ run'[<<r, n>>].at = "none" <=> call'[r].attempts < n
        /\ run'[<<r, n>>].at = "none" => run'[<<r, n>>].wait = 0
        /\ run[<<r, n>>].at = "lost" => run'[<<r, n>>].at = "lost"
  BY <1>1, <1>2, HearsKeepsRuns, Zenon
<1>4. /\ call[r].attempts >= 1
      /\ call[r].result # Nothing <=> call[r].cut
      /\ call[r].result = TimedOut => call[r].cut
  BY <1>1, SMT DEF ControlOf
<1>7. ControlOf(r)'
  BY <1>2, <1>3, <1>4, SMT DEF ControlOf, TimedOut, Fallback, Nothing
<1>8. HearingOf(r)'
  <2> SUFFICES ASSUME NEW n \in 1 .. MaxAttempts, run'[<<r, n>>].at = "heard"
               PROVE  /\ Transient(run'[<<r, n>>].reply.code)
                      /\ ~(call'[r].result.kind = "fallback" /\ ~call'[r].cut)
    BY <1>2, SMT DEF HearingOf, FellBack, Transient, Rejections
  <2>1. Transient(run'[<<r, n>>].reply.code)
    <3>1. CASE run'[<<r, n>>] # run[<<r, n>>]
      BY <3>1
    <3>2. CASE run'[<<r, n>>] = run[<<r, n>>]
      <4>1. n # call[r].attempts /\ ~(call[r].attempts < n)
        BY <1>1, <3>2, <1>3, <1>2, SMT DEF HearingOf
      <4>2. n < call[r].attempts
        BY <4>1, CallIs, SMT DEF AiInv
      <4> QED
        BY <1>1, <3>2, <4>2, Zenon DEF HearingOf
    <3> QED
      BY <3>1, <3>2
  <2>2. call[r].result = Nothing \/ call[r].cut
    BY <1>4
  <2>3. ~(call'[r].result.kind = "fallback" /\ ~call'[r].cut)
    BY <1>2, <2>2, KindsDiffer, SMT
  <2> QED
    BY <2>1, <2>3
<1>9. ClockOf(r)'
  <2> SUFFICES ASSUME call[r].result = Nothing, call[r].attempts = 1
               PROVE  \/ run'[<<r, 1>>].at = "lost"
                      \/ call[r].clock <= 2 * Latency + scene.budget.processing
    BY <1>2, SMT DEF ClockOf, Young, Nothing
  <2>1. Young(call[r], run[<<r, 1>>], scene.budget.processing)
    BY <1>1, Zenon DEF ClockOf
  <2>2. <<r, 1>> \in Runs /\ 1 \in 1 .. MaxAttempts
    BY FirstRun, WorkflowAssumption
  <2>3. /\ run[<<r, 1>>].at \in Places /\ run[<<r, 1>>].age \in Nat
        /\ run[<<r, 1>>].wait \in Nat
    BY <2>2, PlacesOf DEF AiInv
  <2>4. /\ run[<<r, 1>>].at # "none" /\ run[<<r, 1>>].at # "heard"
    <3>1. ~(call[r].attempts < 1)
      BY <1>4, CallIs, SMT DEF AiInv
    <3>2. run[<<r, 1>>].at # "none"
      BY <1>1, <2>2, <3>1, Zenon DEF ControlOf
    <3>3. run[<<r, 1>>].at # "heard"
      BY <1>1, <2>2, SMT DEF HearingOf
    <3> QED
      BY <3>2, <3>3
  <2>5. run[<<r, 1>>].at = "lost" => run'[<<r, 1>>].at = "lost"
    BY <1>3, <2>2, Zenon
  <2>6. call[r].clock \in Nat /\ scene.budget.processing \in Nat /\ Latency \in Nat
    BY CallIs, SceneIs, BoundaryAssumption DEF AiInv
  <2> QED
    BY <2>1, <2>3, <2>4, <2>5, <2>6, SMT DEF Young, Places
<1>10. DeadlineOf(r)'
  <2> SUFFICES ASSUME call'[r].result = TimedOut, call'[r].attempts = 1
               PROVE  run'[<<r, 1>>].at = "lost"
    BY DEF DeadlineOf, TimedOut, Fallback
  <2>1. call[r].result = TimedOut /\ call[r].attempts = 1
    BY <1>2, SMT
  <2>2. run[<<r, 1>>].at = "lost" /\ 1 \in 1 .. MaxAttempts
    BY <1>1, <2>1, WorkflowAssumption DEF DeadlineOf
  <2> QED
    BY <1>3, <2>2, Zenon
<1> QED
  BY <1>7, <1>8, <1>9, <1>10 DEF CallInv

\* An attempt is sent: the first, or the next after a pause.
LEMMA SendsKeeps ==
  ASSUME AiInv, NEW r \in Caller, UNCHANGED scene, NEW number \in 1 .. MaxAttempts,
         number = call[r].attempts + 1,
         call[r].worker \in {"entering", "backoff"}, ~call[r].cut,
         Send(r, number)
  PROVE  AiInv'
<1> DEFINE k == <<r, number>>
<1>1. ControlOf(r) /\ HearingOf(r) /\ ClockOf(r) /\ DeadlineOf(r) /\ AiTypeOK /\ AllSound
  BY DEF AiInv, CallInv
<1>2. /\ CallBecomes(r, "calling", call[r].clock, number, call[r].cut, call[r].result)
      /\ RunBecomes(k, "sent", run[k].age, run[k].wait, run[k].hits, run[k].reply)
  BY <1>1, CallSends
<1>3. /\ call'[r].worker = "calling" /\ call'[r].attempts = number
      /\ call'[r].cut = call[r].cut /\ call'[r].result = call[r].result
      /\ call'[r].clock = call[r].clock
      /\ \A q \in Caller \ {r} : call'[q] = call[q]
  BY <1>2, Zenon DEF CallBecomes
<1>4. /\ run'[k].at = "sent" /\ run'[k].wait = run[k].wait /\ run'[k].reply = run[k].reply
      /\ \A j \in Runs \ {k} : run'[j] = run[j]
  BY <1>2, Zenon DEF RunBecomes
<1>5. k \in Runs /\ k[1] = r
  BY DEF Runs
<1>6. \A n \in 1 .. MaxAttempts : n # number => run'[<<r, n>>] = run[<<r, n>>]
  <2> SUFFICES ASSUME NEW n \in 1 .. MaxAttempts, n # number
               PROVE  run'[<<r, n>>] = run[<<r, n>>]
    OBVIOUS
  <2>1. <<r, n>> \in Runs /\ <<r, n>> # k
    BY DEF Runs
  <2> QED
    BY <1>4, <2>1, Zenon
<1>7. call[r].attempts \in 0 .. MaxAttempts /\ MaxAttempts \in Nat
  BY <1>1, CallIs, WorkflowAssumption
<1>8. call[r].result = Nothing /\ ~call[r].cut
  BY <1>1, KindsDiffer, SMT DEF ControlOf
<1>9. run[k].at = "none" /\ run[k].wait = 0
  <2>1. call[r].attempts < number
    BY <1>7
  <2> QED
    BY <1>1, <2>1, Zenon DEF ControlOf
<1>10. AiTypeOK'
  <2>1. DOMAIN call' = Caller /\ \A q \in Caller : IsCall(call'[q])
    <3>1. "calling" \in Workers /\ number \in 0 .. MaxAttempts
      BY <1>7 DEF Workers
    <3> QED
      BY <1>1, <1>2, <3>1, CallTyped, CallIs
  <2>2. DOMAIN run' = Runs /\ \A j \in Runs : IsRun(run'[j])
    <3>1. "sent" \in Places
      BY DEF Places
    <3> HIDE DEF k
    <3> QED
      BY <1>1, <1>2, <1>5, <3>1, RunTyped, PlacesOf
  <2> QED
    BY <1>1, <2>1, <2>2, TypesTogether
<1>11. AllSound'
  <2>1. \A j \in Runs :
          \/ run'[j] = run[j]
          \/ run'[j].reply = run[j].reply /\ run'[j].at # "generating"
    BY <1>4, SMT
  <2> QED
    BY <1>1, <1>3, <2>1, SoundnessKept
<1>12. ControlOf(r)'
  <2>1. ASSUME NEW n \in 1 .. MaxAttempts
        PROVE  /\ run'[<<r, n>>].at = "none" <=> number < n
               /\ run'[<<r, n>>].at = "none" => run'[<<r, n>>].wait = 0
    <3>1. CASE n = number
      BY <1>4, <3>1, SMT
    <3>2. CASE n # number
      <4>1. call[r].attempts < n <=> number < n
        BY <1>7, <3>2
      <4>2. run'[<<r, n>>] = run[<<r, n>>]
        BY <1>6, <3>2
      <4> QED
        BY <1>1, <4>1, <4>2, Zenon DEF ControlOf
    <3> QED
      BY <3>1, <3>2
  <2> QED
    BY <1>3, <1>8, <2>1, KindsDiffer, SMT DEF ControlOf, TimedOut, Fallback, Nothing
<1>13. HearingOf(r)'
  <2> SUFFICES ASSUME NEW n \in 1 .. MaxAttempts, run'[<<r, n>>].at = "heard"
               PROVE  /\ n # number
                      /\ n < number => Transient(run'[<<r, n>>].reply.code)
                      /\ ~(call'[r].result.kind = "fallback" /\ ~call'[r].cut)
    BY <1>3, SMT DEF HearingOf, FellBack, Transient, Rejections
  <2>1. n # number
    BY <1>4, SMT
  <2>2. ASSUME n < number PROVE Transient(run'[<<r, n>>].reply.code)
    <3>1. run'[<<r, n>>] = run[<<r, n>>]
      BY <1>6, <2>1
    <3>2. n <= call[r].attempts
      BY <1>7, <2>2
    <3>3. call[r].worker = "backoff"
      <4>1. call[r].attempts # 0
        BY <3>2, <1>7
      <4> QED
        BY <1>1, <4>1, Zenon DEF ControlOf
    <3> QED
      BY <1>1, <3>1, <3>3, Zenon DEF HearingOf
  <2>3. ~(call'[r].result.kind = "fallback")
    BY <1>3, <1>8, KindsDiffer, SMT
  <2> QED
    BY <2>1, <2>2, <2>3
<1>14. ClockOf(r)'
  <2> SUFFICES ASSUME number = 1
               PROVE  call[r].clock <= run'[<<r, 1>>].wait /\ run'[<<r, 1>>].wait <= Latency
    BY <1>3, <1>4, SMT DEF ClockOf, Young, Nothing
  <2>1. call[r].worker = "entering"
    <3>1. call[r].attempts = 0
      BY <1>7
    <3> QED
      BY <1>1, <3>1, SMT DEF ControlOf
  <2>2. call[r].clock = 0
    BY <1>1, <1>8, <2>1, Zenon DEF ClockOf, Young
  <2>3. run'[<<r, 1>>].wait = 0
    BY <1>4, <1>9
  <2> QED
    BY <2>2, <2>3, BoundaryAssumption
<1>15. DeadlineOf(r)'
  BY <1>3, <1>8, KindsDiffer, SMT DEF DeadlineOf, TimedOut, Fallback, Nothing
<1>16. CallInv(r)'
  BY <1>12, <1>13, <1>14, <1>15 DEF CallInv
<1>17. \A j \in Runs : j[1] # r => run'[j] = run[j]
  BY <1>4, <1>5
<1> QED
  BY <1>3, <1>10, <1>11, <1>16, <1>17, ActorKeeps DEF AiInv

\* A step of the worker of r that ends it or lets it pause, and what r hears meanwhile.
LEMMA WorkerKeeps ==
  ASSUME AiInv, NEW r \in Caller, UNCHANGED scene, CallInv(r)', AiTypeOK', AllSound',
         \A q \in Caller \ {r} : call'[q] = call[q],
         \A j \in Runs : j[1] # r => run'[j] = run[j]
  PROVE  AiInv'
BY ActorKeeps DEF AiInv

\* ... with the runs left alone.
LEMMA EndsAlone ==
  ASSUME AiInv, NEW r \in Caller, UNCHANGED <<scene, run>>,
         call[r].worker \in {"entering", "calling", "backoff"},
         NEW res, res # TimedOut, res # Nothing \/ call[r].cut, res.kind # "success",
         WorkerEnds(r, res),
         res.kind = "fallback" => \A n \in 1 .. MaxAttempts :
           run[<<r, n>>].at = "heard" => run[<<r, n>>].reply.code \notin {200} \cup Rejections
  PROVE  AiInv'
<1> DEFINE told == IF call[r].result = Nothing THEN res ELSE call[r].result
<1>1. AiTypeOK /\ AllSound
  BY DEF AiInv
<1>2. CallBecomes(r, "ended", call[r].clock, call[r].attempts, call[r].cut, told)
  BY <1>1, CallEnds
<1>3. Hears(r)
  BY Zenon DEF Hears
<1>4. CallInv(r)'
  BY <1>2, <1>3, EndsKeeps
<1>5. AiTypeOK'
  <2>1. "ended" \in Workers
    BY DEF Workers
  <2> HIDE DEF told
  <2>2. DOMAIN call' = Caller /\ \A q \in Caller : IsCall(call'[q])
    BY <1>1, <1>2, <2>1, CallTyped, CallIs
  <2> QED
    BY <1>1, <2>2, TypesOfCalls
<1>6. call'[r].result = told /\ \A q \in Caller \ {r} : call'[q] = call[q]
  BY <1>2, Zenon DEF CallBecomes
<1>7. call'[r].result = call[r].result \/ call'[r].result.kind # "success"
  BY <1>6
<1>8. AllSound'
  BY <1>1, <1>6, <1>7, SoundnessKept
<1> QED
  BY <1>4, <1>5, <1>6, <1>8, WorkerKeeps

\* ... pausing, with the runs left alone.
LEMMA PausesAlone ==
  ASSUME AiInv, NEW r \in Caller, UNCHANGED <<scene, run>>,
         call[r].worker = "calling", call[r].attempts < MaxAttempts,
         call' = [call EXCEPT ![r].worker = "backoff"]
  PROVE  AiInv'
<1>1. AiTypeOK /\ AllSound
  BY DEF AiInv
<1>2. CallBecomes(r, "backoff", call[r].clock, call[r].attempts, call[r].cut, call[r].result)
  BY <1>1, CallWorker
<1>3. Hears(r)
  BY Zenon DEF Hears
<1>4. CallInv(r)'
  BY <1>2, <1>3, PausesKeeps
<1>5. AiTypeOK'
  <2>1. "backoff" \in Workers
    BY DEF Workers
  <2>2. DOMAIN call' = Caller /\ \A q \in Caller : IsCall(call'[q])
    BY <1>1, <1>2, <2>1, CallTyped, CallIs
  <2> QED
    BY <1>1, <2>2, TypesOfCalls
<1>6. call'[r].result = call[r].result /\ \A q \in Caller \ {r} : call'[q] = call[q]
  BY <1>2, Zenon DEF CallBecomes
<1>7. AllSound'
  BY <1>1, <1>6, SoundnessKept
<1> QED
  BY <1>4, <1>5, <1>6, <1>7, WorkerKeeps

LEMMA TransientIsNoRefusal ==
  ASSUME NEW code, Transient(code)
  PROVE  code \notin {200} \cup Rejections
BY SMT DEF Transient, Rejections, Malformed

\* While an attempt is open only transient replies have been heard.
LEMMA HeardWhileCalling ==
  ASSUME AiInv, NEW r \in Caller, call[r].worker \in {"entering", "calling"},
         NEW n \in 1 .. MaxAttempts, run[<<r, n>>].at = "heard"
  PROVE  n < call[r].attempts /\ run[<<r, n>>].reply.code \notin {200} \cup Rejections
<1>1. ControlOf(r) /\ HearingOf(r)
  BY DEF AiInv, CallInv
<1>2. ~(call[r].attempts < n)
  BY <1>1, SMT DEF ControlOf
<1>3. call[r].worker = "entering" => call[r].attempts = 0
  BY <1>1, SMT DEF ControlOf
<1>4. call[r].worker = "calling" => call[r].attempts # n
  BY <1>1, SMT DEF HearingOf
<1>5. n < call[r].attempts
  BY <1>2, <1>3, <1>4, CallIs, SMT DEF AiInv
<1>6. Transient(run[<<r, n>>].reply.code)
  BY <1>1, <1>5, Zenon DEF HearingOf
<1> QED
  BY <1>5, <1>6, TransientIsNoRefusal

\* Before the first attempt nothing has been heard.
LEMMA HeardNothing ==
  ASSUME AiInv, NEW r \in Caller, call[r].worker \in {"none", "entering"},
         NEW n \in 1 .. MaxAttempts
  PROVE  run[<<r, n>>].at # "heard"
<1>1. ControlOf(r)
  BY DEF AiInv, CallInv
<1>2. call[r].attempts = 0
  BY <1>1, SMT DEF ControlOf
<1>3. call[r].attempts < n
  BY <1>2
<1> QED
  BY <1>1, <1>3, SMT DEF ControlOf

LEMMA AnalyzeKeeps ==
  ASSUME AiInv, NEW r \in Caller, Analyze(r)
  PROVE  AiInv'
<1>1. ControlOf(r) /\ HearingOf(r) /\ ClockOf(r) /\ DeadlineOf(r) /\ AiTypeOK /\ AllSound
  BY DEF AiInv, CallInv
<1>2. /\ UNCHANGED <<scene, run>> /\ call[r].worker = "none"
      /\ call' = [call EXCEPT ![r].worker = "entering"]
  BY Zenon DEF Analyze, python
<1>3. CallBecomes(r, "entering", call[r].clock, call[r].attempts, call[r].cut, call[r].result)
  BY <1>1, <1>2, CallWorker
<1>4. /\ call'[r].worker = "entering" /\ call'[r].attempts = call[r].attempts
      /\ call'[r].cut = call[r].cut /\ call'[r].result = call[r].result
      /\ call'[r].clock = call[r].clock /\ \A q \in Caller \ {r} : call'[q] = call[q]
  BY <1>3, Zenon DEF CallBecomes
<1>5. AiTypeOK'
  <2>1. "entering" \in Workers
    BY DEF Workers
  <2>2. DOMAIN call' = Caller /\ \A q \in Caller : IsCall(call'[q])
    BY <1>1, <1>3, <2>1, CallTyped, CallIs
  <2> QED
    BY <1>1, <1>2, <2>2, TypesOfCalls
<1>6. AllSound'
  BY <1>1, <1>2, <1>4, SoundnessKept
<1>7. call[r].attempts = 0 /\ call[r].result = Nothing
  BY <1>1, <1>2, SMT DEF ControlOf
<1>8. ControlOf(r)'
  <2>1. \A n \in 1 .. MaxAttempts :
          /\ run'[<<r, n>>].at = "none" <=> call'[r].attempts < n
          /\ run'[<<r, n>>].at = "none" => run'[<<r, n>>].wait = 0
    BY <1>1, <1>2, <1>4, Zenon DEF ControlOf
  <2>2. /\ call'[r].cut => call'[r].result # Nothing
        /\ call'[r].result = TimedOut => call'[r].cut
    BY <1>1, <1>4, SMT DEF ControlOf
  <2> QED
    BY <1>4, <1>7, <2>1, <2>2, SMT DEF ControlOf, TimedOut, Fallback, Nothing
<1>9. HearingOf(r)'
  <2>1. ASSUME NEW n \in 1 .. MaxAttempts PROVE run'[<<r, n>>].at # "heard"
    BY <1>2, HeardNothing
  <2> QED
    BY <2>1, Zenon DEF HearingOf
<1>10. ClockOf(r)'
  <2>1. call[r].clock = 0
    BY <1>1, <1>2, <1>7, SMT DEF ClockOf, Young
  <2> QED
    BY <1>4, <2>1, SMT DEF ClockOf, Young
<1>11. DeadlineOf(r)'
  BY <1>4, <1>7, KindsDiffer, SMT DEF DeadlineOf, TimedOut, Fallback, Nothing
<1> QED
  BY <1>2, <1>4, <1>5, <1>6, <1>8, <1>9, <1>10, <1>11, WorkerKeeps DEF CallInv

LEMMA TurnedAwayKeeps ==
  ASSUME AiInv, NEW r \in Caller, TurnedAway(r)
  PROVE  AiInv'
<1> DEFINE res == Fallback("ai_service_unavailable")
<1>1. /\ UNCHANGED <<scene, run>> /\ call[r].worker = "entering" /\ WorkerEnds(r, res)
  BY Zenon DEF TurnedAway, python
<1>2. res # TimedOut /\ res # Nothing /\ res.kind = "fallback"
  BY KindsDiffer, "ai_service_unavailable" # "ai_service_timeout"
<1> HIDE DEF res
<1>3. res.kind # "success"
  BY <1>2
<1>4. \A n \in 1 .. MaxAttempts :
        run[<<r, n>>].at = "heard" => run[<<r, n>>].reply.code \notin {200} \cup Rejections
  BY <1>1, HeardWhileCalling
<1> QED
  BY <1>1, <1>2, <1>3, <1>4, EndsAlone

LEMMA EnterKeeps ==
  ASSUME AiInv, NEW r \in Caller, Enter(r)
  PROVE  AiInv'
<1>1. call[r].worker = "entering" /\ ~call[r].cut /\ Send(r, 1) /\ UNCHANGED scene
  BY Zenon DEF Enter, Send
<1>2. call[r].attempts = 0
  BY <1>1, SMT DEF AiInv, CallInv, ControlOf
<1>3. 1 \in 1 .. MaxAttempts /\ 1 = call[r].attempts + 1
  BY <1>2, WorkflowAssumption
<1> QED
  BY <1>1, <1>3, SendsKeeps

LEMMA RetryKeeps ==
  ASSUME AiInv, NEW r \in Caller, Retry(r)
  PROVE  AiInv'
<1>1. /\ call[r].worker = "backoff" /\ ~call[r].cut /\ Send(r, call[r].attempts + 1)
      /\ UNCHANGED scene
  BY Zenon DEF Retry, Send
<1>2. call[r].attempts < MaxAttempts
  BY <1>1, SMT DEF AiInv, CallInv, ControlOf
<1>3. call[r].attempts + 1 \in 1 .. MaxAttempts
  BY <1>2, CallIs, WorkflowAssumption DEF AiInv
<1> QED
  BY <1>1, <1>3, SendsKeeps

LEMMA ConnectionFailsKeeps ==
  ASSUME AiInv, NEW r \in Caller, ConnectionFails(r)
  PROVE  AiInv'
<1> DEFINE res == Fallback("ai_service_unavailable")
<1>1. UNCHANGED <<scene, run>> /\ call[r].worker = "calling"
  BY Zenon DEF ConnectionFails, python
<1>2. CASE call[r].attempts < MaxAttempts
  <2>1. call' = [call EXCEPT ![r].worker = "backoff"]
    BY <1>2, Zenon DEF ConnectionFails, AttemptFails
  <2> QED
    BY <1>1, <1>2, <2>1, PausesAlone
<1>3. CASE ~(call[r].attempts < MaxAttempts)
  <2>1. WorkerEnds(r, res)
    BY <1>3, Zenon DEF ConnectionFails, AttemptFails
  <2>2. res # TimedOut /\ res # Nothing /\ res.kind = "fallback"
    BY KindsDiffer, "ai_service_unavailable" # "ai_service_timeout"
  <2> HIDE DEF res
  <2>3. res.kind # "success"
    BY <2>2
  <2>4. \A n \in 1 .. MaxAttempts :
          run[<<r, n>>].at = "heard" => run[<<r, n>>].reply.code \notin {200} \cup Rejections
    BY <1>1, HeardWhileCalling
  <2> QED
    BY <1>1, <2>1, <2>2, <2>3, <2>4, EndsAlone
<1> QED
  BY <1>2, <1>3

LEMMA UnwindKeeps ==
  ASSUME AiInv, NEW r \in Caller, Unwind(r)
  PROVE  AiInv'
<1>1. /\ UNCHANGED <<scene, run>> /\ call[r].worker \in {"entering", "calling", "backoff"}
      /\ WorkerEnds(r, Nothing) /\ call[r].cut
  BY Zenon DEF Unwind, python
<1>2. Nothing # TimedOut /\ Nothing.kind # "success" /\ Nothing.kind # "fallback"
  BY KindsDiffer
<1> QED
  BY <1>1, <1>2, EndsAlone

\* future.get() gives up, for any reason that leaves what is said of deadlines true.
LEMMA GivesUpKeeps ==
  ASSUME AiInv, NEW r \in Caller, NEW reason, GivesUp(r, reason), DeadlineOf(r)'
  PROVE  AiInv'
<1> DEFINE told == Fallback(reason)
<1>1. ControlOf(r) /\ HearingOf(r) /\ ClockOf(r) /\ DeadlineOf(r) /\ AiTypeOK /\ AllSound
  BY DEF AiInv, CallInv
<1>2. UNCHANGED <<scene, run>> /\ call[r].worker # "none" /\ call[r].result = Nothing
  BY Zenon DEF GivesUp, Waiting, python
<1>3. CallBecomes(r, call[r].worker, call[r].clock, call[r].attempts, TRUE, told)
  BY <1>1, CallGivesUp
<1>4. told # Nothing /\ told.kind # "success"
  BY KindsDiffer
<1> HIDE DEF told
<1>5. /\ call'[r].worker = call[r].worker /\ call'[r].attempts = call[r].attempts
      /\ call'[r].cut = TRUE /\ call'[r].result = told
      /\ \A q \in Caller \ {r} : call'[q] = call[q]
  BY <1>3, Zenon DEF CallBecomes
<1>6. AiTypeOK'
  <2>1. DOMAIN call' = Caller /\ \A q \in Caller : IsCall(call'[q])
    BY <1>1, <1>3, CallTyped, CallIs
  <2> QED
    BY <1>1, <1>2, <2>1, TypesOfCalls
<1>7. AllSound'
  BY <1>1, <1>2, <1>4, <1>5, SoundnessKept
<1>8. ControlOf(r)'
  <2>1. \A n \in 1 .. MaxAttempts :
          /\ run'[<<r, n>>].at = "none" <=> call'[r].attempts < n
          /\ run'[<<r, n>>].at = "none" => run'[<<r, n>>].wait = 0
    BY <1>1, <1>2, <1>5, Zenon DEF ControlOf
  <2>2. /\ call[r].worker \in {"none", "entering"} => call[r].attempts = 0
        /\ call[r].worker \in {"calling", "backoff"} => call[r].attempts >= 1
        /\ call[r].worker = "backoff" => call[r].attempts < MaxAttempts
    BY <1>1, SMT DEF ControlOf
  <2> QED
    BY <1>2, <1>4, <1>5, <2>1, <2>2, SMT DEF ControlOf, TimedOut, Fallback, Nothing
<1>9. HearingOf(r)'
  <2> SUFFICES ASSUME NEW n \in 1 .. MaxAttempts, run[<<r, n>>].at = "heard"
               PROVE  LET code == run[<<r, n>>].reply.code
                      IN  /\ call[r].attempts = n => call[r].worker # "calling"
                          /\ n < call[r].attempts \/ call[r].worker = "backoff"
                               => Transient(code)
    BY <1>2, <1>5, SMT DEF HearingOf, FellBack, Transient, Rejections
  <2> QED
    BY <1>1, Zenon DEF HearingOf
<1>10. ClockOf(r)'
  BY <1>4, <1>5, Zenon DEF ClockOf
<1> QED
  BY <1>2, <1>5, <1>6, <1>7, <1>8, <1>9, <1>10, WorkerKeeps DEF CallInv

\* The deadline speaks only after the service had its time and both messages theirs.
LEMMA DeadlineKeeps ==
  ASSUME AiInv, NEW r \in Caller, JavaDeadline(r)
  PROVE  AiInv'
<1>1. ControlOf(r) /\ HearingOf(r) /\ ClockOf(r) /\ AiTypeOK
  BY DEF AiInv, CallInv
<1>2. /\ GivesUp(r, "ai_service_timeout") /\ UNCHANGED <<scene, run>>
      /\ call[r].worker # "none" /\ call[r].result = Nothing
      /\ call[r].clock >= scene.budget.java
  BY Zenon DEF JavaDeadline, GivesUp, Waiting, python
<1>3. call'[r].attempts = call[r].attempts
  BY <1>1, <1>2, CallGivesUp, Zenon DEF CallBecomes
<1>4. /\ call[r].clock \in Nat /\ scene.budget.java \in Nat /\ scene.budget.processing \in Nat
      /\ scene.budget.provider \in Nat /\ scene.budget.retries \in Nat
      /\ Latency \in Nat /\ Margin \in Nat /\ Overhead \in Nat /\ 2 * Latency <= Margin
  BY <1>1, CallIs, SceneIs, WorkflowAssumption, BoundaryAssumption
<1>5. call[r].clock > scene.budget.processing + 2 * Latency
  <2>1. scene.budget.java > scene.budget.processing + Margin
    BY <1>1, Zenon DEF AiTypeOK, SafeBudget
  <2> QED
    BY <1>2, <1>4, <2>1
<1>6. Young(call[r], run[<<r, 1>>], scene.budget.processing)
  BY <1>1, <1>2, Zenon DEF ClockOf
<1>7. call[r].worker \in {"calling", "backoff"}
  <2>1. call[r].worker \notin {"none", "entering"}
    BY <1>4, <1>5, <1>6, SMT DEF Young
  <2>2. call[r].worker # "ended"
    BY <1>1, <1>2, SMT DEF ControlOf
  <2> QED
    BY <1>1, <2>1, <2>2, CallIs DEF Workers
<1>8. DeadlineOf(r)'
  <2> SUFFICES ASSUME call[r].attempts = 1
               PROVE  run[<<r, 1>>].at = "lost"
    BY <1>2, <1>3, Zenon DEF DeadlineOf
  <2>1. <<r, 1>> \in Runs /\ 1 \in 1 .. MaxAttempts
    BY FirstRun, WorkflowAssumption
  <2>2. /\ run[<<r, 1>>].at \in Places /\ run[<<r, 1>>].age \in Nat
        /\ run[<<r, 1>>].wait \in Nat
    BY <1>1, <2>1, PlacesOf
  <2>3. run[<<r, 1>>].at # "none"
    <3>1. ~(call[r].attempts < 1)
      BY <1>1, CallIs
    <3> QED
      BY <1>1, <2>1, <3>1, Zenon DEF ControlOf
  <2>4. call[r].worker = "calling" => run[<<r, 1>>].at # "heard"
    BY <1>1, <2>1, SMT DEF HearingOf
  <2> QED
    BY <1>4, <1>5, <1>6, <1>7, <2>2, <2>3, <2>4, SMT DEF Young, Places
<1> QED
  BY <1>2, <1>8, GivesUpKeeps

\* An interrupt of the caller says nothing of deadlines.
LEMMA InterruptKeeps ==
  ASSUME AiInv, NEW r \in Caller, CallerInterrupted(r)
  PROVE  AiInv'
<1>1. GivesUp(r, "ai_service_unavailable") /\ AiTypeOK
  BY Zenon DEF CallerInterrupted, AiInv
<1>2. call'[r].result = Fallback("ai_service_unavailable")
  BY <1>1, CallGivesUp, Zenon DEF CallBecomes
<1>3. call'[r].result # TimedOut
  BY <1>2, KindsDiffer, "ai_service_unavailable" # "ai_service_timeout"
<1>4. DeadlineOf(r)'
  BY <1>3, Zenon DEF DeadlineOf
<1> QED
  BY <1>1, <1>4, GivesUpKeeps

\* What the worker of r hears is the reply of its current attempt.
HearsAttempt(r) ==
  /\ call[r].worker = "calling" /\ run[Attempt(r)].at = "replied"
  /\ run' = [run EXCEPT ![Attempt(r)].at = "heard"]

LEMMA AttemptIs ==
  ASSUME AiInv, NEW r \in Caller, HearsAttempt(r)
  PROVE  /\ Attempt(r) \in Runs /\ Attempt(r) = <<r, call[r].attempts>>
         /\ Attempt(r)[1] = r /\ call[r].attempts \in 1 .. MaxAttempts
<1>1. call[r].attempts >= 1
  BY SMT DEF AiInv, CallInv, ControlOf, HearsAttempt
<1>2. call[r].attempts \in 1 .. MaxAttempts
  BY <1>1, CallIs, WorkflowAssumption DEF AiInv
<1> QED
  BY <1>2, InRuns DEF Attempt

LEMMA HearingRuns ==
  ASSUME AiInv, NEW r \in Caller, HearsAttempt(r)
  PROVE  /\ Hears(r)
         /\ DOMAIN run' = Runs /\ \A j \in Runs : IsRun(run'[j])
         /\ \A j \in Runs : j[1] # r => run'[j] = run[j]
         /\ \A j \in Runs :
              \/ run'[j] = run[j]
              \/ run'[j].reply = run[j].reply /\ run'[j].at # "generating"
         /\ \A n \in 1 .. MaxAttempts : n # call[r].attempts => run'[<<r, n>>] = run[<<r, n>>]
         /\ run'[Attempt(r)].reply = run[Attempt(r)].reply
<1> DEFINE k == Attempt(r)
<1>1. k \in Runs /\ k = <<r, call[r].attempts>> /\ k[1] = r
  BY AttemptIs
<1>2. AiTypeOK /\ run[k].at = "replied" /\ run' = [run EXCEPT ![k].at = "heard"]
      /\ call[r].worker = "calling"
  BY DEF AiInv, HearsAttempt
<1> HIDE DEF k
<1>3. RunBecomes(k, "heard", run[k].age, run[k].wait, run[k].hits, run[k].reply)
  BY <1>1, <1>2, RunMoves
<1>4. /\ run'[k].at = "heard" /\ run'[k].reply = run[k].reply
      /\ \A j \in Runs \ {k} : run'[j] = run[j]
  BY <1>3, Zenon DEF RunBecomes
<1>5. ASSUME NEW n \in 1 .. MaxAttempts, n # call[r].attempts
      PROVE  run'[<<r, n>>] = run[<<r, n>>]
  <2>1. <<r, n>> \in Runs /\ <<r, n>> # k
    BY <1>1, <1>5, InRuns
  <2> QED
    BY <1>4, <2>1, Zenon
<1>6. Hears(r)
  <2> SUFFICES ASSUME NEW n \in 1 .. MaxAttempts
               PROVE  \/ run'[<<r, n>>] = run[<<r, n>>]
                      \/ /\ n = call[r].attempts
                         /\ run[<<r, n>>].at = "replied" /\ run'[<<r, n>>].at = "heard"
                         /\ run'[<<r, n>>].reply = run[<<r, n>>].reply
    BY <1>2 DEF Hears
  <2>1. CASE n = call[r].attempts
    BY <1>1, <1>2, <1>4, <2>1
  <2>2. CASE n # call[r].attempts
    BY <1>5, <2>2
  <2> QED
    BY <2>1, <2>2
<1>7. DOMAIN run' = Runs /\ \A j \in Runs : IsRun(run'[j])
  <2>1. "heard" \in Places
    BY DEF Places
  <2> QED
    BY <1>1, <1>2, <1>3, <2>1, RunTyped, PlacesOf
<1>8. \A j \in Runs : j[1] # r => run'[j] = run[j]
  BY <1>1, <1>4
<1>9. \A j \in Runs :
        \/ run'[j] = run[j]
        \/ run'[j].reply = run[j].reply /\ run'[j].at # "generating"
  BY <1>4, SMT
<1> QED
  BY <1>4, <1>5, <1>6, <1>7, <1>8, <1>9 DEF k

\* The worker hears its reply and ends.
LEMMA EndsHearing ==
  ASSUME AiInv, NEW r \in Caller, UNCHANGED scene, HearsAttempt(r),
         NEW res, res # TimedOut, res # Nothing,
         res.kind = "success" => SoundAnswer(res.answer),
         res.kind = "fallback" => run[Attempt(r)].reply.code \notin {200} \cup Rejections,
         WorkerEnds(r, res)
  PROVE  AiInv'
<1> DEFINE told == IF call[r].result = Nothing THEN res ELSE call[r].result
<1>1. AiTypeOK /\ AllSound
  BY DEF AiInv
<1>2. CallBecomes(r, "ended", call[r].clock, call[r].attempts, call[r].cut, told)
  BY <1>1, CallEnds
<1>3. /\ Hears(r)
      /\ DOMAIN run' = Runs /\ \A j \in Runs : IsRun(run'[j])
      /\ \A j \in Runs : j[1] # r => run'[j] = run[j]
      /\ \A j \in Runs :
           \/ run'[j] = run[j]
           \/ run'[j].reply = run[j].reply /\ run'[j].at # "generating"
      /\ \A n \in 1 .. MaxAttempts : n # call[r].attempts => run'[<<r, n>>] = run[<<r, n>>]
      /\ run'[Attempt(r)].reply = run[Attempt(r)].reply
  BY HearingRuns
<1>4. ASSUME res.kind = "fallback", NEW n \in 1 .. MaxAttempts, run'[<<r, n>>].at = "heard"
      PROVE  run'[<<r, n>>].reply.code \notin {200} \cup Rejections
  <2>1. CASE n = call[r].attempts
    BY <1>3, <1>4, <2>1, AttemptIs, Zenon
  <2>2. CASE n # call[r].attempts
    <3>1. run'[<<r, n>>] = run[<<r, n>>]
      BY <1>3, <2>2
    <3> QED
      BY <1>4, <3>1, HeardWhileCalling DEF HearsAttempt
  <2> QED
    BY <2>1, <2>2
<1>5. call[r].worker = "calling"
  BY DEF HearsAttempt
<1>6. CallInv(r)'
  BY <1>2, <1>3, <1>4, <1>5, EndsKeeps
<1>7. AiTypeOK'
  <2>1. "ended" \in Workers
    BY DEF Workers
  <2> HIDE DEF told
  <2>2. DOMAIN call' = Caller /\ \A q \in Caller : IsCall(call'[q])
    BY <1>1, <1>2, <2>1, CallTyped, CallIs
  <2> QED
    BY <1>1, <1>3, <2>2, TypesTogether
<1>8. call'[r].result = told /\ \A q \in Caller \ {r} : call'[q] = call[q]
  BY <1>2, Zenon DEF CallBecomes
<1>9. \/ call'[r].result = call[r].result
      \/ call'[r].result.kind # "success"
      \/ SoundAnswer(call'[r].result.answer)
  BY <1>8
<1>10. AllSound'
  BY <1>1, <1>3, <1>8, <1>9, SoundnessKept
<1> QED
  BY <1>3, <1>6, <1>7, <1>8, <1>10, WorkerKeeps

\* The worker hears a transient failure and has an attempt left.
LEMMA PausesHearing ==
  ASSUME AiInv, NEW r \in Caller, UNCHANGED scene, HearsAttempt(r),
         call[r].attempts < MaxAttempts, Transient(run[Attempt(r)].reply.code),
         call' = [call EXCEPT ![r].worker = "backoff"]
  PROVE  AiInv'
<1>1. AiTypeOK /\ AllSound /\ call[r].worker = "calling"
  BY DEF AiInv, HearsAttempt
<1>2. CallBecomes(r, "backoff", call[r].clock, call[r].attempts, call[r].cut, call[r].result)
  BY <1>1, CallWorker
<1>3. /\ Hears(r)
      /\ DOMAIN run' = Runs /\ \A j \in Runs : IsRun(run'[j])
      /\ \A j \in Runs : j[1] # r => run'[j] = run[j]
      /\ \A j \in Runs :
           \/ run'[j] = run[j]
           \/ run'[j].reply = run[j].reply /\ run'[j].at # "generating"
      /\ \A n \in 1 .. MaxAttempts : n # call[r].attempts => run'[<<r, n>>] = run[<<r, n>>]
      /\ run'[Attempt(r)].reply = run[Attempt(r)].reply
  BY HearingRuns
<1>4. ASSUME NEW n \in 1 .. MaxAttempts, run'[<<r, n>>] # run[<<r, n>>]
      PROVE  Transient(run'[<<r, n>>].reply.code)
  <2>1. n = call[r].attempts
    BY <1>3, <1>4
  <2> QED
    BY <1>3, <2>1, AttemptIs, Zenon
<1>5. CallInv(r)'
  BY <1>1, <1>2, <1>3, <1>4, PausesKeeps
<1>6. AiTypeOK'
  <2>1. "backoff" \in Workers
    BY DEF Workers
  <2>2. DOMAIN call' = Caller /\ \A q \in Caller : IsCall(call'[q])
    BY <1>1, <1>2, <2>1, CallTyped, CallIs
  <2> QED
    BY <1>1, <1>3, <2>2, TypesTogether
<1>7. call'[r].result = call[r].result /\ \A q \in Caller \ {r} : call'[q] = call[q]
  BY <1>2, Zenon DEF CallBecomes
<1>8. AllSound'
  BY <1>1, <1>3, <1>7, SoundnessKept
<1> QED
  BY <1>3, <1>5, <1>6, <1>7, <1>8, WorkerKeeps

LEMMA ReceiveKeeps ==
  ASSUME AiInv, NEW r \in Caller, Receive(r)
  PROVE  AiInv'
<1> DEFINE reply == run[Attempt(r)].reply
<1>1. HearsAttempt(r) /\ UNCHANGED scene
  BY Zenon DEF Receive, HearsAttempt
<1>2. SoundReply(reply)
  BY <1>1, AttemptIs, Zenon DEF AiInv, AllSound
<1>3. CASE reply.code = 200 /\ WorkerEnds(r, Success(reply.answer))
  <2> DEFINE res == Success(reply.answer)
  <2>1. res # TimedOut /\ res # Nothing /\ res.kind = "success" /\ res.answer = reply.answer
    BY KindsDiffer
  <2> HIDE DEF res
  <2>2. res.kind = "success" => SoundAnswer(res.answer)
    BY <1>2, <1>3, <2>1, Zenon DEF SoundReply
  <2>3. res.kind # "fallback" /\ WorkerEnds(r, res)
    BY <1>3, <2>1 DEF res
  <2> QED
    BY <1>1, <2>1, <2>2, <2>3, EndsHearing
<1>4. CASE reply.code = 504 /\ WorkerEnds(r, Fallback("processing_timeout"))
  <2> DEFINE res == Fallback("processing_timeout")
  <2>1. res # TimedOut /\ res # Nothing /\ res.kind = "fallback"
    BY KindsDiffer, "processing_timeout" # "ai_service_timeout"
  <2> HIDE DEF res
  <2>2. res.kind # "success" /\ reply.code \notin {200} \cup Rejections
    BY <1>4, <2>1, SMT DEF Rejections, Malformed
  <2>3. WorkerEnds(r, res)
    BY <1>4 DEF res
  <2> QED
    BY <1>1, <2>1, <2>2, <2>3, EndsHearing
<1>5. CASE Transient(reply.code) /\ AttemptFails(r, "ai_service_error")
  <2>1. CASE call[r].attempts < MaxAttempts
    <3>1. call' = [call EXCEPT ![r].worker = "backoff"]
      BY <1>5, <2>1, Zenon DEF AttemptFails
    <3> QED
      BY <1>1, <1>5, <2>1, <3>1, PausesHearing
  <2>2. CASE ~(call[r].attempts < MaxAttempts)
    <3> DEFINE res == Fallback("ai_service_error")
    <3>1. res # TimedOut /\ res # Nothing /\ res.kind = "fallback"
      BY KindsDiffer, "ai_service_error" # "ai_service_timeout"
    <3>2. WorkerEnds(r, res)
      BY <1>5, <2>2, Zenon DEF AttemptFails
    <3> HIDE DEF res
    <3>3. res.kind # "success" /\ reply.code \notin {200} \cup Rejections
      BY <1>5, <3>1, TransientIsNoRefusal
    <3> QED
      BY <1>1, <3>1, <3>2, <3>3, EndsHearing
  <2> QED
    BY <2>1, <2>2
<1>6. CASE WorkerEnds(r, Rejected(reply.code))
  <2> DEFINE res == Rejected(reply.code)
  <2>1. res # TimedOut /\ res # Nothing /\ res.kind = "rejected"
    BY KindsDiffer
  <2> HIDE DEF res
  <2>2. res.kind # "success" /\ res.kind # "fallback" /\ WorkerEnds(r, res)
    BY <1>6, <2>1 DEF res
  <2> QED
    BY <1>1, <2>1, <2>2, EndsHearing
<1> QED
  BY <1>3, <1>4, <1>5, <1>6, Zenon DEF Receive

----------------------------------------------------------------------------
(* The invariant is inductive: the clock. *)

LEMMA TickCalls ==
  ASSUME AiTypeOK, Tick, NEW r \in Caller
  PROVE  /\ DOMAIN call' = Caller /\ DOMAIN call'[r] = CallFields
         /\ call'[r].worker = call[r].worker /\ call'[r].attempts = call[r].attempts
         /\ call'[r].cut = call[r].cut /\ call'[r].result = call[r].result
         /\ call'[r].clock = IF Waiting(r) THEN call[r].clock + 1 ELSE call[r].clock
<1>1. DOMAIN call[r] = CallFields
  BY Zenon DEF AiTypeOK, IsCall
<1>2. /\ DOMAIN call' = Caller
      /\ call'[r] = IF Waiting(r) THEN [call[r] EXCEPT !.clock = @ + 1] ELSE call[r]
  BY Zenon DEF Tick
<1>3. CASE Waiting(r)
  <2>1. call'[r] = [call[r] EXCEPT !.clock = @ + 1]
    BY <1>2, <1>3, Zenon
  <2>2. DOMAIN call'[r] = CallFields
    BY <1>1, <2>1, Zenon
  <2> QED
    BY <1>1, <1>2, <1>3, <2>1, <2>2, SMT DEF CallFields
<1>4. CASE ~Waiting(r)
  BY <1>1, <1>2, <1>4, Zenon
<1> QED
  BY <1>3, <1>4

LEMMA TickRuns ==
  ASSUME AiTypeOK, Tick, NEW k \in Runs
  PROVE  /\ DOMAIN run' = Runs /\ DOMAIN run'[k] = RunFields
         /\ run'[k].at = run[k].at /\ run'[k].hits = run[k].hits
         /\ run'[k].reply = run[k].reply
         /\ run'[k].age = IF Processing(k) THEN run[k].age + 1 ELSE run[k].age
         /\ run'[k].wait = IF Processing(k) \/ Underway(k) THEN run[k].wait + 1 ELSE run[k].wait
<1>1. DOMAIN run[k] = RunFields
  BY Zenon DEF AiTypeOK, IsRun
<1>2. /\ DOMAIN run' = Runs
      /\ run'[k] = IF Processing(k) THEN [run[k] EXCEPT !.age = @ + 1, !.wait = @ + 1]
                   ELSE IF Underway(k) THEN [run[k] EXCEPT !.wait = @ + 1]
                   ELSE run[k]
  BY Zenon DEF Tick
<1>3. CASE Processing(k)
  <2>1. run'[k] = [run[k] EXCEPT !.age = @ + 1, !.wait = @ + 1]
    BY <1>2, <1>3, Zenon
  <2>2. DOMAIN run'[k] = RunFields
    BY <1>1, <2>1, Zenon
  <2> QED
    BY <1>1, <1>2, <1>3, <2>1, <2>2, SMT DEF RunFields
<1>4. CASE ~Processing(k) /\ Underway(k)
  <2>1. run'[k] = [run[k] EXCEPT !.wait = @ + 1]
    BY <1>2, <1>4, Zenon
  <2>2. DOMAIN run'[k] = RunFields
    BY <1>1, <2>1, Zenon
  <2> QED
    BY <1>1, <1>2, <1>4, <2>1, <2>2, SMT DEF RunFields
<1>5. CASE ~Processing(k) /\ ~Underway(k)
  BY <1>1, <1>2, <1>5, Zenon
<1> QED
  BY <1>3, <1>4, <1>5

\* The clock does not move while a caller waits outside of a call or a message, or a
\* run the service works on, has had its time.
LEMMA TickKeepsClocks ==
  ASSUME AiInv, Tick, NEW r \in Caller
  PROVE  ClockOf(r)'
<1> DEFINE k == <<r, 1>>
           processing == scene.budget.processing
<1>1. AiTypeOK /\ ControlOf(r) /\ ClockOf(r) /\ k \in Runs /\ scene' = scene /\ ~Due
  BY FirstRun, Zenon DEF AiInv, CallInv, Tick
<1>2. /\ call'[r].worker = call[r].worker /\ call'[r].attempts = call[r].attempts
      /\ call'[r].result = call[r].result
      /\ call'[r].clock = IF Waiting(r) THEN call[r].clock + 1 ELSE call[r].clock
  BY <1>1, TickCalls
<1>3. /\ run'[k].at = run[k].at
      /\ run'[k].age = IF Processing(k) THEN run[k].age + 1 ELSE run[k].age
      /\ run'[k].wait = IF Processing(k) \/ Underway(k) THEN run[k].wait + 1 ELSE run[k].wait
  BY <1>1, TickRuns
<1>4. /\ call[r].clock \in Nat /\ processing \in Nat /\ Latency \in Nat
      /\ run[k].age \in Nat /\ run[k].wait \in Nat
  BY <1>1, CallIs, SceneIs, PlacesOf, BoundaryAssumption
<1> SUFFICES ASSUME call[r].result = Nothing
             PROVE  Young(call'[r], run'[k], processing)
  BY <1>1, <1>2, SMT DEF ClockOf, Young, Nothing
<1>5. Young(call[r], run[k], processing)
  BY <1>1, Zenon DEF ClockOf
<1>6. call[r].worker \notin {"entering", "backoff"}
  BY <1>1, SMT DEF Due, Waiting
<1>7. CASE call[r].worker = "none"
  <2>1. ~Waiting(r)
    BY <1>7 DEF Waiting
  <2> QED
    BY <1>2, <1>5, <1>7, <2>1, SMT DEF Young
<1>8. CASE call[r].worker = "calling" /\ call[r].attempts = 1
  <2>1. Waiting(r) /\ k = Attempt(r) /\ k[1] = r
    BY <1>8, SMT DEF Waiting, Attempt
  <2>2. Underway(k) <=> run[k].at \in {"sent", "replied"}
    BY <1>8, <2>1 DEF Underway
  <2>3. /\ Processing(k) => ~(run[k].age >= processing)
        /\ Underway(k) => ~(run[k].wait >= Latency)
    BY <1>1, Zenon DEF Due
  <2>4. Processing(k) <=> run[k].at \in {"retrieving", "generating"}
    BY DEF Processing
  <2> HIDE DEF k, processing
  <2> QED
    BY <1>2, <1>3, <1>4, <1>5, <1>8, <2>1, <2>2, <2>3, <2>4, SMT DEF Young
<1>9. CASE (call[r].worker = "calling" /\ call[r].attempts # 1) \/ call[r].worker = "ended"
  BY <1>2, <1>9, SMT DEF Young
<1> QED
  BY <1>1, <1>6, <1>7, <1>8, <1>9, CallIs DEF Workers

LEMMA TickKeepsCall ==
  ASSUME AiInv, Tick, NEW r \in Caller
  PROVE  CallInv(r)'
<1>1. AiTypeOK /\ ControlOf(r) /\ HearingOf(r) /\ DeadlineOf(r)
  BY DEF AiInv, CallInv
<1>2. /\ call'[r].worker = call[r].worker /\ call'[r].attempts = call[r].attempts
      /\ call'[r].cut = call[r].cut /\ call'[r].result = call[r].result
  BY <1>1, TickCalls
<1>3. ASSUME NEW n \in 1 .. MaxAttempts
      PROVE  /\ run'[<<r, n>>].at = run[<<r, n>>].at
             /\ run'[<<r, n>>].reply = run[<<r, n>>].reply
             /\ run[<<r, n>>].at = "none" => run'[<<r, n>>].wait = run[<<r, n>>].wait
  <2> DEFINE k == <<r, n>>
  <2>1. k \in Runs
    BY InRuns
  <2> HIDE DEF k
  <2>2. run[k].at = "none" => ~Processing(k) /\ ~Underway(k)
    BY SMT DEF Processing, Underway
  <2>3. /\ run'[k].at = run[k].at /\ run'[k].reply = run[k].reply
        /\ run'[k].wait = IF Processing(k) \/ Underway(k) THEN run[k].wait + 1 ELSE run[k].wait
    BY <1>1, <2>1, TickRuns
  <2> QED
    BY <2>2, <2>3 DEF k
<1>4. ControlOf(r)'
  <2>1. \A n \in 1 .. MaxAttempts :
          /\ run'[<<r, n>>].at = "none" <=> call'[r].attempts < n
          /\ run'[<<r, n>>].at = "none" => run'[<<r, n>>].wait = 0
    BY <1>1, <1>2, <1>3, Zenon DEF ControlOf
  <2>2. /\ call'[r].worker \in {"none", "entering"} => call'[r].attempts = 0
        /\ call'[r].worker = "none" => call'[r].result = Nothing
        /\ call'[r].worker \in {"calling", "backoff"} => call'[r].attempts >= 1
        /\ call'[r].worker = "backoff" => call'[r].attempts < MaxAttempts
    BY <1>1, <1>2, Zenon DEF ControlOf
  <2>3. /\ call'[r].worker = "ended" => call'[r].result # Nothing
        /\ call'[r].result # Nothing => call'[r].cut \/ call'[r].worker = "ended"
        /\ call'[r].cut => call'[r].result # Nothing
        /\ call'[r].result = TimedOut => call'[r].cut
    BY <1>1, <1>2, SMT DEF ControlOf
  <2> QED
    BY <2>1, <2>2, <2>3 DEF ControlOf, TimedOut, Fallback, Nothing
<1>5. HearingOf(r)'
  BY <1>1, <1>2, <1>3, Zenon DEF HearingOf, FellBack
<1>6. DeadlineOf(r)'
  <2>1. 1 \in 1 .. MaxAttempts
    BY WorkflowAssumption
  <2> QED
    BY <1>1, <1>2, <1>3, <2>1, Zenon DEF DeadlineOf
<1> QED
  BY <1>4, <1>5, <1>6, TickKeepsClocks DEF CallInv

LEMMA TickKeeps ==
  ASSUME AiInv, Tick
  PROVE  AiInv'
<1>1. AiTypeOK /\ AllSound /\ scene' = scene
  BY Zenon DEF AiInv, Tick
<1>2. ASSUME NEW r \in Caller
      PROVE  IsCall(call'[r]) /\ call'[r].result = call[r].result
  <2>1. /\ DOMAIN call'[r] = CallFields
        /\ call'[r].worker = call[r].worker /\ call'[r].attempts = call[r].attempts
        /\ call'[r].cut = call[r].cut /\ call'[r].result = call[r].result
        /\ call'[r].clock = IF Waiting(r) THEN call[r].clock + 1 ELSE call[r].clock
    BY <1>1, TickCalls
  <2>2. call'[r].clock \in Nat
    BY <1>1, <2>1, CallIs
  <2> QED
    BY <1>1, <2>1, <2>2, CallIs DEF IsCall
<1>3. ASSUME NEW k \in Runs
      PROVE  /\ IsRun(run'[k])
             /\ run'[k].at = run[k].at /\ run'[k].hits = run[k].hits
             /\ run'[k].reply = run[k].reply
  <2>1. /\ DOMAIN run'[k] = RunFields
        /\ run'[k].at = run[k].at /\ run'[k].hits = run[k].hits
        /\ run'[k].reply = run[k].reply
        /\ run'[k].age = IF Processing(k) THEN run[k].age + 1 ELSE run[k].age
        /\ run'[k].wait = IF Processing(k) \/ Underway(k) THEN run[k].wait + 1 ELSE run[k].wait
    BY <1>1, TickRuns
  <2>2. run'[k].age \in Nat /\ run'[k].wait \in Nat
    BY <1>1, <2>1, PlacesOf
  <2> QED
    BY <1>1, <2>1, <2>2, PlacesOf DEF IsRun
<1>4. DOMAIN call' = Caller /\ DOMAIN run' = Runs
  BY Zenon DEF Tick
<1>5. AiTypeOK'
  BY <1>1, <1>2, <1>3, <1>4, TypesTogether
<1>6. AllSound'
  <2>1. \A k \in Runs :
          /\ SoundReply(run'[k].reply)
          /\ run'[k].at = "generating" => run'[k].hits \in scene.hits /\ run'[k].hits # <<>>
    BY <1>1, <1>3, Zenon DEF AllSound
  <2>2. \A r \in Caller : call'[r].result.kind = "success" => SoundAnswer(call'[r].result.answer)
    BY <1>1, <1>2, Zenon DEF AllSound, Answered
  <2> QED
    BY <1>1, <2>1, <2>2 DEF AllSound, SoundReply, SoundAnswer, Live, Answered
<1> QED
  BY <1>5, <1>6, TickKeepsCall DEF AiInv

----------------------------------------------------------------------------
(* The invariant is inductive: every step. *)

LEMMA InitAiInv ==
  ASSUME Init
  PROVE  AiInv
<1>1. /\ scene \in Scenes /\ SafeBudget(scene.budget)
      /\ run = [k \in Runs |-> NoRun] /\ call = [r \in Caller |-> NewCall]
  BY DEF Init, PythonInit
<1>2. ASSUME NEW k \in Runs PROVE run[k] = NoRun
  BY <1>1
<1>3. ASSUME NEW r \in Caller PROVE call[r] = NewCall
  BY <1>1
<1>4. /\ DOMAIN NewCall = CallFields /\ NewCall.worker = "none" /\ NewCall.clock = 0
      /\ NewCall.attempts = 0 /\ NewCall.cut = FALSE /\ NewCall.result = Nothing
  BY DEF NewCall, CallFields
<1>5. AiTypeOK
  <2>1. IsCall(NewCall)
    <3>1. "none" \in Workers /\ 0 \in Nat /\ 0 \in 0 .. MaxAttempts
      BY WorkflowAssumption DEF Workers
    <3> QED
      BY <1>4, <3>1, Zenon DEF IsCall
  <2> QED
    BY <1>1, <1>2, <1>3, <2>1, NoRunIs, Zenon DEF AiTypeOK
<1>6. AllSound
  <2>1. SoundReply(NoRun.reply)
    BY NoRunIs DEF SoundReply
  <2>2. NoRun.at # "generating"
    BY NoRunIs
  <2>3. NewCall.result.kind # "success"
    BY <1>4, KindsDiffer
  <2> QED
    BY <1>2, <1>3, <2>1, <2>2, <2>3, Zenon DEF AllSound, Answered
<1>7. ASSUME NEW r \in Caller PROVE CallInv(r)
  <2>1. ASSUME NEW n \in 1 .. MaxAttempts PROVE run[<<r, n>>] = NoRun
    BY <1>2, InRuns
  <2>2. ControlOf(r)
    <3>1. ASSUME NEW n \in 1 .. MaxAttempts
          PROVE  /\ run[<<r, n>>].at = "none" <=> call[r].attempts < n
                 /\ run[<<r, n>>].at = "none" => run[<<r, n>>].wait = 0
      BY <1>3, <1>4, <2>1, NoRunIs, SMT
    <3>2. call[r].worker = "none" /\ call[r].attempts = 0 /\ ~call[r].cut
          /\ call[r].result = Nothing
      BY <1>3, <1>4
    <3> QED
      BY <3>1, <3>2, KindsDiffer, SMT DEF ControlOf
  <2>3. HearingOf(r)
    <3>1. NoRun.at # "heard"
      BY NoRunIs
    <3> QED
      BY <2>1, <3>1, Zenon DEF HearingOf
  <2>4. ClockOf(r)
    BY <1>3, <1>4, SMT DEF ClockOf, Young
  <2>5. DeadlineOf(r)
    BY <1>3, <1>4, KindsDiffer DEF DeadlineOf
  <2> QED
    BY <2>2, <2>3, <2>4, <2>5 DEF CallInv
<1> QED
  BY <1>5, <1>6, <1>7 DEF AiInv

\* A step that leaves the scene, the calls and the runs alone.
LEMMA StillKeeps ==
  ASSUME AiInv, UNCHANGED <<scene, call, run>>
  PROVE  AiInv'
<1>1. AiTypeOK' /\ AllSound'
  <2>1. AiTypeOK'
    BY Zenon DEF AiInv, AiTypeOK, SafeBudget, IsRun, IsCall
  <2> QED
    BY <2>1 DEF AiInv, AllSound, SoundReply, SoundAnswer, Live, Answered
<1>2. ASSUME NEW r \in Caller PROVE CallInv(r)'
  BY OthersKeep DEF AiInv
<1> QED
  BY <1>1, <1>2 DEF AiInv

LEMMA NextKeeps ==
  ASSUME AiInv, [Next]_vars
  PROVE  AiInv'
<1>1. ASSUME NEW r \in Caller, Client(r) PROVE AiInv'
  BY <1>1, AnalyzeKeeps, EnterKeeps, TurnedAwayKeeps, ReceiveKeeps, ConnectionFailsKeeps,
     RetryKeeps, DeadlineKeeps, InterruptKeeps, UnwindKeeps DEF Client
<1>2. ASSUME NEW k \in Runs, Service(k) PROVE AiInv'
  <2>1. ServiceEffect(k)
    BY <1>2, ServiceSteps DEF Service, AiInv
  <2>2. UNCHANGED <<scene, call>>
    BY <1>2, Zenon DEF Service, PythonStep, Arrive, Retrieve, RetrievalFails,
       ArtifactUnusable, Generate, GenerationFails, ProcessingDeadline
  <2> QED
    BY <2>1, <2>2, ServiceKeeps
<1>3. ASSUME NEW k \in Runs, Overload(k) \/ Lose(k) PROVE AiInv'
  <2>1. ServiceEffect(k)
    BY <1>3, NetworkSteps DEF AiInv
  <2>2. UNCHANGED <<scene, call>>
    BY <1>3, Zenon DEF Overload, Lose
  <2> QED
    BY <2>1, <2>2, ServiceKeeps
<1>4. CASE Reload /\ UNCHANGED <<call, breaker>>
  BY <1>4, StillKeeps DEF Reload
<1>5. CASE CoolDown
  BY <1>5, StillKeeps DEF CoolDown, python
<1>6. CASE Tick
  BY <1>6, TickKeeps
<1>7. CASE UNCHANGED vars
  BY <1>7, StillKeeps DEF vars, python
<1> QED
  BY <1>1, <1>2, <1>3, <1>4, <1>5, <1>6, <1>7, Zenon DEF Next

\* What is said, heard, and timed, at every step of every behaviour.
LEMMA AiInvariance == Spec => []AiInv
<1>1. Init => AiInv
  BY InitAiInv
<1>2. AiInv /\ [Next]_vars => AiInv'
  BY NextKeeps
<1> QED
  BY <1>1, <1>2, PTL DEF Spec

----------------------------------------------------------------------------
(* What it makes certain. *)

\* Callers, workers, attempts, clocks and runs keep their types, and the scene keeps
\* the deadlines that validate_timeout_budget() admits.
THEOREM AiTypeCorrect == Spec => []AiTypeOK
<1>1. AiInv => AiTypeOK
  BY DEF AiInv
<1> QED
  BY <1>1, AiInvariance, PTL

\* Every answer that analyze() returns to Java cites hits it shows, each once: the
\* policies that reorder citations and the fallback that searches again keep that.
THEOREM CitesEvidence == Spec => []CitesOnlyEvidence
<1>1. ASSUME AiInv PROVE CitesOnlyEvidence
  <2> SUFFICES ASSUME NEW r \in Caller, Answered(r)
               PROVE  CitesSoundly(AnswerOf(r))
    BY Zenon DEF CitesOnlyEvidence, CitesSoundly
  <2> QED
    BY <1>1, Zenon DEF AiInv, AllSound, SoundAnswer, AnswerOf
<1> QED
  BY <1>1, AiInvariance, PTL

\* A live answer speaks for a policy only if that policy applies to the ticket and the
\* answer cites its unchanged chunk (GroundedReplyPolicy.apply() and its callers), for
\* any hits and whatever the model drafts.
THEOREM PromisesSources == Spec => []OnlySourcesPromise
<1>1. ASSUME AiInv PROVE OnlySourcesPromise
  <2> SUFFICES ASSUME NEW r \in Caller, Answered(r), Live
               PROVE  PromisesSoundly(scene.ticket, AnswerOf(r))
    BY Zenon DEF OnlySourcesPromise, PromisesSoundly, SpeaksFor
  <2> QED
    BY <1>1, Zenon DEF AiInv, AllSound, SoundAnswer, AnswerOf
<1> QED
  BY <1>1, AiInvariance, PTL

\* AiServiceClient falls back only where the service failed: a refusal it has heard is
\* handed on, and what it asks again after was transient.
THEOREM FallsBackForFailures == Spec => []FallbackOnlyForFailures
<1>1. ASSUME AiInv PROVE FallbackOnlyForFailures
  <2> SUFFICES ASSUME NEW r \in Caller
               PROVE  /\ FellBack(r) => Heard(r) \cap ({200} \cup Rejections) = {}
                      /\ \A n \in 1 .. call[r].attempts - 1 :
                           run[<<r, n>>].at = "heard" => Transient(run[<<r, n>>].reply.code)
    BY Zenon DEF FallbackOnlyForFailures
  <2>1. HearingOf(r) /\ call[r].attempts \in 0 .. MaxAttempts /\ MaxAttempts \in Nat
    BY <1>1, CallIs, WorkflowAssumption DEF AiInv, CallInv
  <2>2. ASSUME FellBack(r), NEW code \in Heard(r)
        PROVE  code \notin {200} \cup Rejections
    <3>1. PICK k \in Runs : k[1] = r /\ run[k].at = "heard" /\ code = run[k].reply.code
      BY <2>2, Zenon DEF Heard
    <3>2. k[2] \in 1 .. MaxAttempts /\ k = <<r, k[2]>>
      BY <3>1, SMT DEF Runs
    <3> DEFINE n == k[2]
    <3>3. n \in 1 .. MaxAttempts /\ run[<<r, n>>].at = "heard"
          /\ code = run[<<r, n>>].reply.code
      BY <3>1, <3>2
    <3> QED
      BY <2>1, <2>2, <3>3, Zenon DEF HearingOf
  <2>3. ASSUME NEW n \in 1 .. call[r].attempts - 1, run[<<r, n>>].at = "heard"
        PROVE  Transient(run[<<r, n>>].reply.code)
    <3>1. n \in 1 .. MaxAttempts /\ n < call[r].attempts
      BY <2>1
    <3> QED
      BY <2>1, <2>3, <3>1, Zenon DEF HearingOf
  <2> QED
    BY <2>2, <2>3
<1> QED
  BY <1>1, AiInvariance, PTL

\* With the budget of validate_timeout_budget() the deadline of the Java client never
\* cuts a first attempt short that the service still answers in its time, whatever the
\* timeouts, the latency within the margin, and the number of callers are.
THEOREM DeadlinesAttributed == Spec => []DeadlinesAreAttributed
<1>1. ASSUME AiInv PROVE DeadlinesAreAttributed
  <2> SUFFICES ASSUME NEW r \in Caller, call[r].result = Fallback("ai_service_timeout"),
                      call[r].attempts = 1
               PROVE  run[<<r, 1>>].at = "lost"
    BY DEF DeadlinesAreAttributed
  <2> QED
    BY <1>1, Zenon DEF AiInv, CallInv, DeadlineOf, TimedOut
<1> QED
  BY <1>1, AiInvariance, PTL
===============================================================================
