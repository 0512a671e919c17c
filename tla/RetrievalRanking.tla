---------------------------- MODULE RetrievalRanking ----------------------------
(***************************************************************************)
(* How retrieval is ranked and measured: the search of the AI service      *)
(* (app/live_vector_index.py), its offline twin (evaluation/retrieval_     *)
(* only.py), the fusion experiment (evaluation/hybrid_retrieval.py) and    *)
(* the diagnosis of gold ranks (evaluation/gold_rank.py).  The programs    *)
(* are separate; a measurement runs all of them over the same queries.     *)
(*                                                                         *)
(* A score is a number of a small scale: cosine and BM25 values enter the  *)
(* rankings only by their order.  Weights of the fusion are counted in     *)
(* halves and its sums compared as fractions, without the rounding of      *)
(* floating point numbers.  Of the configurations of the fusion only the   *)
(* two that the experiment compares are measured; the others differ from   *)
(* them in their parameters and are reported as they are.                  *)
(***************************************************************************)
EXTENDS Integers, FiniteSetsExt, SequencesExt, Combinatorics

CONSTANTS
  Rows,        \* number of chunks of the corpus, in their order
  DocumentOf,  \* the document of each chunk
  AnchorOf,    \* the anchor in the source_uri of each chunk, or NoAnchor
  NoAnchor,
  Cases,       \* the queries a measurement may have
  TopN, TopK   \* the retrieval window

Row == 1..Rows

ASSUME RankingAssumption ==
  /\ Rows \in Nat \ {0}
  /\ TopK \in Nat \ {0}
  /\ TopN \in Nat \ {0}
  /\ DOMAIN DocumentOf = Row
  /\ DOMAIN AnchorOf = Row
  /\ \A q \in Cases : /\ q.score \in [Row -> Int] /\ q.bm25 \in [Row -> Int]
                      /\ q.minScore \in Int

VARIABLES
  cases,   \* the queries of the measurement
  report   \* what the programs say, empty before they ran

rankingVars == <<cases, report>>

Best(order, n) == SubSeq(order, 1, IF n < Len(order) THEN n ELSE Len(order))

----------------------------------------------------------------------------
(* Search. *)

\* All rows in an order without ties, as a stable sort leaves them.
Sorted(rows, Before(_, _)) ==
  CHOOSE s \in SetToSeqs(rows) : \A i, j \in DOMAIN s : i < j => Before(s[i], s[j])

\* Rows by falling score; the sort is stable.
Higher(score, a, b) == score[a] > score[b] \/ (score[a] = score[b] /\ a < b)

ByScore(score, rows) == LET Before(a, b) == Higher(score, a, b) IN Sorted(rows, Before)

EligibleRows(q) == q.eligible

\* The threshold, the first TopN by score, those of the ticket's category first,
\* the first TopK of these.
RankCandidates(scored, q) ==
  LET candidates == {r \in scored : q.score[r] >= q.minScore}
      initial == ToSet(Best(ByScore(q.score, candidates), TopN))
      Before(a, b) == \/ a \in q.matched /\ b \notin q.matched
                      \/ (a \in q.matched) = (b \in q.matched) /\ Higher(q.score, a, b)
  IN Best(Sorted(initial, Before), TopK)

\* What LiveVectorIndex.search returns for a valid query vector.
Search(q) == IF EligibleRows(q) = {} THEN <<>> ELSE RankCandidates(EligibleRows(q), q)

----------------------------------------------------------------------------
(* The fusion experiment. *)

RanksOf(score) ==
  LET order == ByScore(score, Row) IN [r \in Row |-> CHOOSE i \in Row : order[i] = r]

Configs == [primary    |-> [k |-> 60, vector |-> 2, bm25 |-> 2],
            vectorOnly |-> [k |-> 60, vector |-> 2, bm25 |-> 0]]

\* Reciprocal rank fusion: weight / (k + rank), summed over both rankers.  A
\* weight of 0 adds nothing.
Rrf(config, vectorRank, bm25Rank) ==
  [over |-> config.vector * (config.k + bm25Rank) + config.bm25 * (config.k + vectorRank),
   under |-> (config.k + vectorRank) * (config.k + bm25Rank)]

FusedOrder(config, q) ==
  LET vectorRanks == RanksOf(q.score)
      bm25Ranks == RanksOf(q.bm25)
      fused == [r \in Row |-> Rrf(config, vectorRanks[r], bm25Ranks[r])]
      Before(a, b) ==
        LET left == fused[a].over * fused[b].under
            right == fused[b].over * fused[a].under
        IN left > right \/ (left = right /\ a < b)
  IN Sorted(Row, Before)

\* All chunks of the document whose first chunk with that anchor is the case's
\* source; a case without such a chunk is not measured.
GoldRows(q) ==
  LET anchored == {r \in Row : q.source # NoAnchor /\ AnchorOf[r] = q.source}
  IN {r \in Row : anchored # {} /\ DocumentOf[r] = DocumentOf[Min(anchored)]}

\* The rank of the first gold chunk among the TopK, 0 for none.
EvaluateCase(order, gold) ==
  LET found == {i \in DOMAIN Best(order, TopK) : order[i] \in gold}
  IN IF found = {} THEN 0 ELSE Min(found)

\* Only cases with gold chunks are measured.
Measured == {i \in DOMAIN cases : GoldRows(cases[i]) # {}}

EvaluateConfig(config) ==
  [i \in Measured |-> EvaluateCase(FusedOrder(config, cases[i]), GoldRows(cases[i]))]

\* goldAt1, goldAt3: how many cases have a gold chunk that high.
GoldAt(ranks, limit) == Cardinality({i \in DOMAIN ranks : ranks[i] \in 1..limit})

TailSum(improved, degraded) ==
  LET total == improved + degraded
  IN MapThenSumSet(LAMBDA i : choose(total, i), 0..Min({improved, degraded}))

\* Mutant: the test looks to one side only.
McNemarOneSided(improved, degraded) ==
  [over |-> TailSum(improved, degraded), under |-> 2^(improved + degraded)]

\* Twice the tail of the smaller count, as a fraction; at most 1.
McNemarExact(improved, degraded) ==
  LET under == 2^(improved + degraded)
  IN [over |-> Min({2 * TailSum(improved, degraded), under}), under |-> under]

\* round(): a half goes to the even neighbour.
Rounded(over, under) ==
  LET whole == over \div under
      twice == 2 * (over % under)
  IN IF twice > under \/ (twice = under /\ whole % 2 = 1) THEN whole + 1 ELSE whole

\* What the ranks of a candidate gain and lose against those of a baseline, with the
\* p value in ten-thousandths.
Compare(candidate, baseline) ==
  LET improved == {i \in DOMAIN candidate : candidate[i] # 0 /\ baseline[i] = 0}
      degraded == {i \in DOMAIN candidate : candidate[i] = 0 /\ baseline[i] # 0}
      p == McNemarExact(Cardinality(improved), Cardinality(degraded))
  IN [improved   |-> improved,
      degraded   |-> degraded,
      pValue     |-> Rounded(10000 * p.over, p.under),
      conclusive |-> Cardinality(improved) + Cardinality(degraded) >= 6]

----------------------------------------------------------------------------
(* The diagnosis. *)

\* Mutant: rows with the score of the best gold chunk count as better.
RankCaseWithTies(q, gold) ==
  LET best == Max({q.score[r] : r \in gold}) IN Cardinality({r \in Row : q.score[r] >= best})

\* bestGoldRank in the whole corpus.
RankCase(q, gold) ==
  LET best == Max({q.score[r] : r \in gold}) IN Cardinality({r \in Row : q.score[r] > best}) + 1

RecallAt(ranks, point) == Cardinality({i \in DOMAIN ranks : ranks[i] <= point})

----------------------------------------------------------------------------
(* A measurement. *)

Measure ==
  /\ report = <<>>
  /\ report' = [hits      |-> [i \in DOMAIN cases |-> Search(cases[i])],
                ranks     |-> [c \in DOMAIN Configs |-> EvaluateConfig(Configs[c])],
                diagnosis |-> [i \in Measured |-> RankCase(cases[i], GoldRows(cases[i]))],
                compared  |-> Compare(EvaluateConfig(Configs["primary"]),
                                      EvaluateConfig(Configs["vectorOnly"]))]
  /\ UNCHANGED cases

RankingInit == cases \in Seq(Cases) /\ report = <<>>
RankingSpec == RankingInit /\ [][Measure]_rankingVars

Reported == report # <<>>

----------------------------------------------------------------------------
(* Properties *)

\* The diagnosis never ranks a gold chunk behind the place where the experiment
\* finds one, whatever scores are equal, so its recall bounds the experiment's
\* gold counts at every point.
BoundsExperiment ==
  LET ranks == report.ranks["vectorOnly"]
  IN /\ \A i \in Measured : ranks[i] # 0 => report.diagnosis[i] <= ranks[i]
     /\ \A point \in 1..TopK : GoldAt(ranks, point) <= RecallAt(report.diagnosis, point)

\* gold_rank.py reads its recall curve as how many candidates it takes to reach the
\* gold.  So it does for the search of the service: a gold chunk shown to a query that
\* may see every chunk is diagnosed within the TopN candidates, whatever scores are
\* equal and whichever chunks the category moves to the front.
BoundsSearch ==
  \A i \in Measured :
    cases[i].eligible = Row /\ ToSet(report.hits[i]) \cap GoldRows(cases[i]) # {}
      => report.diagnosis[i] <= TopN

\* The diagnosed ranks of the gold bound what the experiment finds and what the
\* search of the service shows.
DiagnosisBoundsEvaluation == Reported => BoundsExperiment /\ BoundsSearch

\* render() calls a p value below 0.05 distinguishable, and fewer than six changed
\* cases far too few for any conclusion: no report says both.
SignificantIsConclusive ==
  Reported /\ report.compared.pValue < 500 => report.compared.conclusive

===============================================================================
