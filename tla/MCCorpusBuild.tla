---------------------------- MODULE MCCorpusBuild ----------------------------
(***************************************************************************)
(* The two ways to a corpus side by side.  The service's tasks: three      *)
(* builds by two processes over one build root, and a client that polls;   *)
(* during the last build the clock steps back.  The command: two runs of   *)
(* it over one output, and the loader.                                     *)
(***************************************************************************)
EXTENDS CorpusBuild, KnowledgeIngestion

CONSTANTS t1, t2, t3, q1, p1, p2, b1, b2

MCProcessOf == [x \in Task \cup Query |-> IF x \in {t2, q1} THEN p2 ELSE p1]

\* The second manifest widens the scopes and archives a document, under the same
\* release; the third is another release and names a document that is refused.
MCManifest ==
  {[release |-> 1, version |-> 1, scopes |-> "support", published |-> {1, 2}, refused |-> {}],
   [release |-> 1, version |-> 1, scopes |-> "all", published |-> {1}, refused |-> {}],
   [release |-> 2, version |-> 1, scopes |-> "all", published |-> {1, 2}, refused |-> {2}]}

\* No text at all, one piece, and the same piece twice.
MCText == {<<>>, <<"x">>, <<"x", "x">>}

----------------------------------------------------------------------------
(* The two share no state, so TLC moves only one of them, the tasks beside *)
(* one of the inputs of the command.  Fairness is over the tasks and       *)
(* obliges nothing before a request arrives, which none has to.            *)

NoTasks == Init
NoCommand == IngestionInit /\ manifest.release = 2 /\ source = [d \in Document |-> <<>>]

MCInit == Init /\ IngestionInit

MCNext ==
  \/ NoCommand /\ Next /\ UNCHANGED ingestionVars
  \/ NoTasks /\ IngestionNext /\ UNCHANGED vars

MCSpec == MCInit /\ [][MCNext]_<<vars, ingestionVars>> /\ Fairness
=============================================================================
