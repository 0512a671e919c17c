---------------------------- MODULE ArtifactStore ----------------------------
(***************************************************************************)
(* The vector index files of the AI service: a directory of immutable      *)
(* artifacts and the pointer file active.json                              *)
(* (services/support-copilot-ai/app/embedding_artifact.py), as operators   *)
(* use them through scripts/manage_embedding_artifacts.py.                 *)
(*                                                                         *)
(* An artifact is published complete, by a rename, under an identity that  *)
(* is computed from its corpus and its build settings.  Activate and       *)
(* rollback read the pointer, verify an artifact against the corpus they   *)
(* were given, and replace the pointer: the replacement is atomic, the     *)
(* read and the replacement together are not, and there is no lock.        *)
(***************************************************************************)

CONSTANTS
  Corpus,    \* contents of the knowledge file, by release and checksum
  Artifact,  \* artifact identities
  CorpusOf,  \* CorpusOf[a]: the corpus the rows of artifact a stand for
  Editor,    \* whoever changes the pointer
  None

ASSUME StoreAssumption ==
  /\ CorpusOf \in [Artifact -> Corpus]
  /\ None \notin Artifact

VARIABLES
  artifacts,  \* the artifacts on disk
  pointer,    \* active.json
  edit        \* edit[e]: the pointer e computed and has not written yet

store == <<artifacts, pointer, edit>>

Pointer == [active : Artifact, previous : Artifact \cup {None}]

StoreTypeOK ==
  /\ artifacts \subseteq Artifact
  /\ pointer \in Pointer \cup {None}
  /\ edit \in [Editor -> Pointer \cup {None}]

StoreInit ==
  /\ artifacts = {}
  /\ pointer = None
  /\ edit = [e \in Editor |-> None]

\* Mutant: the rows are not compared with the corpus.
LoadableByName(a, c) == a \in artifacts

\* load(): the artifact is on disk and compatible with the corpus.
Loadable(a, c) == a \in artifacts /\ CorpusOf[a] = c

\* What activate writes over the pointer it read.
Activation(a) ==
  [active |-> a, previous |-> IF pointer = None THEN None ELSE pointer.active]

\* Mutant: rollback forgets to make the active artifact the previous one.
ReversalKeepsPrevious == [active |-> pointer.previous, previous |-> pointer.previous]

\* What rollback writes.
Reversal == [active |-> pointer.previous, previous |-> pointer.active]

\* build: no artifact is changed once it has its final name.
Build(a) ==
  /\ a \notin artifacts
  /\ artifacts' = artifacts \cup {a}
  /\ UNCHANGED <<pointer, edit>>

\* activate up to the replacement; an artifact that is active already is left
\* alone.
ReadToActivate(e, a, c) ==
  /\ edit[e] = None
  /\ Loadable(a, c)
  /\ pointer # None => pointer.active # a
  /\ edit' = [edit EXCEPT ![e] = Activation(a)]
  /\ UNCHANGED <<artifacts, pointer>>

ReadToRollBack(e, c) ==
  /\ edit[e] = None
  /\ pointer # None
  /\ pointer.previous # None
  /\ Loadable(pointer.previous, c)
  /\ edit' = [edit EXCEPT ![e] = Reversal]
  /\ UNCHANGED <<artifacts, pointer>>

\* _atomic_pointer
Replace(e) ==
  /\ edit[e] # None
  /\ pointer' = edit[e]
  /\ edit' = [edit EXCEPT ![e] = None]
  /\ UNCHANGED artifacts

\* A write that fails or whose process dies leaves the old pointer.
Abandon(e) ==
  /\ edit[e] # None
  /\ edit' = [edit EXCEPT ![e] = None]
  /\ UNCHANGED <<artifacts, pointer>>

----------------------------------------------------------------------------

\* embedding_artifact.py:247-275: whatever activations, rollbacks and lazy
\* builds overlap, the pointer names artifacts that are complete on disk, and a
\* rollback always leads to another artifact than the active one.
PointerIsLoadable ==
  pointer # None =>
    /\ {pointer.active, pointer.previous} \ {None} \subseteq artifacts
    /\ pointer.active # pointer.previous
=============================================================================
