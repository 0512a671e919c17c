--------------------------- MODULE KnowledgeIngestion ---------------------------
(***************************************************************************)
(* The command that builds a knowledge corpus from a manifest of source    *)
(* documents (app/knowledge_ingestion.py) and the loader every service     *)
(* start, reload and rebuild reads it through (app/knowledge_source.py).   *)
(* The command reads the manifest and each source twice, once for its      *)
(* content and once for its digest, then writes the corpus and after it    *)
(* the provenance, each in place.  Builds may write the same output at the *)
(* same time, fail or be killed between any two steps, an operator edits   *)
(* the inputs meanwhile, and the loader reads the corpus twice.            *)
(*                                                                         *)
(* Digests are compared as the contents they are digests of.  A text is    *)
(* the sequence of pieces its sections are split into; the extraction of   *)
(* headings, pages and pieces is left out.                                 *)
(***************************************************************************)
EXTENDS Naturals, Sequences, FiniteSets, SequencesExt

CONSTANTS
  Builder,      \* runs of the command, all with the same manifest and output
  Document,     \* documents of the manifest, 1..n in its order
  Manifest,     \* the valid manifests the operator writes
  Piece,        \* the pieces sections are split into
  Text,         \* the texts of the sources, sequences of pieces
  Unreadable,   \* a manifest or a source that cannot be read or parsed
  Empty,        \* a file that was opened for writing and not filled
  Garbled,      \* no file, or what two writes left behind: no JSON
  MaxEdits      \* bound: edits of the manifest and the sources

ASSUME IngestionAssumption ==
  /\ Cardinality(Document) \in Nat \ {0}
  /\ Document = 1..Cardinality(Document)
  /\ \A m \in Manifest : m.published \cup m.refused \subseteq Document
  /\ Text \subseteq Seq(Piece)
  /\ MaxEdits \in Nat

VARIABLES
  manifest, source,    \* the inputs as they are on disk
  edits,
  build,               \* build[b]: a run's next step and what it has gathered
  corpus, provenance,  \* the two output files
  load                 \* the loader: its next step and what it has read

ingestionVars == <<manifest, source, edits, build, corpus, provenance, load>>

Versions == {m.version : m \in Manifest}
Scopes == {m.scopes : m \in Manifest}
Releases == {m.release : m \in Manifest}
ChunkIds == Document \X Versions \X Piece
Chunks == [document : Document, version : Versions, content : Piece, scopes : Scopes]
Entries == [document : Document, published : BOOLEAN, scopes : Scopes, digest : Text,
            chunkIds : Seq(ChunkIds)]
Corpora == [release : Releases, chunks : Seq(Chunks)]
Provenances == [release : Releases, checksum : Seq(Chunks), corpus : Corpora,
                manifest : Manifest \cup {Unreadable}, documents : Seq(Entries)]
BuildSteps == {"manifest", "sections", "digest", "assemble", "open corpus", "fill corpus",
               "open provenance", "fill provenance", "done", "failed"}
LoadSteps == {"corpus", "provenance", "digest", "accepted", "refused"}

IngestionTypeOK ==
  /\ manifest \in Manifest \cup {Unreadable}
  /\ source \in [Document -> Text \cup {Unreadable}]
  /\ edits \in 0..MaxEdits
  /\ build \in [Builder -> [do : BuildSteps, read : Manifest \cup {Unreadable},
                           chunks : Seq(Chunks), ids : Seq(ChunkIds), documents : Seq(Entries),
                           manifest : Manifest \cup {Unreadable}]]
  /\ corpus \in Corpora \cup {Empty, Garbled}
  /\ provenance \in Provenances \cup {Empty, Garbled}
  /\ load \in [do : LoadSteps, corpus : Corpora \cup {Empty, Garbled},
               provenance : Provenances \cup {Empty, Garbled}]

IngestionInit ==
  /\ manifest \in Manifest
  /\ source \in [Document -> Text]
  /\ edits = 0
  /\ build = [b \in Builder |-> [do |-> "manifest", read |-> Unreadable, chunks |-> <<>>,
                                 ids |-> <<>>, documents |-> <<>>, manifest |-> Unreadable]]
  /\ corpus = Garbled /\ provenance = Garbled
  /\ load = [do |-> "corpus", corpus |-> Garbled, provenance |-> Garbled]

EditManifest ==
  /\ edits < MaxEdits /\ edits' = edits + 1
  /\ manifest' \in (Manifest \cup {Unreadable}) \ {manifest}
  /\ UNCHANGED <<source, build, corpus, provenance, load>>

EditSource(d) ==
  /\ edits < MaxEdits /\ edits' = edits + 1
  /\ \E text \in (Text \cup {Unreadable}) \ {source[d]} : source' = [source EXCEPT ![d] = text]
  /\ UNCHANGED <<manifest, build, corpus, provenance, load>>

----------------------------------------------------------------------------
(* The build. *)

Building(b, step) == build[b].do = step
Goes(b, step) == build' = [build EXCEPT ![b].do = step]
InputsAndLoader == <<manifest, source, edits, load>>

\* A chunk's identifier is made of its document, the document's version and its
\* content, and not of the scopes that may see it.
ChunkId(c) == <<c.document, c.version, c.content>>
IdsOf(chunks) == [i \in DOMAIN chunks |-> ChunkId(chunks[i])]

\* The chunks of a document: an archived one has none.
ChunksOf(m, d, text) ==
  [i \in 1..(IF d \in m.published THEN Len(text) ELSE 0) |->
    [document |-> d, version |-> m.version, content |-> text[i], scopes |-> m.scopes]]

LoadManifest(b) ==
  /\ Building(b, "manifest")
  /\ build' = [build EXCEPT ![b].do = IF manifest = Unreadable THEN "failed" ELSE "sections",
                            ![b].read = manifest]
  /\ UNCHANGED <<corpus, provenance, InputsAndLoader>>

\* The next document: outside the manifest's directory or of another format, not
\* readable, or without text, whatever its status is, it ends the build.
Current(b) == Len(build[b].documents) + 1
ReadSections(b) ==
  LET d == Current(b)
      own == ChunksOf(build[b].read, d, source[d])
  IN
  /\ Building(b, "sections")
  /\ IF d \in build[b].read.refused \/ source[d] = Unreadable \/ source[d] = <<>>
       THEN Goes(b, "failed")
       ELSE build' = [build EXCEPT ![b].do = "digest", ![b].ids = IdsOf(own),
                                   ![b].chunks = @ \o own]
  /\ UNCHANGED <<corpus, provenance, InputsAndLoader>>

\* read_bytes: the source is read again for its digest.
DigestSource(b) ==
  LET d == Current(b) IN
  /\ Building(b, "digest")
  /\ IF source[d] = Unreadable
       THEN Goes(b, "failed")
       ELSE build' = [build EXCEPT
              ![b].do = IF d = Cardinality(Document) THEN "assemble" ELSE "sections",
              ![b].documents = Append(@, [document |-> d, published |-> d \in build[b].read.published,
                                          scopes |-> build[b].read.scopes, digest |-> source[d],
                                          chunkIds |-> build[b].ids])]
  /\ UNCHANGED <<corpus, provenance, InputsAndLoader>>

\* KnowledgeCorpus: at least one chunk, and no identifier twice.
Valid(chunks) == chunks # <<>> /\ IsInjective(IdsOf(chunks))

Assemble(b) ==
  /\ Building(b, "assemble")
  /\ build' = [build EXCEPT ![b].do = IF Valid(build[b].chunks) THEN "open corpus" ELSE "failed",
                            ![b].manifest = manifest]
  /\ UNCHANGED <<corpus, provenance, InputsAndLoader>>

CorpusOf(b) == [release |-> build[b].read.release, chunks |-> build[b].chunks]
ProvenanceOf(b) ==
  [release |-> build[b].read.release, checksum |-> build[b].chunks, corpus |-> CorpusOf(b),
   manifest |-> build[b].manifest, documents |-> build[b].documents]

\* write_text empties the file, then fills it: what another run wrote in between may
\* be longer, and its end then stays.
Filled(file, content) == IF file = Empty THEN {content} ELSE {content, Garbled}

OpenCorpus(b) ==
  /\ Building(b, "open corpus") /\ Goes(b, "fill corpus")
  /\ corpus' = Empty
  /\ UNCHANGED <<provenance, InputsAndLoader>>

FillCorpus(b) ==
  /\ Building(b, "fill corpus") /\ Goes(b, "open provenance")
  /\ corpus' \in Filled(corpus, CorpusOf(b))
  /\ UNCHANGED <<provenance, InputsAndLoader>>

OpenProvenance(b) ==
  /\ Building(b, "open provenance") /\ Goes(b, "fill provenance")
  /\ provenance' = Empty
  /\ UNCHANGED <<corpus, InputsAndLoader>>

FillProvenance(b) ==
  /\ Building(b, "fill provenance") /\ Goes(b, "done")
  /\ provenance' \in Filled(provenance, ProvenanceOf(b))
  /\ UNCHANGED <<corpus, InputsAndLoader>>

\* A full disk, another error or a kill, at any step; nothing is cleaned up.
Stop(b) ==
  /\ build[b].do \notin {"manifest", "failed", "done"}
  /\ Goes(b, "failed")
  /\ UNCHANGED <<corpus, provenance, InputsAndLoader>>

----------------------------------------------------------------------------
(* load_knowledge_corpus, with a provenance configured. *)

IsJson(file) == file \notin {Empty, Garbled}
InputsAndFiles == <<manifest, source, edits, build, corpus, provenance>>

ReadCorpus ==
  /\ load.do \in {"corpus", "accepted", "refused"}
  /\ load' = [do |-> IF IsJson(corpus) THEN "provenance" ELSE "refused",
              corpus |-> corpus, provenance |-> Garbled]
  /\ UNCHANGED InputsAndFiles

ReadProvenance ==
  /\ load.do = "provenance"
  /\ load' = [load EXCEPT !.do = IF IsJson(provenance) THEN "digest" ELSE "refused",
                          !.provenance = provenance]
  /\ UNCHANGED InputsAndFiles

\* Mutant: the checksum of the corpus that was parsed is not compared.
MatchesTheFile(p, parsed, file) == p.corpus = file /\ p.release = parsed.release

\* The digest is of the file as it is by now, release and checksum of what was parsed.
Matches(p, parsed, file) ==
  /\ p.corpus = file
  /\ p.release = parsed.release
  /\ p.checksum = parsed.chunks

CheckDigest ==
  /\ load.do = "digest"
  /\ load' = [load EXCEPT !.do = IF Matches(load.provenance, load.corpus, corpus)
                                   THEN "accepted" ELSE "refused"]
  /\ UNCHANGED InputsAndFiles

----------------------------------------------------------------------------
IngestionNext ==
  \/ EditManifest
  \/ \E d \in Document : EditSource(d)
  \/ \E b \in Builder :
       \/ LoadManifest(b) \/ ReadSections(b) \/ DigestSource(b) \/ Assemble(b)
       \/ OpenCorpus(b) \/ FillCorpus(b) \/ OpenProvenance(b) \/ FillProvenance(b)
       \/ Stop(b)
  \/ ReadCorpus \/ ReadProvenance \/ CheckDigest

IngestionSpec == IngestionInit /\ [][IngestionNext]_ingestionVars

----------------------------------------------------------------------------
(* Properties. *)

\* The documents of a provenance describe chunks: they list them, in their order, and
\* give each document the scopes of its chunks; an archived one has none.
Describes(documents, chunks) ==
  /\ IdsOf(chunks) = FlattenSeq([d \in DOMAIN documents |-> documents[d].chunkIds])
  /\ \A i \in DOMAIN chunks :
       LET d == chunks[i].document IN
       d \in DOMAIN documents /\ documents[d].published /\ documents[d].scopes = chunks[i].scopes

(* What the service serves is what the provenance describes, whichever builds wrote   *)
(* the two files and were reading, writing or killed while they were loaded: the same *)
(* release, the chunks the provenance lists, in its order, and for each of them the   *)
(* scopes the provenance gives its document, none of an archived one                  *)
(* (load_knowledge_corpus, knowledge_source.py:124-142).                              *)
AcceptedIsOneBuild ==
  load.do = "accepted" =>
    /\ load.corpus.release = load.provenance.release
    /\ Describes(load.provenance.documents, load.corpus.chunks)
===============================================================================
