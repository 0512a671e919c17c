------------------------------ MODULE ScanEvidence ------------------------------
(***************************************************************************)
(* Dependency scan evidence of the CI gates (scripts/publish_scan_         *)
(* evidence.py, validate_scan_evidence.py): publishers that compete for    *)
(* one label of an evidence root, and validators that read what they find. *)
(* A publisher claims the label by mkdir, opens what the label then names, *)
(* works through that descriptor, writes one file after the other and      *)
(* COMPLETE last; a failure takes back the files through the descriptor    *)
(* and the directory by its name, a SIGKILL leaves everything.             *)
(*                                                                         *)
(* Directories are inodes, and an inode is named by the publisher whose    *)
(* mkdir made it.  A keeper moves what the label names away, at any time   *)
(* and also from under a publisher, and merges single files of what he     *)
(* moved into the directory at the label.  Content is who wrote it:        *)
(* digests are compared as contents, and every publisher scans something   *)
(* else.                                                                   *)
(***************************************************************************)
EXTENDS Naturals, FiniteSets, Sequences

CONSTANTS
  Publisher,  \* runs of the publish command for one label
  Validator,  \* runs of the validate command
  None,
  RequestOf   \* what each publisher was asked to publish

\* Exit statuses other than 0 and 1 are one; so are positive counts.
Request == [exit : 0..2, count : {None, 0, 1}, accepted : BOOLEAN, present : BOOLEAN,
            outcome : {"clean", "vulnerability", "operational", "invalid-report"}]

\* In the order in which a publisher writes them and a failed one unlinks them.
Order == <<"inventory", "stderr", "report", "provenance", "COMPLETE">>
Name == {Order[i] : i \in DOMAIN Order}

\* `at` orders the modification times of one publisher's files, and a copy may be
\* later than all of them; a file is torn from its creation to its content.
Later == Len(Order) + 1
File == [by : Publisher, at : 0..Later]
Torn(p) == [by |-> p, at |-> 0]
Whole(file) == file # None /\ file.at > 0

ASSUME ScanAssumption ==
  /\ None \notin Publisher \cup File
  /\ None \notin {"accepted", "rejected"}
  /\ RequestOf \in [Publisher -> Request]

VARIABLES
  dirs,       \* dirs[d][n]: file n of the directory that publisher d made
  opened,     \* opened[p]: the directory p has a descriptor of
  link,       \* the directory the label names
  aside,      \* directories the keeper moved away
  merged,     \* directories into which the keeper merged a file
  publisher,  \* publisher[p]: its next step, and the file the step is about
  validator   \* validator[v]: its directory, its next step, what it has read

vars == <<dirs, opened, link, aside, merged, publisher, validator>>

Empty == [n \in Name |-> None]

Steps == {"start", "open", "sources", "create", "fill", "sync", "unlink", "stat", "rmdir",
          "done", "failed", "dead"}
At(step) == [do |-> step, name |-> None]
On(step, name) == [do |-> step, name |-> name]

Reads == <<"COMPLETE", "provenance", "entries", "inventory", "stderr", "report", "verdict">>
Fresh == [dir |-> None, read |-> 0, seen |-> Empty, verdict |-> None]

ScanTypeOK ==
  /\ dirs \in [Publisher -> [Name -> File \cup {None}]]
  /\ opened \in [Publisher -> Publisher \cup {None}]
  /\ link \in Publisher \cup {None}
  /\ aside \subseteq Publisher
  /\ merged \subseteq Publisher
  /\ publisher \in [Publisher -> [do : Steps, name : Name \cup {None}]]
  /\ validator \in [Validator -> [dir : Publisher \cup {None}, read : 0..Len(Reads),
                                  seen : [Name -> File \cup {None}],
                                  verdict : {None, "accepted", "rejected"}]]

Init ==
  /\ dirs = [p \in Publisher |-> Empty]
  /\ opened = [p \in Publisher |-> None]
  /\ link = None
  /\ aside = {}
  /\ merged = {}
  /\ publisher = [p \in Publisher |-> At("start")]
  /\ validator = [v \in Validator |-> Fresh]

Present(dir) == {n \in Name : dir[n] # None}

\* A directory that was removed can still be open, but takes no file.
Exists(d) == d = link \/ d \in aside

----------------------------------------------------------------------------
(* publish *)

IsConsistent(r) ==
  CASE r.outcome = "clean"          -> r.exit = 0 /\ r.count = 0 /\ r.present /\ r.accepted
    [] r.outcome = "vulnerability"  -> r.exit = 1 /\ r.count = 1 /\ r.present /\ r.accepted
    [] r.outcome = "operational"    -> r.exit = 2 /\ r.count = None /\ ~r.accepted
    [] r.outcome = "invalid-report" -> r.exit \in {0, 1} /\ r.count = None /\ ~r.accepted

Moves(p, next) == publisher' = [publisher EXCEPT ![p] = next]

\* mkdir: an inconsistent request, or a label that exists, ends the command.
Claim(p) ==
  /\ publisher[p] = At("start")
  /\ IF IsConsistent(RequestOf[p]) /\ link = None
       THEN link' = p /\ Moves(p, At("open"))
       ELSE link' = link /\ Moves(p, At("failed"))
  /\ UNCHANGED <<dirs, opened, aside, merged, validator>>

\* The descriptor and the identity of what the label names by now.  When the open
\* fails nothing is taken back.
Open(p) ==
  /\ publisher[p] = At("open")
  /\ \/ /\ link # None
        /\ opened' = [opened EXCEPT ![p] = link]
        /\ Moves(p, At("sources"))
     \/ opened' = opened /\ Moves(p, At("failed"))
  /\ UNCHANGED <<dirs, link, aside, merged, validator>>

OpenSources(p) ==
  /\ publisher[p] = At("sources")
  /\ Moves(p, On("create", "inventory"))
  /\ UNCHANGED <<dirs, opened, link, aside, merged, validator>>

\* O_EXCL: a file that the keeper or another publisher made meanwhile makes the step
\* fail, and so does a directory that was removed.
Create(p) ==
  LET n == publisher[p].name
      d == opened[p]
  IN /\ publisher[p].do = "create"
     /\ Exists(d)
     /\ dirs[d][n] = None
     /\ dirs' = [dirs EXCEPT ![d][n] = Torn(p)]
     /\ Moves(p, On("fill", n))
     /\ UNCHANGED <<opened, link, aside, merged, validator>>

\* What comes after file n: the report only when the scanner left one.
AfterFile(p, n) ==
  CASE n = "inventory"  -> On("create", "stderr")
    [] n = "stderr"     -> On("create", IF RequestOf[p].present THEN "report" ELSE "provenance")
    [] n = "report"     -> On("create", "provenance")
    [] n = "provenance" -> On("create", "COMPLETE")
    [] n = "COMPLETE"   -> At("sync")

Place(n) == CHOOSE i \in DOMAIN Order : Order[i] = n

\* The content and its fsync, for a file whose name may be gone or taken by now.
Fill(p) ==
  LET n == publisher[p].name
      d == opened[p]
  IN /\ publisher[p].do = "fill"
     /\ dirs' = IF dirs[d][n] = Torn(p)
                   THEN [dirs EXCEPT ![d][n] = [by |-> p, at |-> Place(n)]]
                   ELSE dirs
     /\ Moves(p, AfterFile(p, n))
     /\ UNCHANGED <<opened, link, aside, merged, validator>>

\* fsync of the directory and of the root.
Sync(p) ==
  /\ publisher[p] = At("sync")
  /\ Moves(p, At("done"))
  /\ UNCHANGED <<dirs, opened, link, aside, merged, validator>>

\* A source that is no regular file, a full disk, an existing file, a failed fsync.
Fail(p) ==
  /\ publisher[p].do \in {"sources", "create", "fill", "sync"}
  /\ Moves(p, On("unlink", "inventory"))
  /\ UNCHANGED <<dirs, opened, link, aside, merged, validator>>

AfterUnlink(i) == IF i = Len(Order) THEN At("stat") ELSE On("unlink", Order[i + 1])

\* Mutant: the files are unlinked by the path of the label.
UnlinkAtLabel(p) ==
  \E i \in DOMAIN Order :
    /\ publisher[p] = On("unlink", Order[i])
    /\ dirs' = IF link = None THEN dirs ELSE [dirs EXCEPT ![link][Order[i]] = None]
    /\ Moves(p, AfterUnlink(i))
    /\ UNCHANGED <<opened, link, aside, merged, validator>>

\* _cleanup: every name it knows, through the descriptor, whoever wrote it.
Unlink(p) ==
  \E i \in DOMAIN Order :
    /\ publisher[p] = On("unlink", Order[i])
    /\ dirs' = [dirs EXCEPT ![opened[p]][Order[i]] = None]
    /\ Moves(p, AfterUnlink(i))
    /\ UNCHANGED <<opened, link, aside, merged, validator>>

\* stat: the label still names the directory that was opened.
Stat(p) ==
  /\ publisher[p] = At("stat")
  /\ Moves(p, At(IF link = opened[p] THEN "rmdir" ELSE "failed"))
  /\ UNCHANGED <<dirs, opened, link, aside, merged, validator>>

\* rmdir, by the name: it refuses a directory that is not empty, and removes whatever
\* empty directory the label names since the stat.
RemoveDirectory(p) ==
  /\ publisher[p] = At("rmdir")
  /\ link' = IF link # None /\ Present(dirs[link]) = {} THEN None ELSE link
  /\ Moves(p, At("failed"))
  /\ UNCHANGED <<dirs, opened, aside, merged, validator>>

\* SIGKILL.
Kill(p) ==
  /\ publisher[p].do \notin {"start", "done", "failed", "dead"}
  /\ Moves(p, At("dead"))
  /\ UNCHANGED <<dirs, opened, link, aside, merged, validator>>

----------------------------------------------------------------------------
(* The keeper of the evidence root. *)

\* He does not ask whether a publisher works in it.
MoveAside ==
  /\ link # None
  /\ aside' = aside \cup {link}
  /\ link' = None
  /\ UNCHANGED <<dirs, opened, merged, publisher, validator>>

\* A copy of one file, under its name: it keeps its modification time or gets a new one.
Merge(d, n) ==
  /\ link \notin {None, d} \cup merged
  /\ d \in aside
  /\ Whole(dirs[d][n])
  /\ \E at \in {dirs[d][n].at, Later} :
       dirs' = [dirs EXCEPT ![link][n] = [by |-> dirs[d][n].by, at |-> at]]
  /\ merged' = merged \cup {link}
  /\ UNCHANGED <<opened, link, aside, publisher, validator>>

----------------------------------------------------------------------------
(* validate *)

Ends(v, verdict) ==
  validator' = [validator EXCEPT ![v].verdict = verdict, ![v].read = 0]

\* The descriptor of the directory at the label, or of one that was moved.
Enter(v) ==
  /\ validator[v] = Fresh
  /\ \E p \in aside \cup ({link} \ {None}) :
       validator' = [validator EXCEPT ![v].dir = p, ![v].read = 1]
  /\ UNCHANGED <<dirs, opened, link, aside, merged, publisher>>

\* The content of `file` is what publisher p wrote whole.
From(p, file) == Whole(file) /\ file.by = p

\* COMPLETE names the digest of the provenance; torn JSON cannot be decoded.
MarkerHolds(seen) ==
  Whole(seen["COMPLETE"]) /\ From(seen["COMPLETE"].by, seen["provenance"])

Provenance(seen) == RequestOf[seen["provenance"].by]

Expected(seen) == IF Provenance(seen).present THEN Name ELSE Name \ {"report"}

\* _read_regular; the provenance is checked against the marker at once.
Read(v) ==
  LET reader == validator[v]
      n == Reads[reader.read]
      seen == [reader.seen EXCEPT ![n] = dirs[reader.dir][n]]
  IN /\ reader.read > 0
     /\ n \in Name
     /\ n = "report" => Provenance(reader.seen).present
     /\ IF seen[n] = None \/ (n = "provenance" /\ ~MarkerHolds(seen))
          THEN Ends(v, "rejected")
          ELSE validator' = [validator EXCEPT ![v].read = @ + 1, ![v].seen = seen]
     /\ UNCHANGED <<dirs, opened, link, aside, merged, publisher>>

\* The provenance says that there is no report.
SkipReport(v) ==
  /\ validator[v].read > 0
  /\ Reads[validator[v].read] = "report"
  /\ ~Provenance(validator[v].seen).present
  /\ validator' = [validator EXCEPT ![v].read = @ + 1]
  /\ UNCHANGED <<dirs, opened, link, aside, merged, publisher>>

List(v) ==
  LET reader == validator[v]
  IN /\ reader.read > 0
     /\ Reads[reader.read] = "entries"
     /\ IF Present(dirs[reader.dir]) = Expected(reader.seen)
          THEN validator' = [validator EXCEPT ![v].read = @ + 1]
          ELSE Ends(v, "rejected")
     /\ UNCHANGED <<dirs, opened, link, aside, merged, publisher>>

WrittenLast(seen) == \A n \in Expected(seen) : seen[n].at <= seen["COMPLETE"].at

\* Mutant: the digest of the scanner's stderr is not compared.
DigestsMatchButStderr(seen) ==
  \A n \in Expected(seen) \ {"stderr"} : From(seen["provenance"].by, seen[n])

DigestsMatch(seen) == \A n \in Expected(seen) : From(seen["provenance"].by, seen[n])

\* The last checks, and those of publish_scan_evidence.validate_evidence.
Decide(v) ==
  LET seen == validator[v].seen
  IN /\ validator[v].read > 0
     /\ Reads[validator[v].read] = "verdict"
     /\ Ends(v, IF WrittenLast(seen) /\ DigestsMatch(seen) /\ IsConsistent(Provenance(seen))
                  THEN "accepted" ELSE "rejected")
     /\ UNCHANGED <<dirs, opened, link, aside, merged, publisher>>

----------------------------------------------------------------------------
Publish(p) ==
  \/ Claim(p) \/ Open(p) \/ OpenSources(p) \/ Create(p) \/ Fill(p) \/ Sync(p)
  \/ Fail(p) \/ Unlink(p) \/ Stat(p) \/ RemoveDirectory(p) \/ Kill(p)

Validate(v) == Enter(v) \/ Read(v) \/ SkipReport(v) \/ List(v) \/ Decide(v)

Next ==
  \/ \E p \in Publisher : Publish(p)
  \/ \E v \in Validator : Validate(v)
  \/ MoveAside
  \/ \E d \in Publisher, n \in Name : Merge(d, n)

Spec == Init /\ [][Next]_vars

----------------------------------------------------------------------------
(* Properties *)

Accepted(v) == validator[v].verdict = "accepted"

\* What a validator accepts is the whole output of one publisher whose request was
\* consistent, although it reads file after file while publishers write, fail, are
\* killed and clean up, and while the keeper moves directories and mixes their files.
AcceptedIsOnePublication ==
  \A v \in Validator : Accepted(v) =>
    LET seen == validator[v].seen
    IN \E p \in Publisher :
         /\ IsConsistent(RequestOf[p])
         /\ \A n \in Name : IF n = "report" /\ ~RequestOf[p].present
                              THEN seen[n] = None
                              ELSE From(p, seen[n])

\* The files that p's evidence has.
FilesOf(p) == {n \in Name : RequestOf[p].present \/ n # "report"}

\* Only p was ever given a descriptor of the directory it opened, and no file was
\* merged into it.
Alone(p) == opened[p] \notin merged /\ \A q \in Publisher \ {p} : opened[q] # opened[p]

\* No cleanup, move or race for the label loses files: a directory that holds one is
\* at the label or aside, and what a publisher reported as published is there, whole
\* and its own, if the label was not replaced between another one's mkdir and open.
ClaimIsKept ==
  /\ \A d \in Publisher : Present(dirs[d]) # {} => Exists(d)
  /\ \A p \in Publisher : publisher[p].do = "done" /\ Alone(p) =>
       /\ Present(dirs[opened[p]]) = FilesOf(p)
       /\ \A n \in FilesOf(p) : From(p, dirs[opened[p]][n])
===============================================================================
