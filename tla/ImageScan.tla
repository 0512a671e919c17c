-------------------------------- MODULE ImageScan --------------------------------
(***************************************************************************)
(* The release scan of the container images (scripts/scan-pilot-images.sh, *)
(* validate_pilot_image_scan.py): a script that scans one image after the  *)
(* other into a fresh directory, cleans up what it took from Docker, has   *)
(* the directory finalized (findings, summary, manifest, COMPLETE) and     *)
(* verified, and unless a signal comes exits 0 only for a clean result.  A *)
(* signal at any point, or a failed step, runs the cleanup as a trap; a    *)
(* cleanup that fails appends a line to the first scanner log, a file the  *)
(* manifest binds.                                                         *)
(*                                                                         *)
(* Docker, the scanner and the host are external: any step of theirs may   *)
(* fail, and a scanner may exit with any status and leave any report.      *)
(* Digests are compared as contents; the text and order of records is left *)
(* out, and with it the redaction of secrets.  What a stopped child leaves *)
(* of a report or a log is left out: nothing reads it any more.  A second  *)
(* signal while the trap runs is left out as well.                         *)
(***************************************************************************)
EXTENDS Naturals, FiniteSets

CONSTANTS
  Images,         \* number of images of the command line
  Vulnerability,  \* what a scanner can report about an image
  Severe,         \* those of severity HIGH or CRITICAL
  Cve,            \* those whose identifier is a CVE
  OtherReports    \* the reports of another scan of the same images

Image == 1..Images

ASSUME ImageScanAssumption ==
  /\ Images \in Nat \ {0}
  /\ IsFiniteSet(Vulnerability)
  /\ Severe \subseteq Vulnerability
  /\ Cve \subseteq Vulnerability
  /\ OtherReports \in [Image -> SUBSET Vulnerability]

VARIABLES
  stage,      \* how far the script is
  image,      \* the image it is at
  exits,      \* exits[i]: the scanner's exit status for image i, 3 before it ran
  files,      \* the output directory: what each existing file says
  held,       \* what Docker holds for the script
  tried,      \* cleanups that were attempted
  signal,     \* "none", "caught", or "exiting" when the trap runs by its own exit
  status,     \* the exit status of the script, 2 while it runs
  disturbed   \* whether somebody changed a sealed directory

imageVars == <<stage, image, exits, files, held, tried, signal, status, disturbed>>

Resource == {"container", "volume", "scanner"}

\* A name and its image, 0 for the files that exist once.
Of(kind, i) == [kind |-> kind, image |-> i]
The(kind) == Of(kind, 0)
FileName == {The(k) : k \in {"acquisition", "version", "findings", "summary", "manifest", "COMPLETE"}}
            \cup {Of(k, i) : k \in {"report", "stderr"}, i \in Image}

\* A report that is no JSON, empty, of another image or of another shape.
Unusable == [usable |-> FALSE, found |-> {}]
Report(found) == [usable |-> TRUE, found |-> found]

\* An exclusive file whose writer died between its open and the end of its write.
TornFile == [torn |-> TRUE]

Marked(f) == The("COMPLETE") \in DOMAIN f /\ f[The("COMPLETE")] # TornFile

TrapStage == {"trap-container", "trap-volume", "trap-scanner"}
Finalizing == {"parse", "findings", "summary", "manifest", "COMPLETE"}
Stage == {"acquire", "volume", "inspect", "scan", "version", "drop-volume", "drop-scanner",
          "verify", "over"} \cup Finalizing \cup TrapStage

ImageTypeOK ==
  /\ stage \in Stage
  /\ image \in 1..Images + 1
  /\ exits \in [Image -> 0..3]
  /\ DOMAIN files \subseteq FileName
  /\ held \subseteq Resource
  /\ tried \subseteq Resource
  /\ signal \in {"none", "caught", "exiting"}
  /\ status \in 0..2
  /\ disturbed \in BOOLEAN

ImageInit ==
  /\ stage = "acquire"
  /\ image = 1
  /\ exits = [i \in Image |-> 3]
  /\ files = [n \in {} |-> 0]
  /\ held = {}
  /\ tried = {}
  /\ signal = "none"
  /\ status = 2
  /\ disturbed = FALSE

With(f, name, content) ==
  [n \in DOMAIN f \cup {name} |-> IF n = name THEN content ELSE f[n]]

Store(name, content) == files' = With(files, name, content)
Stops == stage' = "trap-container" /\ status' = 1

----------------------------------------------------------------------------
(* The script. *)

\* The pinned scanner is there, or is pulled.
Acquire ==
  /\ stage = "acquire"
  /\ \/ UNCHANGED held
     \/ held' = held \cup {"scanner"}
  /\ stage' = "volume"
  /\ UNCHANGED <<image, exits, files, tried, signal, status, disturbed>>

\* record_acquisition_failure: no inspection, no pull, a wrong digest or platform.
AcquisitionFails ==
  /\ stage = "acquire"
  /\ Stops
  /\ held' \in {held, held \cup {"scanner"}}
  /\ Store(The("acquisition"), 1)
  /\ UNCHANGED <<image, exits, tried, signal, disturbed>>

CreateVolume ==
  /\ stage = "volume"
  /\ held' = held \cup {"volume"}
  /\ stage' = "inspect"
  /\ UNCHANGED <<image, exits, files, tried, signal, status, disturbed>>

\* The image is inspected and its scan started; the log exists from here on.
StartScan ==
  /\ stage = "inspect"
  /\ image <= Images
  /\ held' = held \cup {"container"}
  /\ Store(Of("stderr", image), 0)
  /\ stage' = "scan"
  /\ UNCHANGED <<image, exits, tried, signal, status, disturbed>>

\* Exit 0 or 1, with any report or none: a scanner that dies may exit 1 as well.
EndScan ==
  /\ stage = "scan"
  /\ \E exit \in {0, 1} : exits' = [exits EXCEPT ![image] = exit]
  /\ \/ UNCHANGED files
     \/ Store(Of("report", image), Unusable)
     \/ \E found \in SUBSET Vulnerability : Store(Of("report", image), Report(found))
  /\ held' = held \ {"container"}
  /\ image' = image + 1
  /\ stage' = "inspect"
  /\ UNCHANGED <<tried, signal, status, disturbed>>

ScannedAll ==
  /\ stage = "inspect"
  /\ image > Images
  /\ held' = held \cup {"container"}
  /\ stage' = "version"
  /\ UNCHANGED <<image, exits, files, tried, signal, status, disturbed>>

ScannerVersion ==
  /\ stage = "version"
  /\ \E right \in BOOLEAN : Store(The("version"), right)
  /\ held' = held \ {"container"}
  /\ stage' = "drop-volume"
  /\ UNCHANGED <<image, exits, tried, signal, status, disturbed>>

\* set -e: a Docker command fails, times out, or a scan ends with another status.
StepFails ==
  /\ stage \in {"volume", "inspect", "scan", "version"}
  /\ Stops
  /\ UNCHANGED <<image, exits, files, held, tried, signal, disturbed>>

\* INT or TERM.  The trap takes the status of the last command that ended, and
\* bash lets a child of the foreground end before: 0 unless the child failed or
\* died of the signal too.  Of finalize, only a dead child leaves less than a
\* finished directory.  The exit of the trap runs it once more.
Signal ==
  /\ stage \notin TrapStage \cup {"over"}
  /\ stage' = "trap-container"
  /\ status' \in IF stage \in Finalizing THEN {1} ELSE {0, 1}
  /\ signal' = "caught"
  /\ \/ UNCHANGED <<held, tried>>
     \/ \E what \in Resource :  \* during a cleanup, whose outcome is not recorded
          /\ <<stage, what>> \in {<<"drop-volume", "volume">>, <<"drop-scanner", "scanner">>}
          /\ what \in held
          /\ tried' = tried \cup {what}
          /\ \/ held' = held \ {what}
             \/ held' = held /\ status' = 1
  /\ UNCHANGED <<image, exits, files, disturbed>>

----------------------------------------------------------------------------
(* Cleanup, in the script and in its trap. *)

\* Mutant: a cleanup is attempted as long as Docker holds the resource.
PendingWhileHeld(what) == what \in held

\* The *_cleanup_attempted flags.
Pending(what) == what \in held /\ what \notin tried

\* record_cleanup_diagnostic
Diagnostic ==
  IF Of("stderr", 1) \in DOMAIN files
    THEN files' = [files EXCEPT ![Of("stderr", 1)] = @ + 1]
    ELSE Store(The("acquisition"), 1)

CleanUp(what) ==
  IF ~Pending(what) THEN UNCHANGED <<held, tried, files>>
  ELSE /\ tried' = tried \cup {what}
       /\ \/ held' = held \ {what} /\ UNCHANGED files
          \/ UNCHANGED held /\ Diagnostic

DropVolume ==
  /\ stage = "drop-volume"
  /\ CleanUp("volume")
  /\ stage' = "drop-scanner"
  /\ UNCHANGED <<image, exits, signal, status, disturbed>>

DropScanner ==
  /\ stage = "drop-scanner"
  /\ CleanUp("scanner")
  /\ stage' = "parse"
  /\ UNCHANGED <<image, exits, signal, status, disturbed>>

\* cleanup(), as a trap of EXIT, INT and TERM.
Trap ==
  /\ stage \in TrapStage
  /\ CASE stage = "trap-container" -> CleanUp("container") /\ stage' = "trap-volume"
       [] stage = "trap-volume"    -> CleanUp("volume") /\ stage' = "trap-scanner"
       [] stage = "trap-scanner"   -> CleanUp("scanner")
                                      /\ stage' = IF signal = "caught" THEN "trap-container" ELSE "over"
  /\ signal' = IF stage = "trap-scanner" /\ signal = "caught" THEN "exiting" ELSE signal
  /\ status' = IF tried' # tried /\ held' = held THEN 1 ELSE status  \* a cleanup failed
  /\ UNCHANGED <<image, exits, disturbed>>

----------------------------------------------------------------------------
(* finalize *)

ReportOf(i) == files[Of("report", i)]
SevereOf(report) == report.found \cap Severe

\* Mutant: the exit status of the scanner is not compared with its findings.
ReadableReport(i) ==
  /\ Of("report", i) \in DOMAIN files
  /\ ReportOf(i).usable

\* _parse_report
Parses(i) ==
  /\ Of("report", i) \in DOMAIN files
  /\ ReportOf(i).usable
  /\ (exits[i] = 0) = (SevereOf(ReportOf(i)) = {})

ParsesAll == files[The("version")] /\ \A i \in Image : Parses(i)

\* One record per severe vulnerability and image, whatever its identifier.
Findings(reports) == UNION {{i} \X SevereOf(reports[i]) : i \in Image}

\* What summary and manifest say of each image.
ImageRecords(reports) ==
  [i \in Image |-> [severe |-> Cardinality(SevereOf(reports[i])), cves |-> SevereOf(reports[i]) \cap Cve]]

Summary(reports) ==
  [outcome |-> IF Findings(reports) = {} THEN "clean" ELSE "blocked", images |-> ImageRecords(reports)]

\* It binds every file written before it.
Manifest(reports, bound) ==
  [images |-> ImageRecords(reports), findings |-> Findings(reports),
   count |-> Cardinality(Findings(reports)), files |-> bound]

Marker(manifest) == [manifest |-> manifest, findings |-> manifest.findings]

Reports == [i \in Image |-> ReportOf(i)]
Bound == [n \in {The("version"), The("findings"), The("summary")}
               \cup {Of(k, i) : k \in {"report", "stderr"}, i \in Image} |-> files[n]]

Parse ==
  /\ stage = "parse"
  /\ IF ParsesAll THEN stage' = "findings" /\ UNCHANGED status ELSE Stops
  /\ UNCHANGED <<image, exits, files, held, tried, signal, disturbed>>

\* One exclusive, fsynced write after the other.
Finalize ==
  /\ \/ stage = "findings" /\ stage' = "summary"
        /\ Store(The("findings"), Findings(Reports))
     \/ stage = "summary" /\ stage' = "manifest"
        /\ Store(The("summary"), Summary(Reports))
     \/ stage = "manifest" /\ stage' = "COMPLETE"
        /\ Store(The("manifest"), Manifest(Reports, Bound))
     \/ stage = "COMPLETE" /\ stage' = "verify"
        /\ Store(The("COMPLETE"), Marker(files[The("manifest")]))
  /\ UNCHANGED <<image, exits, held, tried, signal, status, disturbed>>

\* A write fails, or its process dies, after the exclusive open.
Tears ==
  /\ stage \in Finalizing \ {"parse"}
  /\ Stops
  /\ Store(The(stage), TornFile)
  /\ signal' \in {"none", "caught"}
  /\ UNCHANGED <<image, exits, held, tried, disturbed>>

----------------------------------------------------------------------------
(* verify *)

\* _validate_findings: every record belongs to an image of the manifest, and
\* each image has as many as the manifest counts.
FindingsMatch(records, images) ==
  /\ \A r \in records : r[1] \in DOMAIN images /\ r[2] \in Severe
  /\ \A i \in DOMAIN images : Cardinality({r \in records : r[1] = i}) = images[i].severe

Entries(f) == DOMAIN f[The("manifest")].files \cup {The("manifest"), The("COMPLETE")}

NothingElse(f) == Entries(f) = DOMAIN f

Verifies(f) ==
  LET manifest == f[The("manifest")]
      marker == f[The("COMPLETE")]
  IN /\ {The("manifest"), The("findings")} \subseteq DOMAIN f
     /\ Marked(f)
     /\ marker.manifest = manifest
     /\ manifest.count = Cardinality(f[The("findings")])
     /\ FindingsMatch(f[The("findings")], manifest.images)
     /\ marker.findings = manifest.findings
     /\ manifest.findings = f[The("findings")]
     /\ \A n \in DOMAIN manifest.files : n \in DOMAIN f /\ manifest.files[n] = f[n]
     /\ NothingElse(f)

\* The gate: exit 0 when verify passes, no scanner found anything and nothing is
\* left in Docker.
Gate ==
  /\ stage = "verify"
  /\ stage' = "trap-container"
  /\ status' = IF Verifies(files) /\ (\A i \in Image : exits[i] = 0) /\ held = {} THEN 0 ELSE 1
  /\ UNCHANGED <<image, exits, files, held, tried, signal, disturbed>>

----------------------------------------------------------------------------
\* Somebody changes one file of a sealed directory afterwards: it is removed, a
\* log of the acquisition appears, or the file of another finished scan of the
\* same images takes its place.
OtherFiles ==
  LET reports == [i \in Image |-> Report(OtherReports[i])]
      first == [n \in FileName \ {The(k) : k \in {"acquisition", "summary", "findings", "manifest", "COMPLETE"}} |->
                  CASE n.kind = "version" -> TRUE
                    [] n.kind = "stderr"  -> 0
                    [] n.kind = "report"  -> reports[n.image]]
      bound == With(With(first, The("findings"), Findings(reports)), The("summary"), Summary(reports))
      manifest == Manifest(reports, bound)
  IN With(With(bound, The("manifest"), manifest), The("COMPLETE"), Marker(manifest))

Disturb ==
  /\ stage = "over"
  /\ Marked(files)
  /\ ~disturbed
  /\ disturbed' = TRUE
  /\ \E n \in FileName :
       \/ n \in DOMAIN files /\ files' = [m \in DOMAIN files \ {n} |-> files[m]]
       \/ n \notin DOMAIN files /\ Store(n, 1)
       \/ /\ n \in DOMAIN OtherFiles \cap DOMAIN files
          /\ OtherFiles[n] # files[n]
          /\ Store(n, OtherFiles[n])
  /\ UNCHANGED <<stage, image, exits, held, tried, signal, status>>

ImageNext ==
  \/ Acquire \/ AcquisitionFails \/ CreateVolume \/ StartScan \/ EndScan \/ ScannedAll
  \/ ScannerVersion \/ StepFails \/ Signal \/ DropVolume \/ DropScanner \/ Trap
  \/ Parse \/ Finalize \/ Tears \/ Gate \/ Disturb

ImageSpec == ImageInit /\ [][ImageNext]_imageVars

----------------------------------------------------------------------------
(* Properties *)

Sealed == Marked(files)

\* A directory with COMPLETE verifies from then on: no cleanup of the script, in
\* its last steps, by a signal or by the exit of the trap itself, still writes to
\* a log that the manifest binds.  It stops to verify when one file is changed,
\* removed or added later, also by one of another complete scan of the same images.
SealedStaysVerifiable ==
  /\ Sealed /\ ~disturbed => Verifies(files)
  /\ disturbed => ~Verifies(files)

\* The summary of a sealed directory blocks the release exactly when a scanner
\* found something, whatever interrupted the script since.  A script that no
\* signal reached exits 0 only with a sealed directory, for images whose reports,
\* read to the end, name no severe vulnerability, and with nothing left behind in
\* Docker.  (One that was signalled may exit 0 with less: only COMPLETE tells.)
VerdictAgrees ==
  /\ Sealed /\ ~disturbed =>
       (files[The("summary")].outcome = "blocked") = (\E i \in Image : exits[i] = 1)
  /\ status = 0 /\ signal = "none" /\ ~disturbed =>
       /\ Sealed
       /\ held = {}
       /\ \A i \in Image : ReportOf(i).usable /\ SevereOf(ReportOf(i)) = {}
===============================================================================
