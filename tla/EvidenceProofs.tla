--------------------------- MODULE EvidenceProofs ---------------------------
(***************************************************************************)
(* What outlives a run.  The release bundle and the holdout seal, for any  *)
(* task files, any number of runs and edits, and benchmark, human and      *)
(* export at any pace: the export checks, copies and signs off files that  *)
(* others may be writing.  And the trace file, for any number of drivers,  *)
(* records, failed writes and deaths.                                      *)
(***************************************************************************)
EXTENDS EvidenceRelease, TraceChain, FiniteSetTheorems, TLAPS

BenchAt == {"idle", "sealed", "preflight", "running", "evaluated", "summary", "markdown"}
ExportAt == {"idle", "checked", "approved", "cleared", "summary", "md", "html"}

\* The fields the processes' records and the directories have.
Fields ==
    /\ bench.at \in BenchAt /\ "at" \in DOMAIN bench
    /\ bench.at \in {"sealed", "preflight", "running"} =>
          "o" \in DOMAIN bench /\ "edited" \in DOMAIN bench
    /\ bench.at \in {"preflight", "running"} =>
          {"loaded", "tasks", "done"} \subseteq DOMAIN bench
    /\ bench.at \in {"evaluated", "summary", "markdown"} =>
          "summary" \in DOMAIN bench
    /\ export.at \in ExportAt /\ "at" \in DOMAIN export
    /\ export.at # "idle" => /\ {"least", "raced", "torn"} \subseteq DOMAIN export
                             /\ export.raced \in BOOLEAN /\ export.torn \in BOOLEAN
    /\ DOMAIN report = {"summary", "md", "html", "torn"} /\ report.torn \in BOOLEAN
    /\ DOMAIN bundle = {"summary", "md", "html", "approval", "manifest", "raced", "torn"}

\* Until the tasks file is edited, a holdout run has what its seal was
\* checked for: the file itself, then what was loaded from it.
Sealing ==
    bench.at \in {"sealed", "preflight", "running"} /\ bench.o.holdout /\ ~bench.edited =>
        /\ bench.o.unseal
        /\ IF bench.at = "sealed" THEN tasksFile = Sealed ELSE bench.loaded = Sealed

\* The pages are of the summary's run, but in the middle of a report and
\* after a death in it.
Reporting ==
    /\ ~report.torn => report.md = report.summary /\ report.html = report.summary
    /\ bench.at \in {"summary", "markdown"} =>
          report.torn /\ report.summary = bench.summary
    /\ bench.at = "markdown" => report.md = bench.summary

\* What a race-free export has looked at and copied is still so.
Looked ==
    /\ export.at # "idle" => Meets(report.summary, export.least)
    /\ export.at \in {"approved", "cleared", "summary", "md", "html"} =>
          Approves(approval, report.summary)

Copied ==
    /\ export.at \in {"summary", "md", "html"} =>
          /\ bundle.summary = report.summary
          /\ ~export.torn => ~report.torn
    /\ export.at \in {"md", "html"} => bundle.md = report.md
    /\ export.at = "html" => bundle.html = report.html

Exporting ==
    /\ export.at \in {"cleared", "summary", "md", "html"} => ~Released
    /\ export.at # "idle" /\ ~export.raced => Looked /\ Copied

RInv == /\ Fields
        /\ Sealing
        /\ Reporting
        /\ Exporting
        /\ ReleasedIsApproved
        /\ ReleasedPagesAgree

LEMMA InitHolds == ReleaseInit => RInv
  BY DEF ReleaseInit, RInv, Fields, BenchAt, ExportAt, BenchIdle, ExportIdle, NoReport,
         NoBundle, Sealing, Reporting, Exporting, Released, ReleasedIsApproved,
         ReleasedPagesAgree

\* What holds of report, export and bundle holds as long as none of them is
\* written and the benchmark does not start to write the report.
LEMMA FilesKeep ==
    ASSUME Fields, Reporting, Exporting, ReleasedIsApproved, ReleasedPagesAgree,
           UNCHANGED <<report, approval, export, bundle>>,
           bench'.at \notin {"summary", "markdown"}
    PROVE  (Reporting /\ Exporting /\ ReleasedIsApproved /\ ReleasedPagesAgree)'
  BY DEF Reporting, Exporting, Looked, Copied, Released, ReleasedIsApproved,
         ReleasedPagesAgree

\* Steps of the benchmark that write no report.
LEMMA RunKeeps ==
    ASSUME RInv, \/ CheckSeal \/ LoadTasks \/ Preflight \/ RunTask \/ PersistFixtures
                 \/ Evaluate \/ BenchDies
    PROVE  RInv'
<1>1. UNCHANGED <<report, approval, export, bundle, tasksFile>>
  BY DEF CheckSeal, LoadTasks, Preflight, RunTask, PersistFixtures, Evaluate, BenchDies
<1>2. Fields' /\ Sealing' /\ bench'.at \notin {"summary", "markdown"}
  <2> USE <1>1 DEF RInv, Fields, BenchAt, Sealing
  <2>1. CASE CheckSeal
    BY <2>1 DEF CheckSeal, SealHolds
  <2>2. CASE LoadTasks
    BY <2>2 DEF LoadTasks
  <2>3. CASE Preflight
    <3>1. CASE bench' = BenchIdle
      BY <2>3, <3>1 DEF BenchIdle
    <3>2. CASE bench' = [bench EXCEPT !.at = "running"]
      BY <2>3, <3>2 DEF Preflight
    <3> QED
      BY <2>3, <3>1, <3>2 DEF Preflight
  <2>4. CASE RunTask
    <3>1. PICK t : bench' = [bench EXCEPT !.tasks = Tail(@), !.done = @ \cup {t}]
      BY <2>4 DEF RunTask
    <3> QED
      BY <2>4, <3>1 DEF RunTask
  <2>5. CASE PersistFixtures
    BY <2>5 DEF PersistFixtures
  <2>6. CASE Evaluate
    BY <2>6 DEF Evaluate
  <2>7. CASE BenchDies
    BY <2>7 DEF BenchDies, BenchIdle
  <2> QED
    BY <2>1, <2>2, <2>3, <2>4, <2>5, <2>6, <2>7
<1> QED
  BY <1>1, <1>2, FilesKeep DEF RInv

\* The benchmark starts, or goes on with, the writing of a report.
LEMMA ReportKeeps ==
    ASSUME RInv, WriteSummary \/ WriteMarkdown \/ WriteHtml
    PROVE  RInv'
<1>1. UNCHANGED <<tasksFile, approval, bundle>>
  BY DEF WriteSummary, WriteMarkdown, WriteHtml
<1>2. Disturb
  BY DEF WriteSummary, WriteMarkdown, WriteHtml
<1>3. Fields'
  <2>1. /\ export'.at = export.at /\ "at" \in DOMAIN export'
        /\ export'.at # "idle" => /\ {"least", "raced", "torn"} \subseteq DOMAIN export'
                                  /\ export'.raced \in BOOLEAN /\ export'.torn \in BOOLEAN
    BY <1>2 DEF Disturb, RInv, Fields
  <2>2. /\ bench'.at \in BenchAt /\ "at" \in DOMAIN bench'
        /\ bench'.at \notin {"sealed", "preflight", "running"}
        /\ bench'.at \in {"evaluated", "summary", "markdown"} => "summary" \in DOMAIN bench'
    BY DEF WriteSummary, WriteMarkdown, WriteHtml, BenchIdle, RInv, Fields, BenchAt
  <2>3. DOMAIN report' = DOMAIN report /\ report'.torn \in BOOLEAN
    BY DEF WriteSummary, WriteMarkdown, WriteHtml, RInv, Fields
  <2> QED
    BY <1>1, <2>1, <2>2, <2>3 DEF RInv, Fields
<1>4. Sealing'
  BY DEF WriteSummary, WriteMarkdown, WriteHtml, BenchIdle, RInv, Fields, Sealing
<1>5. Reporting'
  <2> USE DEF RInv, Fields, Reporting
  <2>1. CASE WriteSummary
    BY <2>1 DEF WriteSummary
  <2>2. CASE WriteMarkdown
    BY <2>2 DEF WriteMarkdown
  <2>3. CASE WriteHtml
    BY <2>3 DEF WriteHtml, BenchIdle
  <2> QED
    BY <2>1, <2>2, <2>3
<1>6. Exporting'
  <2>1. export'.at = export.at /\ (export'.at # "idle" => export'.raced)
    BY <1>2 DEF Disturb, RInv, Fields
  <2> QED
    BY <1>1, <2>1 DEF RInv, Exporting, Released
<1> QED
  BY <1>1, <1>3, <1>4, <1>5, <1>6 DEF RInv, Released, ReleasedIsApproved, ReleasedPagesAgree

\* What the humans do.
LEMMA HumanKeeps ==
    ASSUME RInv, EditTasks \/ WriteTemplate \/ Sign
    PROVE  RInv'
<1>1. CASE EditTasks
  <2>1. UNCHANGED <<report, approval, export, bundle>>
    BY <1>1 DEF EditTasks
  <2>2. CASE "edited" \in DOMAIN bench
    <3>1. bench' = [bench EXCEPT !.edited = TRUE]
      BY <1>1, <2>2 DEF EditTasks
    <3>2. bench'.at = bench.at /\ bench'.edited /\ DOMAIN bench' = DOMAIN bench
      BY <2>2, <3>1 DEF RInv, Fields
    <3>3. "summary" \in DOMAIN bench => bench'.summary = bench.summary
      BY <3>1
    <3> QED
      BY <2>1, <3>2, <3>3 DEF RInv, Fields, Sealing, Reporting, Exporting, Looked, Copied,
         Released, ReleasedIsApproved, ReleasedPagesAgree
  <2>3. CASE "edited" \notin DOMAIN bench
    <3>1. bench' = bench
      BY <1>1, <2>3 DEF EditTasks
    <3> QED
      BY <2>1, <2>3, <3>1 DEF RInv, Fields, Sealing, Reporting, Exporting, Looked, Copied,
         Released, ReleasedIsApproved, ReleasedPagesAgree
  <2> QED
    BY <2>2, <2>3
<1>2. CASE WriteTemplate \/ Sign
  <2>1. UNCHANGED <<tasksFile, bench, report, bundle>>
    BY <1>2 DEF WriteTemplate, Sign
  <2>2. /\ export'.at = export.at /\ "at" \in DOMAIN export'
        /\ export'.at # "idle" => /\ {"least", "raced", "torn"} \subseteq DOMAIN export'
                                  /\ export'.raced = TRUE /\ export'.torn \in BOOLEAN
    BY <1>2 DEF WriteTemplate, Sign, Disturb, RInv, Fields
  <2> QED
    BY <2>1, <2>2 DEF RInv, Fields, Sealing, Reporting, Exporting, Released,
       ReleasedIsApproved, ReleasedPagesAgree
<1> QED
  BY <1>1, <1>2

\* Looks and copies of the export.
LEMMA ExportKeeps ==
    ASSUME RInv, \/ CheckThresholds \/ CheckApproval \/ ClearBundle \/ CopyFile
                 \/ WriteManifest \/ ExportDies
    PROVE  RInv'
<1>1. UNCHANGED <<tasksFile, bench, report, approval>>
  BY DEF CheckThresholds, CheckApproval, ClearBundle, CopyFile, WriteManifest, ExportDies
<1>2. (Sealing /\ Reporting)'
  BY <1>1 DEF RInv, Sealing, Reporting
<1>3. CASE CheckThresholds
  BY <1>1, <1>2, <1>3 DEF CheckThresholds, RInv, Fields, ExportAt, Exporting, Looked, Copied,
     Released, ReleasedIsApproved, ReleasedPagesAgree
<1>4. CASE CheckApproval
  <2>1. CASE export' = ExportIdle
    BY <1>1, <1>2, <1>4, <2>1 DEF CheckApproval, ExportIdle, RInv, Fields, ExportAt,
       Exporting, Released, ReleasedIsApproved, ReleasedPagesAgree
  <2>2. CASE export' = [export EXCEPT !.at = "approved"] /\ Approves(approval, report.summary)
    <3>1. /\ export'.at = "approved" /\ DOMAIN export' = DOMAIN export
          /\ export'.least = export.least /\ export'.raced = export.raced
          /\ export'.torn = export.torn
      BY <1>4, <2>2 DEF CheckApproval, RInv, Fields
    <3> QED
      BY <1>1, <1>2, <1>4, <2>2, <3>1 DEF CheckApproval, RInv, Fields, ExportAt,
         Exporting, Looked, Copied, Released, ReleasedIsApproved, ReleasedPagesAgree
  <2> QED
    BY <1>4, <2>1, <2>2 DEF CheckApproval
<1>5. CASE ClearBundle
  <2>1. /\ export'.at = "cleared" /\ DOMAIN export' = DOMAIN export
        /\ export'.least = export.least /\ export'.raced = export.raced
        /\ export'.torn = export.torn
    BY <1>5 DEF ClearBundle, RInv, Fields
  <2>2. bundle'.manifest = None /\ DOMAIN bundle' = DOMAIN bundle
    BY <1>5 DEF ClearBundle, NoBundle, RInv, Fields
  <2> QED
    BY <1>1, <1>2, <1>5, <2>1, <2>2 DEF ClearBundle, RInv, Fields, ExportAt, Exporting,
       Looked, Copied, Released, ReleasedIsApproved, ReleasedPagesAgree
<1>6. CASE CopyFile
  <2>1. CASE export' = ExportIdle /\ UNCHANGED bundle
    BY <1>1, <1>2, <2>1 DEF ExportIdle, RInv, Fields, ExportAt, Exporting, Released,
       ReleasedIsApproved, ReleasedPagesAgree
  <2>2. ASSUME NEW name \in {"summary", "md", "html"},
               name = CopyNext[export.at], export.at \in {"cleared", "summary", "md"},
               bundle' = [bundle EXCEPT ![name] = report[name]],
               export' = [export EXCEPT !.at = name, !.torn = @ \/ report.torn]
        PROVE  RInv'
    <3>1. /\ export'.at = name /\ DOMAIN export' = DOMAIN export
          /\ export'.least = export.least /\ export'.raced = export.raced
          /\ export'.torn = (export.torn \/ report.torn)
      BY <2>2 DEF RInv, Fields
    <3>2. /\ DOMAIN bundle' = DOMAIN bundle /\ bundle'[name] = report[name]
          /\ \A f \in DOMAIN bundle \ {name} : bundle'[f] = bundle[f]
      BY <2>2 DEF RInv, Fields
    <3>3. ~Released /\ ~Released'
      BY <2>2, <3>2 DEF RInv, Fields, Exporting, Released
    <3>4. Fields'
      BY <1>1, <3>1, <3>2, <2>2 DEF RInv, Fields, ExportAt
    <3>5. Exporting'
      <4>1. CASE export.at = "cleared" /\ name = "summary"
        BY <1>1, <2>2, <3>1, <3>2, <3>3, <4>1 DEF RInv, Fields, Exporting, Looked, Copied
      <4>2. CASE export.at = "summary" /\ name = "md"
        BY <1>1, <2>2, <3>1, <3>2, <3>3, <4>2 DEF RInv, Fields, Exporting, Looked, Copied
      <4>3. CASE export.at = "md" /\ name = "html"
        BY <1>1, <2>2, <3>1, <3>2, <3>3, <4>3 DEF RInv, Fields, Exporting, Looked, Copied
      <4> QED
        BY <2>2, <4>1, <4>2, <4>3 DEF CopyNext
    <3> QED
      BY <1>2, <3>3, <3>4, <3>5 DEF RInv, ReleasedIsApproved, ReleasedPagesAgree
  <2>3. export.at \in {"cleared", "summary", "md"} /\ CopyNext[export.at] \in {"summary", "md", "html"}
    BY <1>6 DEF CopyFile, CopyNext
  <2> QED
    BY <1>6, <2>1, <2>2, <2>3 DEF CopyFile
<1>7. CASE WriteManifest
  <2>1. export.at = "html" /\ export' = ExportIdle
    BY <1>7 DEF WriteManifest
  <2>2. /\ DOMAIN bundle' = DOMAIN bundle
        /\ bundle'.summary = bundle.summary /\ bundle'.md = bundle.md
        /\ bundle'.html = bundle.html /\ bundle'.approval = approval
        /\ bundle'.manifest = [summary |-> bundle.summary, least |-> export.least]
        /\ bundle'.raced = export.raced /\ bundle'.torn = export.torn
    BY <1>7 DEF WriteManifest, RInv, Fields
  <2>3. Fields' /\ Exporting'
    BY <1>1, <2>1, <2>2 DEF ExportIdle, ExportAt, RInv, Fields, Exporting
  <2>4. ReleasedPagesAgree'
    BY <1>1, <2>1, <2>2 DEF RInv, Fields, Exporting, Looked, Copied, Reporting,
       ReleasedPagesAgree
  <2>5. ReleasedIsApproved'
    <3>1. ASSUME ~export.raced
          PROVE  /\ bundle'.manifest.summary = bundle'.summary
                 /\ bundle'.approval.signed /\ bundle'.approval.hash = bundle'.summary
                 /\ Meets(bundle'.summary, bundle'.manifest.least)
      BY <2>1, <2>2, <3>1 DEF RInv, Exporting, Looked, Copied, Approves
    <3> QED
      BY <2>2, <3>1 DEF ReleasedIsApproved, Meets, Rate, Count
  <2> QED
    BY <1>2, <2>3, <2>4, <2>5 DEF RInv
<1>8. CASE ExportDies
  BY <1>1, <1>2, <1>8 DEF ExportDies, ExportIdle, RInv, Fields, ExportAt, Exporting,
     Released, ReleasedIsApproved, ReleasedPagesAgree
<1> QED
  BY <1>3, <1>4, <1>5, <1>6, <1>7, <1>8

LEMMA StepKeeps == RInv /\ [ReleaseNext]_releaseVars => RInv'
<1> SUFFICES ASSUME RInv, [ReleaseNext]_releaseVars PROVE RInv'
  OBVIOUS
<1>1. CASE UNCHANGED releaseVars
  BY <1>1 DEF releaseVars, RInv, Fields, Sealing, Reporting, Exporting, Looked, Copied,
     Released, ReleasedIsApproved, ReleasedPagesAgree
<1>2. CASE ReleaseNext
  BY <1>2, RunKeeps, ReportKeeps, HumanKeeps, ExportKeeps DEF ReleaseNext
<1> QED
  BY <1>1, <1>2

LEMMA ReleaseInvariant == ReleaseSpec => []RInv
  BY InitHolds, StepKeeps, PTL DEF ReleaseSpec

\* A release holds the summary a human signed for, and it meets the
\* thresholds (main of export_verified_bundle.py).
THEOREM ReleaseIsApproved == ReleaseSpec => []ReleasedIsApproved
<1>1. RInv => ReleasedIsApproved
  BY DEF RInv
<1> QED
  BY <1>1, ReleaseInvariant, PTL

\* The pages of a release are of the run its summary is of (write_report and
\* the copies of the export).
THEOREM ReleasePagesAgree == ReleaseSpec => []ReleasedPagesAgree
<1>1. RInv => ReleasedPagesAgree
  BY DEF RInv
<1> QED
  BY <1>1, ReleaseInvariant, PTL

\* No holdout set is loaded but the sealed one, and only when told to
\* (check_holdout_seal and load_tasks).
THEOREM HoldoutStaysSealed == ReleaseSpec => []HoldoutIsSealed
<1>1. RInv => HoldoutIsSealed
  BY DEF RInv, Sealing, HoldoutIsSealed
<1> QED
  BY <1>1, ReleaseInvariant, PTL

-----------------------------------------------------------------------------
(***************************************************************************)
(* A claim and its task set: a run that goes over its whole list has, at   *)
(* any time, one transcript for each task of the list it is past.          *)
(***************************************************************************)

\* How far the run is in the list it has loaded.
All == TasksOf[bench.loaded]
Past == Len(All) - Len(bench.tasks)

Matched ==
    /\ bench.tasks \in Seq(Tasks) /\ Past \in Nat
    /\ \A i \in 1..Len(bench.tasks) : bench.tasks[i] = All[Past + i]
    /\ {t.task : t \in bench.done} = {All[i] : i \in 1..Past}
    /\ IsFiniteSet(bench.done) /\ Cardinality(bench.done) = Past
    /\ \A t \in bench.done : t.of = bench.loaded /\ t.run = runs /\ ~t.fixture

Loaded ==
    bench.at \in {"preflight", "running"} =>
        /\ bench.loaded \in DOMAIN TasksOf
        /\ ~bench.edited => bench.loaded = tasksFile
        /\ ~bench.o.existing /\ bench.o.limit = 0 => Matched

Covers(s) ==
    s # None /\ s.eligible /\ s.whole =>
        /\ {t.task : t \in s.real} = {TasksOf[s.set][i] : i \in DOMAIN TasksOf[s.set]}
        /\ Cardinality(s.real) = Len(TasksOf[s.set])
        /\ \A t \in s.real : t.of = s.set /\ t.run = s.run

CInv == /\ Fields
        /\ tasksFile \in DOMAIN TasksOf
        /\ Loaded
        /\ bench.at \in {"evaluated", "summary", "markdown"} => Covers(bench.summary)
        /\ Covers(report.summary)

\* Nothing of the run is written.
LEMMA ClaimKeeps ==
    ASSUME CInv, Fields', UNCHANGED <<tasksFile, bench, report, runs>>
    PROVE  CInv'
  BY DEF CInv, Loaded, Matched, All, Past, Covers

\* The transcript of the next task joins those of the tasks before it.
LEMMA TaskCounts ==
    ASSUME CInv, Fields', RunTask
    PROVE  CInv'
<1>1. PICK t : /\ t.task = Head(bench.tasks) /\ t.of = bench.loaded /\ t.run = runs
               /\ ~t.fixture
               /\ bench' = [bench EXCEPT !.tasks = Tail(@), !.done = @ \cup {t}]
  BY DEF RunTask
<1>2. /\ bench.at = "running" /\ bench.tasks # <<>>
      /\ UNCHANGED <<tasksFile, report, runs>>
  BY DEF RunTask
<1>3. /\ bench'.at = "running" /\ bench'.o = bench.o /\ bench'.edited = bench.edited
      /\ bench'.loaded = bench.loaded
      /\ bench'.tasks = Tail(bench.tasks) /\ bench'.done = bench.done \cup {t}
  BY <1>1, <1>2 DEF CInv, Fields
<1>4. Loaded'
  <2>1. /\ bench'.loaded \in DOMAIN TasksOf
        /\ ~bench'.edited => bench'.loaded = tasksFile'
    BY <1>2, <1>3 DEF CInv, Loaded
  <2>2. ASSUME ~bench.o.existing, bench.o.limit = 0
        PROVE  Matched'
    <3> DEFINE list == bench.tasks
               n == Past
    <3>1. /\ list \in Seq(Tasks) /\ n \in Nat
          /\ \A i \in 1..Len(list) : list[i] = All[n + i]
          /\ {u.task : u \in bench.done} = {All[i] : i \in 1..n}
          /\ IsFiniteSet(bench.done) /\ Cardinality(bench.done) = n
          /\ \A u \in bench.done : u.of = bench.loaded /\ u.run = runs /\ ~u.fixture
      BY <1>2, <2>2 DEF CInv, Loaded, Matched
    <3>2. /\ Len(list) \in Nat /\ Len(list) > 0 /\ Head(list) = list[1]
          /\ Tail(list) \in Seq(Tasks) /\ Len(Tail(list)) = Len(list) - 1
          /\ \A i \in 1..Len(list) - 1 : Tail(list)[i] = list[i + 1]
      BY <1>2, <3>1
    <3>3. All \in Seq(Tasks) /\ Len(All) \in Nat /\ n = Len(All) - Len(list)
      BY <1>2, ReleaseAssumption DEF CInv, Loaded, All, Past
    <3>a. Len(list) \in Nat /\ Len(list) > 0 /\ Len(Tail(list)) = Len(list) - 1
      BY <3>2
    <3>b. Len(All) \in Nat /\ n = Len(All) - Len(list)
      BY <3>3
    <3>c. /\ n \in Nat /\ IsFiniteSet(bench.done) /\ Cardinality(bench.done) = n
          /\ {u.task : u \in bench.done} = {All[i] : i \in 1..n}
      BY <3>1
    <3>4. All' = All /\ Past' = n + 1
      <4>1. All' = All
        BY <1>3 DEF All
      <4>2. Past' = Len(All') - Len(bench'.tasks)
        BY DEF Past
      <4>3. Len(bench'.tasks) = Len(list) - 1
        BY <1>3, <3>a
      <4> QED
        BY <3>a, <3>b, <4>1, <4>2, <4>3
    <3> HIDE DEF n, list
    <3>5. t.task = All[n + 1]
      <4>1. 1 \in 1..Len(list) /\ t.task = list[1]
        BY <1>1, <3>2 DEF list
      <4> QED
        BY <3>1, <4>1
    <3>6. t \notin bench.done
      <4> SUFFICES ASSUME t \in bench.done PROVE FALSE
        OBVIOUS
      <4>0. t.task \in {u.task : u \in bench.done}
        OBVIOUS
      <4>1. PICK i \in 1..n : t.task = All[i]
        BY <3>c, <4>0
      <4>2. i \in DOMAIN All /\ n + 1 \in DOMAIN All
        <5>1. DOMAIN All = 1..Len(All)
          BY <3>3
        <5>2. n + 1 <= Len(All)
          BY <3>1, <3>2, <3>3
        <5> QED
          BY <3>1, <3>3, <5>1, <5>2
      <4>3. \A j, k \in DOMAIN All : All[j] = All[k] => j = k
        BY <1>2, ReleaseAssumption DEF CInv, Loaded, All
      <4>4. i = n + 1
        BY <3>5, <4>1, <4>2, <4>3
      <4> QED
        BY <3>1, <4>4
    <3>7. IsFiniteSet(bench'.done) /\ Cardinality(bench'.done) = n + 1
      BY <1>3, <3>c, <3>6, FS_AddElement
    <3>8. {u.task : u \in bench'.done} = {All[i] : i \in 1..(n + 1)}
      <4>1. {u.task : u \in bench'.done} = {u.task : u \in bench.done} \cup {t.task}
        BY <1>3
      <4>2. 1..(n + 1) = (1..n) \cup {n + 1}
        BY <3>1
      <4> QED
        BY <3>1, <3>5, <4>1, <4>2
    <3>9. \A i \in 1..Len(Tail(list)) : Tail(list)[i] = All[n + 1 + i]
      <4> SUFFICES ASSUME NEW i \in 1..Len(Tail(list)) PROVE Tail(list)[i] = All[n + 1 + i]
        OBVIOUS
      <4>1. i + 1 \in 1..Len(list) /\ Tail(list)[i] = list[i + 1]
        BY <3>2
      <4>2. n + (i + 1) = n + 1 + i
        BY <3>1
      <4> QED
        BY <3>1, <4>1, <4>2
    <3>10. \A u \in bench'.done : u.of = bench'.loaded /\ u.run = runs' /\ ~u.fixture
      BY <1>1, <1>2, <1>3, <3>1
    <3>11. bench'.tasks = Tail(list)
      BY <1>3 DEF list
    <3>12. \A i \in 1..Len(bench'.tasks) : bench'.tasks[i] = All'[Past' + i]
      BY <3>4, <3>9, <3>11
    <3>13. {u.task : u \in bench'.done} = {All'[i] : i \in 1..Past'}
      BY <3>4, <3>8
    <3>14. bench'.tasks \in Seq(Tasks) /\ Past' \in Nat /\ Cardinality(bench'.done) = Past'
      BY <3>1, <3>2, <3>4, <3>7, <3>11
    <3> QED
      BY <3>7, <3>10, <3>12, <3>13, <3>14 DEF Matched
  <2> QED
    BY <1>3, <2>1, <2>2 DEF Loaded
<1>5. bench'.at \notin {"evaluated", "summary", "markdown"}
  BY <1>3
<1> QED
  BY <1>2, <1>4, <1>5 DEF CInv, Covers

\* The list is loaded.
LEMMA LoadCounts ==
    ASSUME CInv, Fields', LoadTasks
    PROVE  CInv'
<1> DEFINE list == Limited(TasksOf[tasksFile], bench.o.limit)
<1>1. /\ bench'.at \in {"running", "preflight"} /\ bench'.o = bench.o
      /\ bench'.edited = bench.edited /\ bench'.loaded = tasksFile
      /\ bench'.tasks = IF bench.o.existing THEN <<>> ELSE list
      /\ bench'.done = {}
      /\ UNCHANGED <<tasksFile, report, runs>>
  BY DEF LoadTasks
<1>2. TasksOf[tasksFile] \in Seq(Tasks)
  BY ReleaseAssumption DEF CInv
<1>3. bench.o.limit = 0 => list = TasksOf[tasksFile]
  BY DEF Limited
<1> HIDE DEF list
<1>4. IsFiniteSet({}) /\ Cardinality({}) = 0
  BY FS_EmptySet
<1>5. Loaded'
  <2>1. ASSUME ~bench.o.existing, bench.o.limit = 0
        PROVE  /\ bench'.tasks \in Seq(Tasks) /\ Past' = 0 /\ All' = bench'.tasks
    BY <1>1, <1>2, <1>3, <2>1 DEF Past, All
  <2>2. ASSUME ~bench.o.existing, bench.o.limit = 0
        PROVE  \A i \in 1..Len(bench'.tasks) : bench'.tasks[i] = All'[Past' + i]
    BY <2>1, <2>2
  <2>3. {u.task : u \in bench'.done} = {All'[i] : i \in 1..0}
    BY <1>1
  <2> QED
    BY <1>1, <1>4, <2>1, <2>2, <2>3 DEF CInv, Loaded, Matched
<1> QED
  BY <1>1, <1>5 DEF CInv, Covers

\* What is evaluated is the whole list.
LEMMA EvaluateCovers ==
    ASSUME CInv, Fields', Evaluate
    PROVE  CInv'
<1> DEFINE real == {t \in Rows : ~t.fixture}
<1>1. /\ bench.at = "running" /\ bench.tasks = <<>>
      /\ bench'.at = "evaluated"
      /\ bench'.summary.run = runs /\ bench'.summary.set = tasksFile
      /\ bench'.summary.real = real
      /\ bench'.summary.whole <=> ~bench.o.existing /\ bench.o.limit = 0 /\ ~bench.edited
      /\ UNCHANGED <<tasksFile, report, runs>>
  BY DEF Evaluate
<1>2. ASSUME bench'.summary.whole
      PROVE  /\ {t.task : t \in real}
                   = {TasksOf[tasksFile][i] : i \in DOMAIN TasksOf[tasksFile]}
             /\ Cardinality(real) = Len(TasksOf[tasksFile])
             /\ \A t \in real : t.of = tasksFile /\ t.run = runs
  <2>1. /\ bench.loaded = tasksFile /\ Past \in Nat
        /\ {t.task : t \in bench.done} = {All[i] : i \in 1..Past}
        /\ Cardinality(bench.done) = Past
        /\ \A t \in bench.done : t.of = bench.loaded /\ t.run = runs /\ ~t.fixture
    BY <1>1, <1>2 DEF CInv, Loaded, Matched
  <2>2. All = TasksOf[tasksFile] /\ All \in Seq(Tasks)
    BY <2>1, ReleaseAssumption DEF All, CInv
  <2>3. Past = Len(All) /\ DOMAIN All = 1..Past
    BY <1>1, <2>2 DEF Past
  <2>4. real = bench.done
    BY <1>1, <1>2, <2>1 DEF Rows
  <2> QED
    BY <2>1, <2>2, <2>3, <2>4
<1> HIDE DEF real
<1>3. Covers(bench'.summary)
  BY <1>1, <1>2 DEF Covers
<1>4. bench'.at \notin {"preflight", "running"}
  BY <1>1
<1> QED
  BY <1>1, <1>3, <1>4 DEF CInv, Loaded, Covers

LEMMA ClaimStep == CInv /\ RInv /\ [ReleaseNext]_releaseVars => CInv'
<1> SUFFICES ASSUME CInv, RInv, [ReleaseNext]_releaseVars PROVE CInv'
  OBVIOUS
<1>0. Fields'
  BY StepKeeps DEF RInv
<1>1. CASE CheckSeal
  <2>1. bench'.at = "sealed" /\ UNCHANGED <<tasksFile, report>>
    BY <1>1 DEF CheckSeal
  <2> QED
    BY <1>0, <2>1 DEF CInv, Loaded, Covers
<1>2. CASE Preflight
  <2>1. UNCHANGED <<tasksFile, report, runs>>
    BY <1>2 DEF Preflight
  <2>2. CASE bench' = BenchIdle
    BY <1>0, <2>1, <2>2 DEF CInv, Loaded, Covers, BenchIdle
  <2>3. CASE bench' = [bench EXCEPT !.at = "running"]
    <3>1. /\ bench'.at = "running" /\ bench'.o = bench.o /\ bench'.edited = bench.edited
          /\ bench'.loaded = bench.loaded /\ bench'.tasks = bench.tasks
          /\ bench'.done = bench.done /\ bench.at = "preflight"
      BY <1>2, <2>3 DEF Preflight, CInv, Fields
    <3>2. All' = All /\ Past' = Past
      BY <3>1 DEF All, Past
    <3>3. Matched' <=> Matched
      BY <2>1, <3>1, <3>2 DEF Matched
    <3>4. Loaded'
      BY <2>1, <3>1, <3>3 DEF CInv, Loaded
    <3> QED
      BY <1>0, <2>1, <3>1, <3>4 DEF CInv, Covers
  <2> QED
    BY <1>2, <2>2, <2>3 DEF Preflight
<1>3. CASE WriteSummary \/ WriteMarkdown
  <2>1. /\ bench'.at \in {"summary", "markdown"} /\ bench'.summary = bench.summary
        /\ bench.at \in {"evaluated", "summary"} /\ UNCHANGED tasksFile
    BY <1>3 DEF WriteSummary, WriteMarkdown, CInv, Fields
  <2>2. report'.summary \in {report.summary, bench.summary}
    BY <1>3 DEF WriteSummary, WriteMarkdown, CInv, Fields
  <2>3. Covers(bench.summary) /\ Covers(report.summary)
    BY <2>1 DEF CInv
  <2>4. Covers(bench'.summary) /\ Covers(report'.summary)
    BY <2>1, <2>2, <2>3
  <2> QED
    BY <1>0, <2>1, <2>4 DEF CInv, Loaded, Covers
<1>4. CASE WriteHtml \/ BenchDies
  <2>1. bench'.at = "idle" /\ UNCHANGED tasksFile
    BY <1>4 DEF WriteHtml, BenchDies, BenchIdle
  <2>2. report'.summary = report.summary
    BY <1>4 DEF WriteHtml, BenchDies, CInv, Fields
  <2>3. Covers(report.summary)'
    <3>1. Covers(report'.summary)
      BY <2>2 DEF CInv
    <3> QED
      BY <3>1 DEF Covers
  <2>4. bench'.at \notin {"preflight", "running", "evaluated", "summary", "markdown"}
    BY <2>1
  <2> QED
    BY <1>0, <2>1, <2>3, <2>4 DEF CInv, Loaded
<1>5. CASE EditTasks
  <2>1. tasksFile' \in DOMAIN TasksOf /\ UNCHANGED <<report, runs>>
    BY <1>5 DEF EditTasks
  <2>2. CASE "edited" \in DOMAIN bench
    <3>1. bench' = [bench EXCEPT !.edited = TRUE]
      BY <1>5, <2>2 DEF EditTasks
    <3>2. /\ bench'.at = bench.at /\ bench'.o = bench.o /\ bench'.edited
          /\ bench'.loaded = bench.loaded /\ bench'.tasks = bench.tasks
          /\ bench'.done = bench.done /\ bench'.summary = bench.summary
      BY <2>2, <3>1
    <3>3. All' = All /\ Past' = Past
      BY <3>2 DEF All, Past
    <3>4. Matched' <=> Matched
      BY <2>1, <3>2, <3>3 DEF Matched
    <3>6. Loaded'
      BY <2>1, <3>2, <3>4 DEF CInv, Loaded
    <3>5. Covers(bench.summary)' <=> Covers(bench.summary)
      BY <3>2 DEF Covers
    <3> QED
      BY <1>0, <2>1, <3>2, <3>5, <3>6 DEF CInv, Covers
  <2>3. CASE "edited" \notin DOMAIN bench
    <3>1. bench' = bench /\ bench.at \notin {"preflight", "running"}
      BY <1>5, <2>3 DEF EditTasks, CInv, Fields
    <3> QED
      BY <1>0, <2>1, <3>1 DEF CInv, Loaded, Covers
  <2> QED
    BY <2>2, <2>3
<1>6. CASE \/ PersistFixtures \/ WriteTemplate \/ Sign \/ CheckThresholds \/ CheckApproval
           \/ ClearBundle \/ CopyFile \/ WriteManifest \/ ExportDies \/ UNCHANGED releaseVars
  <2>1. UNCHANGED <<tasksFile, bench, report>>
    BY <1>6 DEF PersistFixtures, WriteTemplate, Sign, CheckThresholds, CheckApproval,
       ClearBundle, CopyFile, WriteManifest, ExportDies, releaseVars
  <2>2. UNCHANGED runs
    BY <1>6 DEF PersistFixtures, WriteTemplate, Sign, CheckThresholds, CheckApproval,
       ClearBundle, CopyFile, WriteManifest, ExportDies, releaseVars
  <2> QED
    BY <1>0, <2>1, <2>2, ClaimKeeps
<1> QED
  BY <1>0, <1>1, <1>2, <1>3, <1>4, <1>5, <1>6, LoadCounts, TaskCounts, EvaluateCovers
     DEF ReleaseNext

\* A claim rests on one transcript of this very run for each task of the set
\* it names (load_tasks, run_live_task, evaluate_transcripts).
THEOREM ClaimCoversItsTasks == ReleaseSpec => []ClaimCoversTaskSet
<1>1. ReleaseInit => CInv
  <2> SUFFICES ASSUME ReleaseInit PROVE CInv
    OBVIOUS
  <2>1. Fields
    BY InitHolds DEF RInv
  <2>2. bench.at = "idle" /\ report.summary = None /\ tasksFile \in DOMAIN TasksOf
    BY ReleaseAssumption DEF ReleaseInit, BenchIdle, NoReport
  <2> QED
    BY <2>1, <2>2 DEF CInv, Loaded, Covers
<1>2. CInv => ClaimCoversTaskSet
  BY DEF CInv, Covers, ClaimCoversTaskSet
<1> QED
  BY <1>1, <1>2, ClaimStep, ReleaseInvariant, PTL DEF ReleaseSpec

-----------------------------------------------------------------------------
(***************************************************************************)
(* The trace file of TraceChain.                                           *)
(***************************************************************************)
Write == [hash : Nat, prev : Nat, step : Nat, whole : BOOLEAN]

ChainTypeOK ==
    /\ file \in Seq(Write)
    /\ made \in Nat
    /\ alive \in BOOLEAN
    /\ stepIndex \in Nat
    /\ prevHash \in Nat

\* What the memory of a running driver says of the end of the file: its next
\* record is a first one, or follows the last write, or that write is torn.
MemoryFits ==
    alive =>
        \/ stepIndex = 0 /\ prevHash = ZeroHash
        \/ /\ Len(file) > 0
           /\ \/ ~file[Len(file)].whole
              \/ /\ file[Len(file)].hash = prevHash
                 /\ file[Len(file)].step + 1 = stepIndex

ChainInv == ChainTypeOK /\ MemoryFits /\ BreaksAreVisible

\* The first writes of a longer file are those of the shorter one.
LEMMA AppendKeeps ==
    ASSUME NEW f \in Seq(Write), NEW w \in Write
    PROVE  /\ Append(f, w) \in Seq(Write)
           /\ Len(f) \in Nat
           /\ Len(Append(f, w)) = Len(f) + 1
           /\ DOMAIN f = 1..Len(f)
           /\ DOMAIN Append(f, w) = 1..(Len(f) + 1)
           /\ Append(f, w)[Len(f) + 1] = w
           /\ \A i \in 1..Len(f) : Append(f, w)[i] = f[i]
  OBVIOUS

\* What a reader finds above a write does not change.
LEMMA AboveKept ==
    ASSUME NEW f \in Seq(Write), NEW w \in Write, NEW i \in DOMAIN f
    PROVE  /\ Readable(Append(f, w), i) <=> Readable(f, i)
           /\ Placed(Append(f, w), i) <=> Placed(f, i)
<1> DEFINE g == Append(f, w)
<1>1. /\ i \in 1..Len(f) /\ Len(f) \in Nat
      /\ \A j \in 1..Len(f) : g[j] = f[j]
  BY AppendKeeps
<1> HIDE DEF g
<1>2. g[i] = f[i] /\ (i # 1 => g[i - 1] = f[i - 1])
  BY <1>1
<1>3. Readable(g, i) <=> Readable(f, i)
  BY <1>2 DEF Readable
<1>4. i > 1 => (Readable(g, i - 1) <=> Readable(f, i - 1))
  <2>1. i > 1 /\ i - 1 # 1 => g[i - 2] = f[i - 2]
    BY <1>1
  <2>2. (i - 1) - 1 = i - 2
    BY <1>1
  <2> QED
    BY <1>1, <1>2, <2>1, <2>2 DEF Readable
<1>5. Placed(g, i) <=> Placed(f, i)
  <2>1. CASE i > 1
    BY <1>1, <1>2, <1>4, <2>1 DEF Placed
  <2>2. CASE ~(i > 1)
    BY <1>2, <2>2 DEF Placed
  <2> QED
    BY <2>1, <2>2
<1> QED
  BY <1>3, <1>5 DEF g

\* A torn write is no record to a reader, and a whole one by a driver whose
\* memory fits is placed.
LEMMA AppendVisible ==
    ASSUME ChainInv, NEW w \in Write, w.whole => alive /\ w = Written(TRUE)
    PROVE  \A i \in DOMAIN Append(file, w) :
              Readable(Append(file, w), i) => Placed(Append(file, w), i)
<1> DEFINE g == Append(file, w)
           n == Len(file)
<1>1. /\ n \in Nat /\ DOMAIN file = 1..n /\ DOMAIN g = 1..(n + 1)
      /\ g[n + 1] = w
      /\ \A i \in 1..n : g[i] = file[i]
  BY AppendKeeps DEF ChainInv, ChainTypeOK
<1>2. \A i \in 1..n : Readable(g, i) => Placed(g, i)
  BY <1>1, AboveKept DEF ChainInv, ChainTypeOK, BreaksAreVisible
<1> HIDE DEF g, n
<1>3. ASSUME Readable(g, n + 1)
      PROVE  Placed(g, n + 1)
  <2>1. w.whole /\ (n # 0 => file[n].whole)
    <3>1. n # 0 => (n + 1) - 1 = n /\ n \in 1..n /\ n + 1 # 1
      BY <1>1
    <3> QED
      BY <1>1, <1>3, <3>1 DEF Readable
  <2>2. w.step = stepIndex /\ w.prev = prevHash
    BY <2>1 DEF Written
  <2>3. alive
    BY <2>1
  <2>4. CASE stepIndex = 0 /\ prevHash = ZeroHash
    BY <1>1, <2>2, <2>4 DEF Placed
  <2>5. CASE n > 0 /\ file[n].hash = prevHash /\ file[n].step + 1 = stepIndex
    <3>1. n + 1 > 1 /\ (n + 1) - 1 = n /\ n \in 1..n
      BY <1>1, <2>5
    <3> QED
      BY <1>1, <2>2, <2>5, <3>1 DEF Placed
  <2> QED
    BY <1>1, <2>1, <2>3, <2>4, <2>5 DEF ChainInv, MemoryFits, n
<1>4. \A i \in 1..(n + 1) : i \in 1..n \/ i = n + 1
  BY <1>1
<1> QED
  BY <1>1, <1>2, <1>3, <1>4 DEF g

LEMMA ChainInitHolds == ChainInit => ChainInv
<1> SUFFICES ASSUME ChainInit
             PROVE  ChainInv
  OBVIOUS
<1>1. file = <<>> /\ DOMAIN file = {} /\ file \in Seq(Write)
  BY DEF ChainInit
<1>2. ~alive /\ alive \in BOOLEAN
  BY DEF ChainInit
<1>3. ChainTypeOK
  BY <1>1, <1>2 DEF ChainInit, ChainTypeOK, ZeroHash
<1>4. BreaksAreVisible
  BY <1>1 DEF BreaksAreVisible
<1> QED
  BY <1>2, <1>3, <1>4 DEF ChainInv, MemoryFits

LEMMA ChainStep == ChainInv /\ [ChainNext]_chainVars => ChainInv'
<1> SUFFICES ASSUME ChainInv, [ChainNext]_chainVars
             PROVE  ChainInv'
  OBVIOUS
<1>0. \A b \in BOOLEAN : Written(b) \in Write /\ Written(b).whole = b
  BY DEF ChainInv, ChainTypeOK, Write, Written
<1>1. CASE StartDriver
  BY <1>1 DEF StartDriver, ChainInv, ChainTypeOK, MemoryFits, BreaksAreVisible, ZeroHash
<1>2. CASE EndDriver
  BY <1>2 DEF EndDriver, ChainInv, ChainTypeOK, MemoryFits, BreaksAreVisible
<1>3. CASE EmitTrace
  <2>1. alive /\ file' = Append(file, Written(TRUE)) /\ prevHash' = made + 1
        /\ stepIndex' = stepIndex + 1 /\ made' = made + 1 /\ alive' = alive
    BY <1>3 DEF EmitTrace, Emitting, MoveOn
  <2>2. /\ file' \in Seq(Write)
        /\ Len(file') = Len(file) + 1 /\ Len(file) \in Nat
        /\ file'[Len(file) + 1] = Written(TRUE)
    BY <1>0, <2>1, AppendKeeps DEF ChainInv, ChainTypeOK
  <2>3. BreaksAreVisible'
    BY <1>0, <2>1, AppendVisible DEF BreaksAreVisible
  <2>4. MemoryFits'
    BY <2>1, <2>2 DEF MemoryFits, Written
  <2>5. alive' \in BOOLEAN
    BY <2>1, Zenon DEF ChainInv, ChainTypeOK
  <2>6. ChainTypeOK'
    <3>1. made' \in Nat /\ stepIndex' \in Nat /\ prevHash' \in Nat
      BY <2>1 DEF ChainInv, ChainTypeOK
    <3> QED
      BY <2>2, <2>5, <3>1, Zenon DEF ChainTypeOK
  <2> QED
    BY <2>3, <2>4, <2>6 DEF ChainInv
<1>4. ASSUME CutOff, Emitting, UNCHANGED <<stepIndex, prevHash>>, alive' \in BOOLEAN
      PROVE  ChainInv'
  <2>1. alive /\ made' = made + 1
    BY <1>4 DEF Emitting
  <2>2. CASE UNCHANGED file
    BY <1>4, <2>1, <2>2 DEF ChainInv, ChainTypeOK, MemoryFits, BreaksAreVisible
  <2>3. CASE file' = Append(file, Written(FALSE))
    <3>1. BreaksAreVisible'
      BY <1>0, <2>3, AppendVisible DEF BreaksAreVisible
    <3> DEFINE w == Written(FALSE)
    <3>0. w \in Write /\ ~w.whole /\ file' = Append(file, w)
      BY <1>0, <2>3
    <3> HIDE DEF w
    <3>2. /\ file' \in Seq(Write)
          /\ Len(file') = Len(file) + 1
          /\ Len(file) \in Nat
          /\ ~file'[Len(file')].whole
      BY <3>0, AppendKeeps DEF ChainInv, ChainTypeOK
    <3> QED
      BY <1>4, <2>1, <3>1, <3>2 DEF ChainInv, ChainTypeOK, MemoryFits
  <2> QED
    BY <1>4, <2>2, <2>3 DEF CutOff
<1>5. CASE EmitTraceFails
  BY <1>4, <1>5 DEF EmitTraceFails, ChainInv, ChainTypeOK
<1>6. CASE DieEmitting
  <2>1. CASE CutOff
    BY <1>4, <1>6, <2>1 DEF DieEmitting
  <2>2. CASE file' = Append(file, Written(TRUE))
    <3>1. alive /\ ~alive' /\ UNCHANGED <<stepIndex, prevHash>> /\ made' = made + 1
      BY <1>6 DEF DieEmitting, Emitting
    <3>2. BreaksAreVisible'
      BY <1>0, <2>2, <3>1, AppendVisible DEF BreaksAreVisible
    <3>3. file' \in Seq(Write)
      BY <1>0, <2>2, AppendKeeps DEF ChainInv, ChainTypeOK
    <3>4. alive' \in BOOLEAN
      BY <1>6, Zenon DEF DieEmitting
    <3> QED
      BY <3>1, <3>2, <3>3, <3>4 DEF ChainInv, ChainTypeOK, MemoryFits
  <2> QED
    BY <1>6, <2>1, <2>2 DEF DieEmitting
<1>7. CASE UNCHANGED chainVars
  BY <1>7 DEF chainVars, ChainInv, ChainTypeOK, MemoryFits, BreaksAreVisible
<1> QED
  BY <1>1, <1>2, <1>3, <1>5, <1>6, <1>7 DEF ChainNext

\* Whatever fails or dies, a reader of the trace file (as the one of
\* tests/test_mind3.py) finds a broken link only where a line cannot be parsed
\* or a driver has started: PhaseDriver._emit_trace never lets the chain in
\* memory run ahead of the file.
THEOREM ChainBreaksVisible == ChainSpec => []BreaksAreVisible
<1>1. ChainInv => BreaksAreVisible
  BY DEF ChainInv
<1> QED
  BY ChainInitHolds, ChainStep, <1>1, PTL DEF ChainSpec
=============================================================================
