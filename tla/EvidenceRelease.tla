---- MODULE EvidenceRelease ----
(* From benchmark transcripts to a release bundle: a run of                    *)
(* benchmarks/runner.py writes one transcript per task, evaluates them and     *)
(* writes a summary and two pages; a human approves the hash of the summary;   *)
(* scripts/export_verified_bundle.py checks the summary and the approval and   *)
(* copies them.  Runner, human and exporter are processes of their own that    *)
(* share files, and the first and the last may die between two writes.         *)
(* The file hash of a summary is the summary itself.                           *)
EXTENDS Integers, Sequences, FiniteSets

CONSTANTS
    TasksOf,    \* the versions of the tasks file, each with its tasks in order
    Sealed,     \* the version the holdout manifest records
    MinTasks,   \* 100: least number of real tasks of a release
    Thresholds, \* what an export may be told to ask for: --min-tasks and, in
                \* hundredths of a percent, --min-functional and --min-verified
    None,       \* a file that is not there
    MaxRuns,    \* bound: runs of the benchmark
    MaxEdits    \* bound: edits of the tasks file

Tasks == UNION {{TasksOf[v][i] : i \in DOMAIN TasksOf[v]} : v \in DOMAIN TasksOf}

ASSUME ReleaseAssumption ==
    /\ Sealed \in DOMAIN TasksOf
    /\ \A v \in DOMAIN TasksOf : TasksOf[v] \in Seq(Tasks)
    /\ \A v \in DOMAIN TasksOf : \A i, j \in DOMAIN TasksOf[v] :
          TasksOf[v][i] = TasksOf[v][j] => i = j
    /\ MinTasks \in Nat \ {0} /\ MaxRuns \in Nat /\ MaxEdits \in Nat
    /\ Thresholds \subseteq [tasks : Int, functional : Int, verified : Int]

VARIABLES
    tasksFile,    \* the version of the tasks file on disk
    transcripts,  \* the transcripts directory: a file per task
    bench,        \* the benchmark process
    report,       \* benchmark_summary.json, benchmark_report.md and .html
    approval,     \* human_approval.json
    export,       \* the export process
    bundle,       \* the release bundle directory
    runs, edits

releaseVars == <<tasksFile, transcripts, bench, report, approval, export, bundle,
                 runs, edits>>

(* How a real task ends: signed off, past Gate 3 only, or not (which includes  *)
(* an environment failure).  A fixture is no real transcript.                  *)
Results == {"verified", "functional", "failed"}

NoReport  == [summary |-> None, md |-> None, html |-> None, torn |-> FALSE]
NoBundle  == [summary |-> None, md |-> None, html |-> None, approval |-> None,
              manifest |-> None, raced |-> FALSE, torn |-> FALSE]
BenchIdle == [at |-> "idle"]
ExportIdle == [at |-> "idle"]

ReleaseInit ==
    /\ tasksFile = Sealed
    /\ transcripts = [t \in Tasks |-> None]
    /\ bench = BenchIdle
    /\ report = NoReport
    /\ approval = None
    /\ export = ExportIdle
    /\ bundle = NoBundle
    /\ runs = 0 /\ edits = 0

-----------------------------------------------------------------------------
(* The benchmark: _cli of runner.py.                                           *)

(* Mutant of SealHolds: the flag alone opens the holdout set. *)
SealOpensByFlag(o) == o.holdout => o.unseal

SealHolds(o) == o.holdout => o.unseal /\ tasksFile = Sealed

(* check_holdout_seal, before anything is loaded. *)
CheckSeal ==
    /\ bench.at = "idle" /\ runs < MaxRuns
    /\ \E o \in [holdout : BOOLEAN, unseal : BOOLEAN, existing : BOOLEAN,
                 flagged : BOOLEAN, limit : {0, MinTasks}] :
          /\ o.unseal => o.holdout   \* the flag does nothing for another set
          /\ SealHolds(o)
          /\ bench' = [at |-> "sealed", o |-> o, edited |-> FALSE]
    /\ runs' = runs + 1
    /\ UNCHANGED <<tasksFile, transcripts, report, approval, export, bundle, edits>>

Limited(tasks, limit) ==
    IF limit = 0 \/ limit > Len(tasks) THEN tasks ELSE SubSeq(tasks, 1, limit)

(* load_tasks, and whether the run is diagnostic: --diagnostic or a lowered    *)
(* --min-tasks (flagged), or a short task list.                                *)
LoadTasks ==
    /\ bench.at = "sealed"
    /\ LET tasks == Limited(TasksOf[tasksFile], bench.o.limit)
       IN bench' = [at |-> IF bench.o.existing THEN "running" ELSE "preflight",
                    o |-> bench.o, edited |-> bench.edited,
                    loaded |-> tasksFile,
                    tasks |-> IF bench.o.existing THEN <<>> ELSE tasks,
                    diagnostic |-> bench.o.flagged \/ Len(tasks) < MinTasks,
                    done |-> {}]
    /\ UNCHANGED <<tasksFile, transcripts, report, approval, export, bundle, runs, edits>>

(* run_cdc_preflight: a broken checker refuses the live run. *)
Preflight ==
    /\ bench.at = "preflight"
    /\ \/ bench' = [bench EXCEPT !.at = "running"]
       \/ bench' = BenchIdle
    /\ UNCHANGED <<tasksFile, transcripts, report, approval, export, bundle, runs, edits>>

(* run_live_task and persist_transcript for the next task. *)
RunTask ==
    /\ bench.at = "running" /\ bench.tasks # <<>>
    /\ \E result \in Results :
          LET t == [task |-> Head(bench.tasks), of |-> bench.loaded, run |-> runs,
                    fixture |-> FALSE, result |-> result]
          IN /\ transcripts' = [transcripts EXCEPT ![t.task] = t]
             /\ bench' = [bench EXCEPT !.tasks = Tail(@), !.done = @ \cup {t}]
    /\ UNCHANGED <<tasksFile, report, approval, export, bundle, runs, edits>>

(* persist_all_fixtures writes a fixture over each task's transcript. *)
PersistFixtures ==
    /\ bench.at = "idle" /\ runs < MaxRuns
    /\ transcripts' = [t \in Tasks |->
          IF \E i \in DOMAIN TasksOf[tasksFile] : TasksOf[tasksFile][i] = t
          THEN [task |-> t, of |-> tasksFile, run |-> 0, fixture |-> TRUE,
                result |-> "verified"]
          ELSE transcripts[t]]
    /\ UNCHANGED <<tasksFile, bench, report, approval, export, bundle, runs, edits>>

OnDisk == {transcripts[t] : t \in {u \in Tasks : transcripts[u] # None}}

(* Mutant of Rows: a live run evaluates the directory too. *)
RowsOnDisk == IF bench.o.existing THEN OnDisk ELSE OnDisk \cup bench.done

(* A live run evaluates the transcripts it holds, --evaluate-existing every    *)
(* transcript there is.                                                        *)
Rows == IF bench.o.existing THEN OnDisk ELSE bench.done

Count(rows, results) == Cardinality({t \in rows : t.result \in results})

(* evaluate_transcripts: the tier does not look at how the tasks ended, and    *)
(* the task-set hash is that of the file as it is now.                         *)
Evaluate ==
    /\ bench.at = "running" /\ bench.tasks = <<>>
    /\ LET real == {t \in Rows : ~t.fixture}
       IN bench' = [at |-> "evaluated",
                    summary |-> [run |-> runs, set |-> tasksFile, real |-> real,
                                 eligible |-> /\ Cardinality(real) >= MinTasks
                                              /\ ~bench.diagnostic,
                                 whole |-> /\ ~bench.o.existing /\ bench.o.limit = 0
                                           /\ ~bench.edited]]
    /\ UNCHANGED <<tasksFile, transcripts, report, approval, export, bundle, runs, edits>>

Disturb == export' = IF export.at = "idle" THEN export ELSE [export EXCEPT !.raced = TRUE]

(* write_report: three files, one after the other. *)
WriteSummary ==
    /\ bench.at = "evaluated"
    /\ report' = [report EXCEPT !.summary = bench.summary, !.torn = TRUE]
    /\ bench' = [bench EXCEPT !.at = "summary"]
    /\ Disturb
    /\ UNCHANGED <<tasksFile, transcripts, approval, bundle, runs, edits>>

WriteMarkdown ==
    /\ bench.at = "summary"
    /\ report' = [report EXCEPT !.md = bench.summary]
    /\ bench' = [bench EXCEPT !.at = "markdown"]
    /\ Disturb
    /\ UNCHANGED <<tasksFile, transcripts, approval, bundle, runs, edits>>

WriteHtml ==
    /\ bench.at = "markdown"
    /\ report' = [report EXCEPT !.html = bench.summary, !.torn = FALSE]
    /\ bench' = BenchIdle
    /\ Disturb
    /\ UNCHANGED <<tasksFile, transcripts, approval, bundle, runs, edits>>

BenchDies ==
    /\ bench.at # "idle"
    /\ bench' = BenchIdle
    /\ UNCHANGED <<tasksFile, transcripts, report, approval, export, bundle, runs, edits>>

-----------------------------------------------------------------------------
(* The humans.                                                                 *)

EditTasks ==
    /\ edits < MaxEdits
    /\ \E v \in DOMAIN TasksOf \ {tasksFile} : tasksFile' = v
    /\ bench' = IF "edited" \in DOMAIN bench THEN [bench EXCEPT !.edited = TRUE] ELSE bench
    /\ edits' = edits + 1
    /\ UNCHANGED <<transcripts, report, approval, export, bundle, runs>>

(* write_approval_template: the hash of the summary, and placeholders. *)
WriteTemplate ==
    /\ report.summary # None
    /\ approval' = [hash |-> report.summary, signed |-> FALSE]
    /\ Disturb
    /\ UNCHANGED <<tasksFile, transcripts, bench, report, bundle, runs, edits>>

Sign ==
    /\ approval # None /\ ~approval.signed
    /\ approval' = [approval EXCEPT !.signed = TRUE]
    /\ Disturb
    /\ UNCHANGED <<tasksFile, transcripts, bench, report, bundle, runs, edits>>

-----------------------------------------------------------------------------
(* The export: main of export_verified_bundle.py.                              *)

(* The share of the real transcripts, in hundredths of a percent: a summary    *)
(* holds it rounded.                                                           *)
Rate(s, results) ==
    LET n == Cardinality(s.real) IN (20000 * Count(s.real, results) + n) \div (2 * n)

(* The rates asked for, 70% and 40% unless the command line says otherwise,    *)
(* may be anything; the number of tasks may only be raised.                    *)
Meets(s, least) ==
    /\ s.eligible
    /\ least.tasks >= MinTasks
    /\ Cardinality(s.real) >= MinTasks /\ Cardinality(s.real) >= least.tasks
    /\ Rate(s, {"verified", "functional"}) >= least.functional
    /\ Rate(s, {"verified"}) >= least.verified

CheckThresholds ==
    /\ export.at = "idle" /\ report.summary # None
    /\ \E least \in Thresholds :
          /\ Meets(report.summary, least)
          /\ export' = [at |-> "checked", least |-> least, raced |-> FALSE, torn |-> FALSE]
    /\ UNCHANGED <<tasksFile, transcripts, bench, report, approval, bundle, runs, edits>>

(* Mutant of Approves: any signed approval will do. *)
ApprovesSigned(a, s) == a # None /\ a.signed

Approves(a, s) == a # None /\ a.signed /\ a.hash = s

(* load_release_approval; the summary is read again for its hash. *)
CheckApproval ==
    /\ export.at = "checked"
    /\ export' = IF Approves(approval, report.summary)
                 THEN [export EXCEPT !.at = "approved"] ELSE ExportIdle
    /\ UNCHANGED <<tasksFile, transcripts, bench, report, approval, bundle, runs, edits>>

(* Mutant of ClearBundle: files of an earlier bundle are written over. *)
ClearNothing ==
    /\ export.at = "approved"
    /\ export' = [export EXCEPT !.at = "cleared"]
    /\ UNCHANGED <<tasksFile, transcripts, bench, report, approval, bundle, runs, edits>>

ClearBundle ==
    /\ export.at = "approved"
    /\ bundle' = NoBundle
    /\ export' = [export EXCEPT !.at = "cleared"]
    /\ UNCHANGED <<tasksFile, transcripts, bench, report, approval, runs, edits>>

CopyNext == [cleared |-> "summary", summary |-> "md", md |-> "html"]

(* The three files are copied one by one; a missing one ends the export.       *)
CopyFile ==
    /\ export.at \in DOMAIN CopyNext
    /\ LET name == CopyNext[export.at]
       IN IF report[name] = None
          THEN export' = ExportIdle /\ UNCHANGED bundle
          ELSE /\ bundle' = [bundle EXCEPT ![name] = report[name]]
               /\ export' = [export EXCEPT !.at = name, !.torn = @ \/ report.torn]
    /\ UNCHANGED <<tasksFile, transcripts, bench, report, approval, runs, edits>>

(* The approval is copied, and the manifest is written last: the hash of the   *)
(* summary in the bundle and the thresholds asked for.                         *)
WriteManifest ==
    /\ export.at = "html"
    /\ bundle' = [bundle EXCEPT
          !.approval = approval,
          !.manifest = [summary |-> bundle.summary, least |-> export.least],
          !.raced = export.raced, !.torn = export.torn]
    /\ export' = ExportIdle
    /\ UNCHANGED <<tasksFile, transcripts, bench, report, approval, runs, edits>>

ExportDies ==
    /\ export.at # "idle"
    /\ export' = ExportIdle
    /\ UNCHANGED <<tasksFile, transcripts, bench, report, approval, bundle, runs, edits>>

ReleaseNext ==
    \/ CheckSeal \/ LoadTasks \/ Preflight \/ RunTask \/ PersistFixtures \/ Evaluate
    \/ WriteSummary \/ WriteMarkdown \/ WriteHtml \/ BenchDies
    \/ EditTasks \/ WriteTemplate \/ Sign
    \/ CheckThresholds \/ CheckApproval \/ ClearBundle \/ CopyFile \/ WriteManifest
    \/ ExportDies

ReleaseSpec == ReleaseInit /\ [][ReleaseNext]_releaseVars
-----------------------------------------------------------------------------
(* What a release is to show.                                                  *)

Released == bundle.manifest # None

(* A bundle with a manifest holds the very summary that a human signed for,    *)
(* and that summary has MinTasks real tasks and meets the thresholds that the  *)
(* manifest records: each is looked at in a reading of its own, so it takes    *)
(* that neither the report nor the approval was written in between.  The rates *)
(* are those the exporter was told to ask for, which may be none at all.       *)
ReleasedIsApproved ==
    Released /\ ~bundle.raced =>
        /\ bundle.manifest.summary = bundle.summary
        /\ bundle.approval.signed /\ bundle.approval.hash = bundle.summary
        /\ Meets(bundle.summary, bundle.manifest.least)

(* The approval is for the summary, yet the pages a reader opens are of the    *)
(* same run, unless a run died while it wrote its report or wrote it during    *)
(* the export.  A bundle without a manifest may be anything.                   *)
ReleasedPagesAgree ==
    Released /\ ~bundle.raced /\ ~bundle.torn =>
        bundle.md = bundle.summary /\ bundle.html = bundle.summary

(* A claim rests on one transcript for each task of the set whose hash the     *)
(* summary names, all made by that run, which is what a comparison with a      *)
(* baseline of the same hash supposes.  Not so after --evaluate-existing,      *)
(* which counts whatever the directory holds, after --limit, and when the      *)
(* tasks file was edited during the run.                                       *)
ClaimCoversTaskSet ==
    LET s == report.summary
    IN s # None /\ s.eligible /\ s.whole =>
          /\ {t.task : t \in s.real} = {TasksOf[s.set][i] : i \in DOMAIN TasksOf[s.set]}
          /\ Cardinality(s.real) = Len(TasksOf[s.set])
          /\ \A t \in s.real : t.of = s.set /\ t.run = s.run

(* Whatever a run evaluates or runs of a holdout set, it loaded the version    *)
(* the manifest records and was told to unseal it, unless the file was edited  *)
(* after the seal was checked.                                                 *)
HoldoutIsSealed ==
    bench.at \in {"preflight", "running"} /\ bench.o.holdout /\ ~bench.edited =>
        bench.o.unseal /\ bench.loaded = Sealed
====
