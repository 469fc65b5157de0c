# Mind 3.0 in TLA+

TLA+ models of the control logic of Mind 3.0 (`src/mind3`, with the CDC checker
under `tools/` and the release and dataset scripts under `scripts/`), the
configurations that model-check them with TLC, and theorems about them checked
by the TLA+ proof system. Paths below are relative to the repository's root;
`driver.py`, `verifier.py` and `runner.py` are `src/mind3/core/driver.py`,
`src/mind3/core/verifier.py` and `src/mind3/benchmarks/runner.py`.

Contents: [the system](#the-system), [what is hard](#what-is-hard),
[modules](#modules), [runs](#runs), [where the code and its documents
disagree](#where-the-code-and-its-documents-disagree), [proofs](#proofs),
[not modelled](#not-modelled), [plan](#plan), [how to run](#how-to-run).

## The system

Mind 3.0 asks a language model for RTL and lets an external verifier decide
whether the RTL is any good. One driver object works in one workspace
directory. Inside the process everything runs in one thread; what makes the
system hard is a long loop with many ends, files that outlive the step that
wrote them, external calls that fail, and, around it, processes that share
directories: several workspaces on one remote host, a benchmark, a human and an
exporter on one report.

| Component | State it keeps | Operations | Correct when |
|---|---|---|---|
| Silicon pipeline (`PhaseDriver.run_silicon_pipeline`) | five stage counters, a parse counter, the pending stage, the repair prompt, the RTL as last read, a history of failures, the workspace | contract, harness, generation, repair turns, verification, acceptance, roll back | it accepts only what the verifier has just accepted; whatever else happens the workspace is back as it was; every verifier run is paid for; it ends |
| Agent lifecycle (`PhaseDriver.run`) and snapshots (`_create_/_restore_/_purge_snapshot`) | turn, workspace, `.mind/snapshots/<session>` | call, parse, policy check, execute, verify; copy out, delete, copy back | the user's files exist in full somewhere at every moment, as long as code run in the sandbox leaves the snapshot alone; a roll back is exact |
| Signoff verifier (`SiliconSignoffVerifier.verify`) | gate reports, and the files its tools leave in the workspace | eight gates in a fixed order, fail closed | a signoff rests on gates that really judged this RTL; a refusal names one failed gate |
| Contracts and harness generation (`core/formal_templates.py`, `VerificationHarnessGenerator`) | none; a checker with one init register | classify, refuse, drop, render, cover; the stimulus of the simulation | the checker fails exactly when the declared property does; the design is shown the inputs the driver claims to apply |
| Checks of a candidate's text (`validate_rtl_against_contract`, `core/vcd_evidence.py`) | none | ports, parameters, clock and reset against the contract; sensitivity and drivers before a verification is paid for | what is let through has the contract's interface; the early check turns away what the gate would |
| CDC structural checker (`tools/cdc_checker`) and Gate 6 | `cdc_report.json` | parse, domains, crossings, status, exit code, verdict | a pass has no unsynchronised crossing, a violation has one, and both are about the present candidate |
| Remote EDA runner (`sandbox/remote_eda.py`) | the remote directory | upload, run, download | an exit code is about the sources of the caller |
| Trace (`_emit_trace`) | a hash chain in memory, a file on disk | append | a reader sees where the chain breaks |
| Benchmark runner (`runner.py`) | transcripts of runs, the report | seal check, load, run tasks, evaluate, extract | the record of a run says what happened in it; a claim counts the set it names |
| Release (`scripts/export_verified_bundle.py`, approval) | approval file, bundle directory | template, sign, check, copy, manifest | a released bundle is what a human signed for |
| Dataset miner (`scripts/distill_mind3_dataset.py`) | none; the transcripts directory and the traces | look up, pair, emit rows | a training pair shows the failure its prompt was made from |
| Response parsers, repair patches (`_parse_model_code_response`) | none | text to RTL, strict or lenient | what is accepted holds a module; lenient mode only adds to strict |
| Verification cache (`core/cache.py`) | one file per key | get, put, clear | a hit is what was put under that key |
| Assurance receipts, baselines, pairing, reproducibility, failure taxonomy | none, or files written once | validate, hash, classify | pure functions |
| DFT, power, intent, SoC, EDA templates, skills, counterexample decoding, command line, other scripts | none | text and configuration | outside the loops |

How they interact: the benchmark runner builds a verifier and a driver for one
task and calls `run_silicon_pipeline`. The driver asks the model over HTTP,
writes files into the workspace, among them the harness built from the
contract, and calls `verify()`, which runs tools (the CDC checker is one)
through a sandbox or the remote runner and reads the files they leave. Every
step is appended to the trace. Afterwards the runner extracts the transcript
from the trace and writes a report; a human approves the report and the
exporter copies it; the miner reads transcripts and traces. The workspace
directory is the only state shared by driver, verifier and tools, and it
survives from one verification to the next; all later interaction is by files
too.

## What is hard

`PROJECT.json` lists each hazard with its line. The families are:

- *Code that is not the driver's*: commands, scripts and tests run in a sandbox
  that may write the snapshot a roll back needs. `SnapshotFaithful`,
  `RunIsTransaction`.
- *Many exits, one promise.* The pipeline gives up in eleven places, the
  lifecycle in six, and each has to restore. `IsTransaction`,
  `RunIsTransaction`, `FalseMeansRolledBack`.
- *Budgets tested in several places* with `>` and `>=`, before and after the
  call. `EdaTurnsPaid`, `NoPrematureRollback`, `ParseBudgetFinal`,
  `Termination`.
- *Values read before a write and used after it*: the RTL in the prompt, the
  pending stage, the notice about an unchanged repair, the RTL a transcript
  attaches to a verdict. `PromptShowsFailedRtl`, `NoIdenticalReverify`,
  `ChargedToFailedStage`, `UnchangedAnnounced`, `RtlMatchesVerdict`.
- *Artifacts of an earlier candidate or session* still in the workspace when a
  gate looks for its own. `SignoffSound`, `CdcPassSound`, `CrashedCruxBlocks`,
  `NeverVacuous`.
- *Dying in the middle*: process death between two file operations of a
  snapshot, exceptions in the middle of a harness, a write that empties a file
  and then raises, a record that reaches the trace in part. `OriginalHeld`,
  `SnapshotFaithful`, `JudgesRealRtl`, `BreaksAreVisible`.
- *Two records of the same events kept apart*: the queue of raw answers and the
  trace, the guidance of a transcript and the verdicts of a trace.
  `AnswersShiftedByLostWrites`, `PassIsLastAttempt`, `PairsShowTheirFailure`,
  `OnlyMixUpsContaminate`.
- *A translation that must neither lose nor invent*: a property becomes a
  checker with the polarity and the default of its reset decided in several
  places; a design becomes domains and crossings.
  `NothingGenuineDropped`, `FailureIsGenuine`, `OperationIsChecked`,
  `CoverIsTrial`, `CdcPassSound`, `CdcViolationReal`, `InputsExercised`.
- *The same text read twice by different rules*: strict and lenient parsing,
  the check before a verification and Gate 1. `ModesAgree`,
  `AcceptedHoldsModule`, `PrecheckMirrorsGate`, `CleanIsCompatible`,
  `MultidrivenIsReal`.
- *One remote directory for everybody*, transfers whose failure is ignored, and
  transfers and commands that outlive their local timeouts. `VerdictIsOwn`,
  `OutputOfVerdict`, `SourcesKept`.
- *Checks and uses of files that other processes write*: the summary between
  its approval and its export, the tasks file between its seal check and its
  use, a report directory that holds the work of several runs.
  `ReleasedIsApproved`, `ReleasedPagesAgree`, `ClaimCoversTaskSet`,
  `HoldoutIsSealed`.

## Modules

```
RepairTransaction          what a repair loop promises (abstract)
   ^ implemented by AgentLifecycle, run by run, and by
SiliconPipeline            run_silicon_pipeline
   ^ extended by
TranscriptTuple            the benchmark's record of a run
   ^ extended by
DatasetMiner               training rows out of that record

ResponseParser             a model's answer to RTL, strict and lenient
StructuralChecks           a candidate's text against its contract
AgentLifecycle             PhaseDriver.run, snapshots entry by entry
SignoffVerifier            SiliconSignoffVerifier.verify, gate by gate
VerilatorStimulus          the test driver that Gate 3 simulates
FormalHarness              the checker that Gate 2 proves
CdcChecker                 the structural checker and the verdict of Gate 6
RemoteRunner               RemoteSSHRunner, one directory for all workspaces
TraceChain                 _emit_trace, drivers one after another on a file
EvidenceRelease            benchmark run, approval, export

SiliconPipelineProofs, AgentLifecycleProofs, SignoffVerifierProofs,
RemoteRunnerProofs         theorems about the module they are named after;
                           SignoffVerifierProofs about VerilatorStimulus too
TranscriptProofs           about TranscriptTuple and DatasetMiner
GateProofs                 about FormalHarness and CdcChecker
CandidateTextProofs        about ResponseParser and StructuralChecks
EvidenceProofs             about EvidenceRelease and TraceChain
MC*                        instances for TLC
```

### RepairTransaction

A workspace, its content at the start, what the verifier accepts at the moment,
and how the run stands. It may be edited, approved or refused while the run is
open; a commit needs the present content to be approved, a roll back makes it
the original. The third end, `Escape`, is an exception that leaves the driver:
about that the code promises nothing.

`SiliconPipeline` implements it as a whole (`IsTransaction`). `AgentLifecycle`
has runs one after another, so there each run is a transaction of its own
(`RunIsTransaction`): a run's first state is an initial state of the
transaction, its steps are steps of it. Its third end is a death, the return
of `run()` without a final record when the turns run out, or a roll back from a
snapshot that code run in the sandbox has altered.

### SiliconPipeline

One action is one pass of the code up to its `continue`, `return` or the next
external call. `pc` says where the run is. The correspondence:

| Actions | driver.py |
|---|---|
| `Start`, `Architect*`, `ContractInconsistent` | 1786-1934: resets, snapshot, architect with one retry |
| `HarnessUnbuildable`, `HarnessStaged`, `HarnessRaised` | 1937-2029 |
| `GenerationUnparsed`, `GenerationRaised`, `GenerationWritten` | 2044-2143 |
| `ParseBudgetSpent`, `StageBudgetSpent` | 2176-2211, the tests before a model call |
| `RepairCallFailed`, `RepairUnparsed` | 2222-2274 |
| `RepairSkipped`, `RepairRejected`, `RepairTooLarge`, `RepairUnwritten`, `RepairWritten` | 2275-2480, the five ways to deal with an answer that parsed |
| `Verify`, `VerifyRaised`, `Accept` | 2481-2504 |
| `AbortNonRepairable`, `VerifyBudgetSpent`, `RequestRepair` | 2505-2747 |

Data is abstracted as follows. A candidate is a pair of logic and text, which
is what the two identity hashes distinguish (`_rtl_identity_hash`,
`_normalize_rtl_for_identity`). The change budget is a set `LargePatch` of
pairs. The pre-checks of `MIND3_EVIDENCE_V2` reject a set `Suspect`. An error
category stands for all categories treated alike. The history is cut to its
last three entries, which is as far as any test looks. Prompts are records of
what they are about and what they show. A failed write leaves the file as it
was or empty, because `write_text` truncates before it encodes; a file cut off
in the middle is not distinguished from these two. A missing and an empty RTL
file are one value, as both make `current_rtl` empty.

The variable `audit` is a history variable: no action's guard reads it.

### ResponseParser

An answer is a sequence of pieces, told apart by what the parser's tests see of
them: a module, one that breaks off, the rest of one, one written with `\n` for
its line breaks, a comment, prose, a line with a backtick, prose that speaks of
a module. `Parse` is what becomes of it, one alternative per reading of the
code in the code's order; `Objects` are the JSON answers, of which only the
keys and shapes the code looks at are kept. A repair patch goes to a line or a
passage of the current RTL, which holds its declaration, its `endmodule`, both
or neither; the code then looks for the two words in all of the patched text,
so `says` and `base.says` have the words that comments of the patch and of the
RTL say. A text of pieces may have any length, so the theorems are about
answers of any length.

### StructuralChecks

The three searches of a candidate's text that need no tool:
`SensitivityMismatch` and `MultidrivenNets` before the verification of a
repair, `Validate` at the start of Gate 1. A design is what the regular
expressions distinguish: for each always block its sensitivity list, the nets
it assigns, compares and declares, whether it is commented out and has a
`begin`. `repaired` says whether the candidate goes through the early checks,
as only repairs do.

### AgentLifecycle

`run()` with the snapshot operations split into single directory entries, so
that the process can die between any two (`Die`, which also stands for an
exception of a file operation or the verifier). After a death the workspace and
`.mind` are what they are, and another run of the same or another session
begins from there; runs do not overlap. `TurnFails` is the three failures that
only spend a turn. `CodeRuns` is what an action or a test may do: the policy
keeps `write_file` out of `.mind`, but commands, skill scripts and the tests the
verifier starts (`VerifierRuns`) run with the whole workspace bound for writing,
so they leave anything in the workspace and in the snapshot directories of any
session. The history variable `touched` has the sessions whose snapshot was
altered so since they began; the properties name it as their one exception.
`NothingToRestore` is a roll back that finds its snapshot gone and raises.

### SignoffVerifier

The gates in the order `verify()` runs them; the action of a gate is one
outcome of it. An artifact (syntax tree, netlist, coverage data, crux report)
is modelled by the RTL it was made from, and `evidence[g]` is the RTL gate `g`
really judged. `Rewrite` is the repair loop between two verifications: it
changes the RTL and leaves all else. `Config` holds the constructor's
arguments, the tools on the host and what was staged beforehand. The workspace
may hold what an earlier session left: syntax tree, netlist, coverage data and a
crux report. Nothing deletes the last two, and two gates may judge them in place
of what they should have made (`MayBeStale`): Gate 6 after a crux that died, and
Gate 3 when the caller's own testbench writes no coverage data.

### TranscriptTuple

`SiliconPipeline` with the records and raw answers its steps leave
(`_emit_trace`, `_raw_repair_responses`), and `extract_transcript_tuple` as a
fold over the trace. Each record also carries what it is really about, so that
the properties can compare the extraction's pairing with the truth. A run that
raised is excluded: `run_live_task` gives it a transcript without attempts.

### DatasetMiner

`mine_transcripts` on the workspace of one task, over `TranscriptTuple`. A
guidance (a repair prompt) is the place in the trace of the failure it was made
from; a guidance that only reports a failed call or write is 0, one of another
task's transcript is negative. `Persist` is the moment the benchmark writes the
run's own transcript; `Mine` may come before it, after it, or when the run has
died, and takes the transcript `_sibling_transcript` takes: the first file of
the directory, whatever the workspace.

### FormalHarness

A contract is chosen (its clauses, clock and reset), then either refused or
turned into a checker, and the checker runs beside the property it was made
from over every sequence of sampled values. A clause is over a one-bit `a`, a
two-bit `b` and the reset; `form` says how its two conjunctions of literals are
put together (implication in the same or the next cycle, `$past`, `$stable`, a
bare disjunction, an equality, an unsupported delay). `CheckHolds` is what the
generated assertion says with the guards the generator gives it, `SourceHolds`
what the property means in SystemVerilog. The reset's name is a class of names
(`ends in _n`, `contains resetn`, ...), which is what the code looks at.

### VerilatorStimulus

The C++ program of `build_verilator_cpp_testbench`, one `eval()` per step: the
reset, the boundary values, the walking one, the linear feedback register with
its real polynomial and seed, and the recovery. `seen` is the set of input
vectors the design has reacted to: for a clocked design those present at a
rising edge.

### CdcChecker

A statement is an assignment with the always block around it, and no input port
is assigned; a design is a set of statements that grows by one between two
checks, as repairs change a candidate, while the report of an earlier check
stays in the workspace. The operators up to `Statuses` follow the checker's
parser and analysis; those from `RealClocks` on are what the design does
whatever the checker makes of it, and the properties compare the two, for the
designs the parser understands (`Understood`): no condition on a net of the
design itself, no asynchronous reset with the word `or`, no net driven both in
a clocked block and outside. A register with a reset or an enable from a port
is among them: a port in a condition has no clock here. `Statuses` is a set
because the first finding that is not ok decides the status, and the order of
findings with the same destination, which is that of the text, is left open.
`CheckerDies` leaves the old report and an exit code for Gate 6 to interpret.

### RemoteRunner

A version of a file is who wrote it and when. A call is `Compose` (which files
the command names), `Upload`, `Execute`, `Finish`, `Download`. The connection
may be refused (`Refused`) or lost, and a tool may end without writing its
output (`wrote` is whether it has); either way the code downloads whatever is
there. A transfer may be cut short after any of its files (`UploadFails`,
`DownloadFails`). One that takes longer than its 45 seconds is given up but not
stopped (`UploadLags`, `DownloadLags`): it stays in `late` and packs and
unpacks file by file beside all that follows, at the sending side's content of
that moment. A command given up, by the local timeout or a lost connection,
keeps running too (`orphans`). `RestoreOriginal` is a roll back of the driver
that removes files locally and never remotely. `cause[w]` is a history
variable: which of the ways to go wrong has happened to `w`. The properties say
that nothing goes wrong without its cause.

### TraceChain

A hash is the number of the record it is of. A write can fail, or the driver
die in it, before, within, or after the record; what was cut off runs together
with the next line. Drivers start one after another, each with a zero hash and
step 0, since neither is read back from the file.

### EvidenceRelease

Three processes: the runner (seal check, load, run, evaluate, three report
files one by one), a human who signs a template or edits the tasks file, and
the exporter (thresholds, approval, clear, three copies, manifest). The
thresholds are chosen anew by each export, as its command line does, and
recorded in the manifest: the task count cannot be lowered, the two rates can
be anything. Runner and exporter may die between any two writes. The file hash
of a summary is modelled as the summary itself, so that equal hashes mean equal
files. `raced` and `torn` record that a report was written during an export or
left half written.

### MCGates, MCComponents

Small components share a run: a variable `part` picks one of them at the start
and a behaviour is one of that component only. `MCGates` joins
`SignoffVerifier`, `VerilatorStimulus`, `ResponseParser`, `StructuralChecks` and
`RemoteRunner`, `MCComponents` the four that meet the pipeline through files
only. They are run together to save time, not composed.

## Runs

| Run | What it checks |
|---|---|
| `pipeline` | all of `SiliconPipeline`'s properties, liveness, and that it implements `RepairTransaction` |
| `lifecycle` | snapshots through failures and deaths; that each run implements `RepairTransaction`, and that it ends |
| `signoff` | what a signoff rests on, what a refusal reports; what Gate 3's stimulus shows the design; what the parser accepts; what the text checks turn away; tool calls on a remote host |
| `transcript` | the extraction, and the mining, against the run they are about |
| `components` | the CDC checker, the formal harness, the release and the trace file |
| `prompt`, `unbounded_precheck`, `turns_run_out`, `repair_success`, `vacuity`, `mock_signoff`, `crux_crash` | one statement each of the documents or comments that the code does not keep |

Bounds, and why they are enough:

- `pipeline`: three candidates (one, the same with a comment, another logic)
  give every combination of equal/unequal under the two hashes, a change within
  and beyond the budget, and a rejected one. Four categories reach a compile
  failure, a formal one, one whose stage depends on a flag, and a non-repairable
  one; the timing stage is handled like `other`. `PARSE_MAX_ATTEMPTS` and the
  stage limit are 2 instead of 3 and `max_repairs` is 1: each budget can be
  reached alone, together, and one below. Three call failures in a row stay
  three. The four settings have each switch off, alone or with others, both
  repair modes and both contract sources. About 900,000 states.
- `lifecycle`: two entries that are there or not show partial copies in either
  order, additions and deletions. A second value would only add changes, which
  no step treats otherwise (each copies, or replaces, whatever an entry holds)
  and which the proofs cover. Two sessions and two runs show a run that follows
  a dead one of the same session or of another; two turns show a first, a last,
  and a non-repairable failure in each. About 577,000 states.
- `signoff`: a plain candidate, one with a latch and one that is vacuous, in
  three passes: an artifact of the first meets another candidate in the second,
  and the third may come back. The 18 settings have each requirement, backend
  and missing tool somewhere; not all combinations are enumerated. The stimulus
  program is run in full for a contract with clock and reset, with a clock, and
  with neither, with eight inputs, so that inputs seven apart occur. Answers
  are texts of up to two pieces around and in a fence, and objects with each
  key present, absent and of another type; candidates have up to two always
  blocks with every kind of sensitivity list, against contracts with a
  synchronous, an asynchronous and no reset, with and without a clock and with
  two. The remote runner has two workspaces with two source files, two
  responses, two calls and one fault in all: enough for a call of one workspace
  on what a call of the other has left or is doing, for a file of a withdrawn
  response in a later call, and for a transfer or command of the first call
  beside the second. About 1,990,000 states.
- `transcript`: two candidates, five repair turns, the flags off and on; five
  turns are enough for every kind of turn to stand before and after a
  verification. Longer runs are cut off (the bound is `MaxTurns`), which is
  why no liveness is claimed of it. The transcripts directory may hold one of
  five transcripts of another task with up to three attempts: sorted before or
  after, of a sealed task, of a mock run, and with fewer or more attempts than
  verdicts. About 1,370,000 states.
- `components`, about 2,800,000 states:
  - CDC: designs of up to `MaxSize` = 4 of 25 statements. Four statements hold a
    source, a wire or first stage, a second stage and a consumer or a bypass;
    the 25 have each kind of source (one bit, wide, reset- and fifo-named),
    both forms of an asynchronous reset, crossings through a condition, a wire
    and an instance, and a statement outside the subset.
  - Harness: contracts of up to `MaxClauses` = 2 of 24 clauses with seven resets
    or none, with or without a clock, over sequences of samples of any length
    (the state holds the last two).
  - Release: two runs, one edit, tasks files of one and of two tasks.
    `MinTasks` is 1 and stands for 100, so that a run is diagnostic by its flag
    only, never for a short list of tasks. An export asks either for fewer
    tasks than the least, which is refused, or for more tasks and for one rate
    lower, one higher than the default.
  - Trace: two drivers with three records each and two writes cut off, which
    puts a torn write before, between and after whole ones and at the seam of
    two drivers.

Deadlock checking is off in all of them because a run ends, or meets a bound on
how many runs or passes are started.

Every property of a passing run is paired in `PROJECT.json` with a mutation of
the code (a budget test off by one, a roll back that forgets the harness, a
stale value, a cover point without its guard) that makes TLC report it
violated. Mutated operators that stand beside the definition they vary are
marked as such in the modules and used by nothing else.

Type invariants are not among the properties of the runs: they are proved, as
theorems of their own (`TypeCorrect` of the pipeline and of the lifecycle) or as
conjuncts of the invariants below, which say more.

**Fairness.** `SiliconPipeline` assumes `WF_vars(Next)`: the driver is a
straight line of code in one thread which waits only for calls that come back,
for the HTTP client has a timeout (`driver.py` 904-906) and every tool call is
given one. `AgentLifecycle` assumes weak fairness of a started run's own steps
and none of the start of runs or of deaths. With that, `RunEnds` holds, and
`Termination` holds *without* `MIND3_EVIDENCE_V2` only. The other modules
assume no fairness: their properties are of safety.

## Where the code and its documents disagree

Each of the first seven has a run that ends in TLC's counterexample;
`PROJECT.json` quotes the documents.

1. **`prompt`**: from the second verification on, the repair prompt shows the
   RTL as read before the last repair was written, under evidence about the RTL
   after it. `current_rtl` is not updated by a repair's write.
2. **`unbounded_precheck`**: a candidate rejected by the `MIND3_EVIDENCE_V2`
   pre-checks spends no budget, so the loop is not bounded by 3/3/3 attempts.
3. **`repair_success`**: a run whose first answer did not parse and whose
   second passes at once is counted as a repair success with no repair turn,
   and not as an initial pass.
4. **`turns_run_out`**: when the last turn of `run()` fails before its
   verification, it returns False without a roll back and without a final
   record.
5. **`vacuity`**: the driver stages the `.sby` file itself, which Gate 2 takes
   for the user's, so the vacuity check never runs in the pipeline.
6. **`mock_signoff`**: with `allow_mock_fallback`, missing coverage and a failed
   external CDC run pass unmarked and may end in `silicon_verified`.
7. **`crux_crash`**: a crux that dies before it writes its report passes on the
   report of an earlier candidate, of an earlier pass or session.

The others show as an exception a property has to name, or as a guard of its
statement. The comment at each property says so; by component:

- *Lifecycle.* Only `write_file` is kept from `.mind` (`driver.py` 1369-1388,
  1443-1455), and the sandbox binds the whole workspace for writing (`bwrap.py`
  133-138): a command (`git clean`, a build's own clean-up) or a test may alter
  or remove the snapshot, and a roll back then restores what is left of it and
  is recorded like any other (`touched`).
- *Pipeline and verifier.* Where the caller's testbench writes no coverage data,
  Gate 3 credits it with what an earlier session has left (`MayBeStale`). The
  trace blames the compile limit whatever stage is
  spent (`RollbackNamesSpentBudget`), failed writes count as failed invocations
  (`CallFailuresInARow`), feedback may refer to evidence that is no longer in
  the prompt (`CitedEvidenceIsThere`), a latch may be reported from an old
  syntax tree (`LatchIsReal`).
- *Transcript and miner.* The comment at `runner.py` 311-313 says the queue of
  raw answers stays aligned with the records; after a failed write it is one
  behind. The comment at `distill_mind3_dataset.py` 537-538 says the same of
  guidance and VERIFY records; an initial parse retry or a lost call or write
  breaks it. A run's own transcript has one guidance less than its trace has
  VERIFY records, so a passing turn finds none left and yields no SFT row,
  though the docstring (lines 10-12) says it does. `_sibling_transcript` takes
  the first file of the directory, so a benchmark of several tasks is mined
  with the transcript of its first.
- *Harness.* `resetn` and `aresetn` are active high by a contract's record and
  active low for the harness. Any input with `rst` or `reset` in its name is
  taken for the reset. The structural tautology test takes
  `a && b || !a && b` and `a && b == a && b` for tautologies; the table test
  reads `!b == a` as `!(b == a)`. A `disable iff` that is not one signal is
  stripped, and without a clock every one is; a property whose antecedent is
  the reset is checked in the very state its `disable iff` disables
  (`formal_templates.py` 762-787, 908-920); a contract without a clock whose
  property speaks of the next cycle raises instead of being refused.
- *Stimulus.* The all-ones vector and the odd positions of the walking one are
  applied at falling edges, where a clocked design does not look; inputs seven
  apart are fed from the same bit.
- *CDC.* A crossing that only an `if` condition makes is not seen, and
  `posedge clk or negedge rst_n` makes a block combinational: both may pass.
  Behind a comma the reset is a second clock, and the register has no domain:
  where the second stage of a synchroniser has one, the synchronised crossing is
  a violation (`CdcViolationReal` is of designs without). A net driven both in
  a clocked block and by an `assign` is traced as one or the other.
  The status is that of the first finding that is not ok, not of the worst. A
  checker that ends with an exception exits 1, which Gate 6 reads as a
  violation.
- *Parser.* An answer whose first line has a backtick is read as if it opened
  with a fence. Strict mode's pattern may span several modules, of which
  lenient mode takes the first. A patch is judged by the words module and
  endmodule in all of the patched text: where a comment of the current RTL says
  one of them, a patch may take the module's own away (`TakenForRemark`); an
  empty `replacement` and a patch of blanks delete what they go over. Under a
  documented key the first fence is taken though the module is in another; a
  module in `implementation` that breaks off is wrapped into another; prose
  with `module X` is renamed like a declaration.
- *Text checks.* The docstring of `sensitivity_mismatch` says it mirrors the
  gate's expressions exactly. The gate's search of an asynchronous reset has no
  word boundary behind the clock, runs past the closing parenthesis into a
  remark on the same line, wants the contract's edge and does not span lines;
  the gate searches comments, the early check does not (`Readable` names all of
  these). A name ending in `end` ends the span of a block early, a block
  without `begin` takes the span of the next; that the reset is used cannot
  fail, since the port's declaration names it. An asynchronous reset is looked
  for in one list only.
- *Remote runner.* One remote directory by default (`shared`), nothing ever
  removed from it (`withdrawn`), transfers whose result is ignored (`upload`,
  `download`), transfers that are given up and keep unpacking (`late`), and a
  command that is given up and keeps running (`orphan`): the six causes of
  `VerdictIsOwn`, `OutputOfVerdict` and `SourcesKept`. A tool that fails without
  an output, or a refused connection, brings an earlier output back beside the
  new exit code with no cause at all; `OutputOfVerdict` is about runs that wrote
  one.
- *Release.* `--min-functional` and `--min-verified` may be lowered to nothing;
  only `--min-tasks` is held at 100 (`export_verified_bundle.py` 23-47). The
  approval binds the summary only, not the pages copied beside
  it; a failed export leaves a bundle without a manifest; transcripts of runs
  blocked by their environment count toward the 100 real ones;
  `create_release_bundle`'s hash covers `verification_evidence` only.
- *Trace.* A second driver starts a chain of its own in the middle of the file.
  A record cut off runs together with the next one, so that readers lose two,
  and the miner drops a workspace with a line it cannot parse.

## Proofs

Every theorem is proved for all values of the constants under the named
assumption of its module: all candidates, settings, entries, sessions,
workspaces, files, tasks and bounds.

| Module | Theorem | Statement |
|---|---|---|
| `SiliconPipelineProofs` | `TypeCorrect` | `Spec => []TypeOK`, the parse budget never overdrawn included |
| | `RollBacksExact` | `Spec => []RolledBackExactly` |
| | `VerdictsReal` | `Spec => []JudgesRealRtl` |
| | `BudgetsHold` | `Spec => []EdaTurnsPaid` |
| | `Transactional` | `Spec => IsTransaction`, the refinement of `RepairTransaction` |
| | `RollbacksAreDue` | `Spec => []NoPrematureRollback` |
| | `NoticeIsGiven` | `Spec => []UnchangedAnnounced` |
| | `ChargesFollowVerdicts` | `Spec => ChargedToFailedStage` |
| | `NotJudgedTwice` | `Spec => NoIdenticalReverify` |
| | `ParseBudgetIsFinal` | `Spec => ParseBudgetFinal` |
| | `RunsUseUp` | `Spec => [](Remaining \in Nat) /\ StepsUseUp`: a bounded number falls with every step, but for a rejected pre-check |
| | `VerificationsBounded` | `Spec => [](audit.edaRuns <= 1 + 3 * CoreLimit + 2 * config.maxRepairs)` |
| `AgentLifecycleProofs` | `TypeCorrect` | `Spec => []TypeOK` |
| | `SnapshotStaysFaithful` | `Spec => []SnapshotFaithful` |
| | `OriginalIsHeld` | `Spec => []OriginalHeld` |
| | `RollBackIsExact` | `Spec => []RolledBackExactly` |
| | `RunsAreTransactions` | `Spec => RunIsTransaction`, the refinement of `RepairTransaction` by each run |
| | `RunsUseUp` | `Spec => [](Remaining \in Nat) /\ StepsUseUp`: a number falls with every step of a run |
| `SignoffVerifierProofs` | `SignoffIsSound` | `Spec => []SignoffSound` |
| | `FailuresAreExplained` | `Spec => []FailureExplained` |
| | `AcceptedReportsInFull` | an accepted candidate's report has each gate once, in order, passed; only what is accepted is signed off |
| | `VacuityIsCaught` | no vacuous RTL is accepted with a harness the same call has made |
| | `StagedIsNeverAssessed` | with a staged harness no pass runs the vacuity check |
| | `PassesUseUp` | a verification is over after at most nine steps |
| | `InputsAlwaysExercised` | `StimulusSpec => []InputsExercised` |
| `RemoteRunnerProofs` | `VerdictsAreOwn` | `RemoteSpec => []VerdictIsOwn` |
| | `OutputsAreOfVerdict` | `RemoteSpec => []OutputOfVerdict` |
| | `CallsKeepSources` | `RemoteSpec => SourcesKept` |
| `EvidenceProofs` | `ReleaseIsApproved` | `ReleaseSpec => []ReleasedIsApproved` |
| | `ReleasePagesAgree` | `ReleaseSpec => []ReleasedPagesAgree` |
| | `HoldoutStaysSealed` | `ReleaseSpec => []HoldoutIsSealed` |
| | `ClaimCoversItsTasks` | `ReleaseSpec => []ClaimCoversTaskSet` |
| | `ChainBreaksVisible` | `ChainSpec => []BreaksAreVisible` |
| `GateProofs` | `NothingGenuineIsDropped` | `HarnessSpec => []NothingGenuineDropped` |
| | `FailuresAreGenuine` | `HarnessSpec => []FailureIsGenuine` |
| | `OperationsAreChecked` | `HarnessSpec => []OperationIsChecked` |
| | `CoversAreTrials` | `HarnessSpec => []CoverIsTrial` |
| | `CdcPassesSound` | `CdcSpec => []CdcPassSound` |
| | `CdcViolationsReal` | `CdcSpec => []CdcViolationReal` |
| `CandidateTextProofs` | `ModesDoAgree` | `ParserSpec => []ModesAgree` |
| | `AcceptedHold` | `ParserSpec => []AcceptedHoldsModule` |
| | `PrecheckMirrors` | `ChecksSpec => []PrecheckMirrorsGate` |
| | `CleanDesignsCompatible` | `ChecksSpec => []CleanIsCompatible` |
| | `MultidrivenNetsReal` | `ChecksSpec => []MultidrivenIsReal` |
| `TranscriptProofs` | `RtlMatches` | `TranscriptSpec => []RtlMatchesVerdict` |
| | `AnswersShift` | `TranscriptSpec => []AnswersShiftedByLostWrites` |
| | `PassIsLast` | `TranscriptSpec => []PassIsLastAttempt` |
| | `PairsShow` | `MinerSpec => []PairsShowTheirFailure` |
| | `OnlyMixUps` | `MinerSpec => []OnlyMixUpsContaminate` |
| | `RecordsRuns` | `TranscriptSpec => Spec`: a recorded run is a run |
| | `MinesRecords` | `MinerSpec => TranscriptSpec`: a mined run is a recorded run |
| | `MinedRunsAreTransactions` | `MinerSpec => IsTransaction /\ []EdaTurnsPaid` |

Each rests on an inductive invariant, proved to hold initially and to be kept
by every action; the action properties (`ChargedToFailedStage`,
`NoIdenticalReverify`, `ParseBudgetFinal`, `SourcesKept`) follow from the
invariant and one step.

- *Pipeline.* `TypeInv` adds to `TypeOK` that generation only goes on while the
  parse budget lasts, since the generation does not test it before it calls.
  `SafeInv` follows the snapshot: from `Start` to the end it holds the original,
  which a roll back needs to be exact; that the harness is whole from
  generation on and RTL is there whenever the verifier is called; that a `PASS`
  is about the present workspace. `BudgetInv` says that while the verifier is
  about to run, one more verification is owed than has taken place;
  `EdaTurnsPaid` alone allows a state in which the next `Verify` breaks it.
  `RepairInv` adds what passes without a verdict carry along: `Pending` (the
  pending stage is that of the last verdict), `Announced` (the history agrees
  with the notice in the prompt) and `Rejudged` (which workspace was judged
  last, unless a failed write has emptied the RTL since). For the refinement
  each step is mapped: most are edits or invisible (`EditStep`), roll backs and
  exceptions have lemmas of their own (`RollBackStep`, `EscapeStep`), `Verify`
  is an approval or refusal, `Accept` a commit.
  What the prover can say of termination is a measure. `Remaining` counts the
  parse attempts and stage charges still to be had, weighted so that one of
  them outweighs everything a pass may do without being charged (`Ahead`: how
  far the pass has come, and how many more failed calls fit before three stand
  in a row). `RunsUseUp` shows that each step makes it smaller, except the
  answer that the pre-checks reject; that is the loop `unbounded_precheck`
  exhibits, and the theorem shows there is no other. That the verifier runs are
  bounded even then is `VerificationsBounded`.
- *Lifecycle.* `LInv` says how far a copy, a deletion and a restoration have
  come: of each loop, what is true of the entries done (`CopyingOut`,
  `Deleting`, `Restoring`), and `Snapshotted`: from the end of the copy to the
  end of the run the session's snapshot has been completed, so that a death in
  any of the later loops finds the original in it (`SnapshotFaithful`, a
  conjunct of its own) unless the session is `touched`. A restoration is
  followed against the directory as it is: what is said of it holds of altered
  snapshots too, and the exception only enters where that directory is compared
  with the original. The refinement maps the files accepted to the workspace
  while the verdict is a pass, so it needs to know when that may be: only
  between a verification and its judgement (`Verdicts`), although the variable
  outlives its turn. The measure of `RunsUseUp` counts the entries the loop
  under way has left and, on top, what may follow; it needs a directory with
  finitely many entries (`IsFiniteSet(Item)` in `LifecycleAssumption`).
- *Signoff.* `SInv` says of each gate already passed that it judged the present
  RTL, was skipped where it may be, or is one of the two that `MayBeStale` names
  (`Behind`, `Settled`), and of the workspace that a testbench the pipeline did
  not make is the caller's (`WorkspaceOK`), which is what Gate 3 needs for its
  exception. Nothing is assumed of the files an earlier session left.
  `EInv` follows the list of reports: while gates run it holds passes only, and
  one of every enabled gate before the present one (`Reported`), so that the
  failure and the not-run stubs that `_append_not_run_gates` adds complete it.
  `PassInv` has the rest of a pass: the list is in order and names just the
  gates behind the present one (`Underway`), and until the formal gate accepts,
  nothing stands in its place, so a harness it makes precedes its verdict.
  `VacuityIsCaught` and `StagedIsNeverAssessed` say where the finding `vacuity`
  begins and ends: with a harness made in the call the check stands before every
  acceptance, with a staged one, as in the pipeline, it never runs.
- *Stimulus.* The register does not depend on the contract, so its first 26
  values can be written down (`Register`), each checked to be the successor of
  the one before (`RegisterAdvances`). Thirteen of them, the ones at rising
  edges, already give any two of the seven bits the inputs are fed from all
  four pairs (`RegisterPairs`), and that for any number of inputs
  (`RegisterVaries`); the rest of `StimulusInv` keeps the program's counters in
  step with what the design has seen.
- *Trace.* `MemoryFits` relates the driver's memory to the end of the file:
  either a new chain, or the last record's hash and step, or a line that cannot
  be read.
- *Remote.* `SInv` says what each step of a call may rely on while no cause has
  happened: `Alone` (the directory is this workspace's), `InStep` (the remote
  copies of files the command names are the intended ones), `Withdrawn` (which
  files are only there because nothing removes them), each of them of the files
  in transfers under way too, and `Blamed` (such a transfer is a cause for its
  workspace, and its upload a shared directory for the others). `OInv` adds
  where the tool's output stands between two verdicts.
- *Release.* `RInv` follows the three processes: `Looked` and `Copied` say what
  an export under way has already established, for the thresholds it was given,
  as long as no report has been written since it began; `Reporting` that the
  three files differ only in the middle of a report or after a death in it;
  `Sealing` what a seal check has shown. `CInv` relates a run's progress to
  what it loaded: the transcripts made so far are those of the tasks already
  taken from the list (`Loaded`, `Matched`), one for each, counted with the
  theorems on finite sets.
- *Harness.* `HarnessInv` says that the checker is the one `Build` makes of the
  contract; the four properties are then facts about the translation. What a
  checked clause can look like is `CheckedClause`, what the guards of an
  assertion come to is `AssertionIsGuardedBody`, and that the two tautology
  tests only drop what cannot fail, but for the named slips, is `TableIsRight`
  and `StructureIsRight`, for clauses with any number of literals.
- *Candidate text.* `ParserInv` and `ChecksInv` say that code and verdict are
  those of the present answer and candidate; the rest is about the operators.
  For the parser these are lemmas on `FirstHead`, `FirstBlock` and `Unescape`
  over sequences of any length, and on what a patch leaves of a module's two
  ends (`Left`, `Said`).
- *CDC.* `CdcInv` says that a fresh report is one the checker gives of the
  present design and that only a fresh `PASS` passes. What a status says of the
  design rests on `ClosureFacts`: the bounded iteration of `Closure` is the
  least closed set that holds the seeds, because each round that is not the
  last reaches another wire. From it the checker's traces, which stop at the
  register they started from, find what the design really samples
  (`TracedIsReal`, `SampledIsReal`); with the domains (`KnownDomains`,
  `OneEdgeDomains`) that makes the checker's crossings the real ones
  (`CrossingsAreReal`) and its chains the synchronisers
  (`AcceptedIsSynchronised`).

- *Transcript and miner.* The extraction is a pass over the whole trace. A
  recursive function has no induction principle here, but it is unique: of two
  functions that gather a trace the least place where they differ is the first
  step after one where they agree (`GatheringUnique`), and one exists for the
  same reason (`GatheringExists`). That gives `ExtractionOfAppend`: the
  extraction of a trace with one more record is one `Take` on the extraction
  before, and every step of the run can be reasoned about by the record it
  adds. `TranscriptInv`, on top of the pipeline's `SafeInv`, says in `Covers`
  that between two turns every raw answer has its record but for the lost
  writes and the extraction holds no RTL; from a repair's write to its verdict
  one answer is due its record and the RTL held is the file in the workspace.
  `Sound` is what is then true of the k-th attempt for good. It is stated for
  any number of raw answers kept, because a later answer changes what the same
  trace is extracted to. `RunInv` adds what pairs a call with its verdict: as
  long as a run is `Clean`, calls, attempts and verdicts are counted alike but
  for the opening verdict and the call under way (`Counted`), the t-th call
  reports the t-th verdict (`Reports`), and a verdict of the verifier stands
  right after the code it is about (`InPlace`). A run that is not clean still
  has fewer attempts than verdicts, so the queue is over before the last.

  The specifications of this part are a chain: `RecordsRuns` and `MinesRecords`
  show that each module only watches the one below it, so that all that is
  proved of `SiliconPipeline` holds of recorded and mined runs
  (`MinedRunsAreTransactions` draws the conclusion for two properties).

Only model-checked: the liveness properties, `Termination` and `RunEnds`. That
a step is taken at all rests on fairness and on `ENABLED`, which are beyond the
prover; that no run can take steps for ever is proved, by the measures of
`RunsUseUp`.

## Not modelled

- *Text*: prompts, diffs, diagnostics, scripts and the syntax of generated
  harnesses. The models have their outcomes; of answers and candidates they have
  what the parser and the checks tell apart. The exact
  thresholds (coverage percentages, change ratios) are a tool's or a test's
  outcome.
- *Token accounting and truncation bumps*: no branch of the loop depends on
  them.
- *Process death inside the pipeline*: `SiliconPipeline` treats a snapshot or a
  restore as one step; `AgentLifecycle` has the same three functions in detail.
- *Two drivers in one workspace*: nothing in the code prevents it, and nothing
  in it is meant for it. Two workspaces on one remote directory are modelled.
- *What a policy check refuses*: it is one way for a write to raise.
- *Of the harness*: the `.sby` files, and properties that depend on more than
  literals of three signals. *Of the CDC checker*: the grammar below a
  statement and the handshake heuristic, which never makes a finding ok.
- *Of the benchmark and the release*: statistics over finished transcripts,
  `create_release_bundle` and the receipts, each a record validated in one call.
- *Of the miner*: `mine_soundness`, which is one verifier call per mutant file,
  and the merging of outputs.
- *Verification cache*: put and get of one file per key in one thread; the only
  hard case, a crash in the middle of a write, is in the plan.
- The components marked not modelled in `PROJECT.json`, with the reasons there.

## Plan

What is left, in order:

1. **Composition of pipeline and verifier**: `Verify` replaced by the gates of
   `SignoffVerifier`, with the artifacts a roll back removes and those it
   leaves, and the `_cover.sv` files that an earlier Gate 2 puts among the
   sources (`verifier.py` 875).
2. **Cache** (`core/cache.py`): put and get across a crash in the middle of a
   write.
3. Pure algorithms against reference definitions over bounded inputs: release
   and assurance validation, the failure taxonomy.
4. `mine_soundness`, and the dataset export of `core/dataset.py`.
5. Proofs: that the composition of item 1, once written, keeps what
   `SignoffVerifier` and `SiliconPipeline` are proved to keep apart.

## How to run

With TLC, the community modules and the TLA+ proof system installed, from this
directory:

```
tlc -workers 2 -config MCSiliconPipeline.cfg MCSiliconPipeline
tlapm SiliconPipelineProofs.tla
```

Each `MC*.cfg` belongs to the module of the same name up to the underscore; a
configuration with an underscore and a property's name is one of the seven that
TLC refutes. `PROJECT.json` pairs runs, properties, mutations and lines of the
source.
