-------------------------- MODULE SiliconPipeline --------------------------
(***************************************************************************)
(* PhaseDriver.run_silicon_pipeline (core/driver.py): one run of the       *)
(* contract-first RTL pipeline.  A contract is fixed, the verification     *)
(* harness is derived from it, a model writes the RTL, and the external    *)
(* verifier and the model take turns until the verifier accepts the RTL or *)
(* a budget is spent.                                                      *)
(*                                                                         *)
(* A candidate is a pair of its logic and its text: two candidates with    *)
(* the same text of the same logic are equal under the narrow identity     *)
(* hash, two with the same logic under the normalized one (comments and    *)
(* white space ignored).  The content of contracts, prompts, harness files *)
(* and verifier reports is abstracted to what the loop's control depends   *)
(* on.  The model's answers, the verifier's verdicts and the failures of   *)
(* calls and writes are nondeterministic.                                  *)
(*                                                                         *)
(* Left out, because no branch of the loop depends on it: turn and         *)
(* total_repair_calls, the token budget raised after a truncated answer,   *)
(* and _last_failure_was_parse, whose only test (driver.py:2194) is        *)
(* subsumed by the one just above it.                                      *)
(***************************************************************************)
EXTENDS Integers, FiniteSets

CONSTANTS
    Code,               \* the candidates, records [logic |-> _, text |-> _]
    NoCode,             \* no RTL file or an empty one, or no code in a prompt
    LargePatch,         \* the rewrites <<before, after>> beyond the change budget
    Suspect,            \* candidates the MIND3_EVIDENCE_V2 pre-checks reject
    InitialRtl,         \* the RTL files a workspace may hold beforehand
    Reported,           \* the error categories the verifier may report
    Configs,            \* the settings the run may be started with
    ParseMax,           \* PARSE_MAX_ATTEMPTS
    CoreLimit           \* repair limit of the compile, simulation, formal stages

Stage == {"compile", "simulation", "formal", "timing", "other"}

\* The environment switches and arguments of one run.
Config == [skipUnchanged : BOOLEAN,         \* MIND3_SKIP_UNCHANGED
           evidenceV2    : BOOLEAN,         \* MIND3_EVIDENCE_V2
           mode          : {"r1", "r2"},    \* MIND3_REPAIR_MODE
           override      : BOOLEAN,         \* contract_override given
           maxRepairs    : Nat]

(***************************************************************************)
(* Error categories of a failed verification, one for each way the loop    *)
(* treats them.  MISSING_VERIFICATION_ARTIFACT is a simulation failure     *)
(* only when the report looked at is the failed gate's, which the flag     *)
(* decides: without it the report is the last NOT_RUN stub.                *)
(***************************************************************************)
Category == {"SYNTAX_ERROR", "COVERAGE_FAILURE", "FORMAL_INVARIANT_BREACH",
             "TIMING_VIOLATION", "CDC_VIOLATION",
             "MISSING_VERIFICATION_ARTIFACT", "ENVIRONMENT_FAILURE"}

NonRepairable == {"ENVIRONMENT_FAILURE"}

ASSUME PipelineAssumption ==
    /\ NoCode \notin Code
    /\ LargePatch \subseteq Code \X Code
    /\ \A c \in Code : <<c, c>> \notin LargePatch
    /\ Suspect \subseteq Code
    /\ InitialRtl \subseteq Code \cup {NoCode}
    /\ Configs \subseteq Config
    /\ Reported \subseteq Category
    /\ ParseMax \in Nat \ {0}
    /\ CoreLimit \in Nat \ {0}

StageOf(category, v2) ==
    CASE category = "SYNTAX_ERROR"                  -> "compile"
      [] category = "COVERAGE_FAILURE"              -> "simulation"
      [] category = "FORMAL_INVARIANT_BREACH"       -> "formal"
      [] category = "TIMING_VIOLATION"              -> "timing"
      [] category = "MISSING_VERIFICATION_ARTIFACT" ->
             IF v2 THEN "simulation" ELSE "other"
      [] OTHER                                      -> "other"

VARIABLES
    config,         \* the settings of the run, fixed
    pc,             \* where the run is
    ws,             \* the workspace: the RTL file and the harness files
    snapshot,       \* what .mind/snapshots/<session> holds: {} or {contents}
    parseAttempts,  \* _parse_attempts
    stageAttempts,  \* _stage_repair_attempts
    pendingStage,   \* pending_stage_key
    guidance,       \* repair_guidance
    currentRtl,     \* current_rtl
    history,        \* the last three entries of repair_history
    verdict,        \* the last verification result
    result,         \* how the run ended, and the reason the trace gives
    audit           \* history variable, read by the properties only

vars == <<config, pc, ws, snapshot, parseAttempts, stageAttempts, pendingStage,
          guidance, currentRtl, history, verdict, result, audit>>

budgets == <<parseAttempts, stageAttempts>>
loop    == <<pendingStage, guidance, currentRtl, history>>

Contents == [rtl : Code \cup {NoCode}, harness : {"absent", "partial", "staged"}]

(***************************************************************************)
(* A repair prompt.  "evidence" is the structured prompt of                *)
(* VerificationRepairer, with the RTL the evidence is about and the RTL    *)
(* printed under it; "retry" is the short text that replaces it after a    *)
(* failed call, parse, write or an oversized patch.  notice says the       *)
(* previous repair was identical; citesEvidence says the text refers the   *)
(* model to the verifier evidence above it.                                *)
(***************************************************************************)
Guidance == [kind : {"none", "evidence", "retry"},
             about : Code \cup {NoCode}, shown : Code \cup {NoCode},
             notice : BOOLEAN, citesEvidence : BOOLEAN]

NoGuidance == [kind |-> "none", about |-> NoCode, shown |-> NoCode,
               notice |-> FALSE, citesEvidence |-> FALSE]

Retry == [NoGuidance EXCEPT !.kind = "retry"]

HistoryEntry == {"", "REPAIR_CALL_FAILURE", "UNCHANGED_CANDIDATE", "FAILURE"}

Remember(h, entry) == [i \in 1..3 |-> IF i < 3 THEN h[i + 1] ELSE entry]

Limit(s) == IF s \in {"compile", "simulation", "formal"} THEN CoreLimit
            ELSE config.maxRepairs

\* A budget test that gives up one parse failure early.
ParseSpentEarly(n) == n + 1 >= ParseMax

ParseSpent(n) == n >= ParseMax

SameLogic(before, after) == before # NoCode /\ before.logic = after.logic

(***************************************************************************)
(* The history variable: the workspace at the start, the contents last     *)
(* verified ({} before the first verification), how many verifications     *)
(* ran, how many model invocations have failed in a row, whether the       *)
(* repair last written had the logic of the RTL it replaced, and whether a *)
(* failed write has emptied the RTL file since the last verification.      *)
(***************************************************************************)
Audit == [original : Contents, judged : SUBSET Contents, edaRuns : Nat,
          callFailures : Nat, unchanged : BOOLEAN, emptied : BOOLEAN]

Reason == Stage \cup {"", "parse", "calls", "contract", "harness", "category",
                       "exception"}

Open == [status |-> "open", reason |-> ""]

Init ==
    /\ config \in Configs
    /\ pc = "start"
    /\ ws \in [rtl : InitialRtl, harness : {"absent"}]
    /\ snapshot = {}
    /\ parseAttempts = 0
    /\ stageAttempts = [s \in Stage |-> 0]
    /\ pendingStage = "compile"
    /\ guidance = NoGuidance
    /\ currentRtl = NoCode
    /\ history = [i \in 1..3 |-> ""]
    /\ verdict = "NONE"
    /\ result = Open
    /\ audit = [original |-> ws, judged |-> {}, edaRuns |-> 0,
                callFailures |-> 0, unchanged |-> FALSE, emptied |-> FALSE]

-----------------------------------------------------------------------------
(***************************************************************************)
(* Ends of a run.                                                          *)
(***************************************************************************)

Finish(status, reason) ==
    /\ pc' = "done"
    /\ result' = [status |-> status, reason |-> reason]

\* A roll back that restores the RTL file and leaves the harness.
RollBackRtlOnly(status, reason) ==
    /\ \E c \in snapshot : ws' = [ws EXCEPT !.rtl = c.rtl]
    /\ Finish(status, reason)

\* _restore_snapshot, then the REPAIR_OR_FINISH record and return False.
RollBack(status, reason) ==
    /\ ws' \in snapshot
    /\ Finish(status, reason)

\* An exception that run_silicon_pipeline does not catch: nothing is restored.
Escape == Finish("escaped", "exception")

-----------------------------------------------------------------------------
(***************************************************************************)
(* Contract stage.                                                         *)
(***************************************************************************)

\* Resets, _create_snapshot, and the choice between the evaluator's contract
\* and the architect model's.
Start ==
    /\ pc = "start"
    /\ snapshot' = {ws}
    /\ pc' = IF config.override THEN "harness" ELSE "architect"
    /\ UNCHANGED <<config, ws, budgets, loop, verdict, result, audit>>

\* The architect's contract is taken, at the first or the second attempt.
ArchitectAccepted ==
    /\ pc \in {"architect", "architect_retry"}
    /\ pc' = "harness"
    /\ UNCHANGED <<config, ws, snapshot, budgets, loop, verdict, result, audit>>

\* A failed call, an unparseable or (first attempt) inconsistent contract.
ArchitectRetried ==
    /\ pc = "architect"
    /\ pc' = "architect_retry"
    /\ UNCHANGED <<config, ws, snapshot, budgets, loop, verdict, result, audit>>

\* The second attempt gave no contract: the workspace is restored and the run
\* returns, without a REPAIR_OR_FINISH record.
ArchitectFailed ==
    /\ pc = "architect_retry"
    /\ RollBack("no_contract", "")
    /\ UNCHANGED <<config, snapshot, budgets, loop, verdict, audit>>

\* The second attempt's contract is inconsistent (SPECIFICATION_ERROR).
ContractInconsistent ==
    /\ pc = "architect_retry"
    /\ RollBack("aborted", "contract")
    /\ UNCHANGED <<config, snapshot, budgets, loop, verdict, audit>>

-----------------------------------------------------------------------------
(***************************************************************************)
(* Verification harness.                                                   *)
(***************************************************************************)

\* UNSUPPORTED_FORMAL_PROPERTY or NO_GENUINE_PROPERTY.
HarnessUnbuildable ==
    /\ pc = "harness"
    /\ RollBack("aborted", "harness")
    /\ UNCHANGED <<config, snapshot, budgets, loop, verdict, audit>>

HarnessStaged ==
    /\ pc = "harness"
    /\ ws' = [ws EXCEPT !.harness = "staged"]
    /\ pc' = "generate"
    /\ UNCHANGED <<config, snapshot, budgets, loop, verdict, result, audit>>

\* The policy check or a write raises, possibly between two files.
HarnessRaised ==
    /\ pc = "harness"
    /\ \E h \in {"absent", "partial"} : ws' = [ws EXCEPT !.harness = h]
    /\ Escape
    /\ UNCHANGED <<config, snapshot, budgets, loop, verdict, audit>>

-----------------------------------------------------------------------------
(***************************************************************************)
(* Initial generation.                                                     *)
(***************************************************************************)

\* write_text empties the file before it encodes and writes: a write that
\* raises may leave no RTL where there was some.
AfterFailedWrite == {ws, [ws EXCEPT !.rtl = NoCode]}

\* Going on to the verifier although nothing was written.
GenerationFailedVerified ==
    /\ guidance' = NoGuidance
    /\ currentRtl' = ws'.rtl
    /\ pc' = "verify"

\* The evidence prompt made from the exception, with no RTL to show.
GenerationFailed ==
    /\ guidance' = [NoGuidance EXCEPT !.kind = "evidence"]
    /\ currentRtl' = ws'.rtl
    /\ pc' = "repair"

GenerationUnparsed ==
    /\ pc = "generate"
    /\ parseAttempts' = parseAttempts + 1
    /\ UNCHANGED ws
    /\ IF ParseSpent(parseAttempts + 1)
       THEN GenerationFailed
       ELSE UNCHANGED <<guidance, currentRtl, pc>>
    /\ UNCHANGED <<config, snapshot, stageAttempts, pendingStage, history,
                   verdict, result, audit>>

\* The model call, the policy check or the write raises.
GenerationRaised ==
    /\ pc = "generate"
    /\ ws' \in AfterFailedWrite
    /\ GenerationFailed
    /\ UNCHANGED <<config, snapshot, budgets, pendingStage, history, verdict,
                   result, audit>>

GenerationWritten(code) ==
    /\ pc = "generate"
    /\ ws' = [ws EXCEPT !.rtl = code]
    /\ currentRtl' = code
    /\ pc' = "verify"
    /\ UNCHANGED <<config, snapshot, budgets, pendingStage, guidance, history,
                   verdict, result, audit>>

-----------------------------------------------------------------------------
(***************************************************************************)
(* Repair turns.  Each action is one pass of the loop with repair_guidance *)
(* set, up to its "continue" or to the verification: the RTL is read       *)
(* again from the workspace, the budgets are tested before the model is    *)
(* called, and the answer is dealt with.                                   *)
(***************************************************************************)

ParseBudgetSpent ==
    /\ pc = "repair"
    /\ ParseSpent(parseAttempts)
    /\ RollBack("rolled_back", "parse")
    /\ currentRtl' = ws.rtl
    /\ UNCHANGED <<config, snapshot, budgets, pendingStage, guidance, history,
                   verdict, audit>>

\* The trace says "compile repair limit" whatever the stage.
StageBudgetSpent ==
    /\ pc = "repair"
    /\ ~ParseSpent(parseAttempts)
    /\ stageAttempts[pendingStage] + 1 > Limit(pendingStage)
    /\ RollBack("rolled_back", "compile")
    /\ currentRtl' = ws.rtl
    /\ UNCHANGED <<config, snapshot, budgets, pendingStage, guidance, history,
                   verdict, audit>>

\* The model called without a look at the parse budget.
ModelCalledUnchecked ==
    /\ pc = "repair"
    /\ stageAttempts[pendingStage] + 1 <= Limit(pendingStage)
    /\ currentRtl' = ws.rtl

\* The model is called.
ModelCalled ==
    /\ pc = "repair"
    /\ ~ParseSpent(parseAttempts)
    /\ stageAttempts[pendingStage] + 1 <= Limit(pendingStage)
    /\ currentRtl' = ws.rtl

\* The invocation raises; three such entries in a row end the run.
RepairCallFailed ==
    LET remembered == Remember(history, "REPAIR_CALL_FAILURE") IN
    /\ ModelCalled
    /\ history' = remembered
    /\ audit' = [audit EXCEPT !.callFailures = @ + 1]
    /\ IF \A i \in 1..3 : remembered[i] = "REPAIR_CALL_FAILURE"
       THEN RollBack("rolled_back", "calls") /\ UNCHANGED guidance
       ELSE guidance' = Retry /\ UNCHANGED <<pc, ws, result>>
    /\ UNCHANGED <<config, snapshot, budgets, pendingStage, verdict>>

RepairUnparsed ==
    /\ ModelCalled
    /\ parseAttempts' = parseAttempts + 1
    /\ history' = Remember(history, "FAILURE")
    /\ audit' = [audit EXCEPT !.callFailures = 0]
    /\ IF ParseSpent(parseAttempts + 1)
       THEN RollBack("rolled_back", "parse") /\ UNCHANGED guidance
       ELSE guidance' = Retry /\ UNCHANGED <<pc, ws, result>>
    /\ UNCHANGED <<config, snapshot, stageAttempts, pendingStage, verdict>>

\* The answer parsed as code, and the identity record was made.
Parsed ==
    /\ ModelCalled
    /\ UNCHANGED parseAttempts

\* Only a byte-identical answer noted as unchanged.
NotedRaw(code) == IF ws.rtl = code
                  THEN Remember(history, "UNCHANGED_CANDIDATE")
                  ELSE history

Noted(code) == IF SameLogic(ws.rtl, code)
               THEN Remember(history, "UNCHANGED_CANDIDATE")
               ELSE history

\* Every attempt charged to the compile stage.
ChargeCompile(s) == stageAttempts' = [stageAttempts EXCEPT !["compile"] = @ + 1]

\* No attempt charged.
ChargeNothing(s) == UNCHANGED stageAttempts

Charge(s) == stageAttempts' = [stageAttempts EXCEPT ![s] = @ + 1]

\* The comparison made with the RTL read on an earlier pass.
SkippableStale(code) == config.skipUnchanged /\ currentRtl = code

\* MIND3_SKIP_UNCHANGED and equal narrow hashes.
Skippable(code) == config.skipUnchanged /\ ws.rtl = code

\* MIND3_EVIDENCE_V2 and a sensitivity or multiple-driver mistake.
PrecheckRejects(code) == config.evidenceV2 /\ code \in Suspect

\* Minimal-patch mode and a rewrite beyond the change budget.
TooLarge(code) == config.mode # "r2" /\ <<ws.rtl, code>> \in LargePatch

\* The verifier is not run again; the attempt is charged all the same.
RepairSkipped(code) ==
    /\ Parsed
    /\ Skippable(code)
    /\ Charge(pendingStage)
    /\ history' = Remember(Noted(code), "UNCHANGED_CANDIDATE")
    /\ audit' = [audit EXCEPT !.callFailures = 0]
    /\ IF stageAttempts[pendingStage] + 1 >= Limit(pendingStage)
       THEN RollBack("rolled_back", pendingStage) /\ UNCHANGED guidance
       ELSE /\ guidance' = [guidance EXCEPT !.citesEvidence = TRUE]
            /\ UNCHANGED <<pc, ws, result>>
    /\ UNCHANGED <<config, snapshot, pendingStage, verdict>>

\* Feedback is added to the guidance and no budget is charged.
RepairRejected(code) ==
    /\ Parsed
    /\ ~Skippable(code)
    /\ PrecheckRejects(code)
    /\ history' = Remember(Noted(code), "FAILURE")
    /\ audit' = [audit EXCEPT !.callFailures = 0]
    /\ UNCHANGED <<config, pc, ws, snapshot, stageAttempts, pendingStage,
                   guidance, verdict, result>>

RepairTooLarge(code) ==
    /\ Parsed
    /\ ~Skippable(code) /\ ~PrecheckRejects(code)
    /\ TooLarge(code)
    /\ Charge(pendingStage)
    /\ history' = Remember(Noted(code), "FAILURE")
    /\ guidance' = Retry
    /\ audit' = [audit EXCEPT !.callFailures = 0]
    /\ UNCHANGED <<config, pc, ws, snapshot, pendingStage, verdict, result>>

\* The policy check or the write raises.
RepairUnwritten(code) ==
    /\ Parsed
    /\ ~Skippable(code) /\ ~PrecheckRejects(code) /\ ~TooLarge(code)
    /\ Charge(pendingStage)
    /\ history' = Remember(Noted(code), "REPAIR_CALL_FAILURE")
    /\ guidance' = Retry
    /\ ws' \in AfterFailedWrite
    /\ audit' = [audit EXCEPT !.callFailures = 0,
                              !.emptied = @ \/ ws'.rtl = NoCode]
    /\ UNCHANGED <<config, pc, snapshot, pendingStage, verdict, result>>

RepairWritten(code) ==
    /\ Parsed
    /\ ~Skippable(code) /\ ~PrecheckRejects(code) /\ ~TooLarge(code)
    /\ Charge(pendingStage)
    /\ history' = Noted(code)
    /\ ws' = [ws EXCEPT !.rtl = code]
    /\ guidance' = NoGuidance
    /\ pc' = "verify"
    /\ audit' = [audit EXCEPT !.callFailures = 0,
                              !.unchanged = SameLogic(ws.rtl, code)]
    /\ UNCHANGED <<config, snapshot, pendingStage, verdict, result>>

-----------------------------------------------------------------------------
(***************************************************************************)
(* Verification and what follows it.                                       *)
(***************************************************************************)

Verify ==
    /\ pc = "verify"
    /\ verdict' \in Reported \cup {"PASS"}
    /\ pc' = "judge"
    /\ audit' = [audit EXCEPT !.judged = {ws}, !.edaRuns = @ + 1,
                              !.emptied = FALSE]
    /\ UNCHANGED <<config, ws, snapshot, budgets, loop, result>>

VerifyRaised ==
    /\ pc = "verify"
    /\ Escape
    /\ UNCHANGED <<config, ws, snapshot, budgets, loop, verdict, audit>>

\* _purge_snapshot and return True.
Accept ==
    /\ pc = "judge"
    /\ verdict = "PASS"
    /\ snapshot' = {}
    /\ Finish("committed", "")
    /\ UNCHANGED <<config, ws, budgets, loop, verdict, audit>>

AbortNonRepairable ==
    /\ pc = "judge"
    /\ verdict \in NonRepairable
    /\ RollBack("aborted", "category")
    /\ UNCHANGED <<config, snapshot, budgets, loop, verdict, audit>>

FailedStage == StageOf(verdict, config.evidenceV2)

Repairable == verdict \in Category \ NonRepairable

VerifyBudgetSpent ==
    /\ pc = "judge"
    /\ Repairable
    /\ stageAttempts[FailedStage] >= Limit(FailedStage)
    /\ RollBack("rolled_back", FailedStage)
    /\ UNCHANGED <<config, snapshot, budgets, loop, verdict, audit>>

\* The evidence is about the RTL just verified; the RTL printed under it is
\* current_rtl, which a repair's write does not update.
RequestRepair ==
    /\ pc = "judge"
    /\ Repairable
    /\ stageAttempts[FailedStage] < Limit(FailedStage)
    /\ pendingStage' = FailedStage
    /\ guidance' = [kind |-> "evidence",
                    about |-> ws.rtl,
                    shown |-> IF config.mode = "r2" THEN NoCode ELSE currentRtl,
                    notice |-> \E i \in 2..3 : history[i] = "UNCHANGED_CANDIDATE",
                    citesEvidence |-> FALSE]
    /\ history' = Remember(history, "FAILURE")
    /\ pc' = "repair"
    /\ UNCHANGED <<config, ws, snapshot, budgets, currentRtl, verdict, result,
                   audit>>

-----------------------------------------------------------------------------
Prepare ==
    \/ Start
    \/ ArchitectAccepted
    \/ ArchitectRetried
    \/ ArchitectFailed
    \/ ContractInconsistent
    \/ HarnessUnbuildable
    \/ HarnessStaged
    \/ HarnessRaised

Generate ==
    \/ GenerationUnparsed
    \/ GenerationRaised
    \/ \E code \in Code : GenerationWritten(code)

Repair ==
    \/ ParseBudgetSpent
    \/ StageBudgetSpent
    \/ RepairCallFailed
    \/ RepairUnparsed
    \/ \E code \in Code :
          \/ RepairSkipped(code)
          \/ RepairRejected(code)
          \/ RepairTooLarge(code)
          \/ RepairUnwritten(code)
          \/ RepairWritten(code)

Judge ==
    \/ Verify
    \/ VerifyRaised
    \/ Accept
    \/ AbortNonRepairable
    \/ VerifyBudgetSpent
    \/ RequestRepair

Next == Prepare \/ Generate \/ Repair \/ Judge

Spec == Init /\ [][Next]_vars

\* The driver is one thread of straight-line code: it keeps running until it
\* returns, and every call it makes returns or raises (each has a timeout).
FairSpec == Spec /\ WF_vars(Next)

-----------------------------------------------------------------------------
(***************************************************************************)
(* Properties.                                                             *)
(***************************************************************************)

\* Every variable has its type, and no budget is ever overdrawn.
TypeOK ==
    /\ config \in Configs
    /\ pc \in {"start", "architect", "architect_retry", "harness", "generate",
              "repair", "verify", "judge", "done"}
    /\ ws \in Contents
    /\ snapshot \in SUBSET Contents
    /\ parseAttempts \in 0..ParseMax
    /\ stageAttempts \in [Stage -> Nat]
    /\ pendingStage \in Stage
    /\ guidance \in Guidance
    /\ currentRtl \in Code \cup {NoCode}
    /\ history \in [1..3 -> HistoryEntry]
    /\ verdict \in Category \cup {"NONE", "PASS"}
    /\ result \in [status : {"open", "committed", "rolled_back", "aborted",
                            "no_contract", "escaped"},
                  reason : Reason]
    /\ audit \in Audit

GaveUp == result.status \in {"rolled_back", "aborted", "no_contract"}

\* A run that returns False leaves the workspace, harness files included, as
\* it found it, whatever was written before it gave up.
RolledBackExactly == GaveUp => ws = audit.original

\* The verifier only ever judges a workspace with RTL and the complete
\* harness in it: no failed generation falls through to a verdict.
JudgesRealRtl ==
    pc \in {"verify", "judge"} => ws.rtl # NoCode /\ ws.harness = "staged"

Spent == stageAttempts["compile"] + stageAttempts["simulation"]
         + stageAttempts["formal"] + stageAttempts["timing"]
         + stageAttempts["other"]

\* Every verification after the first is paid for by a repair attempt of some
\* stage, and no stage is charged beyond its limit ("bounded 3/3/3 attempts"):
\* skipped, rejected, oversized and unwritten repairs never buy a free one.
EdaTurnsPaid ==
    /\ audit.edaRuns <= 1 + Spent
    /\ \A s \in Stage : stageAttempts[s] <= Limit(s)

\* A run rolls back only when a budget is really spent, or three failures to
\* get a repair written stand at the end of the history.
NoPrematureRollback ==
    result.status = "rolled_back" =>
        \/ parseAttempts >= ParseMax
        \/ \E s \in Stage : stageAttempts[s] >= Limit(s)
        \/ \A i \in 1..3 : history[i] = "REPAIR_CALL_FAILURE"

\* When a repair that changed no logic fails verification again, the next
\* prompt says so.
UnchangedAnnounced ==
    pc = "repair" /\ guidance.kind = "evidence" /\ audit.unchanged
        => guidance.notice

\* A repair is charged to the stage of the failure it answers, also after
\* retries that produced no verdict; before any verdict, to compile.
ChargedToFailedStage ==
    [][\A s \in Stage : stageAttempts'[s] # stageAttempts[s] =>
          s = IF audit.edaRuns = 0 THEN "compile" ELSE FailedStage]_vars

\* With MIND3_SKIP_UNCHANGED the same RTL is not verified twice in a row, be
\* there retries, oversized patches and parse failures in between; only after a
\* failed write has emptied the file may it be.
NoIdenticalReverify ==
    [][config.skipUnchanged /\ audit'.edaRuns # audit.edaRuns =>
          ws \notin audit.judged \/ audit.emptied]_vars

\* Once the parse budget is spent no answer of the model reaches the
\* workspace: what follows is a roll back.
ParseBudgetFinal ==
    [][parseAttempts >= ParseMax =>
          ws' = ws \/ ws' = audit.original]_vars

Terminated == pc = "done"

\* Without the pre-checks of MIND3_EVIDENCE_V2 every run returns or raises.
Termination == <>(Terminated \/ config.evidenceV2)

\* Every run implements the workspace transaction.
Txn == INSTANCE RepairTransaction WITH
    Content  <- Contents,
    files    <- ws,
    original <- audit.original,
    accepted <- IF verdict = "PASS" THEN audit.judged ELSE {},
    outcome  <- IF GaveUp THEN "rolled_back" ELSE result.status

IsTransaction == Txn!Spec

(***************************************************************************)
(* Properties the code does not have.                                      *)
(***************************************************************************)

\* The RTL printed under the verifier's evidence is the RTL it is about.
PromptShowsFailedRtl ==
    guidance.kind = "evidence" /\ config.mode = "r1" =>
        guidance.shown = guidance.about

\* A roll back blamed on a stage's budget names a stage whose budget is spent.
RollbackNamesSpentBudget ==
    result.status = "rolled_back" /\ result.reason \in Stage =>
        stageAttempts[result.reason] >= Limit(result.reason)

\* The repair loop is bounded whatever the settings.
AlwaysTerminates == <>Terminated

\* The notice is only given after a repair that changed no logic.
NoticeIsTrue == guidance.notice => audit.unchanged

\* "failed 3 times in a row" is said of three failed invocations in a row.
CallFailuresInARow == result.reason = "calls" => audit.callFailures >= 3

\* A prompt that refers to the verifier evidence above it contains it.
CitedEvidenceIsThere == guidance.citesEvidence => guidance.kind = "evidence"
=============================================================================
