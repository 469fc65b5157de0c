----------------------- MODULE SiliconPipelineProofs -----------------------
(***************************************************************************)
(* Proofs about SiliconPipeline for every set of candidates, every setting *)
(* and every budget.                                                       *)
(***************************************************************************)
EXTENDS SiliconPipeline, TLAPS

(***************************************************************************)
(* Type correctness.  The parse budget is in the type of parseAttempts, so *)
(* the invariant has to say that the first generation is only repeated     *)
(* while the budget lasts.                                                 *)
(***************************************************************************)
TypeInv ==
    /\ TypeOK
    /\ pc \in {"start", "architect", "architect_retry", "harness"} =>
          parseAttempts = 0
    /\ pc = "generate" => parseAttempts < ParseMax

\* StageOf (_repair_stage_for_result) gives one of the stages that have a budget,
\* whatever category the verifier reports.
LEMMA StageOfType ==
    ASSUME NEW category, NEW v2 \in BOOLEAN
    PROVE  StageOf(category, v2) \in Stage
BY DEF StageOf, Stage

\* Appending to repair_history leaves three well-formed entries.
LEMMA RememberType ==
    ASSUME NEW h \in [1..3 -> HistoryEntry], NEW entry \in HistoryEntry
    PROVE  Remember(h, entry) \in [1..3 -> HistoryEntry]
BY DEF Remember

\* So does the identity check of a parsed answer.
LEMMA NotedType ==
    ASSUME TypeOK, NEW code
    PROVE  Noted(code) \in [1..3 -> HistoryEntry]
<1>1. "UNCHANGED_CANDIDATE" \in HistoryEntry
  BY DEF HistoryEntry
<1>2. Remember(history, "UNCHANGED_CANDIDATE") \in [1..3 -> HistoryEntry]
  BY <1>1, RememberType DEF TypeOK
<1> QED
  BY <1>2 DEF Noted, TypeOK

\* The empty prompt and the short text of a retry are prompts.
LEMMA NoGuidanceType == NoGuidance \in Guidance /\ Retry \in Guidance
BY DEF NoGuidance, Guidance, Retry

\* What a roll back, or the choice between one and another prompt, leaves.
LEMMA RollBackType ==
    ASSUME TypeOK, NEW status \in {"rolled_back", "aborted", "no_contract"},
           NEW reason \in Reason, RollBack(status, reason)
    PROVE  /\ ws' \in Contents
           /\ pc' = "done"
           /\ result' \in [status : {"open", "committed", "rolled_back", "aborted",
                                    "no_contract", "escaped"}, reason : Reason]
BY DEF TypeOK, RollBack, Finish

\* A pass of the loop that calls the model has parse budget left, and reads
\* current_rtl from the workspace.
LEMMA ReadBackType ==
    ASSUME TypeOK, ModelCalled
    PROVE  /\ pc = "repair"
           /\ parseAttempts < ParseMax
           /\ currentRtl' \in Code \cup {NoCode}
BY PipelineAssumption
   DEF PipelineAssumption, TypeOK, ModelCalled, ParseSpent, Contents

\* A failed write leaves a workspace, with the RTL there was or without RTL.
LEMMA AfterFailedWriteType ==
    ASSUME TypeOK, ws' \in AfterFailedWrite
    PROVE  ws' \in Contents /\ ws'.harness = ws.harness
BY DEF TypeOK, AfterFailedWrite, Contents

\* A failed initial generation enters the repair loop with a well-formed prompt.
LEMMA GenerationFailedType ==
    ASSUME ws' \in Contents, GenerationFailed
    PROVE  /\ guidance' \in Guidance
           /\ currentRtl' \in Code \cup {NoCode}
           /\ pc' = "repair"
BY DEF GenerationFailed, NoGuidance, Guidance, Contents

\* A run starts with its types, budgets untouched.
THEOREM TypeInitial == Init => TypeInv
<1> SUFFICES ASSUME Init PROVE TypeInv
  OBVIOUS
<1> USE PipelineAssumption DEF PipelineAssumption
<1>1. ws \in Contents /\ currentRtl \in Code \cup {NoCode}
  BY DEF Init, Contents
<1>2. guidance \in Guidance
  BY NoGuidanceType DEF Init
<1>3. history \in [1..3 -> HistoryEntry]
  BY DEF Init, HistoryEntry
<1>4. audit \in Audit
  BY <1>1 DEF Init, Audit
<1>5. result \in [status : {"open", "committed", "rolled_back", "aborted",
                            "no_contract", "escaped"}, reason : Reason]
  BY DEF Init, Open, Reason
<1>6. stageAttempts \in [Stage -> Nat]
  BY DEF Init
<1>9. parseAttempts = 0 /\ ParseMax \in Nat
  BY DEF Init
<1>7. pendingStage \in Stage /\ verdict \in Category \cup {"NONE", "PASS"}
  BY DEF Init, Stage
<1>8. config \in Configs /\ pc = "start" /\ snapshot \in SUBSET Contents
  BY DEF Init
<1> QED
  BY <1>1, <1>2, <1>3, <1>4, <1>5, <1>6, <1>7, <1>8, <1>9
  DEF TypeInv, TypeOK

\* No step of the pipeline leaves the types or overdraws the parse budget.
THEOREM TypeStep == TypeInv /\ [Next]_vars => TypeInv'
<1> SUFFICES ASSUME TypeInv, [Next]_vars PROVE TypeInv'
  OBVIOUS
<1> USE PipelineAssumption DEF PipelineAssumption, TypeInv, TypeOK
<1>1. CASE Start
  BY <1>1 DEF Start, budgets, loop
<1>2. CASE ArchitectAccepted
  BY <1>2 DEF ArchitectAccepted, budgets, loop
<1>3. CASE ArchitectRetried
  BY <1>3 DEF ArchitectRetried, budgets, loop
<1>4. CASE ArchitectFailed
  BY <1>4 DEF ArchitectFailed, RollBack, Finish, Reason, budgets, loop
<1>5. CASE ContractInconsistent
  BY <1>5 DEF ContractInconsistent, RollBack, Finish, Reason, budgets, loop
<1>6. CASE HarnessUnbuildable
  BY <1>6 DEF HarnessUnbuildable, RollBack, Finish, Reason, budgets, loop
<1>7. CASE HarnessStaged
  BY <1>7 DEF HarnessStaged, Contents, budgets, loop
<1>8. CASE HarnessRaised
  <2>1. PICK h \in {"absent", "partial"} : ws' = [ws EXCEPT !.harness = h]
    BY <1>8 DEF HarnessRaised
  <2>2. ws' \in Contents
    BY <2>1 DEF Contents
  <2> QED
    BY <1>8, <2>2 DEF HarnessRaised, Escape, Finish, Reason, budgets, loop
<1>9. CASE GenerationUnparsed
  BY <1>9, GenerationFailedType
     DEF GenerationUnparsed, ParseSpent
<1>10. CASE GenerationRaised
  BY <1>10, AfterFailedWriteType, GenerationFailedType DEF GenerationRaised, budgets
<1>11. ASSUME NEW code \in Code, GenerationWritten(code) PROVE TypeInv'
  BY <1>11 DEF GenerationWritten, Contents, budgets
<1>12. CASE ParseBudgetSpent
  BY <1>12 DEF ParseBudgetSpent, RollBack, Finish, Reason, Contents, budgets
<1>13. CASE StageBudgetSpent
  BY <1>13 DEF StageBudgetSpent, RollBack, Finish, Reason, Stage, Contents, budgets
<1>14. CASE RepairCallFailed
  <2>1. history' \in [1..3 -> HistoryEntry]
    BY <1>14, RememberType DEF RepairCallFailed, HistoryEntry
  <2>2. audit' \in Audit
    BY <1>14 DEF RepairCallFailed, Audit
  <2>3. CASE RollBack("rolled_back", "calls") /\ UNCHANGED guidance
    BY <1>14, <2>1, <2>2, <2>3, RollBackType, ReadBackType
       DEF RepairCallFailed, Reason, budgets
  <2>4. CASE guidance' = Retry /\ UNCHANGED <<pc, ws, result>>
    BY <1>14, <2>1, <2>2, <2>4, NoGuidanceType, ReadBackType
       DEF RepairCallFailed, budgets
  <2> QED
    BY <1>14, <2>3, <2>4 DEF RepairCallFailed
<1>15. CASE RepairUnparsed
  <2>1. history' \in [1..3 -> HistoryEntry]
    BY <1>15, RememberType DEF RepairUnparsed, HistoryEntry
  <2>2. audit' \in Audit
    BY <1>15 DEF RepairUnparsed, Audit
  <2>5. parseAttempts' \in 0..ParseMax /\ currentRtl' \in Code \cup {NoCode}
    BY <1>15, ReadBackType DEF RepairUnparsed
  <2>6. "parse" \in Reason
    BY DEF Reason
  <2>3. CASE RollBack("rolled_back", "parse") /\ UNCHANGED guidance
    <3>1. /\ ws' \in Contents
          /\ pc' = "done"
          /\ result' \in [status : {"open", "committed", "rolled_back", "aborted",
                                   "no_contract", "escaped"}, reason : Reason]
      BY <2>3, <2>6, RollBackType
    <3> QED
      BY <1>15, <2>1, <2>2, <2>3, <2>5, <3>1 DEF RepairUnparsed
  <2>4. CASE guidance' = Retry /\ UNCHANGED <<pc, ws, result>>
    BY <1>15, <2>1, <2>2, <2>4, NoGuidanceType, ReadBackType
       DEF RepairUnparsed
  <2> QED
    BY <1>15, <2>3, <2>4 DEF RepairUnparsed
<1>16. ASSUME NEW code \in Code, RepairSkipped(code) PROVE TypeInv'
  <2>1. history' \in [1..3 -> HistoryEntry]
    BY <1>16, NotedType, RememberType DEF RepairSkipped, HistoryEntry
  <2>2. audit' \in Audit
    BY <1>16 DEF RepairSkipped, Audit
  <2>3. guidance' \in Guidance
    BY <1>16 DEF RepairSkipped, Guidance
  <2>4. stageAttempts' \in [Stage -> Nat]
    BY <1>16 DEF RepairSkipped, Charge
  <2>5. CASE RollBack("rolled_back", pendingStage)
    BY <1>16, <2>1, <2>2, <2>3, <2>4, <2>5, RollBackType, ReadBackType
       DEF RepairSkipped, Parsed, Reason
  <2>6. CASE UNCHANGED <<pc, ws, result>>
    BY <1>16, <2>1, <2>2, <2>3, <2>4, <2>6, ReadBackType
       DEF RepairSkipped, Parsed
  <2> QED
    BY <1>16, <2>5, <2>6 DEF RepairSkipped
<1>17. ASSUME NEW code \in Code, RepairRejected(code) PROVE TypeInv'
  <2>1. history' \in [1..3 -> HistoryEntry]
    BY <1>17, NotedType, RememberType DEF RepairRejected, HistoryEntry
  <2>2. audit' \in Audit
    BY <1>17 DEF RepairRejected, Audit
  <2> QED
    BY <1>17, <2>1, <2>2 DEF RepairRejected, Parsed, ModelCalled, Contents
<1>18. ASSUME NEW code \in Code, RepairTooLarge(code) PROVE TypeInv'
  <2>1. history' \in [1..3 -> HistoryEntry]
    BY <1>18, NotedType, RememberType DEF RepairTooLarge, HistoryEntry
  <2>2. audit' \in Audit
    BY <1>18 DEF RepairTooLarge, Audit
  <2> QED
    BY <1>18, <2>1, <2>2, NoGuidanceType
       DEF RepairTooLarge, Parsed, ModelCalled, Charge, Contents
<1>19. ASSUME NEW code \in Code, RepairUnwritten(code) PROVE TypeInv'
  <2>1. history' \in [1..3 -> HistoryEntry]
    BY <1>19, NotedType, RememberType DEF RepairUnwritten, HistoryEntry
  <2>2. audit' \in Audit
    <3>1. (audit.emptied \/ ws'.rtl = NoCode) \in BOOLEAN
      BY DEF Audit
    <3> QED
      BY <1>19, <3>1 DEF RepairUnwritten, Audit
  <2>3. ws' \in Contents
    BY <1>19, AfterFailedWriteType DEF RepairUnwritten
  <2> QED
    BY <1>19, <2>1, <2>2, <2>3, NoGuidanceType
       DEF RepairUnwritten, Parsed, ModelCalled, Charge, Contents
<1>20. ASSUME NEW code \in Code, RepairWritten(code) PROVE TypeInv'
  <2>1. history' \in [1..3 -> HistoryEntry]
    BY <1>20, NotedType DEF RepairWritten
  <2>2. SameLogic(ws.rtl, code) \in BOOLEAN
    BY DEF SameLogic
  <2>3. audit' \in Audit
    BY <1>20, <2>2 DEF RepairWritten, Audit
  <2>4. ws' \in Contents
    BY <1>20 DEF RepairWritten, Contents
  <2> QED
    BY <1>20, <2>1, <2>3, <2>4, NoGuidanceType
       DEF RepairWritten, Parsed, ModelCalled, Charge, Contents
<1>21. CASE Verify
  <2>1. {ws} \in SUBSET Contents
    OBVIOUS
  <2>2. audit.edaRuns + 1 \in Nat
    BY DEF Audit
  <2>3. audit' = [audit EXCEPT !.judged = {ws}, !.edaRuns = audit.edaRuns + 1,
                               !.emptied = FALSE]
    BY <1>21 DEF Verify
  <2>4. audit' \in Audit
    BY <2>1, <2>2, <2>3 DEF Audit
  <2> QED
    BY <1>21, <2>4 DEF Verify, budgets, loop
<1>22. CASE VerifyRaised
  BY <1>22 DEF VerifyRaised, Escape, Finish, Reason, budgets, loop
<1>23. CASE Accept
  BY <1>23 DEF Accept, Finish, Reason, budgets, loop
<1>24. CASE AbortNonRepairable
  BY <1>24 DEF AbortNonRepairable, RollBack, Finish, Reason, budgets, loop
<1>25. FailedStage \in Stage
  <2>1. config.evidenceV2 \in BOOLEAN
    BY DEF Config
  <2> QED
    BY <2>1, StageOfType DEF FailedStage
<1>26. CASE VerifyBudgetSpent
  BY <1>26, <1>25 DEF VerifyBudgetSpent, RollBack, Finish, Reason, budgets, loop
<1>27. CASE RequestRepair
  <2>1. history' \in [1..3 -> HistoryEntry]
    BY <1>27, RememberType DEF RequestRepair, HistoryEntry
  <2>2. guidance' \in Guidance
    BY <1>27 DEF RequestRepair, Guidance, Contents
  <2> QED
    BY <1>27, <1>25, <2>1, <2>2 DEF RequestRepair, budgets
<1>28. CASE UNCHANGED vars
  BY <1>28 DEF vars
<1> QED
  BY <1>1, <1>2, <1>3, <1>4, <1>5, <1>6, <1>7, <1>8, <1>9, <1>10, <1>11, <1>12,
     <1>13, <1>14, <1>15, <1>16, <1>17, <1>18, <1>19, <1>20, <1>21, <1>22,
     <1>23, <1>24, <1>26, <1>27, <1>28
     DEF Next, Prepare, Generate, Repair, Judge

\* No run leaves its types; in particular the parse budget is never overdrawn.
THEOREM TypeCorrect == Spec => []TypeOK
<1>1. TypeInv => TypeOK
  BY DEF TypeInv
<1> QED
  BY <1>1, TypeInitial, TypeStep, PTL DEF Spec

-----------------------------------------------------------------------------
(***************************************************************************)
(* Roll backs.  What a roll back restores is the snapshot, so the          *)
(* invariant follows the snapshot from the start of the run, and follows   *)
(* what is in the workspace each time the verifier is called.              *)
(***************************************************************************)
SafeInv ==
    /\ TypeInv
    /\ pc = "start" => ws = audit.original
    /\ pc \notin {"start", "done"} => snapshot = {audit.original}
    /\ pc # "done" => result.status = "open"
    /\ GaveUp => ws = audit.original
    /\ pc \in {"generate", "repair", "verify", "judge"} => ws.harness = "staged"
    /\ pc \in {"verify", "judge"} => ws.rtl # NoCode
    /\ pc = "judge" => audit.judged = {ws}
    /\ verdict = "PASS" => pc \in {"judge", "done"}

\* Wherever the driver gives up between the snapshot and the end of the run,
\* _restore_snapshot puts back what the run found, provided the verifier has not
\* accepted.
LEMMA RollBackRestores ==
    ASSUME SafeInv, pc \notin {"start", "done"}, TypeInv', verdict # "PASS",
           NEW status \in {"rolled_back", "aborted", "no_contract"}, NEW reason,
           RollBack(status, reason), UNCHANGED verdict,
           audit'.original = audit.original
    PROVE  SafeInv' /\ ws' = audit.original /\ result'.status = status
BY DEF SafeInv, RollBack, Finish, GaveUp

\* An exception that leaves the driver is not mistaken for a roll back.
LEMMA EscapeSafe ==
    ASSUME SafeInv, TypeInv', Escape, verdict # "PASS", UNCHANGED verdict
    PROVE  SafeInv' /\ result'.status = "escaped"
BY DEF SafeInv, Escape, Finish, GaveUp

\* A pass of the repair loop that goes round without a verification.
LEMMA LoopSafe ==
    ASSUME SafeInv, TypeInv', pc = "repair", UNCHANGED <<pc, snapshot, result>>,
           ws'.harness = ws.harness, UNCHANGED verdict, audit'.original = audit.original
    PROVE  SafeInv'
BY DEF SafeInv, GaveUp

\* A run starts with the workspace it promises to restore.
THEOREM SafeInitial == Init => SafeInv
<1> SUFFICES ASSUME Init PROVE SafeInv
  OBVIOUS
<1>1. TypeInv
  BY TypeInitial
<1>2. ws = audit.original /\ pc = "start" /\ result.status = "open" /\ verdict = "NONE"
  BY DEF Init, Open
<1> QED
  BY <1>1, <1>2 DEF SafeInv, GaveUp

\* No step loses the snapshot or calls the verifier on an incomplete workspace.
THEOREM SafeStep == SafeInv /\ [Next]_vars => SafeInv'
<1> SUFFICES ASSUME SafeInv, [Next]_vars PROVE SafeInv'
  OBVIOUS
<1>0. TypeInv /\ TypeInv'
  BY TypeStep DEF SafeInv
<1> USE <1>0
<1>1. CASE Start
  BY <1>1 DEF Start, SafeInv, GaveUp
<1>2. CASE ArchitectAccepted
  BY <1>2 DEF ArchitectAccepted, SafeInv, GaveUp
<1>3. CASE ArchitectRetried
  BY <1>3 DEF ArchitectRetried, SafeInv, GaveUp
<1>4. CASE ArchitectFailed
  BY <1>4, RollBackRestores DEF ArchitectFailed, SafeInv
<1>5. CASE ContractInconsistent
  BY <1>5, RollBackRestores DEF ContractInconsistent, SafeInv
<1>6. CASE HarnessUnbuildable
  BY <1>6, RollBackRestores DEF HarnessUnbuildable, SafeInv
<1>7. CASE HarnessStaged
  BY <1>7 DEF HarnessStaged, SafeInv, GaveUp, TypeInv, TypeOK, Contents
<1>8. CASE HarnessRaised
  BY <1>8, EscapeSafe DEF HarnessRaised, SafeInv
<1>9. CASE GenerationUnparsed
  <2>1. CASE GenerationFailed
    BY <1>9, <2>1 DEF GenerationUnparsed, GenerationFailed, SafeInv, GaveUp
  <2>2. CASE UNCHANGED <<guidance, currentRtl, pc>>
    BY <1>9, <2>2 DEF GenerationUnparsed, SafeInv, GaveUp
  <2> QED
    BY <1>9, <2>1, <2>2 DEF GenerationUnparsed
<1>10. CASE GenerationRaised
  <2>1. ws'.harness = ws.harness
    BY <1>10, AfterFailedWriteType DEF GenerationRaised, TypeInv
  <2> QED
    BY <1>10, <2>1 DEF GenerationRaised, GenerationFailed, SafeInv, GaveUp
<1>11. ASSUME NEW code \in Code, GenerationWritten(code) PROVE SafeInv'
  BY <1>11, PipelineAssumption
     DEF GenerationWritten, SafeInv, GaveUp, TypeInv, TypeOK, Contents, PipelineAssumption
<1>12. CASE ParseBudgetSpent
  BY <1>12, RollBackRestores DEF ParseBudgetSpent, SafeInv
<1>13. CASE StageBudgetSpent
  BY <1>13, RollBackRestores DEF StageBudgetSpent, SafeInv
<1>14. CASE RepairCallFailed
  <2>1. pc = "repair" /\ audit'.original = audit.original /\ UNCHANGED verdict
    BY <1>14 DEF RepairCallFailed, ModelCalled, TypeInv, TypeOK, Audit
  <2>2. CASE RollBack("rolled_back", "calls")
    BY <2>1, <2>2, RollBackRestores DEF SafeInv
  <2>3. CASE UNCHANGED <<pc, ws, result>>
    BY <1>14, <2>1, <2>3, LoopSafe DEF RepairCallFailed
  <2> QED
    BY <1>14, <2>2, <2>3 DEF RepairCallFailed
<1>15. CASE RepairUnparsed
  <2>1. pc = "repair" /\ audit'.original = audit.original /\ UNCHANGED verdict
    BY <1>15 DEF RepairUnparsed, ModelCalled, TypeInv, TypeOK, Audit
  <2>2. CASE RollBack("rolled_back", "parse")
    BY <2>1, <2>2, RollBackRestores DEF SafeInv
  <2>3. CASE UNCHANGED <<pc, ws, result>>
    BY <1>15, <2>1, <2>3, LoopSafe DEF RepairUnparsed
  <2> QED
    BY <1>15, <2>2, <2>3 DEF RepairUnparsed
<1>16. ASSUME NEW code \in Code, RepairSkipped(code) PROVE SafeInv'
  <2>1. pc = "repair" /\ audit'.original = audit.original /\ UNCHANGED verdict
    BY <1>16 DEF RepairSkipped, Parsed, ModelCalled, TypeInv, TypeOK, Audit
  <2>2. CASE RollBack("rolled_back", pendingStage)
    BY <2>1, <2>2, RollBackRestores DEF SafeInv
  <2>3. CASE UNCHANGED <<pc, ws, result>>
    BY <1>16, <2>1, <2>3, LoopSafe DEF RepairSkipped
  <2> QED
    BY <1>16, <2>2, <2>3 DEF RepairSkipped
<1>17. ASSUME NEW code \in Code,
              RepairRejected(code) \/ RepairTooLarge(code) \/ RepairUnwritten(code)
       PROVE  SafeInv'
  <2>1. pc = "repair" /\ audit'.original = audit.original
    BY <1>17 DEF RepairRejected, RepairTooLarge, RepairUnwritten, Parsed,
                 ModelCalled, TypeInv, TypeOK, Audit
  <2>2. ws'.harness = ws.harness
    BY <1>17, AfterFailedWriteType
       DEF RepairRejected, RepairTooLarge, RepairUnwritten, TypeInv
  <2> QED
    BY <1>17, <2>1, <2>2, LoopSafe DEF RepairRejected, RepairTooLarge, RepairUnwritten
<1>18. ASSUME NEW code \in Code, RepairWritten(code) PROVE SafeInv'
  <2>1. code # NoCode
    BY PipelineAssumption DEF PipelineAssumption
  <2>2. audit'.original = audit.original
    BY <1>18 DEF RepairWritten, TypeInv, TypeOK, Audit
  <2>3. ws'.rtl = code /\ ws'.harness = ws.harness
    BY <1>18 DEF RepairWritten, TypeInv, TypeOK, Contents
  <2> QED
    BY <1>18, <2>1, <2>2, <2>3
       DEF RepairWritten, Parsed, ModelCalled, SafeInv, GaveUp
<1>19. CASE Verify
  <2>1. audit'.original = audit.original /\ audit'.judged = {ws}
    BY <1>19 DEF Verify, TypeInv, TypeOK, Audit
  <2> QED
    BY <1>19, <2>1 DEF Verify, SafeInv, GaveUp
<1>20. CASE VerifyRaised
  BY <1>20, EscapeSafe DEF VerifyRaised, SafeInv
<1>21. CASE Accept
  BY <1>21 DEF Accept, Finish, SafeInv, GaveUp
<1>22. CASE AbortNonRepairable
  BY <1>22, RollBackRestores DEF AbortNonRepairable, NonRepairable, SafeInv
<1>23. CASE VerifyBudgetSpent
  BY <1>23, RollBackRestores DEF VerifyBudgetSpent, Repairable, Category, SafeInv
<1>24. CASE RequestRepair
  BY <1>24 DEF RequestRepair, Repairable, Category, SafeInv, GaveUp
<1>25. CASE UNCHANGED vars
  BY <1>25 DEF vars, SafeInv, GaveUp
<1> QED
  BY <1>1, <1>2, <1>3, <1>4, <1>5, <1>6, <1>7, <1>8, <1>9, <1>10, <1>11, <1>12,
     <1>13, <1>14, <1>15, <1>16, <1>17, <1>18, <1>19, <1>20, <1>21, <1>22,
     <1>23, <1>24, <1>25
     DEF Next, Prepare, Generate, Repair, Judge

\* The invariant on snapshot and workspace holds in every run.
THEOREM AlwaysSafe == Spec => []SafeInv
BY SafeInitial, SafeStep, PTL DEF Spec

\* A run that gives up has put back every file, the harness included.
THEOREM RollBacksExact == Spec => []RolledBackExactly
<1>1. SafeInv => RolledBackExactly
  BY DEF SafeInv, RolledBackExactly
<1> QED
  BY <1>1, AlwaysSafe, PTL

\* The verifier is only ever called on RTL with its complete harness.
THEOREM VerdictsReal == Spec => []JudgesRealRtl
<1>1. SafeInv => JudgesRealRtl
  BY DEF SafeInv, JudgesRealRtl
<1> QED
  BY <1>1, AlwaysSafe, PTL

-----------------------------------------------------------------------------
(***************************************************************************)
(* Budgets.  A repair is written only after its attempt was charged, so    *)
(* one verification more than the attempts charged is owed to the initial  *)
(* generation, and while the verifier is about to run it is still owed.    *)
(***************************************************************************)
BudgetInv ==
    /\ TypeInv
    /\ \A s \in Stage : stageAttempts[s] <= Limit(s)
    /\ pc \in {"start", "architect", "architect_retry", "harness", "generate"} =>
          audit.edaRuns = 0
    /\ pc = "verify" => audit.edaRuns <= Spent
    /\ audit.edaRuns <= 1 + Spent

\* Every stage has a finite limit, the two that use max_repairs included.
LEMMA LimitType ==
    ASSUME TypeOK, NEW s \in Stage
    PROVE  Limit(s) \in Nat
BY PipelineAssumption DEF PipelineAssumption, TypeOK, Limit, Config

\* The attempts charged to all stages add up to a number.
LEMMA SpentType == TypeOK => Spent \in Nat
BY DEF TypeOK, Spent, Stage

\* A charge adds one attempt, to one stage only.
LEMMA SpentCharged ==
    ASSUME TypeOK, NEW s \in Stage, Charge(s)
    PROVE  /\ Spent' = Spent + 1
           /\ stageAttempts'[s] = stageAttempts[s] + 1
           /\ \A t \in Stage \ {s} : stageAttempts'[t] = stageAttempts[t]
BY DEF TypeOK, Spent, Stage, Charge

\* A step that charges nothing and verifies nothing.
LEMMA BudgetKept ==
    ASSUME BudgetInv, TypeInv', UNCHANGED <<config, stageAttempts>>,
           audit'.edaRuns = audit.edaRuns,
           pc' = "verify" => audit.edaRuns = 0,
           pc' \in {"start", "architect", "architect_retry", "harness", "generate"} =>
              pc \in {"start", "architect", "architect_retry", "harness", "generate"}
    PROVE  BudgetInv'
<1>1. Spent \in Nat /\ Spent' = Spent
  BY SpentType DEF BudgetInv, TypeInv, Spent
<1>2. \A s \in Stage : Limit(s)' = Limit(s)
  BY DEF Limit
<1> QED
  BY <1>1, <1>2 DEF BudgetInv

\* A step that charges the pending stage within its limit.
LEMMA BudgetCharged ==
    ASSUME BudgetInv, TypeInv', ModelCalled, Charge(pendingStage), UNCHANGED config,
           audit'.edaRuns = audit.edaRuns, pc' \in {"repair", "verify", "done"}
    PROVE  BudgetInv'
<1>1. pendingStage \in Stage /\ audit.edaRuns \in Nat
  BY DEF BudgetInv, TypeInv, TypeOK, Audit
<1>2. Spent \in Nat /\ Spent' = Spent + 1
  BY <1>1, SpentType, SpentCharged DEF BudgetInv, TypeInv
<1>3. audit'.edaRuns <= Spent'
  BY <1>1, <1>2 DEF BudgetInv
<1>4. \A s \in Stage : Limit(s)' = Limit(s)
  BY DEF Limit
<1>5. ASSUME NEW s \in Stage PROVE stageAttempts'[s] <= Limit(s)
  <2>1. CASE s = pendingStage
    BY <1>1, <2>1, SpentCharged DEF ModelCalled, BudgetInv, TypeInv
  <2>2. CASE s # pendingStage
    BY <1>1, <2>2, SpentCharged DEF BudgetInv, TypeInv
  <2> QED
    BY <2>1, <2>2
<1>6. audit'.edaRuns <= 1 + Spent'
  BY <1>1, <1>2, <1>3
<1> QED
  BY <1>3, <1>4, <1>5, <1>6 DEF BudgetInv

\* A run starts with nothing verified and nothing charged.
THEOREM BudgetInitial == Init => BudgetInv
<1> SUFFICES ASSUME Init PROVE BudgetInv
  OBVIOUS
<1>1. TypeInv
  BY TypeInitial
<1>2. audit.edaRuns = 0 /\ pc = "start"
  BY DEF Init
<1>3. \A s \in Stage : stageAttempts[s] <= Limit(s)
  <2>1. \A s \in Stage : stageAttempts[s] = 0 /\ Limit(s) \in Nat
    BY <1>1, LimitType DEF Init, TypeInv
  <2> QED
    BY <2>1
<1>4. Spent \in Nat
  BY <1>1, SpentType DEF TypeInv
<1> QED
  BY <1>1, <1>2, <1>3, <1>4 DEF BudgetInv

\* No step verifies without a charged attempt or passes a stage's limit.
THEOREM BudgetStep == BudgetInv /\ [Next]_vars => BudgetInv'
<1> SUFFICES ASSUME BudgetInv, [Next]_vars PROVE BudgetInv'
  OBVIOUS
<1>0. TypeInv /\ TypeInv'
  BY TypeStep DEF BudgetInv
<1> USE <1>0
<1>1. CASE Prepare
  <2>1. /\ UNCHANGED <<config, stageAttempts, audit>>
        /\ pc' # "verify"
        /\ pc \in {"start", "architect", "architect_retry", "harness"}
    BY <1>1 DEF Prepare, Start, ArchitectAccepted, ArchitectRetried, ArchitectFailed,
       ContractInconsistent, HarnessUnbuildable, HarnessStaged, HarnessRaised,
       RollBack, Escape, Finish, budgets
  <2> QED
    BY <2>1, BudgetKept
<1>2. CASE Generate
  <2>1. pc = "generate" /\ UNCHANGED <<config, stageAttempts, audit>>
    BY <1>2 DEF Generate, GenerationUnparsed, GenerationRaised, GenerationWritten,
       budgets
  <2>2. audit.edaRuns = 0
    BY <2>1 DEF BudgetInv
  <2> QED
    BY <2>1, <2>2, BudgetKept
<1>3. CASE ParseBudgetSpent \/ StageBudgetSpent
  <2>1. pc = "repair" /\ pc' = "done" /\ UNCHANGED <<config, stageAttempts, audit>>
    BY <1>3 DEF ParseBudgetSpent, StageBudgetSpent, RollBack, Finish, budgets
  <2> QED
    BY <2>1, BudgetKept
<1>4. CASE RepairCallFailed \/ RepairUnparsed
  <2>1. /\ pc = "repair" /\ pc' \in {"repair", "done"}
        /\ UNCHANGED <<config, stageAttempts>>
        /\ audit'.edaRuns = audit.edaRuns
    BY <1>4 DEF RepairCallFailed, RepairUnparsed, ModelCalled, RollBack, Finish,
       budgets, TypeInv, TypeOK, Audit
  <2> QED
    BY <2>1, BudgetKept
<1>5. ASSUME NEW code \in Code, RepairRejected(code) PROVE BudgetInv'
  <2>1. /\ pc = "repair" /\ pc' = "repair"
        /\ UNCHANGED <<config, stageAttempts>>
        /\ audit'.edaRuns = audit.edaRuns
    BY <1>5 DEF RepairRejected, Parsed, ModelCalled, TypeInv, TypeOK, Audit
  <2> QED
    BY <2>1, BudgetKept
<1>6. ASSUME NEW code \in Code,
             \/ RepairSkipped(code)  \/ RepairTooLarge(code)
             \/ RepairUnwritten(code) \/ RepairWritten(code)
      PROVE  BudgetInv'
  <2>1. /\ ModelCalled /\ Charge(pendingStage) /\ UNCHANGED config
        /\ pc' \in {"repair", "verify", "done"}
    BY <1>6 DEF RepairSkipped, RepairTooLarge, RepairUnwritten, RepairWritten,
       Parsed, ModelCalled, RollBack, Finish
  <2>2. audit'.edaRuns = audit.edaRuns
    BY <1>6 DEF RepairSkipped, RepairTooLarge, RepairUnwritten, RepairWritten,
       TypeInv, TypeOK, Audit
  <2> QED
    BY <2>1, <2>2, BudgetCharged
<1>7. CASE Verify
  <2>1. /\ pc = "verify" /\ pc' = "judge"
        /\ UNCHANGED <<config, stageAttempts>>
    BY <1>7 DEF Verify, budgets
  <2>2. audit.edaRuns \in Nat /\ audit'.edaRuns = audit.edaRuns + 1
    BY <1>7 DEF Verify, TypeInv, TypeOK, Audit
  <2>3. Spent \in Nat /\ Spent' = Spent /\ \A s \in Stage : Limit(s)' = Limit(s)
    BY <2>1, SpentType DEF Spent, Limit, TypeInv
  <2> QED
    BY <2>1, <2>2, <2>3 DEF BudgetInv
<1>8. CASE VerifyRaised \/ Accept \/ AbortNonRepairable \/ VerifyBudgetSpent
           \/ RequestRepair
  <2>1. pc' \in {"done", "repair"} /\ UNCHANGED <<config, stageAttempts, audit>>
    BY <1>8 DEF VerifyRaised, Accept, AbortNonRepairable, VerifyBudgetSpent,
       RequestRepair, RollBack, Escape, Finish, budgets
  <2> QED
    BY <2>1, BudgetKept
<1>9. CASE UNCHANGED vars
  <2>1. UNCHANGED <<config, stageAttempts, audit, pc>>
    BY <1>9 DEF vars
  <2>2. Spent' = Spent /\ \A s \in Stage : Limit(s)' = Limit(s)
    BY <2>1 DEF Spent, Limit
  <2> QED
    BY <2>1, <2>2 DEF BudgetInv
<1> QED
  BY <1>1, <1>2, <1>3, <1>4, <1>5, <1>6, <1>7, <1>8, <1>9 DEF Next, Repair, Judge

\* Every verification after the first was paid for, and no stage's limit is
\* ever passed, whatever the limits are.
THEOREM BudgetsHold == Spec => []EdaTurnsPaid
<1>1. BudgetInv => EdaTurnsPaid
  BY DEF BudgetInv, EdaTurnsPaid
<1> QED
  BY <1>1, BudgetInitial, BudgetStep, PTL DEF Spec

-----------------------------------------------------------------------------
(***************************************************************************)
(* Refinement.  Every run is a workspace transaction: it commits only what *)
(* the verifier has just accepted, and a run that gives up leaves the      *)
(* workspace as it was.                                                    *)
(***************************************************************************)

\* What the transaction sees of a step that neither verifies nor ends the run.
LEMMA EditStep ==
    ASSUME SafeInv, TypeInv', pc # "done", result'.status = "open",
           UNCHANGED <<verdict, audit.original, audit.judged>>
    PROVE  [Txn!Next]_(Txn!vars)
<1>1. ~GaveUp /\ ~GaveUp' /\ result.status = "open"
  BY DEF SafeInv, GaveUp
<1>2. ws' \in Contents
  BY DEF TypeInv, TypeOK
<1> QED
  BY <1>1, <1>2 DEF Txn!Next, Txn!Edit, Txn!vars

\* A roll back of the pipeline is a roll back of the transaction.
LEMMA RollBackStep ==
    ASSUME SafeInv, pc # "done", ws' = audit.original,
           result'.status \in {"rolled_back", "aborted", "no_contract"},
           UNCHANGED <<verdict, audit.original, audit.judged>>
    PROVE  [Txn!Next]_(Txn!vars)
<1>1. ~GaveUp /\ GaveUp' /\ result.status = "open"
  BY DEF SafeInv, GaveUp
<1> QED
  BY <1>1 DEF Txn!Next, Txn!RollBack, Txn!vars

\* An exception that leaves the driver is an escape of the transaction.
LEMMA EscapeStep ==
    ASSUME SafeInv, TypeInv', pc # "done", result'.status = "escaped",
           UNCHANGED <<verdict, audit.original, audit.judged>>
    PROVE  [Txn!Next]_(Txn!vars)
<1>1. ~GaveUp /\ ~GaveUp' /\ result.status = "open"
  BY DEF SafeInv, GaveUp
<1>2. ws' \in Contents
  BY DEF TypeInv, TypeOK
<1> QED
  BY <1>1, <1>2 DEF Txn!Next, Txn!Escape, Txn!vars

\* A run of the pipeline starts as a transaction does.
THEOREM TransactionInitial == Init => Txn!Init
<1> SUFFICES ASSUME Init PROVE Txn!Init
  OBVIOUS
<1>1. ws \in Contents
  BY TypeInitial DEF TypeInv, TypeOK
<1>2. audit.original = ws /\ verdict # "PASS" /\ result.status = "open" /\ ~GaveUp
  BY DEF Init, Open, GaveUp
<1> QED
  BY <1>1, <1>2 DEF Txn!Init

\* Every step of the pipeline is a step of the transaction or invisible to it.
THEOREM TransactionStep == SafeInv /\ [Next]_vars => [Txn!Next]_(Txn!vars)
<1> SUFFICES ASSUME SafeInv, [Next]_vars PROVE [Txn!Next]_(Txn!vars)
  OBVIOUS
<1>0. SafeInv' /\ TypeInv /\ TypeInv'
  BY SafeStep, TypeStep DEF SafeInv
<1> USE <1>0
<1>1. CASE Prepare
  <2>1. pc # "done" /\ UNCHANGED <<verdict, audit>>
    BY <1>1 DEF Prepare, Start, ArchitectAccepted, ArchitectRetried, ArchitectFailed,
       ContractInconsistent, HarnessUnbuildable, HarnessStaged, HarnessRaised
  <2>2. CASE Start \/ ArchitectAccepted \/ ArchitectRetried \/ HarnessStaged
    <3>1. result'.status = "open"
      BY <2>1, <2>2
         DEF Start, ArchitectAccepted, ArchitectRetried, HarnessStaged, SafeInv
    <3> QED
      BY <2>1, <3>1, EditStep
  <2>3. CASE ArchitectFailed \/ ContractInconsistent \/ HarnessUnbuildable
    <3>1. PICK status \in {"aborted", "no_contract"}, reason \in Reason :
             RollBack(status, reason)
      BY <2>3 DEF ArchitectFailed, ContractInconsistent, HarnessUnbuildable, Reason
    <3>2. pc \notin {"start", "done"}
      BY <2>3 DEF ArchitectFailed, ContractInconsistent, HarnessUnbuildable
    <3>3. ws' = audit.original /\ result'.status = status
      BY <3>1, <3>2 DEF RollBack, Finish, SafeInv
    <3> QED
      BY <2>1, <3>3, RollBackStep
  <2>4. CASE HarnessRaised
    BY <2>1, <2>4, EscapeStep DEF HarnessRaised, Escape, Finish
  <2> QED
    BY <1>1, <2>2, <2>3, <2>4 DEF Prepare
<1>2. CASE Generate
  <2>1. pc = "generate" /\ UNCHANGED <<verdict, audit, result>>
    BY <1>2 DEF Generate, GenerationUnparsed, GenerationRaised, GenerationWritten
  <2> QED
    BY <2>1, EditStep DEF SafeInv
<1>3. CASE Repair
  <2>1. /\ pc = "repair"
        /\ UNCHANGED <<verdict, audit.original, audit.judged>>
    BY <1>3 DEF Repair, ParseBudgetSpent, StageBudgetSpent, RepairCallFailed,
       RepairUnparsed, RepairSkipped, RepairRejected, RepairTooLarge,
       RepairUnwritten, RepairWritten, Parsed, ModelCalled, TypeInv, TypeOK, Audit
  <2>2. CASE UNCHANGED result
    BY <2>1, <2>2, EditStep DEF SafeInv
  <2>3. CASE \E reason : RollBack("rolled_back", reason)
    BY <2>1, <2>3, RollBackStep DEF RollBack, Finish, SafeInv
  <2> QED
    BY <1>3, <2>2, <2>3
       DEF Repair, ParseBudgetSpent, StageBudgetSpent, RepairCallFailed,
       RepairUnparsed, RepairSkipped, RepairRejected, RepairTooLarge,
       RepairUnwritten, RepairWritten
<1>4. CASE Verify
  <2>1. /\ pc = "verify" /\ result'.status = result.status /\ ws' = ws
        /\ result.status = "open" /\ ~GaveUp /\ ~GaveUp' /\ verdict # "PASS"
    BY <1>4 DEF Verify, SafeInv, GaveUp
  <2>2. audit'.original = audit.original /\ audit'.judged = {ws}
    BY <1>4 DEF Verify, TypeInv, TypeOK, Audit
  <2> QED
    BY <2>1, <2>2 DEF Txn!Next, Txn!Approve, Txn!Refuse, Txn!vars
<1>5. CASE VerifyRaised
  BY <1>5, EscapeStep DEF VerifyRaised, Escape, Finish
<1>6. CASE Accept
  <2>1. /\ audit.judged = {ws} /\ ~GaveUp /\ ~GaveUp' /\ result.status = "open"
        /\ result'.status = "committed" /\ verdict = "PASS" /\ verdict' = "PASS"
        /\ UNCHANGED <<ws, audit>>
    BY <1>6 DEF Accept, Finish, SafeInv, GaveUp
  <2> QED
    BY <2>1 DEF Txn!Next, Txn!Commit, Txn!vars
<1>7. CASE AbortNonRepairable \/ VerifyBudgetSpent
  <2>1. /\ pc = "judge" /\ UNCHANGED <<verdict, audit>>
        /\ ws' = audit.original /\ result'.status \in {"aborted", "rolled_back"}
    BY <1>7 DEF AbortNonRepairable, VerifyBudgetSpent, RollBack, Finish, SafeInv
  <2> QED
    BY <2>1, RollBackStep
<1>8. CASE RequestRepair
  BY <1>8, EditStep DEF RequestRepair, SafeInv
<1>9. CASE UNCHANGED vars
  BY <1>9 DEF vars, Txn!vars, GaveUp
<1> QED
  BY <1>1, <1>2, <1>3, <1>4, <1>5, <1>6, <1>7, <1>8, <1>9 DEF Next, Judge

\* The pipeline implements the workspace transaction.
THEOREM Transactional == Spec => IsTransaction
BY TransactionInitial, TransactionStep, AlwaysSafe, PTL
   DEF Spec, IsTransaction, Txn!Spec

-----------------------------------------------------------------------------
(***************************************************************************)
(* The repair loop: which stage an attempt is charged to, why a run is     *)
(* rolled back, what the prompt says, what is verified again and what a    *)
(* write may replace.                                                      *)
(***************************************************************************)
Early == {"start", "architect", "architect_retry", "harness", "generate"}

\* The pending stage is that of the last verdict wherever it is charged.
Pending ==
    /\ pc \in Early => audit.edaRuns = 0 /\ pendingStage = "compile"
    /\ pc = "judge" => audit.edaRuns > 0
    /\ pc = "repair" =>
          pendingStage = IF audit.edaRuns = 0 THEN "compile" ELSE FailedStage

\* From the write of an unchanged candidate to the prompt, its entry is the
\* last of the history.
Announced ==
    /\ pc \in Early => ~audit.unchanged
    /\ pc \in {"verify", "judge"} /\ audit.unchanged =>
          history[3] = "UNCHANGED_CANDIDATE"
    /\ UnchangedAnnounced

\* Between a verdict and the write of another candidate, the workspace is
\* what was judged, or a failed write has emptied it.
Rejudged ==
    /\ pc \in Early => audit.judged = {}
    /\ pc = "repair" => audit.judged \subseteq {ws} \/ audit.emptied
    /\ pc = "verify" /\ config.skipUnchanged => ws \notin audit.judged \/ audit.emptied

RepairInv == /\ SafeInv
             /\ Pending
             /\ Announced
             /\ Rejudged
             /\ NoPrematureRollback

LEMMA RepairInitial == Init => RepairInv
<1> SUFFICES ASSUME Init PROVE RepairInv
  OBVIOUS
<1>1. SafeInv
  BY SafeInitial
<1> QED
  BY <1>1 DEF Init, RepairInv, Pending, Announced, UnchangedAnnounced, Rejudged,
     NoPrematureRollback, Open, NoGuidance, Early

\* The contract, the harness and the generation.
LEMMA EarlyKeeps ==
    ASSUME RepairInv, SafeInv', Prepare \/ Generate
    PROVE  RepairInv'
<1> USE DEF RepairInv, SafeInv, TypeInv, TypeOK, Audit, Early
<1>1. pc \in Early /\ UNCHANGED <<config, audit, pendingStage, history>>
  BY DEF Prepare, Start, ArchitectAccepted, ArchitectRetried, ArchitectFailed,
     ContractInconsistent, HarnessUnbuildable, HarnessStaged, HarnessRaised, Generate,
     GenerationUnparsed, GenerationRaised, GenerationWritten, loop
<1>2. pc' \in Early \cup {"repair", "verify", "done"}
  BY DEF Prepare, Start, ArchitectAccepted, ArchitectRetried, ArchitectFailed,
     ContractInconsistent, HarnessUnbuildable, HarnessStaged, HarnessRaised, Generate,
     GenerationUnparsed, GenerationRaised, GenerationWritten, GenerationFailed, Finish,
     RollBack, Escape
<1>3. result'.status # "rolled_back"
  <2>1. result.status = "open"
    BY <1>1
  <2>2. CASE Prepare
    <3>1. CASE Start \/ ArchitectAccepted \/ ArchitectRetried \/ HarnessStaged
      BY <2>1, <3>1 DEF Start, ArchitectAccepted, ArchitectRetried, HarnessStaged
    <3>2. CASE ArchitectFailed \/ ContractInconsistent \/ HarnessUnbuildable
      <4>1. \E status \in {"no_contract", "aborted"}, reason \in Reason :
               result' = [status |-> status, reason |-> reason]
        BY <3>2 DEF ArchitectFailed, ContractInconsistent, HarnessUnbuildable, RollBack, Finish,
           Reason
      <4> QED
        BY <4>1
    <3>3. CASE HarnessRaised
      BY <3>3 DEF HarnessRaised, Escape, Finish
    <3> QED
      BY <2>2, <3>1, <3>2, <3>3 DEF Prepare
  <2>3. CASE Generate
    BY <2>1, <2>3 DEF Generate, GenerationUnparsed, GenerationRaised, GenerationWritten
  <2> QED
    BY <2>2, <2>3
<1>4. Pending' /\ Announced' /\ Rejudged' /\ NoPrematureRollback'
  BY <1>1, <1>2, <1>3 DEF Pending, Announced, UnchangedAnnounced, Rejudged,
     NoPrematureRollback
<1> QED
  BY <1>4

\* A pass of the repair loop that stays in the loop.
LEMMA LoopKeeps ==
    ASSUME RepairInv, SafeInv', pc = "repair", pc' = "repair",
           UNCHANGED <<config, pendingStage, verdict, result>>,
           audit'.edaRuns = audit.edaRuns, audit'.judged = audit.judged,
           audit'.unchanged = audit.unchanged,
           (ws' = ws /\ audit'.emptied = audit.emptied) \/ audit'.emptied,
           guidance'.kind = "evidence" =>
              guidance.kind = "evidence" /\ guidance'.notice = guidance.notice
    PROVE  RepairInv'
<1>1. NoPrematureRollback'
  BY DEF RepairInv, SafeInv, NoPrematureRollback
<1>2. Pending' /\ Announced'
  BY DEF RepairInv, Pending, Announced, UnchangedAnnounced, Early, FailedStage
<1>3. Rejudged'
  BY DEF RepairInv, Rejudged, Early
<1> QED
  BY <1>1, <1>2, <1>3 DEF RepairInv

\* A step that ends the run.
LEMMA EndKeeps ==
    ASSUME SafeInv', pc' = "done", NoPrematureRollback'
    PROVE  RepairInv'
  BY DEF RepairInv, Pending, Announced, UnchangedAnnounced, Rejudged, Early

\* A roll back for a stage whose budget is spent.
LEMMA SpentKeeps ==
    ASSUME SafeInv', pc' = "done", UNCHANGED config, NEW s \in Stage,
           stageAttempts'[s] >= Limit(s)
    PROVE  RepairInv'
  BY EndKeeps DEF NoPrematureRollback, Limit

\* Turns of the model that bring no answer, or one that is not taken.
LEMMA TurnKeeps ==
    ASSUME RepairInv, SafeInv', \/ ParseBudgetSpent \/ StageBudgetSpent
                               \/ RepairCallFailed \/ RepairUnparsed
    PROVE  RepairInv'
<1> USE DEF RepairInv, SafeInv, TypeInv, TypeOK, Audit
<1>1. CASE ParseBudgetSpent
  <2>1. NoPrematureRollback'
    BY <1>1 DEF ParseBudgetSpent, ParseSpent, budgets, NoPrematureRollback
  <2> QED
    BY <1>1, <2>1, EndKeeps DEF ParseBudgetSpent, RollBack, Finish
<1>2. CASE StageBudgetSpent
  <2>1. Limit(pendingStage) \in Nat
    BY LimitType
  <2>2. stageAttempts'[pendingStage] >= Limit(pendingStage)
    BY <1>2, <2>1 DEF StageBudgetSpent, budgets
  <2> QED
    BY <1>2, <2>2, SpentKeeps DEF StageBudgetSpent, RollBack, Finish
<1>3. CASE RepairCallFailed
  <2>1. /\ UNCHANGED <<config, pendingStage, verdict>> /\ pc = "repair"
        /\ audit'.edaRuns = audit.edaRuns /\ audit'.judged = audit.judged
        /\ audit'.unchanged = audit.unchanged /\ audit'.emptied = audit.emptied
    BY <1>3 DEF RepairCallFailed, ModelCalled
  <2>2. CASE guidance' = Retry /\ UNCHANGED <<pc, ws, result>>
    BY <2>1, <2>2, LoopKeeps DEF Retry, NoGuidance
  <2>3. CASE RollBack("rolled_back", "calls") /\ \A i \in 1..3 : history'[i] = "REPAIR_CALL_FAILURE"
    BY <2>3, EndKeeps DEF RollBack, Finish, NoPrematureRollback
  <2> QED
    BY <1>3, <2>2, <2>3 DEF RepairCallFailed
<1>4. CASE RepairUnparsed
  <2>1. /\ UNCHANGED <<config, pendingStage, verdict>> /\ pc = "repair"
        /\ audit'.edaRuns = audit.edaRuns /\ audit'.judged = audit.judged
        /\ audit'.unchanged = audit.unchanged /\ audit'.emptied = audit.emptied
    BY <1>4 DEF RepairUnparsed, ModelCalled
  <2>2. CASE guidance' = Retry /\ UNCHANGED <<pc, ws, result>>
    BY <2>1, <2>2, LoopKeeps DEF Retry, NoGuidance
  <2>3. CASE RollBack("rolled_back", "parse") /\ parseAttempts' >= ParseMax
    BY <2>3, EndKeeps DEF RollBack, Finish, NoPrematureRollback
  <2> QED
    BY <1>4, <2>2, <2>3 DEF RepairUnparsed, ParseSpent
<1> QED
  BY <1>1, <1>2, <1>3, <1>4

\* What is done with an answer that parsed.
LEMMA AnswerKeeps ==
    ASSUME RepairInv, SafeInv', NEW code \in Code,
           \/ RepairSkipped(code) \/ RepairRejected(code) \/ RepairTooLarge(code)
           \/ RepairUnwritten(code) \/ RepairWritten(code)
    PROVE  RepairInv'
<1> USE DEF RepairInv, SafeInv, TypeInv, TypeOK, Audit
<1>1. /\ UNCHANGED <<config, pendingStage, verdict>> /\ pc = "repair"
      /\ audit'.edaRuns = audit.edaRuns /\ audit'.judged = audit.judged
  BY DEF RepairSkipped, RepairRejected, RepairTooLarge, RepairUnwritten, RepairWritten,
     Parsed, ModelCalled
<1>2. CASE RepairSkipped(code)
  <2>1. audit'.unchanged = audit.unchanged /\ audit'.emptied = audit.emptied
    BY <1>2 DEF RepairSkipped
  <2>2. CASE guidance' = [guidance EXCEPT !.citesEvidence = TRUE] /\ UNCHANGED <<pc, ws, result>>
    BY <1>1, <2>1, <2>2, LoopKeeps DEF Guidance
  <2>3. CASE /\ RollBack("rolled_back", pendingStage)
             /\ stageAttempts[pendingStage] + 1 >= Limit(pendingStage)
    <3>1. stageAttempts'[pendingStage] >= Limit(pendingStage)
      BY <1>2, <2>3 DEF RepairSkipped, Charge
    <3> QED
      BY <1>1, <2>3, <3>1, SpentKeeps DEF RollBack, Finish
  <2> QED
    BY <1>2, <2>2, <2>3 DEF RepairSkipped
<1>3. CASE RepairRejected(code)
  BY <1>1, <1>3, LoopKeeps DEF RepairRejected
<1>4. CASE RepairTooLarge(code)
  BY <1>1, <1>4, LoopKeeps DEF RepairTooLarge, Retry, NoGuidance
<1>5. CASE RepairUnwritten(code)
  <2>1. /\ audit'.unchanged = audit.unchanged
        /\ audit'.emptied = (audit.emptied \/ ws'.rtl = NoCode)
    BY <1>5 DEF RepairUnwritten
  <2>2. ws' = ws \/ ws'.rtl = NoCode
    BY <1>5 DEF RepairUnwritten, AfterFailedWrite, Contents
  <2> QED
    BY <1>1, <1>5, <2>1, <2>2, LoopKeeps DEF RepairUnwritten, Retry, NoGuidance
<1>6. CASE RepairWritten(code)
  <2>1. /\ pc' = "verify" /\ guidance' = NoGuidance /\ UNCHANGED result
        /\ audit'.unchanged = SameLogic(ws.rtl, code) /\ audit'.emptied = audit.emptied
    BY <1>6 DEF RepairWritten
  <2>2. audit'.unchanged => history'[3] = "UNCHANGED_CANDIDATE"
    BY <1>6, <2>1 DEF RepairWritten, Noted, Remember
  <2>3. Announced'
    BY <2>1, <2>2 DEF Announced, UnchangedAnnounced, Early
  <2>4. Rejudged'
    <3>1. config.skipUnchanged => ws' # ws
      BY <1>6 DEF RepairWritten, Skippable, Contents
    <3> QED
      BY <1>1, <2>1, <3>1 DEF Rejudged, Early
  <2>5. Pending' /\ NoPrematureRollback'
    BY <1>1, <2>1 DEF Pending, NoPrematureRollback, Early
  <2> QED
    BY <2>3, <2>4, <2>5
<1> QED
  BY <1>2, <1>3, <1>4, <1>5, <1>6

\* Verification and what follows it.
LEMMA JudgeKeeps ==
    ASSUME RepairInv, SafeInv', Judge
    PROVE  RepairInv'
<1> USE DEF RepairInv, SafeInv, TypeInv, TypeOK, Audit
<1>1. CASE Verify
  <2>1. /\ pc = "verify" /\ pc' = "judge" /\ UNCHANGED <<result, history>>
        /\ audit'.edaRuns = audit.edaRuns + 1 /\ audit'.unchanged = audit.unchanged
    BY <1>1 DEF Verify, loop
  <2> QED
    BY <2>1 DEF Pending, Announced, UnchangedAnnounced, Rejudged, NoPrematureRollback, Early
<1>2. CASE VerifyRaised \/ Accept \/ AbortNonRepairable
  <2>1. pc' = "done" /\ result'.status # "rolled_back"
    <3>1. CASE VerifyRaised
      BY <3>1 DEF VerifyRaised, Escape, Finish
    <3>2. CASE Accept
      BY <3>2 DEF Accept, Finish
    <3>3. CASE AbortNonRepairable
      BY <3>3 DEF AbortNonRepairable, RollBack, Finish
    <3> QED
      BY <1>2, <3>1, <3>2, <3>3
  <2> QED
    BY <2>1, EndKeeps DEF NoPrematureRollback
<1>3. CASE VerifyBudgetSpent
  <2>1. FailedStage \in Stage
    BY StageOfType, PipelineAssumption DEF FailedStage, PipelineAssumption, Config
  <2>2. stageAttempts'[FailedStage] >= Limit(FailedStage)
    BY <1>3 DEF VerifyBudgetSpent, budgets
  <2> QED
    BY <1>3, <2>1, <2>2, SpentKeeps DEF VerifyBudgetSpent, RollBack, Finish
<1>4. CASE RequestRepair
  <2>1. /\ pc = "judge" /\ pc' = "repair" /\ pendingStage' = FailedStage
        /\ UNCHANGED <<config, verdict, audit, ws, result>>
        /\ guidance'.notice = \E i \in 2..3 : history[i] = "UNCHANGED_CANDIDATE"
    BY <1>4 DEF RequestRepair
  <2> QED
    BY <2>1 DEF Pending, Announced, UnchangedAnnounced, Rejudged, NoPrematureRollback, Early,
       FailedStage
<1> QED
  BY <1>1, <1>2, <1>3, <1>4 DEF Judge

LEMMA RepairStep == RepairInv /\ [Next]_vars => RepairInv'
<1> SUFFICES ASSUME RepairInv, [Next]_vars PROVE RepairInv'
  OBVIOUS
<1>1. SafeInv'
  BY SafeStep DEF RepairInv
<1>2. CASE UNCHANGED vars
  BY <1>1, <1>2 DEF vars, RepairInv, Pending, Announced, UnchangedAnnounced, Rejudged,
     NoPrematureRollback, FailedStage, Limit
<1>3. CASE Prepare \/ Generate
  BY <1>1, <1>3, EarlyKeeps
<1>4. CASE Repair
  BY <1>1, <1>4, TurnKeeps, AnswerKeeps DEF Repair
<1>5. CASE Judge
  BY <1>1, <1>5, JudgeKeeps
<1> QED
  BY <1>2, <1>3, <1>4, <1>5 DEF Next

LEMMA RepairInvariant == Spec => []RepairInv
  BY RepairInitial, RepairStep, PTL DEF Spec

-----------------------------------------------------------------------------
\* A run rolls back only when a budget is spent, or after three failures in a
\* row to get a repair written.
THEOREM RollbacksAreDue == Spec => []NoPrematureRollback
<1>1. RepairInv => NoPrematureRollback
  BY DEF RepairInv
<1> QED
  BY <1>1, RepairInvariant, PTL

\* The prompt after a repair that changed no logic says so.
THEOREM NoticeIsGiven == Spec => []UnchangedAnnounced
<1>1. RepairInv => UnchangedAnnounced
  BY DEF RepairInv, Announced
<1> QED
  BY <1>1, RepairInvariant, PTL

\* An attempt is charged to the stage of the last verdict, through any number
\* of passes without one.
THEOREM ChargesFollowVerdicts == Spec => ChargedToFailedStage
<1> DEFINE A == \A s \in Stage : stageAttempts'[s] # stageAttempts[s] =>
                  s = IF audit.edaRuns = 0 THEN "compile" ELSE FailedStage
<1>1. ASSUME RepairInv, [Next]_vars PROVE [A]_vars
  <2>1. CASE UNCHANGED stageAttempts
    BY <2>1
  <2>2. CASE pc = "repair" /\ Charge(pendingStage)
    <3>1. \A s \in Stage : stageAttempts'[s] # stageAttempts[s] => s = pendingStage
      BY <1>1, <2>2 DEF Charge, RepairInv, SafeInv, TypeInv, TypeOK
    <3> QED
      BY <1>1, <2>2, <3>1 DEF RepairInv, Pending
  <2>3. UNCHANGED stageAttempts \/ (pc = "repair" /\ Charge(pendingStage))
    <3>1. CASE UNCHANGED vars
      BY <3>1 DEF vars
    <3>2. CASE Prepare \/ Generate
      BY <3>2 DEF Prepare, Start, ArchitectAccepted, ArchitectRetried, ArchitectFailed,
         ContractInconsistent, HarnessUnbuildable, HarnessStaged, HarnessRaised, Generate,
         GenerationUnparsed, GenerationRaised, GenerationWritten, budgets
    <3>3. CASE Repair
      BY <3>3 DEF Repair, ParseBudgetSpent, StageBudgetSpent, RepairCallFailed,
         RepairUnparsed, RepairSkipped, RepairRejected, RepairTooLarge, RepairUnwritten,
         RepairWritten, Parsed, ModelCalled, budgets
    <3>4. CASE Judge
      BY <3>4 DEF Judge, Verify, VerifyRaised, Accept, AbortNonRepairable,
         VerifyBudgetSpent, RequestRepair, budgets
    <3> QED
      BY <1>1, <3>1, <3>2, <3>3, <3>4 DEF Next
  <2> QED
    BY <2>1, <2>2, <2>3
<1> QED
  BY <1>1, RepairInvariant, PTL DEF Spec, ChargedToFailedStage

\* With MIND3_SKIP_UNCHANGED a workspace is not verified twice in a row, but
\* after a failed write.
THEOREM NotJudgedTwice == Spec => NoIdenticalReverify
<1> DEFINE A == config.skipUnchanged /\ audit'.edaRuns # audit.edaRuns =>
                  ws \notin audit.judged \/ audit.emptied
<1>1. ASSUME RepairInv, [Next]_vars PROVE [A]_vars
  <2> USE DEF RepairInv, SafeInv, TypeInv, TypeOK, Audit
  <2>1. CASE Verify
    BY <1>1, <2>1 DEF Verify, Rejudged
  <2>2. CASE ~Verify
    <3>1. audit'.edaRuns = audit.edaRuns
      <4>1. CASE UNCHANGED vars
        BY <4>1 DEF vars
      <4>2. CASE Prepare \/ Generate
        BY <4>2 DEF Prepare, Start, ArchitectAccepted, ArchitectRetried, ArchitectFailed,
           ContractInconsistent, HarnessUnbuildable, HarnessStaged, HarnessRaised, Generate,
           GenerationUnparsed, GenerationRaised, GenerationWritten
      <4>3. CASE Repair
        BY <1>1, <4>3 DEF Repair, ParseBudgetSpent, StageBudgetSpent, RepairCallFailed,
           RepairUnparsed, RepairSkipped, RepairRejected, RepairTooLarge, RepairUnwritten,
           RepairWritten
      <4>4. CASE Judge
        BY <2>2, <4>4 DEF Judge, VerifyRaised, Accept, AbortNonRepairable,
           VerifyBudgetSpent, RequestRepair
      <4> QED
        BY <1>1, <4>1, <4>2, <4>3, <4>4 DEF Next
    <3> QED
      BY <3>1
  <2> QED
    BY <2>1, <2>2
<1> QED
  BY <1>1, RepairInvariant, PTL DEF Spec, NoIdenticalReverify

\* Once the parse budget is spent no answer reaches the workspace.
THEOREM ParseBudgetIsFinal == Spec => ParseBudgetFinal
<1> DEFINE A == parseAttempts >= ParseMax => ws' = ws \/ ws' = audit.original
<1>1. ASSUME RepairInv, [Next]_vars PROVE [A]_vars
  <2> SUFFICES ASSUME parseAttempts >= ParseMax, Next
               PROVE  ws' = ws \/ ws' = audit.original
    BY <1>1 DEF vars
  <2> USE DEF RepairInv, SafeInv, TypeInv, TypeOK
  <2>1. pc \notin {"architect", "architect_retry", "harness", "start", "generate"}
    BY <1>1, PipelineAssumption DEF PipelineAssumption
  <2>2. CASE Prepare \/ Generate
    BY <2>1, <2>2 DEF Prepare, Start, ArchitectAccepted, ArchitectRetried, ArchitectFailed,
       ContractInconsistent, HarnessUnbuildable, HarnessStaged, HarnessRaised, Generate,
       GenerationUnparsed, GenerationRaised, GenerationWritten
  <2>3. CASE Repair
    <3>1. ~ModelCalled
      BY DEF ModelCalled, ParseSpent
    <3> QED
      BY <1>1, <2>3, <3>1 DEF Repair, ParseBudgetSpent, StageBudgetSpent, ParseSpent,
         RepairCallFailed, RepairUnparsed, RepairSkipped, RepairRejected, RepairTooLarge,
         RepairUnwritten, RepairWritten, Parsed, RollBack
  <2>4. CASE Judge
    BY <1>1, <2>4 DEF Judge, Verify, VerifyRaised, Accept, AbortNonRepairable,
       VerifyBudgetSpent, RequestRepair, RollBack
  <2> QED
    BY <2>2, <2>3, <2>4 DEF Next
<1> QED
  BY <1>1, RepairInvariant, PTL DEF Spec, ParseBudgetFinal

-----------------------------------------------------------------------------
(***************************************************************************)
(* Termination, as far as safety goes: a number that every step makes      *)
(* smaller, but for one.  It counts the attempts that may still be made,   *)
(* and, among steps that make none, how far the pass of the loop is and    *)
(* how many more calls may fail in a row.                                  *)
(***************************************************************************)
Affordable == Limit("compile") + Limit("simulation") + Limit("formal")
           + Limit("timing") + Limit("other")

ChargesLeft == (ParseMax - parseAttempts) + (Affordable - Spent)

\* How many failed calls stand at the end of the history.
Trail(h) ==
    CASE h[3] # "REPAIR_CALL_FAILURE" -> 0
      [] h[3] = "REPAIR_CALL_FAILURE" /\ h[2] # "REPAIR_CALL_FAILURE" -> 1
      [] h[3] = "REPAIR_CALL_FAILURE" /\ h[2] = "REPAIR_CALL_FAILURE"
         /\ h[1] # "REPAIR_CALL_FAILURE" -> 2
      [] OTHER -> 3

Ahead ==
    CASE pc = "start" -> 10 [] pc = "architect" -> 9 [] pc = "architect_retry" -> 8
      [] pc = "harness" -> 7 [] pc = "generate" -> 6 [] pc = "verify" -> 5
      [] pc = "judge" -> 4 [] OTHER -> 3 - Trail(history)

Remaining == IF pc = "done" THEN 0 ELSE 1 + 11 * ChargesLeft + Ahead

\* Only a candidate that the pre-checks of MIND3_EVIDENCE_V2 reject is answered
\* without anything being used up (driver.py charges no budget there).
StepsUseUp ==
    [][\/ Remaining' < Remaining
       \/ config.evidenceV2 /\ \E code \in Code : RepairRejected(code)]_vars

\* A run starts without failed calls, a failed call lengthens the trail or ends
\* it at three, and a verdict cuts it.
LEMMA TrailType == ASSUME NEW h PROVE Trail(h) \in 0..3
BY DEF Trail

LEMMA TrailGrows ==
    ASSUME NEW h \in [1..3 -> HistoryEntry],
           ~ \A i \in 1..3 : Remember(h, "REPAIR_CALL_FAILURE")[i] = "REPAIR_CALL_FAILURE"
    PROVE  Trail(Remember(h, "REPAIR_CALL_FAILURE")) = Trail(h) + 1
<1>1. Remember(h, "REPAIR_CALL_FAILURE")
         = [i \in 1..3 |-> IF i < 3 THEN h[i + 1] ELSE "REPAIR_CALL_FAILURE"]
  BY DEF Remember
<1>2. h[2] # "REPAIR_CALL_FAILURE" \/ h[3] # "REPAIR_CALL_FAILURE"
  BY <1>1
<1> QED
  BY <1>1, <1>2 DEF Trail

LEMMA AheadType == Ahead \in 0..10
BY TrailType DEF Ahead

\* No budget is overdrawn, so what is left of them is a number.
LEMMA AttemptsType ==
    ASSUME BudgetInv PROVE ChargesLeft \in Nat /\ Affordable - Spent \in Nat
<1> USE DEF BudgetInv, TypeInv
<1>1. \A s \in Stage : Limit(s) \in Nat /\ stageAttempts[s] \in Nat /\ stageAttempts[s] <= Limit(s)
  BY LimitType DEF TypeOK
<1>2. {"compile", "simulation", "formal", "timing", "other"} \subseteq Stage
  BY DEF Stage
<1>3. Affordable - Spent \in Nat
  <2> HIDE DEF BudgetInv, TypeInv, Limit
  <2> QED
    BY <1>1, <1>2 DEF Affordable, Spent
<1>4. ParseMax - parseAttempts \in Nat
  BY PipelineAssumption DEF PipelineAssumption, TypeOK
<1> QED
  BY <1>3, <1>4 DEF ChargesLeft

LEMMA RemainingType ==
    ASSUME BudgetInv
    PROVE  Remaining \in Nat /\ (Remaining = 0 <=> pc = "done")
BY AttemptsType, AheadType DEF Remaining

\* A step that spends an attempt, of whatever kind, comes closer to the end
\* wherever it leads.
LEMMA SpendingUsesUp ==
    ASSUME BudgetInv, pc # "done", ChargesLeft' = ChargesLeft - 1
    PROVE  Remaining' < Remaining
<1>1. Ahead' \in 0..10
  BY TrailType DEF Ahead
<1> QED
  BY <1>1, AttemptsType, AheadType DEF Remaining

\* So does one that spends none and goes forward in the pass.
LEMMA AdvancingUsesUp ==
    ASSUME BudgetInv, pc # "done", ChargesLeft' = ChargesLeft,
           pc' = "done" \/ Ahead' < Ahead
    PROVE  Remaining' < Remaining
<1>1. Ahead' \in 0..10
  BY TrailType DEF Ahead
<1> QED
  BY <1>1, AttemptsType, AheadType DEF Remaining

LEMMA AttemptsKept ==
    ASSUME UNCHANGED <<config, parseAttempts, stageAttempts>>
    PROVE  ChargesLeft' = ChargesLeft
BY DEF ChargesLeft, Affordable, Limit, Spent

LEMMA AttemptsCharged ==
    ASSUME BudgetInv, Charge(pendingStage), UNCHANGED <<config, parseAttempts>>
    PROVE  ChargesLeft' = ChargesLeft - 1
<1>1. Spent \in Nat /\ Spent' = Spent + 1
  BY SpentType, SpentCharged DEF BudgetInv, TypeInv, TypeOK
<1>2. Affordable' = Affordable
  BY DEF Affordable, Limit
<1>3. ParseMax - parseAttempts \in Int /\ Affordable - Spent \in Int /\ Affordable \in Int
  <2>1. \A s \in {"compile", "simulation", "formal", "timing", "other"} : Limit(s) \in Nat
    BY LimitType DEF BudgetInv, TypeInv, Stage
  <2>2. Affordable \in Nat
    <3> HIDE DEF Limit
    <3> QED
      BY <2>1 DEF Affordable
  <2> QED
    BY <1>1, <2>2, PipelineAssumption DEF PipelineAssumption, BudgetInv, TypeInv, TypeOK
<1> QED
  BY <1>1, <1>2, <1>3 DEF ChargesLeft

LEMMA AttemptsParsed ==
    ASSUME BudgetInv, parseAttempts' = parseAttempts + 1, UNCHANGED <<config, stageAttempts>>
    PROVE  ChargesLeft' = ChargesLeft - 1
<1>1. Affordable' = Affordable /\ Spent' = Spent
  BY DEF Affordable, Limit, Spent
<1>2. ParseMax \in Int /\ parseAttempts \in Int /\ Affordable - Spent \in Int
  BY AttemptsType, PipelineAssumption DEF PipelineAssumption, BudgetInv, TypeInv, TypeOK
<1> QED
  BY <1>1, <1>2 DEF ChargesLeft

\* Every run uses up what it has: with finite budgets and without the
\* pre-checks of MIND3_EVIDENCE_V2 it can take only so many steps, whatever the
\* model answers and the verifier reports; and with them only rejected
\* candidates can hold it up.
THEOREM RunsUseUp == Spec => [](Remaining \in Nat) /\ StepsUseUp
<1>1. ASSUME BudgetInv, Next
      PROVE  \/ Remaining' < Remaining
             \/ config.evidenceV2 /\ \E code \in Code : RepairRejected(code)
  <2> USE <1>1
  <2>1. CASE Prepare
    <3>1. /\ UNCHANGED <<config, parseAttempts, stageAttempts>>
          /\ \/ pc = "start" /\ pc' \in {"architect", "harness"}
             \/ pc = "architect" /\ pc' \in {"architect_retry", "harness"}
             \/ pc = "architect_retry" /\ pc' \in {"harness", "done"}
             \/ pc = "harness" /\ pc' \in {"generate", "done"}
      BY <2>1 DEF Prepare, Start, ArchitectAccepted, ArchitectRetried, ArchitectFailed,
         ContractInconsistent, HarnessUnbuildable, HarnessStaged, HarnessRaised,
         RollBack, Escape, Finish, budgets
    <3>2. pc' # "done" => Ahead' < Ahead
      BY <3>1 DEF Ahead
    <3> QED
      BY <3>1, <3>2, AttemptsKept, AdvancingUsesUp
  <2>2. CASE GenerationUnparsed
    BY <2>2, AttemptsParsed, SpendingUsesUp DEF GenerationUnparsed
  <2>3. CASE GenerationRaised \/ \E code \in Code : GenerationWritten(code)
    <3>1. /\ UNCHANGED <<config, parseAttempts, stageAttempts>>
          /\ pc = "generate" /\ pc' \in {"repair", "verify"}
      BY <2>3 DEF GenerationRaised, GenerationFailed, GenerationWritten, budgets
    <3>2. Trail(history') \in 0..3
      BY TrailType
    <3>3. Ahead' < Ahead
      BY <3>1, <3>2 DEF Ahead
    <3> QED
      BY <3>1, <3>3, AttemptsKept, AdvancingUsesUp
  <2>4. CASE ParseBudgetSpent \/ StageBudgetSpent
    <3>1. /\ UNCHANGED <<config, parseAttempts, stageAttempts>>
          /\ pc # "done" /\ pc' = "done"
      BY <2>4 DEF ParseBudgetSpent, StageBudgetSpent, RollBack, Finish, budgets
    <3> QED
      BY <3>1, AttemptsKept, AdvancingUsesUp
  <2>5. CASE RepairCallFailed
    <3>1. /\ UNCHANGED <<config, parseAttempts, stageAttempts>> /\ pc = "repair"
          /\ history' = Remember(history, "REPAIR_CALL_FAILURE")
          /\ \/ pc' = "done"
             \/ /\ pc' = pc
                /\ ~ \A i \in 1..3 : Remember(history, "REPAIR_CALL_FAILURE")[i]
                                        = "REPAIR_CALL_FAILURE"
      BY <2>5 DEF RepairCallFailed, ModelCalled, RollBack, Finish, budgets
    <3>2. CASE pc' = "done"
      BY <3>1, <3>2, AttemptsKept, AdvancingUsesUp
    <3>3. CASE pc' # "done"
      <4>1. history \in [1..3 -> HistoryEntry]
        BY DEF BudgetInv, TypeInv, TypeOK
      <4>2. Trail(history') = Trail(history) + 1
        BY <3>1, <3>3, <4>1, TrailGrows
      <4>3. Trail(history) \in 0..3 /\ pc' = "repair"
        BY <3>1, <3>3, TrailType
      <4>4. Ahead' < Ahead
        BY <3>1, <4>2, <4>3 DEF Ahead
      <4> QED
        BY <3>1, <4>4, AttemptsKept, AdvancingUsesUp
    <3> QED
      BY <3>2, <3>3
  <2>6. CASE RepairUnparsed
    <3>1. parseAttempts' = parseAttempts + 1 /\ UNCHANGED <<config, stageAttempts>> /\ pc # "done"
      BY <2>6 DEF RepairUnparsed, ModelCalled
    <3> QED
      BY <3>1, AttemptsParsed, SpendingUsesUp
  <2>7. ASSUME NEW code \in Code,
               \/ RepairSkipped(code)  \/ RepairTooLarge(code)
               \/ RepairUnwritten(code) \/ RepairWritten(code)
        PROVE  Remaining' < Remaining
    <3>1. /\ Charge(pendingStage) /\ UNCHANGED <<config, parseAttempts>> /\ pc # "done"
      BY <2>7 DEF RepairSkipped, RepairTooLarge, RepairUnwritten, RepairWritten,
         Parsed, ModelCalled
    <3> QED
      BY <3>1, AttemptsCharged, SpendingUsesUp
  <2>8. ASSUME NEW code \in Code, RepairRejected(code) PROVE config.evidenceV2
    BY <2>8 DEF RepairRejected, PrecheckRejects
  <2>9. CASE Judge
    <3>1. CASE Verify
      <4>1. /\ UNCHANGED <<config, parseAttempts, stageAttempts>>
            /\ pc = "verify" /\ pc' = "judge"
        BY <3>1 DEF Verify, budgets
      <4>2. Ahead' < Ahead
        BY <4>1 DEF Ahead
      <4> QED
        BY <4>1, <4>2, AttemptsKept, AdvancingUsesUp
    <3>2. CASE VerifyRaised \/ Accept \/ AbortNonRepairable \/ VerifyBudgetSpent
      <4>1. /\ UNCHANGED <<config, parseAttempts, stageAttempts>>
            /\ pc # "done" /\ pc' = "done"
        BY <3>2 DEF VerifyRaised, Accept, AbortNonRepairable, VerifyBudgetSpent, RollBack,
           Escape, Finish, budgets
      <4> QED
        BY <4>1, AttemptsKept, AdvancingUsesUp
    <3>3. CASE RequestRepair
      <4>1. /\ UNCHANGED <<config, parseAttempts, stageAttempts>>
            /\ pc = "judge" /\ pc' = "repair"
        BY <3>3 DEF RequestRepair, budgets
      <4>2. Trail(history') \in 0..3
        BY TrailType
      <4>3. Ahead' < Ahead
        BY <4>1, <4>2 DEF Ahead
      <4> QED
        BY <4>1, <4>3, AttemptsKept, AdvancingUsesUp
    <3> QED
      BY <2>9, <3>1, <3>2, <3>3 DEF Judge
  <2> QED
    BY <2>1, <2>2, <2>3, <2>4, <2>5, <2>6, <2>7, <2>8, <2>9 DEF Next, Generate, Repair
<1> QED
  BY <1>1, BudgetInitial, BudgetStep, RemainingType, PTL DEF Spec, StepsUseUp

\* In numbers, for any settings: a run verifies at most once more than three
\* core limits and two max_repairs, the five stages' budgets.
THEOREM VerificationsBounded ==
    Spec => [](audit.edaRuns <= 1 + 3 * CoreLimit + 2 * config.maxRepairs)
<1>1. ASSUME BudgetInv
      PROVE  audit.edaRuns <= 1 + 3 * CoreLimit + 2 * config.maxRepairs
  <2>1. /\ CoreLimit \in Nat /\ config.maxRepairs \in Nat
        /\ audit.edaRuns \in Nat /\ audit.edaRuns <= 1 + Spent
    BY <1>1, PipelineAssumption DEF PipelineAssumption, BudgetInv, TypeInv, TypeOK, Config, Audit
  <2>2. Affordable = 3 * CoreLimit + 2 * config.maxRepairs
    BY <2>1 DEF Affordable, Limit
  <2>3. Spent \in Nat /\ Affordable - Spent \in Nat
    BY <1>1, AttemptsType, SpentType DEF BudgetInv, TypeInv
  <2> QED
    BY <2>1, <2>2, <2>3
<1> QED
  BY <1>1, BudgetInitial, BudgetStep, PTL DEF Spec
=============================================================================
