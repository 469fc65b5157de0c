-------------------------- MODULE TranscriptTuple --------------------------
(***************************************************************************)
(* The benchmark's record of a pipeline run: what                          *)
(* BenchmarkRunner.extract_transcript_tuple (benchmarks/runner.py) makes   *)
(* of the trace and of the raw answers the driver has kept, and how the    *)
(* summary counts the run.                                                 *)
(*                                                                         *)
(* The pipeline is SiliconPipeline, started as run_live_task starts it,    *)
(* with the evaluator's contract.  Of the trace only the records the       *)
(* extraction branches on are kept.  A raw answer is its number among the  *)
(* answers of the run's repair calls.  Each record also carries what it is *)
(* really about, for the properties to compare with.                       *)
(***************************************************************************)
EXTENDS SiliconPipeline, SequencesExt

CONSTANT MaxTurns       \* bound: repair turns of a run

ASSUME TranscriptAssumption ==
    /\ MaxTurns \in Nat
    /\ \A c \in Configs : c.override

VARIABLES
    turn,           \* self.turn
    answers,        \* the length of _raw_repair_responses
    trace,          \* the EXECUTE records of RTL and the VERIFY records, in order
    unwritten       \* history variable: repairs whose write has failed

observed == <<turn, answers, trace, unwritten>>

transcriptVars == <<vars, observed>>

\* Categories of the VERIFY records the loop makes itself.
Precheck == {"RESPONSE_PARSE_FAILURE", "REPAIR_UNCHANGED_CANDIDATE",
             "REPAIR_PRECHECK", "REPAIR_PATCH_TOO_LARGE"}

\* An EXECUTE record of the generation, at turn 0, or of a repair.
Executed(code) ==
    [phase |-> "EXECUTE", turn |-> turn', rtl |-> code, category |-> "NONE",
     answer |-> answers', unwritten |-> unwritten]

\* A VERIFY record, of the verifier or of the loop; category is "PASS" when
\* it says passed.  rtl is the candidate the verdict is about.
Judged(category, code) ==
    [phase |-> "VERIFY", turn |-> turn', rtl |-> code, category |-> category,
     answer |-> answers', unwritten |-> unwritten]

TranscriptInit ==
    /\ Init
    /\ turn = 0
    /\ answers = 0
    /\ trace = <<>>
    /\ unwritten = 0

-----------------------------------------------------------------------------
(***************************************************************************)
(* The pipeline's steps with the records they leave.                       *)
(***************************************************************************)

\* Steps whose records the extraction does not look at; a harness that cannot be
\* built leaves one VERIFY record of turn 0, read as the initial failure of a
\* run that ends there with no candidate and no repair.
Unrecorded ==
    /\ \/ Prepare
       \/ ParseBudgetSpent
       \/ StageBudgetSpent
       \/ VerifyRaised
       \/ Accept
       \/ AbortNonRepairable
       \/ VerifyBudgetSpent
       \/ RequestRepair
    /\ UNCHANGED observed

GenerationRecorded ==
    /\ UNCHANGED <<turn, answers, unwritten>>
    /\ \E code \in Code :
          /\ GenerationWritten(code)
          /\ trace' = Append(trace, Executed(code))

\* A parse failure is recorded, and once more when it ends the generation.
GenerationRejected ==
    LET failure == Judged("RESPONSE_PARSE_FAILURE", NoCode) IN
    /\ UNCHANGED <<turn, answers, unwritten>>
    /\ \/ /\ GenerationUnparsed
          /\ trace' = trace \o (IF pc' = "repair" THEN <<failure, failure>>
                                                  ELSE <<failure>>)
       \/ /\ GenerationRaised
          /\ trace' = Append(trace, failure)

RepairTurn ==
    /\ pc = "repair"
    /\ turn < MaxTurns
    /\ turn' = turn + 1

\* The invocation raises: no answer, and no record but its MODEL_CALL.
CallFailed ==
    /\ RepairTurn
    /\ RepairCallFailed
    /\ UNCHANGED <<answers, trace, unwritten>>

\* Only answers that parse are kept.
AnsweredIfParsed(category) ==
    /\ RepairTurn
    /\ answers' = IF category = "RESPONSE_PARSE_FAILURE" THEN answers ELSE answers + 1

\* The raw answer is kept before it is parsed.
Answered(category) ==
    /\ RepairTurn
    /\ answers' = answers + 1

\* Turns in which the loop itself rejects the answer.
AnswerRejected(category, code) ==
    /\ Answered(category)
    /\ trace' = Append(trace, Judged(category, code))
    /\ UNCHANGED unwritten

AnswerTurnedDown ==
    \/ AnswerRejected("RESPONSE_PARSE_FAILURE", NoCode) /\ RepairUnparsed
    \/ \E code \in Code :
          \/ AnswerRejected("REPAIR_UNCHANGED_CANDIDATE", code) /\ RepairSkipped(code)
          \/ AnswerRejected("REPAIR_PRECHECK", code) /\ RepairRejected(code)
          \/ AnswerRejected("REPAIR_PATCH_TOO_LARGE", code) /\ RepairTooLarge(code)

\* The answer is kept, but a failed write leaves no record.
AnswerLost ==
    /\ Answered("NONE")
    /\ \E code \in Code : RepairUnwritten(code)
    /\ unwritten' = unwritten + 1
    /\ UNCHANGED trace

AnswerWritten ==
    \E code \in Code :
       /\ Answered("NONE")
       /\ trace' = Append(trace, Executed(code))
       /\ RepairWritten(code)
       /\ UNCHANGED unwritten

VerdictRecorded ==
    /\ UNCHANGED <<turn, answers, unwritten>>
    /\ Verify
    /\ trace' = Append(trace, Judged(verdict', ws.rtl))

TranscriptNext ==
    \/ Unrecorded
    \/ GenerationRecorded
    \/ GenerationRejected
    \/ CallFailed
    \/ AnswerTurnedDown
    \/ AnswerLost
    \/ AnswerWritten
    \/ VerdictRecorded

TranscriptSpec == TranscriptInit /\ [][TranscriptNext]_transcriptVars

-----------------------------------------------------------------------------
(***************************************************************************)
(* The extraction, and the counts of evaluate_transcripts.                 *)
(***************************************************************************)

\* An extraction that keeps current_repaired_rtl for the next record.
RtlKept(rtl) == rtl

\* current_repaired_rtl once a VERIFY record has used it.
RtlAfterUse(rtl) == NoCode

\* A RepairTurnRecord, with the next of the raw answers kept, 0 if there is none.
Attempt(extract, rec, kept) ==
    LET next == Len(extract.attempts) + 1 IN
    [turn |-> rec.turn, category |-> rec.category, rtl |-> extract.rtl,
     raw |-> IF next <= kept THEN next ELSE 0, record |-> rec]

\* The first repair turn taken for the initial generation.
IsInitialLate(rec) == rec.turn <= 1

IsInitial(rec) == rec.turn = 0

Take(extract, rec, kept) ==
    CASE rec.phase = "EXECUTE" ->       \* of the generation, or of a repair
           IF rec.turn = 0 THEN extract ELSE [extract EXCEPT !.rtl = rec.rtl]
      [] rec.phase = "VERIFY" /\ IsInitial(rec) ->
           [extract EXCEPT !.failure = IF rec.category = "PASS" THEN @
                                                                ELSE rec.category]
      [] rec.phase = "VERIFY" /\ ~IsInitial(rec) ->
           [extract EXCEPT !.attempts = Append(@, Attempt(extract, rec, kept)),
                           !.rtl = RtlAfterUse(@)]

Unread == [rtl |-> NoCode, failure |-> "none", attempts |-> <<>>]

\* What the pass over the records has gathered at their end.
Extraction(records, kept) ==
    LET after[i \in 0..Len(records)] ==
            IF i = 0 THEN Unread ELSE Take(after[i - 1], records[i], kept)
    IN after[Len(records)]

Extract == Extraction(trace, answers)

Attempts == Extract.attempts

\* A run that raised has a transcript without attempts.
Returned == pc = "done" /\ result.status # "escaped"

Passed == result.status = "committed"

InitialPassed == Passed /\ Extract.failure = "none" /\ turn + 1 <= 1

RepairSucceeded == Passed /\ ~InitialPassed

-----------------------------------------------------------------------------
(***************************************************************************)
(* Properties.                                                             *)
(***************************************************************************)

\* The RTL of a repair record is the RTL its verdict is about, through any
\* mixture of failed calls, rejected answers, lost writes and verifications:
\* a verdict of the verifier always has its RTL, another may have none.
RtlMatchesVerdict ==
    Returned => \A a \in Range(Attempts) :
        /\ a.rtl # NoCode => a.rtl = a.record.rtl
        /\ a.category \notin Precheck => a.rtl # NoCode

\* Every repair record has a raw answer, which is its own as long as no write
\* has failed, and is one older for each write that has.
AnswersShiftedByLostWrites ==
    Returned => \A a \in Range(Attempts) :
        a.raw >= 1 /\ a.raw + a.record.unwritten = a.record.answer

\* A run that passed after repairs has one passed record, the last, whose RTL
\* is the file left in the workspace, which the transcript hashes; a run that
\* was rolled back has none.
PassIsLastAttempt ==
    Returned => LET all == Attempts IN
        /\ \A i \in DOMAIN all : all[i].category = "PASS" => Passed /\ i = Len(all)
        /\ Passed /\ turn > 0 =>
              /\ all # <<>>
              /\ Last(all).category = "PASS"
              /\ Last(all).rtl = ws.rtl

(***************************************************************************)
(* The property the code does not have.                                    *)
(***************************************************************************)

\* A repair success is counted only of a run with a repair turn.
RepairSuccessHadRepair == RepairSucceeded => turn >= 1
=============================================================================
