-------------------------- MODULE TranscriptProofs --------------------------
(***************************************************************************)
(* TranscriptTuple for runs of any length over any candidates: whatever    *)
(* the model and the tools do, the benchmark's record says what happened.  *)
(***************************************************************************)
EXTENDS DatasetMiner, SiliconPipelineProofs, FiniteSetTheorems, WellFoundedInduction

(***************************************************************************)
(* The pass over the records: one more record is one more step.            *)
(***************************************************************************)

\* A set of numbers has a least one.
LEMMA LeastNumber ==
    ASSUME NEW T \in SUBSET Nat, T # {}
    PROVE  \E x \in T : \A y \in T : x <= y
<1>1. PICK x \in T : \A y \in T : ~(<<y, x>> \in OpToRel(<, Nat))
  BY WFMin, NatLessThanWellFounded
<1>2. \A y \in T : ~(y < x)
  BY <1>1 DEF OpToRel
<1> QED
  BY <1>2

\* f[i] is what has been gathered after i records.
Gathers(f, n, records, kept) ==
    f = [i \in 0..n |-> IF i = 0 THEN Unread ELSE Take(f[i - 1], records[i], kept)]

\* The gathering is defined, up to any record.
LEMMA GatheringExists ==
    ASSUME NEW n \in Nat, NEW records, NEW kept
    PROVE  \E f : Gathers(f, n, records, kept)
<1> DEFINE R(f, k) == Gathers(f, k, records, kept)
           T == {k \in Nat : ~\E f : R(f, k)}
<1>1. SUFFICES ASSUME T # {} PROVE FALSE
  OBVIOUS
<1>2. PICK x \in T : \A y \in T : x <= y
  BY <1>1, LeastNumber
<1>3. CASE x = 0
  <2> DEFINE g == [i \in 0..0 |-> Unread]
  <2>1. R(g, 0)
    BY DEF Gathers
  <2> QED
    BY <1>2, <1>3, <2>1
<1>4. CASE x # 0
  <2>1. x \in Nat /\ x - 1 \in Nat /\ x - 1 \notin T
    BY <1>2, <1>4
  <2>2. PICK f : R(f, x - 1)
    BY <2>1
  <2> DEFINE g == [i \in 0..x |-> IF i = x THEN Take(f[x - 1], records[x], kept) ELSE f[i]]
  <2>3. \A i \in 0..(x - 1) :
           f[i] = IF i = 0 THEN Unread ELSE Take(f[i - 1], records[i], kept)
    BY <2>2 DEF Gathers
  <2>4. ASSUME NEW i \in 0..x
        PROVE  g[i] = IF i = 0 THEN Unread ELSE Take(g[i - 1], records[i], kept)
    <3>1. CASE i = 0
      BY <1>4, <2>1, <2>3, <3>1
    <3>2. CASE i # 0 /\ i # x
      <4>1. i \in 0..(x - 1) /\ i - 1 \in 0..x /\ i - 1 # x
        BY <2>1, <3>2
      <4>2. g[i] = f[i] /\ g[i - 1] = f[i - 1]
        BY <3>2, <4>1
      <4> QED
        BY <2>3, <3>2, <4>1, <4>2
    <3>3. CASE i # 0 /\ i = x
      <4>1. x \in 0..x /\ x - 1 \in 0..x /\ x - 1 # x
        BY <2>1
      <4>2. g[x] = Take(f[x - 1], records[x], kept) /\ g[x - 1] = f[x - 1]
        BY <4>1
      <4> QED
        BY <3>3, <4>2
    <3> QED
      BY <3>1, <3>2, <3>3
  <2>5. g = [i \in 0..x |-> g[i]]
    OBVIOUS
  <2> HIDE DEF g
  <2>6. R(g, x)
    BY <2>4, <2>5 DEF Gathers
  <2> QED
    BY <1>2, <2>6
<1> QED
  BY <1>3, <1>4

\* It depends on nothing but the records up to there.
LEMMA GatheringUnique ==
    ASSUME NEW n \in Nat, NEW m \in Nat, n <= m, NEW f, NEW g, NEW kept,
           NEW first, NEW second, \A i \in 1..n : first[i] = second[i],
           Gathers(f, n, first, kept), Gathers(g, m, second, kept)
    PROVE  f[n] = g[n]
<1> DEFINE T == {i \in 0..n : f[i] # g[i]}
<1>1. SUFFICES ASSUME T # {} PROVE FALSE
  OBVIOUS
<1>2. PICK x \in T : \A y \in T : x <= y
  <2>1. T \in SUBSET Nat
    OBVIOUS
  <2> QED
    BY <1>1, <2>1, LeastNumber
<1>3. \A i \in 0..n : f[i] = IF i = 0 THEN Unread ELSE Take(f[i - 1], first[i], kept)
  BY DEF Gathers
<1>4. \A i \in 0..m : g[i] = IF i = 0 THEN Unread ELSE Take(g[i - 1], second[i], kept)
  BY DEF Gathers
<1>5. x \in 0..n /\ x \in 0..m
  OBVIOUS
<1>6. CASE x = 0
  BY <1>2, <1>3, <1>4, <1>5, <1>6
<1>7. CASE x # 0
  <2>1. x - 1 \in 0..n /\ x \in 1..n /\ x - 1 \notin T
    BY <1>2, <1>5, <1>7
  <2>2. f[x - 1] = g[x - 1] /\ first[x] = second[x]
    BY <2>1
  <2>3. f[x] = g[x]
    BY <1>3, <1>4, <1>5, <1>7, <2>2
  <2> QED
    BY <1>2, <2>3
<1> QED
  BY <1>6, <1>7

\* Extraction is what such a gathering ends with.
LEMMA ExtractionGathers ==
    ASSUME NEW S, NEW records \in Seq(S), NEW kept
    PROVE  \E f : /\ Extraction(records, kept) = f[Len(records)]
                  /\ Gathers(f, Len(records), records, kept)
<1> DEFINE f == CHOOSE g : Gathers(g, Len(records), records, kept)
<1>1. Gathers(f, Len(records), records, kept)
  <2>1. Len(records) \in Nat
    OBVIOUS
  <2> QED
    BY <2>1, GatheringExists
<1>2. Extraction(records, kept) = f[Len(records)]
  BY DEF Extraction, Gathers
<1> QED
  BY <1>1, <1>2

\* extract_transcript_tuple of a run with one more record.
LEMMA ExtractionOfAppend ==
    ASSUME NEW S, NEW records \in Seq(S), NEW rec \in S, NEW kept
    PROVE  Extraction(Append(records, rec), kept) =
               Take(Extraction(records, kept), rec, kept)
<1> DEFINE longer == Append(records, rec)
           n == Len(records)
<1>1. /\ n \in Nat /\ longer \in Seq(S) /\ Len(longer) = n + 1
      /\ longer[n + 1] = rec
      /\ \A i \in 1..n : records[i] = longer[i]
  OBVIOUS
<1> HIDE DEF longer, n
<1>2. PICK f : Extraction(records, kept) = f[n] /\ Gathers(f, n, records, kept)
  BY ExtractionGathers DEF n
<1>3. PICK g : Extraction(longer, kept) = g[n + 1] /\ Gathers(g, n + 1, longer, kept)
  BY <1>1, ExtractionGathers
<1>4. f[n] = g[n]
  BY <1>1, <1>2, <1>3, GatheringUnique
<1>5. \A i \in 0..(n + 1) : g[i] = IF i = 0 THEN Unread ELSE Take(g[i - 1], longer[i], kept)
  BY <1>3 DEF Gathers
<1>6. n + 1 \in 0..(n + 1) /\ n + 1 # 0 /\ (n + 1) - 1 = n
  BY <1>1
<1>7. g[n + 1] = Take(g[n], longer[n + 1], kept)
  BY <1>5, <1>6
<1> QED
  BY <1>1, <1>2, <1>3, <1>4, <1>7 DEF longer

\* Of a run without records.
LEMMA ExtractionOfNothing ==
    ASSUME NEW kept
    PROVE  Extraction(<<>>, kept) = Unread
<1>1. <<>> \in Seq({}) /\ Len(<<>>) = 0
  OBVIOUS
<1>2. PICK f : Extraction(<<>>, kept) = f[0] /\ Gathers(f, 0, <<>>, kept)
  BY <1>1, ExtractionGathers
<1> QED
  BY <1>2 DEF Gathers

\* What is gathered is a record with the three fields.
LEMMA ExtractionFields ==
    ASSUME NEW S, NEW records \in Seq(S), NEW kept,
           \A i \in 1..Len(records) : records[i].phase \in {"EXECUTE", "VERIFY"}
    PROVE  LET E == Extraction(records, kept)
           IN  E = [rtl |-> E.rtl, failure |-> E.failure, attempts |-> E.attempts]
<1> DEFINE Whole(E) == E = [rtl |-> E.rtl, failure |-> E.failure, attempts |-> E.attempts]
           n == Len(records)
<1>1. PICK f : Extraction(records, kept) = f[n] /\ Gathers(f, n, records, kept)
  BY ExtractionGathers
<1>2. n \in Nat
  OBVIOUS
<1> HIDE DEF n
<1>3. \A i \in 0..n : f[i] = IF i = 0 THEN Unread ELSE Take(f[i - 1], records[i], kept)
  BY <1>1 DEF Gathers
<1> DEFINE T == {i \in 0..n : ~Whole(f[i])}
<1>4. SUFFICES ASSUME T # {} PROVE FALSE
  BY <1>1, <1>2
<1>5. PICK x \in T : \A y \in T : x <= y
  <2>1. T \in SUBSET Nat
    OBVIOUS
  <2> QED
    BY <1>4, <2>1, LeastNumber
<1>6. CASE x = 0
  BY <1>2, <1>3, <1>5, <1>6 DEF Unread
<1>7. CASE x # 0
  <2>1. x - 1 \in 0..n /\ x \in 1..n /\ x \in 0..n /\ x - 1 \notin T
    BY <1>2, <1>5, <1>7
  <2>2. PICK E : E = f[x - 1]
    OBVIOUS
  <2>3. E = [rtl |-> E.rtl, failure |-> E.failure, attempts |-> E.attempts]
    BY <2>1, <2>2
  <2>4. f[x] = Take(E, records[x], kept)
    BY <1>3, <1>7, <2>1, <2>2
  <2>5. records[x].phase \in {"EXECUTE", "VERIFY"}
    BY <2>1 DEF n
  <2>6. Whole(Take(E, records[x], kept))
    <3>1. CASE records[x].phase = "EXECUTE"
      BY <2>3, <3>1 DEF Take
    <3>2. CASE records[x].phase = "VERIFY" /\ IsInitial(records[x])
      BY <2>3, <3>2 DEF Take
    <3>3. CASE records[x].phase = "VERIFY" /\ ~IsInitial(records[x])
      BY <2>3, <3>3 DEF Take
    <3> QED
      BY <2>5, <3>1, <3>2, <3>3
  <2> QED
    BY <1>5, <2>4, <2>6
<1> QED
  BY <1>6, <1>7

-----------------------------------------------------------------------------
(***************************************************************************)
(* The invariant.  Between two turns every raw answer has its record, but  *)
(* for those whose write has failed, and the extraction holds no RTL; from *)
(* a repair's write to its verdict one answer is still due its record, and *)
(* the RTL the extraction holds is the file in the workspace.              *)
(***************************************************************************)
Categories == {"NONE", "PASS"} \cup Precheck \cup Category

Records == [phase : {"EXECUTE", "VERIFY"}, turn : Nat, rtl : Code \cup {NoCode},
            category : Categories, answer : Nat, unwritten : Nat]

AttemptRecords == [turn : Nat, category : Categories, rtl : Code \cup {NoCode},
                   raw : Nat, record : Records]

\* Take has a case for each record.
LEMMA PhasesOf ==
    ASSUME NEW records \in Seq(Records)
    PROVE  \A i \in 1..Len(records) : records[i].phase \in {"EXECUTE", "VERIFY"}
<1>1. \A rec \in Records : rec.phase \in {"EXECUTE", "VERIFY"}
  BY DEF Records
<1>2. \A i \in 1..Len(records) : records[i] \in Records
  OBVIOUS
<1> QED
  BY <1>1, <1>2

\* A repair's RTL is in the workspace and the verifier has not judged it.
Unjudged == pc = "verify" /\ turn > 0

Due == IF Unjudged THEN 1 ELSE 0

Passing(attempt) == attempt.category = "PASS" /\ attempt.rtl = ws.rtl

\* The k-th attempt, as long as kept raw answers are there to take from.
Sound(all, k, kept) ==
    /\ all[k].raw = IF k <= kept THEN k ELSE 0
    /\ all[k].record.answer = k + all[k].record.unwritten
    /\ all[k].rtl # NoCode => all[k].rtl = all[k].record.rtl
    /\ all[k].category \notin Precheck => all[k].rtl # NoCode
    /\ all[k].category = "PASS" => k = Len(all) /\ verdict = "PASS"

Covers(all, rtl, kept) ==
    /\ all \in Seq(AttemptRecords)
    /\ rtl \in Code \cup {NoCode}
    /\ pc # "done" => rtl = IF Unjudged THEN ws.rtl ELSE NoCode
    /\ pc # "done" => answers = Len(all) + unwritten + Due
    /\ Len(all) + unwritten <= answers
    /\ turn = 0 => all = <<>>
    /\ verdict = "PASS" /\ turn > 0 => all # <<>> /\ Passing(all[Len(all)])
    /\ \A k \in 1..Len(all) : Sound(all, k, kept)

Faithful(kept) ==
    Covers(Extraction(trace, kept).attempts, Extraction(trace, kept).rtl, kept)

Observed ==
    /\ turn \in Nat /\ answers \in Nat /\ unwritten \in Nat
    /\ trace \in Seq(Records)
    /\ pc \in Early => turn = 0
    /\ pc = "done" => (result.status = "committed" <=> verdict = "PASS")
    /\ \A kept \in Nat : Faithful(kept)

TranscriptInv == SafeInv /\ Observed

LEMMA TranscriptInitial == TranscriptInit => TranscriptInv
<1> SUFFICES ASSUME TranscriptInit PROVE TranscriptInv
  OBVIOUS
<1>1. SafeInv
  BY SafeInitial DEF TranscriptInit
<1>2. trace = <<>> /\ turn = 0 /\ answers = 0 /\ unwritten = 0 /\ pc = "start" /\ verdict = "NONE"
  BY DEF TranscriptInit, Init
<1>3. ASSUME NEW kept \in Nat PROVE Faithful(kept)
  <2>1. Extraction(trace, kept) = Unread
    BY <1>2, ExtractionOfNothing
  <2>2. Extraction(trace, kept).attempts = <<>> /\ Extraction(trace, kept).rtl = NoCode
    BY <2>1 DEF Unread
  <2>3. ~Unjudged /\ Due = 0
    BY <1>2 DEF Unjudged, Due
  <2>4. <<>> \in Seq(AttemptRecords) /\ Len(<<>>) = 0
    OBVIOUS
  <2>5. Covers(<<>>, NoCode, kept)
    BY <1>2, <2>3, <2>4 DEF Covers
  <2> QED
    BY <2>2, <2>5 DEF Faithful
<1> QED
  BY <1>1, <1>2, <1>3 DEF TranscriptInv, Observed, Early

(***************************************************************************)
(* Steps of the pipeline under the record.                                 *)
(***************************************************************************)

\* Every step of the recorded run is a step of the pipeline.
LEMMA TranscriptRefines == [TranscriptNext]_transcriptVars => [Next]_vars
<1> SUFFICES ASSUME [TranscriptNext]_transcriptVars PROVE [Next]_vars
  OBVIOUS
<1> USE DEF Next, Prepare, Generate, Repair, Judge
<1>1. CASE Unrecorded
  BY <1>1 DEF Unrecorded
<1>2. CASE GenerationRecorded
  BY <1>2 DEF GenerationRecorded
<1>3. CASE GenerationRejected
  BY <1>3 DEF GenerationRejected
<1>4. CASE CallFailed
  BY <1>4 DEF CallFailed
<1>5. CASE AnswerTurnedDown
  BY <1>5 DEF AnswerTurnedDown
<1>6. CASE AnswerLost
  BY <1>6 DEF AnswerLost
<1>7. CASE AnswerWritten
  BY <1>7 DEF AnswerWritten
<1>8. CASE VerdictRecorded
  BY <1>8 DEF VerdictRecorded
<1>9. CASE UNCHANGED transcriptVars
  BY <1>9 DEF transcriptVars
<1> QED
  BY <1>1, <1>2, <1>3, <1>4, <1>5, <1>6, <1>7, <1>8, <1>9 DEF TranscriptNext

\* Unrecorded steps make no verdict due; only _purge_snapshot's way out ends
\* a run that passed, and nothing else ends a run as passed.
LEMMA UnrecordedFacts ==
    ASSUME SafeInv, Unrecorded
    PROVE  /\ pc # "done" /\ pc' # "verify"
           /\ pc = "verify" => pc' = "done"
           /\ \/ pc' = "done"
              \/ pc \in Early /\ pc' \in Early
              \/ pc = "judge" /\ pc' = "repair"
           /\ UNCHANGED verdict
           /\ verdict = "PASS" => UNCHANGED ws /\ pc' = "done"
           /\ pc' = "done" => (result'.status = "committed" <=> verdict = "PASS")
<1> USE DEF SafeInv, TypeInv, TypeOK, Early
<1>1. CASE Prepare
  <2>1. pc \in {"start", "architect", "architect_retry", "harness"} /\ UNCHANGED verdict
    BY <1>1 DEF Prepare, Start, ArchitectAccepted, ArchitectRetried, ArchitectFailed,
                ContractInconsistent, HarnessUnbuildable, HarnessStaged, HarnessRaised
  <2>2. pc' \in {"architect", "architect_retry", "harness", "generate", "done"}
    BY <1>1 DEF Prepare, Start, ArchitectAccepted, ArchitectRetried, ArchitectFailed,
                ContractInconsistent, HarnessUnbuildable, HarnessStaged, HarnessRaised,
                RollBack, Escape, Finish
  <2>3. pc' = "done" => result'.status # "committed"
    <3>1. CASE Start \/ ArchitectAccepted \/ ArchitectRetried \/ HarnessStaged
      BY <3>1 DEF Start, ArchitectAccepted, ArchitectRetried, HarnessStaged
    <3>2. CASE ArchitectFailed
      BY <3>2 DEF ArchitectFailed, RollBack, Finish
    <3>3. CASE ContractInconsistent
      BY <3>3 DEF ContractInconsistent, RollBack, Finish
    <3>4. CASE HarnessUnbuildable
      BY <3>4 DEF HarnessUnbuildable, RollBack, Finish
    <3>5. CASE HarnessRaised
      BY <3>5 DEF HarnessRaised, Escape, Finish
    <3> QED
      BY <1>1, <3>1, <3>2, <3>3, <3>4, <3>5 DEF Prepare
  <2> QED
    BY <2>1, <2>2, <2>3
<1>2. CASE ParseBudgetSpent \/ StageBudgetSpent
  BY <1>2 DEF ParseBudgetSpent, StageBudgetSpent, RollBack, Finish
<1>3. CASE VerifyRaised
  BY <1>3 DEF VerifyRaised, Escape, Finish
<1>4. CASE Accept
  BY <1>4 DEF Accept, Finish
<1>5. CASE AbortNonRepairable
  BY <1>5 DEF AbortNonRepairable, NonRepairable, RollBack, Finish
<1>6. CASE VerifyBudgetSpent
  BY <1>6 DEF VerifyBudgetSpent, Repairable, Category, RollBack, Finish
<1>7. CASE RequestRepair
  BY <1>7 DEF RequestRepair, Repairable, Category
<1> QED
  BY <1>1, <1>2, <1>3, <1>4, <1>5, <1>6, <1>7 DEF Unrecorded

\* A repair turn that does not reach the verifier goes round, or gives up.
LEMMA TurnFacts ==
    ASSUME SafeInv,
           \/ RepairCallFailed
           \/ RepairUnparsed
           \/ \E code \in Code : \/ RepairSkipped(code)
                                 \/ RepairRejected(code)
                                 \/ RepairTooLarge(code)
                                 \/ RepairUnwritten(code)
    PROVE  /\ pc' \in {"repair", "done"}
           /\ verdict # "PASS" /\ UNCHANGED verdict
           /\ pc' = "done" => result'.status # "committed"
<1>1. pc = "repair" /\ UNCHANGED verdict
  BY DEF RepairCallFailed, RepairUnparsed, RepairSkipped, RepairRejected,
         RepairTooLarge, RepairUnwritten, Parsed, ModelCalled
<1>2. verdict # "PASS"
  BY <1>1 DEF SafeInv
<1>3. pc' \in {"repair", "done"} /\ (pc' = "done" => result'.status # "committed")
  <2>1. CASE RepairCallFailed
    BY <1>1, <2>1 DEF RepairCallFailed, RollBack, Finish
  <2>2. CASE RepairUnparsed
    BY <1>1, <2>2 DEF RepairUnparsed, RollBack, Finish
  <2>3. ASSUME NEW code \in Code, RepairSkipped(code)
        PROVE  pc' \in {"repair", "done"} /\ (pc' = "done" => result'.status # "committed")
    BY <1>1, <2>3 DEF RepairSkipped, RollBack, Finish
  <2>4. ASSUME NEW code \in Code,
               RepairRejected(code) \/ RepairTooLarge(code) \/ RepairUnwritten(code)
        PROVE  pc' \in {"repair", "done"} /\ (pc' = "done" => result'.status # "committed")
    BY <1>1, <2>4 DEF RepairRejected, RepairTooLarge, RepairUnwritten
  <2> QED
    BY <2>1, <2>2, <2>3, <2>4
<1> QED
  BY <1>1, <1>2, <1>3

(***************************************************************************)
(* What a step of the run does to what the extraction makes of it.         *)
(***************************************************************************)

\* A step without a record of a repair's verdict.
LEMMA NoAttempt ==
    ASSUME Observed, NEW kept \in Nat, pc # "done",
           Extraction(trace', kept).attempts = Extraction(trace, kept).attempts,
           Extraction(trace', kept).rtl \in Code \cup {NoCode},
           pc' # "done" =>
               /\ Extraction(trace', kept).rtl = IF Unjudged' THEN ws'.rtl ELSE NoCode
               /\ answers' = answers - unwritten - Due + unwritten' + Due',
           answers' \in Nat, unwritten' \in Nat,
           answers - unwritten <= answers' - unwritten',
           turn' = 0 => turn = 0,
           UNCHANGED verdict,
           verdict = "PASS" => UNCHANGED <<turn, ws>>
    PROVE  Faithful(kept)'
<1> DEFINE all == Extraction(trace, kept).attempts
           rtl == Extraction(trace, kept).rtl
<1>1. Covers(all, rtl, kept) /\ answers \in Nat /\ unwritten \in Nat /\ turn \in Nat
  BY DEF Observed, Faithful
<1>2. all' = all
  OBVIOUS
<1>3. Due \in {0, 1} /\ Due' \in {0, 1}
  BY DEF Due
<1> HIDE DEF all, rtl
<1>4. all \in Seq(AttemptRecords) /\ Len(all) \in Nat
  BY <1>1 DEF Covers
<1>5. \A k \in 1..Len(all) : Sound(all, k, kept)'
  BY <1>1, <1>2 DEF Covers, Sound
<1>6. pc' # "done" => answers' = Len(all) + unwritten' + Due'
  BY <1>1, <1>3, <1>4 DEF Covers
<1>7. Len(all) + unwritten' <= answers'
  BY <1>1, <1>4 DEF Covers
<1>8. verdict' = "PASS" /\ turn' > 0 => all # <<>> /\ Passing(all[Len(all)])'
  BY <1>1, <1>2 DEF Covers, Passing
<1>9. rtl' \in Code \cup {NoCode} /\ (pc' # "done" => rtl' = IF Unjudged' THEN ws'.rtl ELSE NoCode)
  BY DEF rtl
<1>10. turn' = 0 => all = <<>>
  BY <1>1 DEF Covers
<1>11. Covers(all, rtl, kept)'
  BY <1>2, <1>4, <1>5, <1>6, <1>7, <1>8, <1>9, <1>10 DEF Covers
<1> QED
  BY <1>11 DEF Faithful, all, rtl

\* The record of a verdict in a repair turn adds an attempt.
LEMMA LateRecord ==
    ASSUME NEW records \in Seq(Records), NEW rec \in Records, rec.turn # 0,
           rec.phase = "VERIFY", NEW kept
    PROVE  /\ Extraction(Append(records, rec), kept).attempts
                  = Append(Extraction(records, kept).attempts,
                           Attempt(Extraction(records, kept), rec, kept))
           /\ Extraction(Append(records, rec), kept).rtl = NoCode
<1>1. Extraction(Append(records, rec), kept) = Take(Extraction(records, kept), rec, kept)
  BY ExtractionOfAppend
<1>2. \A i \in 1..Len(records) : records[i].phase \in {"EXECUTE", "VERIFY"}
  BY PhasesOf
<1> QED
  BY <1>1, <1>2, ExtractionFields DEF Take, IsInitial, RtlAfterUse

\* That of a repair's write gives the extraction its RTL.
LEMMA WrittenRecord ==
    ASSUME NEW records \in Seq(Records), NEW rec \in Records, rec.turn # 0,
           rec.phase = "EXECUTE", NEW kept
    PROVE  /\ Extraction(Append(records, rec), kept).attempts
                  = Extraction(records, kept).attempts
           /\ Extraction(Append(records, rec), kept).rtl = rec.rtl
<1>1. Extraction(Append(records, rec), kept) = Take(Extraction(records, kept), rec, kept)
  BY ExtractionOfAppend
<1>2. \A i \in 1..Len(records) : records[i].phase \in {"EXECUTE", "VERIFY"}
  BY PhasesOf
<1> QED
  BY <1>1, <1>2, ExtractionFields DEF Take

\* With it the attempt takes the RTL held
\* and the next raw answer.
LEMMA NewAttempt ==
    ASSUME Observed, NEW kept \in Nat, NEW rec \in Records,
           trace' = Append(trace, rec), rec.phase = "VERIFY", rec.turn # 0,
           pc # "done", verdict # "PASS", pc' # "verify", turn' # 0,
           rec.answer = answers', rec.unwritten = unwritten,
           answers' = answers + 1 - Due, unwritten' = unwritten,
           Extraction(trace, kept).rtl # NoCode => Extraction(trace, kept).rtl = rec.rtl,
           rec.category \notin Precheck => Extraction(trace, kept).rtl # NoCode,
           rec.category = "PASS" <=> verdict' = "PASS",
           verdict' = "PASS" => Extraction(trace, kept).rtl = ws'.rtl
    PROVE  Faithful(kept)'
<1> DEFINE all == Extraction(trace, kept).attempts
           rtl == Extraction(trace, kept).rtl
           new == Attempt(Extraction(trace, kept), rec, kept)
<1>1. Covers(all, rtl, kept) /\ answers \in Nat /\ unwritten \in Nat /\ turn \in Nat
      /\ trace \in Seq(Records)
  BY DEF Observed, Faithful
<1>2. all' = Append(all, new) /\ rtl' = NoCode
  BY <1>1, LateRecord
<1>3. /\ new.turn = rec.turn /\ new.category = rec.category /\ new.rtl = rtl
      /\ new.record = rec
      /\ new.raw = IF Len(all) + 1 <= kept THEN Len(all) + 1 ELSE 0
  BY DEF Attempt
<1>4. new \in AttemptRecords
  BY <1>1, <1>3 DEF Attempt, AttemptRecords, Records, Covers
<1>5. /\ rtl # NoCode => rtl = rec.rtl
      /\ rec.category \notin Precheck => rtl # NoCode
      /\ verdict' = "PASS" => rec.category = "PASS" /\ rtl = ws'.rtl
      /\ rec.category = "PASS" => verdict' = "PASS"
  OBVIOUS
<1> HIDE DEF all, rtl, new
<1>6. all \in Seq(AttemptRecords) /\ Len(all) \in Nat /\ Due \in {0, 1} /\ Due' = 0 /\ ~Unjudged'
  BY <1>1 DEF Covers, Due, Unjudged
<1>7. answers = Len(all) + unwritten + Due
  BY <1>1 DEF Covers
<1>8. answers' = Len(all) + 1 + unwritten
  BY <1>1, <1>6, <1>7
<1>9. /\ Append(all, new) \in Seq(AttemptRecords)
      /\ Len(Append(all, new)) = Len(all) + 1
      /\ Append(all, new)[Len(all) + 1] = new
      /\ \A k \in 1..Len(all) : Append(all, new)[k] = all[k]
  BY <1>4, <1>6
<1>10. PICK longer \in Seq(AttemptRecords) : longer = Append(all, new)
  BY <1>9
<1>11. ASSUME NEW k \in 1..Len(longer) PROVE Sound(longer, k, kept)'
  <2>1. CASE k = Len(all) + 1
    <3>1. longer[k] = new /\ k = Len(longer) /\ k \in Nat
      BY <1>6, <1>9, <1>10, <2>1
    <3>2. new.record.answer = k + new.record.unwritten
      BY <1>1, <1>3, <1>6, <1>8, <2>1
    <3>3. new.raw = IF k <= kept THEN k ELSE 0
      BY <1>3, <2>1
    <3>4. longer[k].rtl # NoCode => longer[k].rtl = longer[k].record.rtl
      BY <1>3, <1>5, <3>1
    <3>5. longer[k].category \notin Precheck => longer[k].rtl # NoCode
      BY <1>3, <1>5, <3>1
    <3>6. longer[k].category = "PASS" => k = Len(longer) /\ verdict' = "PASS"
      BY <1>3, <1>5, <3>1
    <3> QED
      BY <3>1, <3>2, <3>3, <3>4, <3>5, <3>6 DEF Sound
  <2>2. CASE k # Len(all) + 1
    <3>1. k \in 1..Len(all) /\ longer[k] = all[k]
      BY <1>6, <1>9, <1>10, <2>2
    <3>2. Sound(all, k, kept)
      BY <1>1, <3>1 DEF Covers
    <3>3. all[k].category # "PASS"
      BY <3>2 DEF Sound
    <3> QED
      BY <3>1, <3>2, <3>3 DEF Sound
  <2> QED
    BY <2>1, <2>2
<1>12. verdict' = "PASS" => longer # <<>> /\ Passing(longer[Len(longer)])'
  <2>1. longer[Len(longer)] = new /\ longer # <<>>
    BY <1>6, <1>9, <1>10
  <2> QED
    BY <1>3, <1>5, <2>1 DEF Passing
<1>13. Covers(all, rtl, kept)'
  <2>1. all' = longer /\ Len(longer) = Len(all) + 1 /\ longer \in Seq(AttemptRecords)
    BY <1>2, <1>9, <1>10
  <2> HIDE DEF all
  <2>2. answers' = Len(longer) + unwritten' + Due'
    <3>1. answers' = Len(longer) + unwritten
      BY <1>1, <1>6, <1>8, <2>1
    <3>2. Due' = 0
      BY <1>6
    <3>3. unwritten' = unwritten
      OBVIOUS
    <3>4. Len(longer) \in Nat /\ unwritten \in Nat
      BY <1>1, <1>6, <2>1
    <3> HIDE DEF Due
    <3> QED
      BY <3>1, <3>2, <3>3, <3>4
  <2>3. Len(longer) + unwritten' <= answers'
    BY <1>1, <1>6, <1>8, <2>1
  <2>4. Covers(longer, NoCode, kept)'
    BY <1>6, <1>11, <1>12, <2>1, <2>2, <2>3 DEF Covers
  <2> QED
    BY <1>2, <2>1, <2>4 DEF Covers
<1> QED
  BY <1>13 DEF Faithful, all, rtl

\* What the record of a step is, as a value.
LEMMA RecordType ==
    ASSUME turn' \in Nat, answers' \in Nat, unwritten \in Nat,
           NEW code \in Code \cup {NoCode}, NEW category \in Categories
    PROVE  Executed(code) \in Records /\ Judged(category, code) \in Records
BY DEF Executed, Judged, Records, Categories

\* A record of the generation leaves the attempts and the RTL as they are.
LEMMA EarlyRecord ==
    ASSUME NEW records \in Seq(Records), NEW rec \in Records, rec.turn = 0, NEW kept
    PROVE  /\ Extraction(Append(records, rec), kept).attempts
                  = Extraction(records, kept).attempts
           /\ Extraction(Append(records, rec), kept).rtl = Extraction(records, kept).rtl
<1>1. Extraction(Append(records, rec), kept) = Take(Extraction(records, kept), rec, kept)
  BY ExtractionOfAppend
<1>2. rec.phase \in {"EXECUTE", "VERIFY"}
  BY DEF Records
<1> QED
  <2>1. \A i \in 1..Len(records) : records[i].phase \in {"EXECUTE", "VERIFY"}
    BY PhasesOf
  <2> QED
    BY <1>1, <1>2, <2>1, ExtractionFields DEF Take, IsInitial

-----------------------------------------------------------------------------
(***************************************************************************)
(* One lemma for each kind of step.                                        *)
(***************************************************************************)
LEMMA UnrecordedKeeps ==
    ASSUME TranscriptInv, Unrecorded
    PROVE  Observed'
<1>1. /\ pc # "done" /\ pc' # "verify"
      /\ pc = "verify" => pc' = "done"
      /\ pc' \in Early => pc \in Early
      /\ UNCHANGED verdict
      /\ verdict = "PASS" => UNCHANGED ws /\ pc' = "done"
      /\ pc' = "done" => (result'.status = "committed" <=> verdict = "PASS")
  BY UnrecordedFacts DEF TranscriptInv, Early
<1>2. UNCHANGED <<turn, answers, trace, unwritten>>
  BY DEF Unrecorded, observed
<1>3. ASSUME NEW kept \in Nat PROVE Faithful(kept)'
  <2>1. ~Unjudged' /\ Due' = 0 /\ (pc' # "done" => ~Unjudged /\ Due = 0)
    BY <1>1 DEF Unjudged, Due
  <2>2. Extraction(trace, kept).rtl \in Code \cup {NoCode}
        /\ (pc' # "done" => Extraction(trace, kept).rtl = NoCode)
    BY <1>1, <2>1 DEF TranscriptInv, Observed, Faithful, Covers
  <2>3. answers \in Nat /\ unwritten \in Nat
    BY DEF TranscriptInv, Observed
  <2> QED
    BY <1>1, <1>2, <2>1, <2>2, <2>3, NoAttempt DEF TranscriptInv
<1> QED
  BY <1>1, <1>2, <1>3 DEF TranscriptInv, Observed

\* The generation is at turn 0: the extraction only remembers its failure.
LEMMA GenerationRecordedKeeps ==
    ASSUME TranscriptInv, GenerationRecorded
    PROVE  Observed'
<1>1. PICK code \in Code : GenerationWritten(code) /\ trace' = Append(trace, Executed(code))
  BY DEF GenerationRecorded
<1>2. pc = "generate" /\ pc' = "verify" /\ UNCHANGED <<turn, answers, unwritten, verdict>>
  BY <1>1 DEF GenerationRecorded, GenerationWritten
<1>3. turn = 0 /\ answers \in Nat /\ unwritten \in Nat /\ verdict # "PASS" /\ trace \in Seq(Records)
  BY <1>2 DEF TranscriptInv, Observed, Early, SafeInv
<1>4. PICK rec \in Records : rec = Executed(code) /\ rec.turn = 0
  <2>1. Executed(code) \in Records
    BY <1>2, <1>3, RecordType DEF Categories
  <2>2. Executed(code).turn = 0
    BY <1>2, <1>3 DEF Executed
  <2> QED
    BY <2>1, <2>2
<1>5. trace' = Append(trace, rec) /\ trace' \in Seq(Records)
  BY <1>1, <1>3, <1>4
<1>6. ASSUME NEW kept \in Nat PROVE Faithful(kept)'
  <2>1. /\ Extraction(trace', kept).attempts = Extraction(trace, kept).attempts
        /\ Extraction(trace', kept).rtl = Extraction(trace, kept).rtl
    BY <1>3, <1>4, <1>5, EarlyRecord
  <2>2. ~Unjudged /\ ~Unjudged' /\ Due = 0 /\ Due' = 0
    BY <1>2, <1>3 DEF Unjudged, Due
  <2>3. Extraction(trace, kept).rtl = NoCode
    BY <1>2, <2>2 DEF TranscriptInv, Observed, Faithful, Covers
  <2> QED
    BY <1>2, <1>3, <2>1, <2>2, <2>3, NoAttempt DEF TranscriptInv
<1> QED
  BY <1>2, <1>3, <1>5, <1>6 DEF TranscriptInv, Observed, Early

LEMMA GenerationRejectedKeeps ==
    ASSUME TranscriptInv, GenerationRejected
    PROVE  Observed'
<1> DEFINE failure == Judged("RESPONSE_PARSE_FAILURE", NoCode)
<1>1. /\ UNCHANGED <<turn, answers, unwritten>>
      /\ \/ GenerationUnparsed /\ trace' = trace \o (IF pc' = "repair" THEN <<failure, failure>>
                                                                    ELSE <<failure>>)
         \/ GenerationRaised /\ trace' = Append(trace, failure)
  BY DEF GenerationRejected
<1>2. /\ pc = "generate" /\ pc' \in {"generate", "repair"}
      /\ UNCHANGED verdict
  BY <1>1 DEF GenerationUnparsed, GenerationRaised, GenerationFailed
<1>3. turn = 0 /\ answers \in Nat /\ unwritten \in Nat /\ verdict # "PASS" /\ trace \in Seq(Records)
  BY <1>2 DEF TranscriptInv, Observed, Early, SafeInv
<1>4. PICK rec \in Records : rec = failure /\ rec.turn = 0
  <2>1. failure \in Records
    BY <1>1, <1>3, RecordType DEF Categories, Precheck
  <2>2. failure.turn = 0
    BY <1>1, <1>3 DEF Judged
  <2> QED
    BY <2>1, <2>2
<1> HIDE DEF failure
<1>5. \/ trace' = Append(trace, rec)
      \/ trace' = Append(Append(trace, rec), rec)
  <2>1. trace \o <<rec>> = Append(trace, rec)
    BY <1>3, <1>4
  <2>2. trace \o <<rec, rec>> = Append(Append(trace, rec), rec)
    BY <1>3, <1>4
  <2> QED
    BY <1>1, <1>4, <2>1, <2>2
<1>6. Append(trace, rec) \in Seq(Records) /\ trace' \in Seq(Records)
  BY <1>3, <1>4, <1>5
<1>7. ASSUME NEW kept \in Nat PROVE Faithful(kept)'
  <2>1. /\ Extraction(trace', kept).attempts = Extraction(trace, kept).attempts
        /\ Extraction(trace', kept).rtl = Extraction(trace, kept).rtl
    <3>1. CASE trace' = Append(trace, rec)
      BY <1>3, <1>4, <3>1, EarlyRecord
    <3>2. CASE trace' = Append(Append(trace, rec), rec)
      <4>1. PICK once \in Seq(Records) : once = Append(trace, rec)
        BY <1>6
      <4>2. /\ Extraction(once, kept).attempts = Extraction(trace, kept).attempts
            /\ Extraction(once, kept).rtl = Extraction(trace, kept).rtl
        BY <1>3, <1>4, <4>1, EarlyRecord
      <4>3. /\ Extraction(trace', kept).attempts = Extraction(once, kept).attempts
            /\ Extraction(trace', kept).rtl = Extraction(once, kept).rtl
        BY <1>4, <3>2, <4>1, EarlyRecord
      <4> QED
        BY <4>2, <4>3
    <3> QED
      BY <1>5, <3>1, <3>2
  <2>2. ~Unjudged /\ ~Unjudged' /\ Due = 0 /\ Due' = 0
    BY <1>2, <1>3 DEF Unjudged, Due
  <2>3. Extraction(trace, kept).rtl = NoCode
    BY <1>2, <2>2 DEF TranscriptInv, Observed, Faithful, Covers
  <2> QED
    BY <1>1, <1>2, <1>3, <2>1, <2>2, <2>3, NoAttempt DEF TranscriptInv
<1> QED
  BY <1>1, <1>2, <1>3, <1>6, <1>7 DEF TranscriptInv, Observed, Early

\* No answer and no record: the counts stay even.
LEMMA CallFailedKeeps ==
    ASSUME TranscriptInv, CallFailed
    PROVE  Observed'
<1>1. /\ pc = "repair" /\ turn' = turn + 1 /\ RepairCallFailed
      /\ UNCHANGED <<answers, trace, unwritten>>
  BY DEF CallFailed, RepairTurn
<1>2. /\ pc' \in {"repair", "done"} /\ verdict # "PASS" /\ UNCHANGED verdict
      /\ pc' = "done" => result'.status # "committed"
  BY <1>1, TurnFacts DEF TranscriptInv
<1>3. turn \in Nat /\ answers \in Nat /\ unwritten \in Nat /\ trace \in Seq(Records)
  BY DEF TranscriptInv, Observed
<1>4. ASSUME NEW kept \in Nat PROVE Faithful(kept)'
  <2>1. ~Unjudged /\ ~Unjudged' /\ Due = 0 /\ Due' = 0 /\ turn' # 0
    BY <1>1, <1>2, <1>3 DEF Unjudged, Due
  <2>2. Extraction(trace, kept).rtl = NoCode
    BY <1>1, <2>1 DEF TranscriptInv, Observed, Faithful, Covers
  <2> QED
    BY <1>1, <1>2, <1>3, <2>1, <2>2, NoAttempt DEF TranscriptInv
<1> QED
  BY <1>1, <1>2, <1>3, <1>4 DEF TranscriptInv, Observed, Early

\* An answer turned down has its record at once, without RTL.
LEMMA AnswerTurnedDownKeeps ==
    ASSUME TranscriptInv, AnswerTurnedDown
    PROVE  Observed'
<1>1. PICK category \in Precheck, code \in Code \cup {NoCode} :
          /\ AnswerRejected(category, code)
          /\ \/ RepairUnparsed
             \/ code \in Code /\ (\/ RepairSkipped(code)
                                  \/ RepairRejected(code)
                                  \/ RepairTooLarge(code))
  BY DEF AnswerTurnedDown, Precheck
<1>2. /\ pc = "repair" /\ turn' = turn + 1 /\ answers' = answers + 1
      /\ trace' = Append(trace, Judged(category, code)) /\ UNCHANGED unwritten
  BY <1>1 DEF AnswerRejected, Answered, RepairTurn
<1>3. /\ pc' \in {"repair", "done"} /\ verdict # "PASS" /\ UNCHANGED verdict
      /\ pc' = "done" => result'.status # "committed"
  BY <1>1, TurnFacts DEF TranscriptInv
<1>4. turn \in Nat /\ answers \in Nat /\ unwritten \in Nat /\ trace \in Seq(Records)
  BY DEF TranscriptInv, Observed
<1>5. PICK rec \in Records : rec = Judged(category, code)
  <2>1. category \in Categories /\ turn' \in Nat /\ answers' \in Nat
    BY <1>2, <1>4 DEF Categories
  <2>2. Judged(category, code) \in Records
    BY <1>4, <2>1, RecordType
  <2> QED
    BY <2>2
<1>6. /\ rec.phase = "VERIFY" /\ rec.turn = turn' /\ rec.answer = answers'
      /\ rec.unwritten = unwritten /\ rec.category = category
  BY <1>5 DEF Judged
<1>7. trace' = Append(trace, rec) /\ trace' \in Seq(Records)
  BY <1>2, <1>4, <1>5
<1>8. turn' # 0 /\ Due = 0 /\ rec.category \in Precheck /\ rec.category # "PASS"
  BY <1>2, <1>4, <1>6 DEF Due, Unjudged, Precheck
<1>9. ASSUME NEW kept \in Nat PROVE Faithful(kept)'
  <2>1. Extraction(trace, kept).rtl = NoCode
    BY <1>2 DEF TranscriptInv, Observed, Faithful, Covers, Unjudged
  <2>2. answers' = answers + 1 - Due
    BY <1>2, <1>4, <1>8
  <2> QED
    BY <1>2, <1>3, <1>6, <1>7, <1>8, <2>1, <2>2, NewAttempt DEF TranscriptInv
<1> QED
  BY <1>2, <1>3, <1>4, <1>7, <1>9 DEF TranscriptInv, Observed, Early

\* The one answer that never has a record.
LEMMA AnswerLostKeeps ==
    ASSUME TranscriptInv, AnswerLost
    PROVE  Observed'
<1>1. PICK code \in Code : RepairUnwritten(code)
  BY DEF AnswerLost
<1>2. /\ pc = "repair" /\ turn' = turn + 1 /\ answers' = answers + 1
      /\ unwritten' = unwritten + 1 /\ UNCHANGED trace
  BY DEF AnswerLost, Answered, RepairTurn
<1>3. /\ pc' \in {"repair", "done"} /\ verdict # "PASS" /\ UNCHANGED verdict
      /\ pc' = "done" => result'.status # "committed"
  BY <1>1, TurnFacts DEF TranscriptInv
<1>4. turn \in Nat /\ answers \in Nat /\ unwritten \in Nat /\ trace \in Seq(Records)
  BY DEF TranscriptInv, Observed
<1>5. ASSUME NEW kept \in Nat PROVE Faithful(kept)'
  <2>1. ~Unjudged /\ ~Unjudged' /\ Due = 0 /\ Due' = 0 /\ turn' # 0
    BY <1>2, <1>3, <1>4 DEF Unjudged, Due
  <2>2. Extraction(trace, kept).rtl = NoCode
    BY <1>2, <2>1 DEF TranscriptInv, Observed, Faithful, Covers
  <2> QED
    BY <1>2, <1>3, <1>4, <2>1, <2>2, NoAttempt DEF TranscriptInv
<1> QED
  BY <1>2, <1>3, <1>4, <1>5 DEF TranscriptInv, Observed, Early

\* The answer that is due its record, with the RTL of the workspace.
LEMMA AnswerWrittenKeeps ==
    ASSUME TranscriptInv, AnswerWritten
    PROVE  Observed'
<1>1. PICK code \in Code : /\ Answered("NONE") /\ RepairWritten(code) /\ UNCHANGED unwritten
                           /\ trace' = Append(trace, Executed(code))
  BY DEF AnswerWritten
<1>2. /\ pc = "repair" /\ turn' = turn + 1 /\ answers' = answers + 1
      /\ pc' = "verify" /\ UNCHANGED verdict
  BY <1>1 DEF Answered, RepairTurn, RepairWritten
<1>3. /\ turn \in Nat /\ answers \in Nat /\ unwritten \in Nat /\ trace \in Seq(Records)
      /\ verdict # "PASS"
  BY <1>2 DEF TranscriptInv, Observed, SafeInv
<1>4. ws'.rtl = code
  BY <1>1 DEF RepairWritten, TranscriptInv, SafeInv, TypeInv, TypeOK, Contents
<1>5. PICK rec \in Records : rec = Executed(code)
  BY <1>2, <1>3, RecordType DEF Categories
<1>6. rec.phase = "EXECUTE" /\ rec.turn = turn' /\ rec.rtl = code /\ turn' # 0
  BY <1>2, <1>3, <1>5 DEF Executed
<1>7. trace' = Append(trace, rec) /\ trace' \in Seq(Records)
  BY <1>1, <1>3, <1>5
<1>8. ASSUME NEW kept \in Nat PROVE Faithful(kept)'
  <2>2. /\ Extraction(trace', kept).attempts = Extraction(trace, kept).attempts
        /\ Extraction(trace', kept).rtl = code
    BY <1>3, <1>6, <1>7, WrittenRecord
  <2>3. ~Unjudged /\ Unjudged' /\ Due = 0 /\ Due' = 1
    BY <1>2, <1>3 DEF Unjudged, Due
  <2>4. answers' = answers - unwritten - Due + unwritten' + Due'
        /\ answers - unwritten <= answers' - unwritten'
    BY <1>1, <1>2, <1>3, <2>3
  <2> QED
    BY <1>1, <1>2, <1>3, <1>4, <1>6, <2>2, <2>3, <2>4, NoAttempt DEF TranscriptInv
<1> QED
  BY <1>1, <1>2, <1>3, <1>7, <1>8 DEF TranscriptInv, Observed, Early

\* The verdict pays what is due, if it is on a repair.
LEMMA VerdictRecordedKeeps ==
    ASSUME TranscriptInv, VerdictRecorded
    PROVE  Observed'
<1>1. /\ pc = "verify" /\ pc' = "judge" /\ UNCHANGED <<turn, answers, unwritten, ws>>
      /\ verdict' \in Reported \cup {"PASS"}
      /\ trace' = Append(trace, Judged(verdict', ws.rtl))
  BY DEF VerdictRecorded, Verify
<1>2. /\ turn \in Nat /\ answers \in Nat /\ unwritten \in Nat /\ trace \in Seq(Records)
      /\ verdict # "PASS" /\ ws.rtl # NoCode /\ ws.rtl \in Code \cup {NoCode}
  BY <1>1 DEF TranscriptInv, Observed, SafeInv, TypeInv, TypeOK, Contents
<1>3. verdict' \in Categories /\ verdict' \notin Precheck
  <2>1. verdict' \in Category \cup {"PASS"}
    BY <1>1, PipelineAssumption DEF PipelineAssumption
  <2> QED
    BY <2>1 DEF Categories, Category, Precheck
<1>4. PICK category \in Categories, code \in Code \cup {NoCode} : category = verdict' /\ code = ws.rtl
  BY <1>2, <1>3
<1>5. PICK rec \in Records : rec = Judged(category, code)
  BY <1>1, <1>2, RecordType
<1>6. /\ rec.phase = "VERIFY" /\ rec.turn = turn /\ rec.answer = answers'
      /\ rec.unwritten = unwritten /\ rec.category = verdict' /\ rec.rtl = ws.rtl
  BY <1>1, <1>4, <1>5 DEF Judged
<1>7. trace' = Append(trace, rec) /\ trace' \in Seq(Records)
  BY <1>1, <1>2, <1>4, <1>5
<1>8. ASSUME NEW kept \in Nat PROVE Faithful(kept)'
  <2>1. CASE turn = 0
    <3>1. /\ Extraction(trace', kept).attempts = Extraction(trace, kept).attempts
          /\ Extraction(trace', kept).rtl = Extraction(trace, kept).rtl
      BY <1>2, <1>6, <1>7, <2>1, EarlyRecord
    <3>2. Extraction(trace, kept).attempts = <<>> /\ Extraction(trace, kept).rtl = NoCode
      BY <1>1, <2>1 DEF TranscriptInv, Observed, Faithful, Covers, Unjudged
    <3>3. ~Unjudged /\ ~Unjudged' /\ Due = 0 /\ Due' = 0
      BY <1>1, <2>1 DEF Unjudged, Due
    <3>4. answers = unwritten
      <4>1. Covers(<<>>, NoCode, kept)
        BY <3>2 DEF TranscriptInv, Observed, Faithful
      <4>2. Len(<<>>) = 0
        OBVIOUS
      <4> QED
        BY <1>1, <1>2, <3>3, <4>1, <4>2 DEF Covers
    <3> HIDE DEF Unjudged, Due
    <3>5. Covers(<<>>, NoCode, kept)'
      BY <1>1, <1>2, <2>1, <3>3, <3>4 DEF Covers
    <3> QED
      BY <3>1, <3>2, <3>5 DEF Faithful
  <2>2. CASE turn # 0
    <3>1. Unjudged /\ Due = 1
      BY <1>1, <1>2, <2>2 DEF Unjudged, Due
    <3>2. Extraction(trace, kept).rtl = ws.rtl
      BY <1>1, <3>1 DEF TranscriptInv, Observed, Faithful, Covers
    <3>3. answers' = answers + 1 - Due
      BY <1>1, <1>2, <3>1
    <3> QED
      BY <1>1, <1>2, <1>6, <1>7, <2>2, <3>2, <3>3, NewAttempt DEF TranscriptInv
  <2> QED
    BY <2>1, <2>2
<1> QED
  BY <1>1, <1>2, <1>7, <1>8 DEF TranscriptInv, Observed, Early

LEMMA TranscriptStep ==
    ASSUME TranscriptInv, [TranscriptNext]_transcriptVars
    PROVE  TranscriptInv'
<1>1. SafeInv'
  BY TranscriptRefines, SafeStep DEF TranscriptInv
<1>2. CASE UNCHANGED transcriptVars
  <2>1. UNCHANGED <<turn, answers, trace, unwritten, pc, ws, verdict, result>>
    BY <1>2 DEF transcriptVars, observed, vars
  <2>2. ASSUME NEW kept \in Nat PROVE Faithful(kept)'
    <3>1. Faithful(kept)
      BY DEF TranscriptInv, Observed
    <3> QED
      BY <2>1, <3>1 DEF Faithful, Covers, Unjudged, Due, Sound, Passing
  <2>3. Observed'
    BY <2>1, <2>2 DEF TranscriptInv, Observed
  <2> QED
    BY <1>1, <2>3 DEF TranscriptInv
<1>3. CASE TranscriptNext
  <2>1. Observed'
    BY <1>3, UnrecordedKeeps, GenerationRecordedKeeps, GenerationRejectedKeeps,
       CallFailedKeeps, AnswerTurnedDownKeeps, AnswerLostKeeps, AnswerWrittenKeeps,
       VerdictRecordedKeeps DEF TranscriptNext
  <2> QED
    BY <1>1, <2>1 DEF TranscriptInv
<1> QED
  BY <1>2, <1>3

\* The invariant holds in every recorded run.
THEOREM TranscriptInvariant == TranscriptSpec => []TranscriptInv
BY TranscriptInitial, TranscriptStep, PTL DEF TranscriptSpec

-----------------------------------------------------------------------------
(***************************************************************************)
(* The properties.                                                         *)
(***************************************************************************)

\* What the invariant says of the attempts of the run.
LEMMA AttemptFacts ==
    ASSUME TranscriptInv
    PROVE  /\ Attempts \in Seq(AttemptRecords)
           /\ Len(Attempts) <= answers
           /\ \A k \in 1..Len(Attempts) : Sound(Attempts, k, answers)
           /\ verdict = "PASS" /\ turn > 0 =>
                 Attempts # <<>> /\ Passing(Attempts[Len(Attempts)])
<1>1. Faithful(answers)
  BY DEF TranscriptInv, Observed
<1>2. unwritten \in Nat /\ answers \in Nat
  BY DEF TranscriptInv, Observed
<1> QED
  BY <1>1, <1>2 DEF Faithful, Covers, Attempts, Extract

\* The RTL of a repair record is that of its verdict (repair_rtl in the
\* transcript, extract_transcript_tuple), whatever was lost or rejected between.
THEOREM RtlMatches == TranscriptSpec => []RtlMatchesVerdict
<1>1. TranscriptInv => RtlMatchesVerdict
  <2> SUFFICES ASSUME TranscriptInv, NEW a \in Range(Attempts)
               PROVE  /\ a.rtl # NoCode => a.rtl = a.record.rtl
                      /\ a.category \notin Precheck => a.rtl # NoCode
    BY DEF RtlMatchesVerdict
  <2>1. PICK k \in 1..Len(Attempts) : a = Attempts[k]
    BY AttemptFacts DEF Range
  <2> QED
    BY <2>1, AttemptFacts DEF Sound
<1> QED
  BY <1>1, TranscriptInvariant, PTL

\* Each repair record has a raw answer; it is behind by the number of repairs
\* whose write had failed.
THEOREM AnswersShift == TranscriptSpec => []AnswersShiftedByLostWrites
<1>1. TranscriptInv => AnswersShiftedByLostWrites
  <2> SUFFICES ASSUME TranscriptInv, NEW a \in Range(Attempts)
               PROVE  a.raw >= 1 /\ a.raw + a.record.unwritten = a.record.answer
    BY DEF AnswersShiftedByLostWrites
  <2>1. PICK k \in 1..Len(Attempts) : a = Attempts[k]
    BY AttemptFacts DEF Range
  <2>2. k <= answers /\ k \in Nat /\ answers \in Nat
    BY AttemptFacts DEF TranscriptInv, Observed
  <2>3. a.raw = k /\ a.record.answer = k + a.record.unwritten
    BY <2>1, <2>2, AttemptFacts DEF Sound
  <2>4. a.record.unwritten \in Nat
    <3>1. a \in AttemptRecords
      BY <2>1, AttemptFacts
    <3> QED
      BY <3>1 DEF AttemptRecords, Records
  <2> QED
    BY <2>2, <2>3, <2>4
<1> QED
  BY <1>1, TranscriptInvariant, PTL

\* Only the last repair record passes, and it does when the run is committed:
\* with the RTL the workspace is left with.
THEOREM PassIsLast == TranscriptSpec => []PassIsLastAttempt
<1>1. TranscriptInv => PassIsLastAttempt
  <2> SUFFICES ASSUME TranscriptInv, Returned PROVE PassIsLastAttempt
    BY DEF PassIsLastAttempt
  <2>1. Passed <=> verdict = "PASS"
    BY DEF TranscriptInv, Observed, Returned, Passed
  <2>2. ASSUME NEW i \in DOMAIN Attempts, Attempts[i].category = "PASS"
        PROVE  Passed /\ i = Len(Attempts)
    <3>1. i \in 1..Len(Attempts)
      BY <2>2, AttemptFacts
    <3> QED
      BY <2>1, <2>2, <3>1, AttemptFacts DEF Sound
  <2>3. ASSUME Passed, turn > 0
        PROVE  /\ Attempts # <<>>
               /\ Last(Attempts).category = "PASS"
               /\ Last(Attempts).rtl = ws.rtl
    BY <2>1, <2>3, AttemptFacts DEF Last, Passing
  <2> QED
    BY <2>2, <2>3 DEF PassIsLastAttempt
<1> QED
  BY <1>1, TranscriptInvariant, PTL

-----------------------------------------------------------------------------
(***************************************************************************)
(* The miner.  It pairs the k-th verdict with the k-th attempt's guidance. *)
(* That one was built from the k-th verdict when the generation made one   *)
(* record of a verdict and every call after it was built from a failure:   *)
(* then the k-th call reports the k-th verdict and brings the k-th         *)
(* attempt.                                                                *)
(***************************************************************************)

\* What PairsShowTheirFailure asks of a run.
Clean ==
    /\ ~\E i \in DOMAIN trace : trace[i].turn = 0 /\ trace[i].rtl = NoCode
    /\ \A t \in DOMAIN calls : calls[t] # Nothing

\* A call that has been made and has no attempt yet.
Unanswered == IF Unjudged \/ lost THEN 1 ELSE 0

\* The verdict on the generation has been recorded.
Opening == IF pc \in Early \/ (pc = "verify" /\ turn = 0) THEN 0 ELSE 1

Counted(all) ==
    /\ Len(all) <= Cardinality(Verdicts)
    /\ turn > 0 \/ pc \in {"repair", "judge"} => Len(all) < Cardinality(Verdicts)
    /\ Clean => Len(all) <= turn /\ \A k \in 1..Len(all) : all[k].turn = k
    /\ Clean /\ pc # "done" =>
          turn = Len(all) + Unanswered /\ Cardinality(Verdicts) = Len(all) + Opening

Reports ==
    /\ \A t \in 1..turn : calls[t] \in Verdicts /\ Position(calls[t]) = t
    /\ pc = "judge" \/ (pc = "repair" /\ ~lost) => Len(trace) \in Verdicts
    /\ pc \notin {"repair", "done"} => ~lost

\* A verdict of the verifier is recorded right after the code it is about.
InPlace ==
    /\ \A i \in Verdicts : trace[i].category \notin Precheck =>
          i - 1 \in DOMAIN trace /\ trace[i - 1].phase = "EXECUTE" /\ trace[i - 1].rtl = trace[i].rtl
    /\ pc = "verify" => /\ trace # <<>>
                        /\ trace[Len(trace)].phase = "EXECUTE"
                        /\ trace[Len(trace)].rtl = ws.rtl

Tracked ==
    /\ calls \in Seq(Nat) /\ Len(calls) = turn /\ lost \in BOOLEAN
    /\ InPlace
    /\ Clean => Reports
    /\ \A kept \in Nat : Counted(Extraction(trace, kept).attempts)

RunInv == TranscriptInv /\ Tracked

MinerInv == RunInv /\ PairsShowTheirFailure /\ OnlyMixUpsContaminate

LEMMA MinerInitial == MinerInit => MinerInv
<1> SUFFICES ASSUME MinerInit PROVE MinerInv
  OBVIOUS
<1>1. TranscriptInv
  BY TranscriptInitial DEF MinerInit
<1>2. /\ trace = <<>> /\ turn = 0 /\ pc = "start" /\ calls = <<>> /\ lost = FALSE
      /\ mined = None
  BY DEF MinerInit, TranscriptInit, Init
<1>3. Verdicts = {} /\ Cardinality(Verdicts) = 0
  BY <1>2, FS_EmptySet DEF Verdicts
<1>4. InPlace
  BY <1>2, <1>3 DEF InPlace
<1>5. Reports
  BY <1>2 DEF Reports
<1>6. ASSUME NEW kept \in Nat PROVE Counted(Extraction(trace, kept).attempts)
  <2>1. Extraction(trace, kept).attempts = <<>>
    BY <1>2, ExtractionOfNothing DEF Unread
  <2>2. Unanswered = 0 /\ Opening = 0
    BY <1>2 DEF Unanswered, Opening, Unjudged, Early
  <2>3. Len(<<>>) = 0
    OBVIOUS
  <2>4. Counted(<<>>)
    BY <1>2, <1>3, <2>2, <2>3 DEF Counted
  <2> QED
    BY <2>1, <2>4
<1>7. calls \in Seq(Nat) /\ Len(calls) = turn /\ lost \in BOOLEAN
  <2>1. <<>> \in Seq(Nat) /\ Len(<<>>) = 0
    OBVIOUS
  <2> QED
    BY <1>2, <2>1
<1> QED
  BY <1>1, <1>2, <1>4, <1>5, <1>6, <1>7
     DEF MinerInv, RunInv, Tracked, PairsShowTheirFailure, OnlyMixUpsContaminate

(***************************************************************************)
(* The places of the verdicts, one record later.                           *)
(***************************************************************************)
LEMMA VerdictsFinite ==
    ASSUME trace \in Seq(Records)
    PROVE  /\ Verdicts \subseteq 1..Len(trace)
           /\ IsFiniteSet(Verdicts) /\ Cardinality(Verdicts) \in Nat
<1>1. Verdicts \subseteq 1..Len(trace) /\ Len(trace) \in Nat
  BY DEF Verdicts
<1>2. IsFiniteSet(1..Len(trace))
  BY <1>1, FS_Interval
<1> QED
  BY <1>1, <1>2, FS_Subset, FS_CardinalityType

\* One record more is one verdict more or none, and moves no place.
LEMMA VerdictsAppend ==
    ASSUME trace \in Seq(Records), NEW rec \in Records, trace' = Append(trace, rec)
    PROVE  /\ Verdicts' = IF rec.phase = "VERIFY" THEN Verdicts \cup {Len(trace) + 1}
                                                  ELSE Verdicts
           /\ Cardinality(Verdicts)' =
                  Cardinality(Verdicts) + IF rec.phase = "VERIFY" THEN 1 ELSE 0
           /\ \A place \in 1..Len(trace) : Position(place)' = Position(place)
<1>1. /\ Len(trace) \in Nat /\ Len(trace') = Len(trace) + 1
      /\ DOMAIN trace = 1..Len(trace) /\ DOMAIN trace' = 1..(Len(trace) + 1)
      /\ trace'[Len(trace) + 1] = rec
      /\ \A i \in 1..Len(trace) : trace'[i] = trace[i]
  OBVIOUS
<1>2. Verdicts' = IF rec.phase = "VERIFY" THEN Verdicts \cup {Len(trace) + 1} ELSE Verdicts
  BY <1>1 DEF Verdicts
<1>3. /\ Verdicts \subseteq 1..Len(trace)
      /\ IsFiniteSet(Verdicts) /\ Cardinality(Verdicts) \in Nat
  BY VerdictsFinite
<1>4. Cardinality(Verdicts)' = Cardinality(Verdicts) + IF rec.phase = "VERIFY" THEN 1 ELSE 0
  <2>1. Len(trace) + 1 \notin Verdicts
    BY <1>1, <1>3
  <2>2. Cardinality(Verdicts \cup {Len(trace) + 1}) = Cardinality(Verdicts) + 1
    BY <1>3, <2>1, FS_AddElement
  <2> QED
    BY <1>2, <1>3, <2>2
<1>5. ASSUME NEW place \in 1..Len(trace) PROVE Position(place)' = Position(place)
  <2>1. {i \in Verdicts' : i <= place} = {i \in Verdicts : i <= place}
    BY <1>1, <1>2
  <2> QED
    BY <2>1 DEF Position
<1> QED
  BY <1>2, <1>4, <1>5

\* The last record's place has the number of all verdicts, and no two verdicts
\* have the same.
LEMMA PositionLast ==
    ASSUME trace \in Seq(Records), Len(trace) \in Verdicts
    PROVE  Position(Len(trace)) = Cardinality(Verdicts)
<1>1. {i \in Verdicts : i <= Len(trace)} = Verdicts
  BY VerdictsFinite
<1> QED
  BY <1>1 DEF Position

LEMMA PositionsDiffer ==
    ASSUME trace \in Seq(Records), NEW p \in Verdicts, NEW q \in Verdicts, p < q
    PROVE  Position(p) < Position(q)
<1> DEFINE P == {i \in Verdicts : i <= p}
           Q == {i \in Verdicts : i <= q}
<1>1. /\ Verdicts \subseteq 1..Len(trace) /\ Len(trace) \in Nat
      /\ IsFiniteSet(Verdicts)
  BY VerdictsFinite
<1>2. P \cup {q} \subseteq Q /\ q \notin P
  <2>1. p \in Nat /\ q \in Nat /\ \A i \in Verdicts : i \in Nat
    BY <1>1
  <2>2. \A i \in P : i \in Verdicts /\ i <= q
    BY <2>1
  <2>3. q \in Q /\ q \notin P
    BY <2>1
  <2>4. P \subseteq Q
    BY <2>2
  <2> QED
    BY <2>3, <2>4
<1>3. IsFiniteSet(P) /\ IsFiniteSet(Q)
  BY <1>1, FS_Subset
<1> HIDE DEF P, Q
<1>4. Cardinality(P \cup {q}) = Cardinality(P) + 1 /\ IsFiniteSet(P \cup {q})
  BY <1>2, <1>3, FS_AddElement
<1>5. Cardinality(P \cup {q}) <= Cardinality(Q)
  BY <1>2, <1>3, FS_Subset
<1>6. Cardinality(P) \in Nat /\ Cardinality(Q) \in Nat
  BY <1>3, FS_CardinalityType
<1> QED
  BY <1>4, <1>5, <1>6 DEF Position, P, Q

\* A record keeps verdicts beside their code when it is of the loop, when it is
\* that of the verification under way, and when it is of a write.
LEMMA InPlaceAppend ==
    ASSUME InPlace, trace \in Seq(Records), NEW rec \in Records, trace' = Append(trace, rec),
           rec.phase = "VERIFY" /\ rec.category \notin Precheck =>
               pc = "verify" /\ rec.rtl = ws.rtl,
           pc' = "verify" => rec.phase = "EXECUTE" /\ rec.rtl = ws'.rtl
    PROVE  InPlace'
<1>1. /\ Len(trace) \in Nat /\ Len(trace') = Len(trace) + 1 /\ trace' # <<>>
      /\ DOMAIN trace = 1..Len(trace) /\ DOMAIN trace' = 1..(Len(trace) + 1)
      /\ trace'[Len(trace) + 1] = rec
      /\ \A i \in 1..Len(trace) : trace'[i] = trace[i]
  OBVIOUS
<1>2. ASSUME NEW i \in Verdicts', trace'[i].category \notin Precheck
      PROVE  /\ i - 1 \in DOMAIN trace' /\ trace'[i - 1].phase = "EXECUTE"
             /\ trace'[i - 1].rtl = trace'[i].rtl
  <2>1. i \in 1..(Len(trace) + 1) /\ trace'[i].phase = "VERIFY"
    BY <1>1 DEF Verdicts
  <2>2. CASE i = Len(trace) + 1
    <3>1. trace # <<>> /\ trace[Len(trace)].phase = "EXECUTE" /\ trace[Len(trace)].rtl = ws.rtl
          /\ rec.rtl = ws.rtl
      BY <1>1, <1>2, <2>1, <2>2 DEF InPlace
    <3>2. Len(trace) \in 1..Len(trace) /\ i - 1 = Len(trace)
      BY <1>1, <2>2, <3>1
    <3> QED
      BY <1>1, <2>2, <3>1, <3>2
  <2>3. CASE i # Len(trace) + 1
    <3>1. i \in 1..Len(trace) /\ i \in Verdicts /\ trace'[i] = trace[i]
      BY <1>1, <2>1, <2>3 DEF Verdicts
    <3>2. i - 1 \in 1..Len(trace) /\ trace[i - 1].phase = "EXECUTE" /\ trace[i - 1].rtl = trace[i].rtl
      BY <1>1, <1>2, <3>1 DEF InPlace
    <3> QED
      BY <1>1, <3>1, <3>2
  <2> QED
    BY <2>2, <2>3
<1>3. pc' = "verify" => /\ trace' # <<>>
                        /\ trace'[Len(trace')].phase = "EXECUTE"
                        /\ trace'[Len(trace')].rtl = ws'.rtl
  BY <1>1
<1> QED
  BY <1>2, <1>3 DEF InPlace

LEMMA InPlaceSame ==
    ASSUME InPlace, UNCHANGED trace, pc' # "verify"
    PROVE  InPlace'
BY DEF InPlace, Verdicts

(***************************************************************************)
(* Steps of the run.                                                       *)
(***************************************************************************)

\* A run that is clean has been so from the start.
LEMMA CleanBefore ==
    ASSUME TranscriptInv, Tracked, Clean',
           trace' = trace \/ \E rec \in Records : trace' = Append(trace, rec),
           calls' = calls \/ \E n \in Nat : calls' = Append(calls, n)
    PROVE  Clean
<1>1. trace \in Seq(Records) /\ calls \in Seq(Nat)
  BY DEF TranscriptInv, Observed, Tracked
<1>2. \A i \in DOMAIN trace : i \in DOMAIN trace' /\ trace'[i] = trace[i]
  BY <1>1
<1>3. \A t \in DOMAIN calls : t \in DOMAIN calls' /\ calls'[t] = calls[t]
  <2>1. ASSUME NEW n \in Nat, calls' = Append(calls, n)
        PROVE  \A t \in DOMAIN calls : t \in DOMAIN calls' /\ calls'[t] = calls[t]
    BY <1>1, <2>1
  <2> QED
    BY <2>1
<1> QED
  BY <1>2, <1>3 DEF Clean

\* The places of the verdicts stay what they are.
LEMMA PlacesStay ==
    ASSUME trace \in Seq(Records), NEW place \in Verdicts,
           trace' = trace \/ \E rec \in Records : trace' = Append(trace, rec)
    PROVE  place \in Verdicts' /\ Position(place)' = Position(place)
<1>1. CASE trace' = trace
  BY <1>1 DEF Verdicts, Position
<1>2. CASE \E rec \in Records : trace' = Append(trace, rec)
  <2>1. PICK rec \in Records : trace' = Append(trace, rec)
    BY <1>2
  <2>2. place \in 1..Len(trace)
    BY VerdictsFinite
  <2> QED
    BY <2>1, <2>2, VerdictsAppend
<1> QED
  BY <1>1, <1>2

\* Between two turns of a clean run each call has its attempt, and a call
\* that reports nothing would be told from one that does: the next call
\* reports the last verdict.
LEMMA CallReports ==
    ASSUME TranscriptInv, Tracked, pc = "repair", Clean',
           turn' = turn + 1, calls' = Append(calls, IF lost THEN Nothing ELSE Len(trace)),
           trace' = trace \/ \E rec \in Records : trace' = Append(trace, rec)
    PROVE  /\ Clean /\ ~lost
           /\ calls' \in Seq(Nat) /\ Len(calls') = turn'
           /\ \A t \in 1..turn' : calls'[t] \in Verdicts' /\ Position(calls[t])' = t
           /\ \A kept \in Nat : LET all == Extraction(trace, kept).attempts
                                IN  turn = Len(all) /\ Cardinality(Verdicts) = Len(all) + 1
<1>1. /\ trace \in Seq(Records) /\ calls \in Seq(Nat) /\ Len(calls) = turn /\ turn \in Nat
      /\ Len(trace) \in Nat /\ lost \in BOOLEAN
  BY DEF TranscriptInv, Observed, Tracked
<1> DEFINE n == IF lost THEN Nothing ELSE Len(trace)
<1>2. n \in Nat /\ calls' = Append(calls, n)
  BY <1>1 DEF Nothing
<1>3. /\ calls' \in Seq(Nat) /\ Len(calls') = turn + 1 /\ calls'[turn + 1] = n
      /\ \A t \in 1..turn : calls'[t] = calls[t]
      /\ DOMAIN calls' = 1..(turn + 1)
  BY <1>1, <1>2
<1>4. Clean
  BY <1>2, CleanBefore
<1>5. n # Nothing
  BY <1>1, <1>3 DEF Clean
<1>6. ~lost /\ n = Len(trace)
  BY <1>5
<1>7. Reports /\ Len(trace) \in Verdicts
  BY <1>4, <1>6 DEF Tracked, Reports
<1>8. ASSUME NEW kept \in Nat
      PROVE  /\ turn = Len(Extraction(trace, kept).attempts)
             /\ Cardinality(Verdicts) = Len(Extraction(trace, kept).attempts) + 1
  <2>1. Counted(Extraction(trace, kept).attempts)
    BY DEF Tracked
  <2>2. Unanswered = 0 /\ Opening = 1
    BY <1>6 DEF Unanswered, Unjudged, Opening, Early
  <2>3. Len(Extraction(trace, kept).attempts) \in Nat
    BY DEF TranscriptInv, Observed, Faithful, Covers
  <2> QED
    BY <1>4, <2>1, <2>2, <2>3 DEF Counted
<1>9. Position(Len(trace)) = turn + 1
  BY <1>1, <1>7, <1>8, PositionLast
<1>10. ASSUME NEW t \in 1..turn' PROVE calls'[t] \in Verdicts' /\ Position(calls[t])' = t
  <2>1. PICK place \in Nat : place = calls'[t]
    BY <1>3
  <2>2. place \in Verdicts /\ Position(place) = t
    <3>1. CASE t = turn + 1
      BY <1>3, <1>6, <1>7, <1>9, <2>1, <3>1
    <3>2. CASE t # turn + 1
      <4>1. t \in 1..turn
        BY <1>1, <3>2
      <4> QED
        BY <1>3, <1>7, <2>1, <4>1 DEF Reports
    <3> QED
      BY <3>1, <3>2
  <2>3. place \in Verdicts' /\ Position(place)' = t
    BY <1>1, <2>2, PlacesStay
  <2> QED
    BY <2>1, <2>3
<1> QED
  BY <1>3, <1>4, <1>6, <1>8, <1>10

\* The attempts extracted so far, as a value.
LEMMA AttemptsValue ==
    ASSUME TranscriptInv, Tracked, NEW kept \in Nat
    PROVE  \E all \in Seq(AttemptRecords) :
              /\ all = Extraction(trace, kept).attempts /\ Counted(all)
              /\ Len(all) \in Nat /\ (turn = 0 => all = <<>>)
<1>1. Extraction(trace, kept).attempts \in Seq(AttemptRecords)
      /\ (turn = 0 => Extraction(trace, kept).attempts = <<>>)
  BY DEF TranscriptInv, Observed, Faithful, Covers
<1>2. Counted(Extraction(trace, kept).attempts)
  BY DEF Tracked
<1> QED
  BY <1>1, <1>2

\* Nothing moves but the place in the loop.
LEMMA UnrecordedTracked ==
    ASSUME TranscriptInv, Tracked, Unrecorded, UNCHANGED <<calls, lost>>
    PROVE  Tracked'
<1>1. /\ pc # "done" /\ pc' # "verify" /\ (pc = "verify" => pc' = "done")
      /\ pc' = "done" \/ (pc \in Early /\ pc' \in Early) \/ (pc = "judge" /\ pc' = "repair")
  BY UnrecordedFacts DEF TranscriptInv
<1>2. UNCHANGED <<turn, trace>>
  BY DEF Unrecorded, observed
<1>3. InPlace'
  BY <1>1, <1>2, InPlaceSame DEF Tracked
<1>4. Verdicts' = Verdicts /\ Cardinality(Verdicts)' = Cardinality(Verdicts) /\ (Clean' <=> Clean)
  BY <1>2 DEF Verdicts, Clean
<1>5. Clean' => Reports'
  <2> SUFFICES ASSUME Clean' PROVE Reports'
    OBVIOUS
  <2>1. Reports
    BY <1>4 DEF Tracked
  <2>2. \A t \in 1..turn' : calls'[t] \in Verdicts' /\ Position(calls[t])' = t
    BY <1>2, <1>4, <2>1 DEF Reports, Position
  <2> QED
    BY <1>1, <1>2, <1>4, <2>1, <2>2 DEF Reports, Early
<1>6. ASSUME NEW kept \in Nat PROVE Counted(Extraction(trace, kept).attempts)'
  <2>1. PICK all \in Seq(AttemptRecords) :
            /\ all = Extraction(trace, kept).attempts /\ Counted(all) /\ Len(all) \in Nat
    BY AttemptsValue
  <2>2. pc' # "done" => Unanswered' = Unanswered /\ Opening' = Opening
    BY <1>1, <1>2 DEF Unanswered, Opening, Unjudged, Early
  <2>3. pc' \in {"repair", "judge"} => pc \in {"repair", "judge"}
    BY <1>1 DEF Early
  <2>4. Counted(all)'
    BY <1>1, <1>2, <1>4, <2>1, <2>2, <2>3 DEF Counted
  <2> QED
    BY <1>2, <2>1, <2>4
<1> QED
  BY <1>2, <1>3, <1>5, <1>6 DEF Tracked

\* The generation's code is there to be judged; no call has been made.
LEMMA GenerationTracked ==
    ASSUME TranscriptInv, Tracked, GenerationRecorded, UNCHANGED <<calls, lost>>
    PROVE  Tracked'
<1>1. PICK code \in Code : GenerationWritten(code) /\ trace' = Append(trace, Executed(code))
  BY DEF GenerationRecorded
<1>2. pc = "generate" /\ pc' = "verify" /\ UNCHANGED <<turn, answers, unwritten>>
  BY <1>1 DEF GenerationRecorded, GenerationWritten
<1>3. /\ turn = 0 /\ answers \in Nat /\ unwritten \in Nat /\ trace \in Seq(Records)
      /\ Len(calls) = 0 /\ ws'.rtl = code
  BY <1>1, <1>2 DEF TranscriptInv, Observed, Early, Tracked, GenerationWritten,
                    SafeInv, TypeInv, TypeOK, Contents
<1>4. PICK rec \in Records : /\ trace' = Append(trace, rec) /\ rec.turn = 0
                             /\ rec.phase = "EXECUTE" /\ rec.rtl = code
  <2>1. Executed(code) \in Records
    BY <1>2, <1>3, RecordType DEF Categories
  <2>2. /\ Executed(code).turn = 0 /\ Executed(code).phase = "EXECUTE"
        /\ Executed(code).rtl = code
    BY <1>2, <1>3 DEF Executed
  <2> QED
    BY <1>1, <2>1, <2>2
<1>5. InPlace'
  BY <1>2, <1>3, <1>4, InPlaceAppend DEF Tracked
<1>6. Verdicts' = Verdicts /\ Cardinality(Verdicts)' = Cardinality(Verdicts)
      /\ Cardinality(Verdicts) \in Nat
  BY <1>3, <1>4, VerdictsAppend, VerdictsFinite
<1>7. Clean' => Clean /\ Reports'
  <2> SUFFICES ASSUME Clean' PROVE Clean /\ Reports'
    OBVIOUS
  <2>1. Clean
    BY <1>4, CleanBefore
  <2>2. ~lost
    BY <1>2, <2>1 DEF Tracked, Reports
  <2> QED
    BY <1>2, <1>3, <2>1, <2>2 DEF Reports
<1>8. ASSUME NEW kept \in Nat PROVE Counted(Extraction(trace, kept).attempts)'
  <2>1. PICK all \in Seq(AttemptRecords) :
            /\ all = Extraction(trace, kept).attempts /\ Counted(all) /\ Len(all) \in Nat
    BY AttemptsValue
  <2>2. Extraction(trace', kept).attempts = all
    BY <1>3, <1>4, <2>1, EarlyRecord
  <2>3. Clean' => Unanswered' = Unanswered /\ Opening' = 0 /\ Opening = 0
    BY <1>2, <1>3 DEF Unanswered, Opening, Unjudged, Early
  <2>4. Counted(all)'
    BY <1>2, <1>3, <1>6, <1>7, <2>1, <2>3 DEF Counted
  <2> QED
    BY <2>2, <2>4
<1> QED
  BY <1>2, <1>5, <1>7, <1>8 DEF Tracked

\* A generation that failed leaves records without RTL: the run is not clean.
LEMMA RejectionTracked ==
    ASSUME TranscriptInv, Tracked, GenerationRejected, UNCHANGED <<calls, lost>>
    PROVE  Tracked'
<1> DEFINE failure == Judged("RESPONSE_PARSE_FAILURE", NoCode)
<1>1. /\ UNCHANGED <<turn, answers, unwritten>>
      /\ \/ GenerationUnparsed /\ trace' = trace \o (IF pc' = "repair" THEN <<failure, failure>>
                                                                    ELSE <<failure>>)
         \/ GenerationRaised /\ trace' = Append(trace, failure)
  BY DEF GenerationRejected
<1>2. pc = "generate" /\ pc' \in {"generate", "repair"}
  BY <1>1 DEF GenerationUnparsed, GenerationRaised, GenerationFailed
<1>3. turn = 0 /\ answers \in Nat /\ unwritten \in Nat /\ trace \in Seq(Records)
  BY <1>2 DEF TranscriptInv, Observed, Early
<1>4. PICK rec \in Records : /\ rec = failure /\ rec.turn = 0 /\ rec.phase = "VERIFY"
                             /\ rec.category \in Precheck /\ rec.rtl = NoCode
  <2>1. failure \in Records
    BY <1>1, <1>3, RecordType DEF Categories, Precheck
  <2>2. /\ failure.turn = 0 /\ failure.phase = "VERIFY" /\ failure.category \in Precheck
        /\ failure.rtl = NoCode
    BY <1>1, <1>3 DEF Judged, Precheck
  <2> QED
    BY <2>1, <2>2
<1> HIDE DEF failure
<1>5. PICK before \in Seq(Records) : /\ trace' = Append(before, rec)
                                     /\ before = trace \/ before = Append(trace, rec)
  <2>1. trace \o <<rec>> = Append(trace, rec)
    BY <1>3, <1>4
  <2>2. trace \o <<rec, rec>> = Append(Append(trace, rec), rec)
    BY <1>3, <1>4
  <2>3. Append(trace, rec) \in Seq(Records)
    BY <1>3
  <2> QED
    BY <1>1, <1>3, <1>4, <2>1, <2>2, <2>3
<1>6. ~Clean'
  <2>1. Len(before) + 1 \in DOMAIN trace' /\ trace'[Len(before) + 1] = rec
    BY <1>5
  <2> QED
    BY <1>4, <2>1 DEF Clean
<1>7. ASSUME NEW kept \in Nat PROVE Extraction(trace', kept).attempts = <<>>
  <2>1. Extraction(trace, kept).attempts = <<>>
    BY <1>3 DEF TranscriptInv, Observed, Faithful, Covers
  <2>2. Extraction(before, kept).attempts = <<>>
    BY <1>3, <1>4, <1>5, <2>1, EarlyRecord
  <2> QED
    BY <1>4, <1>5, <2>2, EarlyRecord
<1>8. PICK after \in Seq(Records) : after = trace' /\ Len(after) = Len(before) + 1
  BY <1>4, <1>5
<1>9. \A i \in 1..Len(after) : \/ i \in 1..Len(trace) /\ after[i] = trace[i]
                               \/ after[i] = rec /\ i > Len(trace)
  <2>1. /\ \A i \in 1..Len(before) : after[i] = before[i]
        /\ after[Len(before) + 1] = rec
    BY <1>5, <1>8
  <2>2. \A i \in 1..Len(before) : \/ i \in 1..Len(trace) /\ before[i] = trace[i]
                                  \/ before[i] = rec /\ i > Len(trace)
    BY <1>3, <1>4, <1>5
  <2>3. Len(before) >= Len(trace) /\ Len(before) \in Nat /\ Len(trace) \in Nat
    BY <1>3, <1>4, <1>5
  <2> QED
    BY <1>8, <2>1, <2>2, <2>3
<1>10. InPlace'
  <2>1. ASSUME NEW i \in Verdicts', trace'[i].category \notin Precheck
        PROVE  /\ i - 1 \in DOMAIN trace' /\ trace'[i - 1].phase = "EXECUTE"
               /\ trace'[i - 1].rtl = trace'[i].rtl
    <3>1. i \in 1..Len(after) /\ trace'[i] = after[i]
      BY <1>8 DEF Verdicts
    <3>2. i \in 1..Len(trace) /\ after[i] = trace[i] /\ i \in Verdicts
      BY <1>4, <1>8, <1>9, <2>1, <3>1 DEF Verdicts
    <3>3. i - 1 \in 1..Len(trace) /\ trace[i - 1].phase = "EXECUTE" /\ trace[i - 1].rtl = trace[i].rtl
      BY <1>3, <1>8, <2>1, <3>1, <3>2 DEF Tracked, InPlace
    <3>4. i - 1 \in 1..Len(after)
      BY <3>1, <3>3
    <3>5. after[i - 1] = trace[i - 1]
      BY <1>3, <1>9, <3>3, <3>4
    <3> QED
      BY <1>8, <3>2, <3>3, <3>4, <3>5
  <2> QED
    BY <1>2, <2>1 DEF InPlace
<1>11. Cardinality(Verdicts)' \in Nat /\ Cardinality(Verdicts)' > 0
  <2>1. Verdicts' \subseteq 1..Len(after) /\ Len(after) \in Verdicts' /\ Len(after) \in Nat
    <3>1. after[Len(after)] = rec /\ Len(after) \in 1..Len(after)
      BY <1>5, <1>8
    <3> QED
      BY <1>4, <1>8, <3>1 DEF Verdicts
  <2>2. IsFiniteSet(Verdicts')
    <3>1. IsFiniteSet(1..Len(after))
      BY <2>1, FS_Interval
    <3> QED
      BY <2>1, <3>1, FS_Subset
  <2> QED
    BY <2>1, <2>2, FS_CardinalityType, FS_EmptySet
<1>12. ASSUME NEW kept \in Nat PROVE Counted(Extraction(trace, kept).attempts)'
  <2>1. Len(<<>>) = 0
    OBVIOUS
  <2>2. Counted(<<>>)'
    BY <1>6, <1>11, <2>1 DEF Counted
  <2> QED
    BY <1>7, <2>2
<1> QED
  BY <1>1, <1>6, <1>10, <1>12 DEF Tracked

\* A turn that leaves no record.
LEMMA LossTracked ==
    ASSUME TranscriptInv, Tracked, pc = "repair", turn' = turn + 1, UNCHANGED trace,
           pc' \in {"repair", "done"}, lost' = TRUE,
           calls' = Append(calls, IF lost THEN Nothing ELSE Len(trace))
    PROVE  Tracked'
<1>1. /\ trace \in Seq(Records) /\ turn \in Nat /\ calls \in Seq(Nat) /\ Len(calls) = turn
      /\ lost \in BOOLEAN
  BY DEF TranscriptInv, Observed, Tracked
<1>2. calls' \in Seq(Nat) /\ Len(calls') = turn'
  <2>1. (IF lost THEN Nothing ELSE Len(trace)) \in Nat
    BY <1>1 DEF Nothing
  <2> QED
    BY <1>1, <2>1
<1>3. InPlace'
  BY InPlaceSame DEF Tracked
<1>4. Verdicts' = Verdicts /\ Cardinality(Verdicts)' = Cardinality(Verdicts)
  BY DEF Verdicts
<1>5. Clean' => /\ Clean /\ ~lost
                /\ \A t \in 1..turn' : calls'[t] \in Verdicts' /\ Position(calls[t])' = t
  BY CallReports
<1>6. Clean' => Reports'
  BY <1>5 DEF Reports
<1>7. ASSUME NEW kept \in Nat PROVE Counted(Extraction(trace, kept).attempts)'
  <2>1. PICK all \in Seq(AttemptRecords) :
            /\ all = Extraction(trace, kept).attempts /\ Counted(all) /\ Len(all) \in Nat
    BY AttemptsValue
  <2>2. Unanswered' = 1 /\ Opening' = 1
    BY <1>1 DEF Unanswered, Opening, Early
  <2>3. Clean' => turn = Len(all) /\ Cardinality(Verdicts) = Len(all) + 1
    BY <2>1, CallReports
  <2>4. Counted(all)'
    BY <1>1, <1>4, <1>5, <2>1, <2>2, <2>3 DEF Counted
  <2> QED
    BY <2>1, <2>4
<1> QED
  BY <1>2, <1>3, <1>6, <1>7 DEF Tracked

\* A turn whose answer is turned down: the call and the attempt come together.
LEMMA TurnDownTracked ==
    ASSUME TranscriptInv, Tracked, AnswerTurnedDown, lost' = FALSE,
           calls' = Append(calls, IF lost THEN Nothing ELSE Len(trace))
    PROVE  Tracked'
<1>1. PICK category \in Precheck, code \in Code \cup {NoCode} :
          /\ AnswerRejected(category, code)
          /\ \/ RepairUnparsed
             \/ code \in Code /\ (\/ RepairSkipped(code)
                                  \/ RepairRejected(code)
                                  \/ RepairTooLarge(code))
  BY DEF AnswerTurnedDown, Precheck
<1>2. /\ pc = "repair" /\ turn' = turn + 1 /\ answers' = answers + 1
      /\ trace' = Append(trace, Judged(category, code)) /\ UNCHANGED unwritten
  BY <1>1 DEF AnswerRejected, Answered, RepairTurn
<1>3. pc' \in {"repair", "done"}
  BY <1>1, TurnFacts DEF TranscriptInv
<1>4. /\ trace \in Seq(Records) /\ turn \in Nat /\ calls \in Seq(Nat) /\ Len(calls) = turn
      /\ lost \in BOOLEAN /\ answers \in Nat /\ unwritten \in Nat
  BY DEF TranscriptInv, Observed, Tracked
<1>5. PICK rec \in Records : /\ trace' = Append(trace, rec) /\ rec.phase = "VERIFY"
                             /\ rec.turn = turn' /\ rec.category \in Precheck
  <2>1. category \in Categories /\ turn' \in Nat /\ answers' \in Nat
    BY <1>2, <1>4 DEF Categories
  <2>2. Judged(category, code) \in Records
    BY <1>4, <2>1, RecordType
  <2> QED
    BY <1>2, <2>2 DEF Judged
<1>6. calls' \in Seq(Nat) /\ Len(calls') = turn'
  <2>1. (IF lost THEN Nothing ELSE Len(trace)) \in Nat
    BY <1>4 DEF Nothing
  <2> QED
    BY <1>2, <1>4, <2>1
<1>7. InPlace'
  BY <1>3, <1>4, <1>5, InPlaceAppend DEF Tracked
<1>8. /\ Verdicts' = Verdicts \cup {Len(trace) + 1}
      /\ Cardinality(Verdicts)' = Cardinality(Verdicts) + 1 /\ Cardinality(Verdicts) \in Nat
  BY <1>4, <1>5, VerdictsAppend, VerdictsFinite
<1>9. Clean' => /\ Clean /\ ~lost
                /\ \A t \in 1..turn' : calls'[t] \in Verdicts' /\ Position(calls[t])' = t
  BY <1>2, <1>5, CallReports
<1>10. Clean' => Reports'
  <2>1. Len(trace') \in Verdicts'
    BY <1>4, <1>5, <1>8
  <2> QED
    BY <1>9, <2>1 DEF Reports
<1>11. ASSUME NEW kept \in Nat PROVE Counted(Extraction(trace, kept).attempts)'
  <2>1. PICK all \in Seq(AttemptRecords) :
            /\ all = Extraction(trace, kept).attempts /\ Counted(all) /\ Len(all) \in Nat
    BY AttemptsValue
  <2>2. PICK new : new = Attempt(Extraction(trace, kept), rec, kept)
    OBVIOUS
  <2>3. Extraction(trace', kept).attempts = Append(all, new) /\ new.turn = turn'
    BY <1>2, <1>4, <1>5, <2>1, <2>2, LateRecord DEF Attempt
  <2>4. PICK longer : longer = Append(all, new)
    OBVIOUS
  <2>5. /\ Len(longer) = Len(all) + 1 /\ longer[Len(all) + 1] = new
        /\ \A k \in 1..Len(all) : longer[k] = all[k]
    BY <2>1, <2>4
  <2>6. pc' # "done" => Unanswered' = 0 /\ Opening' = 1
    BY <1>2, <1>3, <1>4 DEF Unanswered, Unjudged, Opening, Early
  <2>7. Clean' => turn = Len(all) /\ Cardinality(Verdicts) = Len(all) + 1
    BY <1>2, <1>5, <2>1, CallReports
  <2>8. Clean' => \A k \in 1..Len(longer) : longer[k].turn = k
    <3> SUFFICES ASSUME Clean', NEW k \in 1..Len(longer) PROVE longer[k].turn = k
      OBVIOUS
    <3>1. CASE k = Len(all) + 1
      BY <1>2, <2>3, <2>5, <2>7, <3>1
    <3>2. CASE k # Len(all) + 1
      <4>1. k \in 1..Len(all)
        BY <2>1, <2>5, <3>2
      <4> QED
        BY <1>9, <2>1, <2>5, <4>1 DEF Counted
    <3> QED
      BY <3>1, <3>2
  <2>9. Counted(longer)'
    <3>1. Len(all) < Cardinality(Verdicts)
      BY <1>2, <2>1 DEF Counted
    <3> QED
      BY <1>2, <1>4, <1>8, <2>1, <2>5, <2>6, <2>7, <2>8, <3>1 DEF Counted
  <2> QED
    BY <2>3, <2>4, <2>9
<1> QED
  BY <1>6, <1>7, <1>10, <1>11 DEF Tracked

\* A turn whose answer is written: its attempt comes with the verdict.
LEMMA WriteTracked ==
    ASSUME TranscriptInv, Tracked, AnswerWritten, lost' = FALSE,
           calls' = Append(calls, IF lost THEN Nothing ELSE Len(trace))
    PROVE  Tracked'
<1>1. PICK code \in Code : /\ Answered("NONE") /\ RepairWritten(code) /\ UNCHANGED unwritten
                           /\ trace' = Append(trace, Executed(code))
  BY DEF AnswerWritten
<1>2. /\ pc = "repair" /\ turn' = turn + 1 /\ answers' = answers + 1 /\ pc' = "verify"
  BY <1>1 DEF Answered, RepairTurn, RepairWritten
<1>3. /\ trace \in Seq(Records) /\ turn \in Nat /\ calls \in Seq(Nat) /\ Len(calls) = turn
      /\ lost \in BOOLEAN /\ answers \in Nat /\ unwritten \in Nat
  BY DEF TranscriptInv, Observed, Tracked
<1>4. ws'.rtl = code
  BY <1>1 DEF RepairWritten, TranscriptInv, SafeInv, TypeInv, TypeOK, Contents
<1>5. PICK rec \in Records : /\ trace' = Append(trace, rec) /\ rec.phase = "EXECUTE"
                             /\ rec.turn = turn' /\ rec.rtl = code
  <2>1. turn' \in Nat /\ answers' \in Nat /\ code \in Code \cup {NoCode} /\ "NONE" \in Categories
    BY <1>2, <1>3 DEF Categories
  <2>2. Executed(code) \in Records
    BY <1>3, <2>1, RecordType
  <2> QED
    BY <1>1, <2>2 DEF Executed
<1>6. calls' \in Seq(Nat) /\ Len(calls') = turn'
  <2>1. (IF lost THEN Nothing ELSE Len(trace)) \in Nat
    BY <1>3 DEF Nothing
  <2> QED
    BY <1>2, <1>3, <2>1
<1>7. InPlace'
  BY <1>2, <1>3, <1>4, <1>5, InPlaceAppend DEF Tracked
<1>8. Verdicts' = Verdicts /\ Cardinality(Verdicts)' = Cardinality(Verdicts)
      /\ Cardinality(Verdicts) \in Nat
  BY <1>3, <1>5, VerdictsAppend, VerdictsFinite
<1>9. Clean' => /\ Clean /\ ~lost
                /\ \A t \in 1..turn' : calls'[t] \in Verdicts' /\ Position(calls[t])' = t
  BY <1>2, <1>5, CallReports
<1>10. Clean' => Reports'
  BY <1>2, <1>9 DEF Reports
<1>11. ASSUME NEW kept \in Nat PROVE Counted(Extraction(trace, kept).attempts)'
  <2>1. PICK all \in Seq(AttemptRecords) :
            /\ all = Extraction(trace, kept).attempts /\ Counted(all) /\ Len(all) \in Nat
    BY AttemptsValue
  <2>2. Extraction(trace', kept).attempts = all
    BY <1>2, <1>3, <1>5, <2>1, WrittenRecord
  <2>3. Unanswered' = 1 /\ Opening' = 1
    BY <1>2, <1>3 DEF Unanswered, Unjudged, Opening, Early
  <2>4. Clean' => turn = Len(all) /\ Cardinality(Verdicts) = Len(all) + 1
    BY <1>2, <1>5, <2>1, CallReports
  <2>5. Counted(all)'
    BY <1>2, <1>3, <1>8, <1>9, <2>1, <2>3, <2>4 DEF Counted
  <2> QED
    BY <2>2, <2>5
<1> QED
  BY <1>6, <1>7, <1>10, <1>11 DEF Tracked

\* The verdict on the generation opens the count; that on a repair brings the
\* attempt its call was waiting for.
LEMMA VerdictTracked ==
    ASSUME TranscriptInv, Tracked, VerdictRecorded, UNCHANGED <<calls, lost>>
    PROVE  Tracked'
<1>1. /\ pc = "verify" /\ pc' = "judge" /\ UNCHANGED <<turn, answers, unwritten, ws>>
      /\ verdict' \in Reported \cup {"PASS"}
      /\ trace' = Append(trace, Judged(verdict', ws.rtl))
  BY DEF VerdictRecorded, Verify
<1>2. /\ trace \in Seq(Records) /\ turn \in Nat /\ calls \in Seq(Nat) /\ Len(calls) = turn
      /\ lost \in BOOLEAN /\ answers \in Nat /\ unwritten \in Nat
      /\ ws.rtl \in Code \cup {NoCode} /\ Len(trace) \in Nat
  BY DEF TranscriptInv, Observed, Tracked, SafeInv, TypeInv, TypeOK, Contents
<1>3. verdict' \in Categories
  <2>1. verdict' \in Category \cup {"PASS"}
    BY <1>1, PipelineAssumption DEF PipelineAssumption
  <2> QED
    BY <2>1 DEF Categories
<1>4. PICK category \in Categories, code \in Code \cup {NoCode} : category = verdict' /\ code = ws.rtl
  BY <1>2, <1>3
<1>5. PICK rec \in Records : /\ trace' = Append(trace, rec) /\ rec.phase = "VERIFY"
                             /\ rec.turn = turn /\ rec.rtl = ws.rtl
  <2>1. Judged(category, code) \in Records
    BY <1>1, <1>2, RecordType
  <2> QED
    BY <1>1, <1>4, <2>1 DEF Judged
<1>6. InPlace'
  BY <1>1, <1>2, <1>5, InPlaceAppend DEF Tracked
<1>7. /\ Verdicts' = Verdicts \cup {Len(trace) + 1}
      /\ Cardinality(Verdicts)' = Cardinality(Verdicts) + 1 /\ Cardinality(Verdicts) \in Nat
  BY <1>2, <1>5, VerdictsAppend, VerdictsFinite
<1>8. Clean' => Clean /\ Reports'
  <2> SUFFICES ASSUME Clean' PROVE Clean /\ Reports'
    OBVIOUS
  <2>1. Clean
    BY <1>5, CleanBefore
  <2>2. Reports /\ ~lost
    BY <1>1, <2>1 DEF Tracked, Reports
  <2>3. ASSUME NEW t \in 1..turn' PROVE calls'[t] \in Verdicts' /\ Position(calls[t])' = t
    <3>1. PICK place \in Verdicts : place = calls[t] /\ Position(place) = t
      BY <1>1, <2>2, <2>3 DEF Reports
    <3>2. place \in Verdicts' /\ Position(place)' = t
      BY <1>2, <1>5, <3>1, PlacesStay
    <3> QED
      BY <3>1, <3>2
  <2>4. Len(trace') \in Verdicts'
    BY <1>2, <1>5, <1>7
  <2> QED
    BY <2>1, <2>2, <2>3, <2>4 DEF Reports
<1>9. ASSUME NEW kept \in Nat PROVE Counted(Extraction(trace, kept).attempts)'
  <2>1. PICK all \in Seq(AttemptRecords) :
            /\ all = Extraction(trace, kept).attempts /\ Counted(all)
            /\ Len(all) \in Nat /\ (turn = 0 => all = <<>>)
    BY AttemptsValue
  <2>2. Clean' => Unanswered' = 0 /\ Opening' = 1
    BY <1>1, <1>8 DEF Unanswered, Opening, Unjudged, Early, Tracked, Reports
  <2>3. CASE turn = 0
    <3>1. Extraction(trace', kept).attempts = all
      BY <1>2, <1>5, <2>1, <2>3, EarlyRecord
    <3>2. Len(all) = 0 /\ (Clean' => Cardinality(Verdicts) = 0)
      BY <1>1, <1>8, <2>1, <2>3 DEF Counted, Opening
    <3>3. Counted(all)'
      BY <1>1, <1>2, <1>7, <1>8, <2>2, <2>3, <3>2 DEF Counted
    <3> QED
      BY <3>1, <3>3
  <2>4. CASE turn # 0
    <3>1. PICK new : new = Attempt(Extraction(trace, kept), rec, kept)
      OBVIOUS
    <3>2. Extraction(trace', kept).attempts = Append(all, new) /\ new.turn = turn
      BY <1>2, <1>5, <2>1, <2>4, <3>1, LateRecord DEF Attempt
    <3>3. PICK longer : longer = Append(all, new)
      OBVIOUS
    <3>4. /\ Len(longer) = Len(all) + 1 /\ longer[Len(all) + 1] = new
          /\ \A k \in 1..Len(all) : longer[k] = all[k]
      BY <2>1, <3>3
    <3>5. Clean' => turn = Len(all) + 1 /\ Cardinality(Verdicts) = Len(all) + 1
      <4>1. Unanswered = 1 /\ Opening = 1
        BY <1>1, <1>2, <2>4 DEF Unanswered, Unjudged, Opening, Early
      <4> QED
        BY <1>1, <1>8, <2>1, <4>1 DEF Counted
    <3>6. Clean' => \A k \in 1..Len(longer) : longer[k].turn = k
      <4> SUFFICES ASSUME Clean', NEW k \in 1..Len(longer) PROVE longer[k].turn = k
        OBVIOUS
      <4>1. CASE k = Len(all) + 1
        BY <3>2, <3>4, <3>5, <4>1
      <4>2. CASE k # Len(all) + 1
        <5>1. k \in 1..Len(all)
          BY <2>1, <3>4, <4>2
        <5> QED
          BY <1>8, <2>1, <3>4, <5>1 DEF Counted
      <4> QED
        BY <4>1, <4>2
    <3>7. Len(all) < Cardinality(Verdicts)
      BY <1>2, <2>1, <2>4 DEF Counted
    <3>8. Counted(longer)'
      BY <1>1, <1>2, <1>7, <2>1, <2>2, <3>4, <3>5, <3>6, <3>7 DEF Counted
    <3> QED
      BY <3>2, <3>3, <3>8
  <2> QED
    BY <2>3, <2>4
<1> QED
  BY <1>1, <1>2, <1>6, <1>8, <1>9 DEF Tracked

\* What a step of the run does to the calls on record.
LEMMA RunStepTracked ==
    ASSUME RunInv, RunStep
    PROVE  RunInv'
<1>1. TranscriptInv'
  BY TranscriptStep DEF RunInv, RunStep
<1>2. /\ turn \in Nat /\ trace \in Seq(Records)
  BY DEF RunInv, TranscriptInv, Observed
<1>3. turn' = turn => UNCHANGED <<calls, lost>>
  BY <1>2 DEF RunStep
<1>4. turn' = turn + 1 => /\ calls' = Append(calls, IF lost THEN Nothing ELSE Len(trace))
                          /\ lost' = (trace' = trace)
  BY <1>2 DEF RunStep
<1>5. CASE Unrecorded
  BY <1>1, <1>3, <1>5, UnrecordedTracked DEF RunInv, Unrecorded, observed
<1>6. CASE GenerationRecorded
  BY <1>1, <1>3, <1>6, GenerationTracked DEF RunInv, GenerationRecorded
<1>7. CASE GenerationRejected
  BY <1>1, <1>3, <1>7, RejectionTracked DEF RunInv, GenerationRejected
<1>8. CASE VerdictRecorded
  BY <1>1, <1>3, <1>8, VerdictTracked DEF RunInv, VerdictRecorded
<1>9. CASE CallFailed
  <2>1. pc = "repair" /\ turn' = turn + 1 /\ UNCHANGED trace
    BY <1>9 DEF CallFailed, RepairTurn
  <2>2. pc' \in {"repair", "done"}
    BY <1>9, TurnFacts DEF CallFailed, RunInv, TranscriptInv
  <2> QED
    BY <1>1, <1>4, <2>1, <2>2, LossTracked DEF RunInv
<1>10. CASE AnswerLost
  <2>1. pc = "repair" /\ turn' = turn + 1 /\ UNCHANGED trace
    BY <1>10 DEF AnswerLost, Answered, RepairTurn
  <2>2. pc' \in {"repair", "done"}
    BY <1>10, TurnFacts DEF AnswerLost, RunInv, TranscriptInv
  <2> QED
    BY <1>1, <1>4, <2>1, <2>2, LossTracked DEF RunInv
<1>11. ASSUME NEW rec, trace' = Append(trace, rec) PROVE trace' # trace
  <2>1. Len(trace') = Len(trace) + 1 /\ Len(trace) \in Nat
    BY <1>2, <1>11
  <2> QED
    BY <2>1
<1>12. CASE AnswerTurnedDown
  <2>1. turn' = turn + 1 /\ \E rec : trace' = Append(trace, rec)
    BY <1>12 DEF AnswerTurnedDown, AnswerRejected, Answered, RepairTurn
  <2>2. lost' = FALSE
    BY <1>4, <1>11, <2>1
  <2> QED
    BY <1>1, <1>4, <1>12, <2>1, <2>2, TurnDownTracked DEF RunInv
<1>13. CASE AnswerWritten
  <2>1. turn' = turn + 1 /\ \E rec : trace' = Append(trace, rec)
    BY <1>13 DEF AnswerWritten, Answered, RepairTurn
  <2>2. lost' = FALSE
    BY <1>4, <1>11, <2>1
  <2> QED
    BY <1>1, <1>4, <1>13, <2>1, <2>2, WriteTracked DEF RunInv
<1> QED
  BY <1>5, <1>6, <1>7, <1>8, <1>9, <1>10, <1>12, <1>13 DEF RunStep, TranscriptNext

-----------------------------------------------------------------------------
(***************************************************************************)
(* What the miner makes of the run's own transcript.                       *)
(***************************************************************************)

\* One guidance for each attempt, and none of a run that raised.
LEMMA QueueFacts ==
    ASSUME RunInv, NEW task, NEW queue, queue = OwnTranscript(task).guidance
    PROVE  /\ Len(queue) \in Nat
           /\ Len(queue) > 0 => Returned /\ Len(queue) = Len(Attempts)
           /\ \A k \in 1..Len(queue) : queue[k] = calls[Attempts[k].turn]
<1>1. CASE ~Returned
  <2>1. queue = <<>> /\ Len(<<>>) = 0
    BY <1>1 DEF OwnTranscript
  <2> QED
    BY <2>1
<1>2. CASE Returned
  <2>1. PICK all \in Seq(AttemptRecords) : all = Attempts
    BY AttemptFacts DEF RunInv
  <2>2. queue = [i \in DOMAIN all |-> calls[all[i].turn]]
    BY <1>2, <2>1 DEF OwnTranscript
  <2>3. DOMAIN all = 1..Len(all) /\ Len(all) \in Nat
    OBVIOUS
  <2> DEFINE values == {calls[all[i].turn] : i \in 1..Len(all)}
  <2>4. queue \in Seq(values) /\ Len(queue) = Len(all)
    BY <2>2, <2>3
  <2> HIDE DEF values
  <2> QED
    BY <1>2, <2>1, <2>2, <2>3, <2>4
<1> QED
  BY <1>1, <1>2

\* The queue is over before the last verdict: it never reaches a passing turn.
LEMMA NoPassingTurn ==
    ASSUME RunInv, NEW task, NEW queue, queue = OwnTranscript(task).guidance
    PROVE  SftRows(queue) = {}
<1> SUFFICES ASSUME NEW place \in Usable(queue), \A j \in Verdicts : j <= place
             PROVE  FALSE
  BY DEF SftRows
<1>1. trace \in Seq(Records) /\ answers \in Nat /\ turn \in Nat
  BY DEF RunInv, TranscriptInv, Observed
<1>2. place \in Verdicts /\ Popped(queue, Position(place)) # None
  BY DEF Usable
<1>3. {i \in Verdicts : i <= place} = Verdicts
  OBVIOUS
<1>4. Position(place) = Cardinality(Verdicts)
  BY <1>3 DEF Position
<1>5. Cardinality(Verdicts) \in Nat /\ Cardinality(Verdicts) > 0
  BY <1>1, <1>2, VerdictsFinite, FS_EmptySet
<1>6. Cardinality(Verdicts) <= Len(queue)
  BY <1>2, <1>4 DEF Popped
<1>7. Len(queue) = Len(Attempts) /\ Len(queue) \in Nat
  BY <1>5, <1>6, QueueFacts
<1>8. Counted(Attempts) /\ (turn = 0 => Attempts = <<>>)
  BY <1>1 DEF RunInv, Tracked, Attempts, Extract, TranscriptInv, Observed, Faithful, Covers
<1>9. Len(<<>>) = 0
  OBVIOUS
<1> QED
  BY <1>1, <1>5, <1>6, <1>7, <1>8, <1>9 DEF Counted

\* A verdict of the verifier is paired with the RTL it judged.
LEMMA CandidateInPlace ==
    ASSUME RunInv, NEW place \in Verdicts, trace[place].category \notin Precheck
    PROVE  Candidate(place) = trace[place].rtl
<1>1. trace \in Seq(Records) /\ InPlace
  BY DEF RunInv, TranscriptInv, Observed, Tracked
<1>2. place \in 1..Len(trace) /\ Len(trace) \in Nat /\ trace[place].phase = "VERIFY"
  BY <1>1 DEF Verdicts
<1>3. place - 1 \in 1..Len(trace) /\ trace[place - 1].phase = "EXECUTE"
      /\ trace[place - 1].rtl = trace[place].rtl
  BY <1>1 DEF InPlace
<1> DEFINE written == {i \in 1..place : trace[i].phase = "EXECUTE"}
<1>4. place - 1 \in written /\ \A i \in written : i <= place - 1 /\ i \in Nat
  BY <1>2, <1>3
<1> HIDE DEF written
<1>5. Max(written) = place - 1
  <2>1. \A i \in written : (\A j \in written : i >= j) => i = place - 1
    BY <1>2, <1>4
  <2> QED
    BY <1>2, <1>4, <2>1 DEF Max
<1>6. written # {}
  BY <1>4
<1> QED
  BY <1>3, <1>5, <1>6 DEF Candidate, written

\* The guidance of a clean run is the one made from the failure it is paired with.
LEMMA GuidanceInPlace ==
    ASSUME RunInv, Clean, NEW task, NEW queue, queue = OwnTranscript(task).guidance,
           NEW place \in Usable(queue)
    PROVE  Popped(queue, Position(place)) = place
<1>1. /\ trace \in Seq(Records) /\ answers \in Nat /\ turn \in Nat
      /\ calls \in Seq(Nat) /\ Len(calls) = turn
  BY DEF RunInv, TranscriptInv, Observed, Tracked
<1>2. place \in Verdicts /\ Popped(queue, Position(place)) # None
  BY DEF Usable
<1>3. Verdicts \subseteq 1..Len(trace) /\ IsFiniteSet(Verdicts) /\ Len(trace) \in Nat
  BY <1>1, VerdictsFinite
<1>4. PICK k \in Nat : k = Position(place) /\ k > 0
  <2> DEFINE before == {i \in Verdicts : i <= place}
  <2>1. place \in before /\ IsFiniteSet(before)
    BY <1>2, <1>3, FS_Subset
  <2>2. Position(place) = Cardinality(before)
    BY DEF Position
  <2> HIDE DEF before
  <2>3. Cardinality(before) \in Nat /\ Cardinality(before) # 0
    BY <2>1, FS_CardinalityType, FS_EmptySet
  <2> QED
    BY <2>2, <2>3
<1>5. k <= Len(queue) /\ Popped(queue, k) = queue[k]
  BY <1>2, <1>4 DEF Popped
<1>6. Len(queue) = Len(Attempts) /\ queue[k] = calls[Attempts[k].turn]
  BY <1>4, <1>5, QueueFacts
<1>7. Counted(Attempts) /\ Reports
  BY <1>1 DEF RunInv, Tracked, Attempts, Extract
<1>8. Attempts[k].turn = k /\ k \in 1..turn
  BY <1>1, <1>4, <1>5, <1>6, <1>7 DEF Counted
<1>9. PICK reported \in Verdicts : reported = calls[k] /\ Position(reported) = k
  BY <1>7, <1>8 DEF Reports
<1>10. reported = place
  BY <1>1, <1>2, <1>3, <1>4, <1>9, PositionsDiffer
<1> QED
  BY <1>4, <1>5, <1>6, <1>8, <1>9, <1>10

\* A transcript that is not the other one is the run's own.
LEMMA MineKeeps ==
    ASSUME RunInv, Mine
    PROVE  PairsShowTheirFailure' /\ OnlyMixUpsContaminate'
<1>1. PICK task \in Kinds, other \in OtherTranscripts \cup {None} :
          /\ Allowed(Sibling(task, other))
          /\ mined' = [task |-> task, foreign |-> Sibling(task, other) = other,
                       dpo |-> DpoRows(Sibling(task, other).guidance),
                       sft |-> SftRows(Sibling(task, other).guidance)]
  BY DEF Mine
<1>2. UNCHANGED <<trace, calls>>
  BY DEF Mine, transcriptVars, observed
<1>3. PICK queue : queue = Sibling(task, other).guidance
  OBVIOUS
<1>4. mined'.task = task /\ mined'.dpo = DpoRows(queue) /\ mined'.sft = SftRows(queue)
  BY <1>1, <1>3
<1>5. ~mined'.foreign => Sibling(task, other) = OwnTranscript(task)
  <2>1. mined'.foreign = (Sibling(task, other) = other)
    BY <1>1
  <2>2. Sibling(task, other) # None
    BY <1>1 DEF Allowed
  <2> QED
    BY <2>1, <2>2 DEF Sibling
<1>6. ~mined'.foreign => task = "dev" /\ queue = OwnTranscript(task).guidance
  BY <1>1, <1>3, <1>5 DEF Allowed, OwnTranscript
<1>7. OnlyMixUpsContaminate'
  BY <1>4, <1>6, NoPassingTurn DEF OnlyMixUpsContaminate
<1>8. ASSUME ~mined'.foreign, NEW row \in DpoRows(queue)
      PROVE  /\ Clean => row.guidance = row.place
             /\ row.category \notin Precheck => row.candidate = trace[row.place].rtl
  <2>1. PICK place \in Usable(queue) : row = Turn(queue, place)
    BY DEF DpoRows
  <2>2. /\ row.place = place /\ row.guidance = Popped(queue, Position(place))
        /\ row.category = trace[place].category /\ row.candidate = Candidate(place)
    BY <2>1 DEF Turn
  <2>3. place \in Verdicts
    BY DEF Usable
  <2> QED
    BY <1>6, <1>8, <2>2, <2>3, GuidanceInPlace, CandidateInPlace
<1>9. PairsShowTheirFailure'
  BY <1>2, <1>4, <1>8 DEF PairsShowTheirFailure, Clean
<1> QED
  BY <1>7, <1>9

LEMMA MinerStep ==
    ASSUME MinerInv, [MinerNext]_minerVars
    PROVE  MinerInv'
<1>1. CASE RunStep
  <2>1. RunInv'
    BY <1>1, RunStepTracked DEF MinerInv
  <2>2. mined' = None
    BY <1>1 DEF RunStep
  <2> QED
    BY <2>1, <2>2 DEF MinerInv, PairsShowTheirFailure, OnlyMixUpsContaminate
<1>2. ASSUME UNCHANGED <<transcriptVars, calls, lost>> PROVE RunInv'
  <2>1. TranscriptInv'
    BY <1>2, TranscriptStep DEF MinerInv, RunInv
  <2>2. UNCHANGED <<trace, turn, pc, ws, calls, lost>>
    BY <1>2 DEF transcriptVars, observed, vars
  <2>3. UNCHANGED Verdicts /\ UNCHANGED Clean /\ UNCHANGED Unanswered /\ UNCHANGED Opening
    BY <2>2 DEF Verdicts, Clean, Unanswered, Unjudged, Opening, Early
  <2>4. InPlace' /\ (Clean' => Reports')
    BY <2>2, <2>3 DEF MinerInv, RunInv, Tracked, InPlace, Reports, Position
  <2>5. ASSUME NEW kept \in Nat PROVE Counted(Extraction(trace, kept).attempts)'
    <3>1. PICK all \in Seq(AttemptRecords) :
              all = Extraction(trace, kept).attempts /\ Counted(all)
      BY AttemptsValue DEF MinerInv, RunInv
    <3>2. Counted(all)'
      BY <2>2, <2>3, <3>1 DEF Counted
    <3> QED
      BY <2>2, <3>1, <3>2
  <2>6. calls' \in Seq(Nat) /\ Len(calls') = turn' /\ lost' \in BOOLEAN
    BY <2>2 DEF MinerInv, RunInv, Tracked
  <2> QED
    BY <2>1, <2>4, <2>5, <2>6 DEF RunInv, Tracked
<1>3. CASE Persist
  <2>1. RunInv' /\ mined' = None
    BY <1>2, <1>3 DEF Persist
  <2> QED
    BY <2>1 DEF MinerInv, PairsShowTheirFailure, OnlyMixUpsContaminate
<1>4. CASE Mine
  BY <1>2, <1>4, MineKeeps DEF MinerInv, Mine
<1>5. CASE UNCHANGED minerVars
  <2>1. UNCHANGED <<trace, calls, mined>>
    BY <1>5 DEF minerVars, transcriptVars, observed
  <2>2. RunInv'
    BY <1>2, <1>5 DEF minerVars
  <2>3. PairsShowTheirFailure' /\ OnlyMixUpsContaminate'
    BY <2>1 DEF MinerInv, PairsShowTheirFailure, OnlyMixUpsContaminate
  <2> QED
    BY <2>2, <2>3 DEF MinerInv
<1> QED
  BY <1>1, <1>3, <1>4, <1>5 DEF MinerNext

\* The invariant holds of every run and whatever the miner finds beside it.
THEOREM MinerInvariant == MinerSpec => []MinerInv
BY MinerInitial, MinerStep, PTL DEF MinerSpec

\* A preference pair mined from its own transcript (mine_transcripts) shows the
\* failure its prompt was built from, if the run lost no call and no write and
\* its first answer parsed; a verdict of the verifier comes with the RTL judged.
THEOREM PairsShow == MinerSpec => []PairsShowTheirFailure
BY MinerInvariant, PTL DEF MinerInv

\* The miner gives rows of a held-out task, and rows of a passing turn, only
\* when it takes another task's transcript for the workspace's own.
THEOREM OnlyMixUps == MinerSpec => []OnlyMixUpsContaminate
BY MinerInvariant, PTL DEF MinerInv
-----------------------------------------------------------------------------
(***************************************************************************)
(* The chain of implementations: the miner looks on at a recorded run, a   *)
(* recorded run is a run, and a run is a workspace transaction.            *)
(***************************************************************************)

\* Keeping the trace and the transcript (transcript_collector.py) takes no
\* step of the pipeline away and adds none: a recorded run is a run.
THEOREM RecordsRuns == TranscriptSpec => Spec
<1>1. TranscriptInit => Init
  BY DEF TranscriptInit
<1> QED
  BY <1>1, TranscriptRefines, PTL DEF TranscriptSpec, Spec

\* Mining in the middle of a run (mine_transcripts) leaves the run and its
\* record alone, whatever the miner takes for the run's transcript.
THEOREM MinesRecords == MinerSpec => TranscriptSpec
<1>1. MinerInit => TranscriptInit
  BY DEF MinerInit
<1>2. [MinerNext]_minerVars => [TranscriptNext]_transcriptVars
  BY DEF MinerNext, RunStep, Persist, Mine, minerVars
<1> QED
  BY <1>1, <1>2, PTL DEF MinerSpec, TranscriptSpec

\* A run that is recorded, and mined while it goes, is still a workspace
\* transaction whose every verification after the first is paid for.
THEOREM MinedRunsAreTransactions == MinerSpec => IsTransaction /\ []EdaTurnsPaid
<1>1. MinerSpec => Spec
  BY MinesRecords, RecordsRuns
<1>2. Spec => IsTransaction
  BY Transactional
<1>3. Spec => []EdaTurnsPaid
  BY BudgetsHold
<1> QED
  BY <1>1, <1>2, <1>3, PTL
=============================================================================
