---------------------------- MODULE DatasetMiner ----------------------------
(***************************************************************************)
(* Training rows out of a benchmark run: mine_transcripts of               *)
(* scripts/distill_mind3_dataset.py, on the workspace of one task.         *)
(*                                                                         *)
(* The miner reads two records of the run.  The trace in the workspace is  *)
(* the one of TranscriptTuple.  The benchmark's transcript, with the       *)
(* repair attempts and their guidance, is looked up in the "transcripts"   *)
(* directory beside the workspaces, which holds those of other tasks too.  *)
(*                                                                         *)
(* A guidance (a repair prompt) is what it reports: the place in the trace *)
(* of the failure it was built from, Nothing when it only says that a call *)
(* or a write has failed, a negative number when it is of another task's.  *)
(***************************************************************************)
EXTENDS TranscriptTuple

CONSTANTS
    None,               \* no transcript, no guidance, nothing mined yet
    OtherTranscripts    \* transcripts another task may have in the directory

\* Task ids: of the development set; of a holdout suite only; of neither.
Kinds == {"dev", "sealed", "unknown"}

\* first: its name sorts before the one of the workspace's own task.
ASSUME MinerAssumption ==
    OtherTranscripts \subseteq [task : Kinds, provider : {"live", "mock"},
                                first : BOOLEAN, guidance : Seq(Int)]

VARIABLES
    calls,          \* the guidance of each repair call, by turn
    lost,           \* the last call, or the write of its answer, has failed
    persisted,      \* the run's own transcript is in the directory
    mined           \* what the miner has made of this workspace

minerVars == <<transcriptVars, calls, lost, persisted, mined>>

Nothing == 0

MinerInit ==
    /\ TranscriptInit
    /\ calls = <<>>
    /\ lost = FALSE
    /\ persisted = FALSE
    /\ mined = None

-----------------------------------------------------------------------------
(***************************************************************************)
(* The run, and what its prompts report.                                   *)
(***************************************************************************)

\* The guidance of a call is made from the last failure on record, unless a
\* failed call or write has replaced it since.
RunStep ==
    /\ mined = None
    /\ TranscriptNext
    /\ calls' = IF turn' > turn
                  THEN Append(calls, IF lost THEN Nothing ELSE Len(trace))
                  ELSE calls
    /\ lost' = IF turn' > turn THEN trace' = trace ELSE lost
    /\ UNCHANGED <<persisted, mined>>

\* The benchmark writes the transcript after the run.
Persist ==
    /\ pc = "done"
    /\ ~persisted
    /\ mined = None
    /\ persisted' = TRUE
    /\ UNCHANGED <<transcriptVars, calls, lost, mined>>

-----------------------------------------------------------------------------
(***************************************************************************)
(* The miner.                                                              *)
(***************************************************************************)

\* The transcript of this run: one that raised has no attempts.
OwnTranscript(task) ==
    [task |-> task, provider |-> "live", first |-> FALSE,
     guidance |-> IF Returned
                    THEN LET all == Attempts
                         IN [i \in DOMAIN all |-> calls[all[i].turn]]
                    ELSE <<>>]

\* The first file of the directory, whatever the workspace.
Sibling(task, other) ==
    IF other # None /\ (other.first \/ ~persisted) THEN other
    ELSE IF persisted THEN OwnTranscript(task)
    ELSE None

\* A lookup by the workspace's own name.
OwnSibling(task, other) == IF persisted THEN OwnTranscript(task) ELSE None

\* Refusals: mock providers, holdout ids, ids without a development record.
Allowed(transcript) ==
    /\ transcript # None
    /\ transcript.provider = "live"
    /\ transcript.task = "dev"

\* The places of the VERIFY records.
Verdicts == {i \in DOMAIN trace : trace[i].phase = "VERIFY"}

\* How many of them there are up to a place.
Position(place) == Cardinality({i \in Verdicts : i <= place})

\* A candidate that repairs do not replace.
CandidateGenerated(place) ==
    LET written == {i \in 1..place : trace[i].phase = "EXECUTE"}
    IN IF written = {} THEN NoCode ELSE trace[Min(written)].rtl

\* The RTL of the last EXECUTE record before a place in the trace.
Candidate(place) ==
    LET written == {i \in 1..place : trace[i].phase = "EXECUTE"}
    IN IF written = {} THEN NoCode ELSE trace[Max(written)].rtl

\* A queue that keeps its head for the verification that made it.
PoppedLater(queue, k) == IF k > 1 /\ k - 1 <= Len(queue) THEN queue[k - 1] ELSE None

\* The guidance taken from the queue at the k-th VERIFY record.
Popped(queue, k) == IF k <= Len(queue) THEN queue[k] ELSE None

\* The turn of a VERIFY record.
Turn(queue, place) ==
    [place |-> place, candidate |-> Candidate(place),
     category |-> trace[place].category, guidance |-> Popped(queue, Position(place))]

\* Turns with a candidate and a guidance.
Usable(queue) ==
    {place \in Verdicts : /\ Candidate(place) # NoCode
                          /\ Popped(queue, Position(place)) # None}

\* Failed turns give a pair each, unless an equal one was made before.
DpoRows(queue) ==
    LET failed == {place \in Usable(queue) : trace[place].category # "PASS"}
        Key(place) == <<Popped(queue, Position(place)), Candidate(place)>>
        fresh == {place \in failed :
                     \A other \in failed : other < place => Key(other) # Key(place)}
    IN {Turn(queue, place) : place \in fresh}

\* A run that passed gives its last turn.
SftRows(queue) ==
    {Turn(queue, place) : place \in
        {i \in Usable(queue) : trace[i].category = "PASS" /\ \A j \in Verdicts : j <= i}}

\* The miner may come at any time: after the run, in the middle of it, or
\* after it has died.
Mine ==
    /\ mined = None
    /\ \E task \in Kinds, other \in OtherTranscripts \cup {None} :
          LET transcript == Sibling(task, other) IN
          /\ Allowed(transcript)
          /\ mined' = [task |-> task, foreign |-> transcript = other,
                       dpo |-> DpoRows(transcript.guidance),
                       sft |-> SftRows(transcript.guidance)]
    /\ UNCHANGED <<transcriptVars, calls, lost, persisted>>

MinerNext == RunStep \/ Persist \/ Mine

MinerSpec == MinerInit /\ [][MinerNext]_minerVars

-----------------------------------------------------------------------------
(***************************************************************************)
(* Properties.                                                             *)
(***************************************************************************)

\* Mined with its own transcript, a run whose first answer parsed and that
\* has lost no call and no write gives pairs of a prompt and the failure it
\* was built from; and where the verifier judged, the rejected RTL is the
\* RTL that was judged.
PairsShowTheirFailure ==
    mined # None /\ ~mined.foreign => \A row \in mined.dpo :
        /\ /\ ~\E i \in DOMAIN trace : trace[i].turn = 0 /\ trace[i].rtl = NoCode
           /\ \A t \in DOMAIN calls : calls[t] # Nothing
           => row.guidance = row.place
        /\ row.category \notin Precheck => row.candidate = trace[row.place].rtl

\* Rows of a task that is not one of the development set, and rows of the
\* passing turn, only ever come from a mix-up: with its own transcript a run
\* has one guidance less than verdicts, so none is left for the last.
OnlyMixUpsContaminate ==
    mined # None => \/ mined.foreign
                    \/ mined.sft = {} /\ (mined.task = "dev" \/ mined.dpo = {})
=============================================================================
