------------------------- MODULE MCTranscriptTuple -------------------------
(***************************************************************************)
(* TranscriptTuple, and DatasetMiner over it, with two candidates of       *)
(* different logic, too far from each other for the change budget in       *)
(* minimal-patch mode, and the second one rejected by the pre-checks when  *)
(* they are on.                                                            *)
(***************************************************************************)
EXTENDS DatasetMiner

first  == [logic |-> "old", text |-> "plain"]
second == [logic |-> "new", text |-> "plain"]

MCCode == {first, second}

MCLargePatch == {<<second, first>>}

MCSuspect == {second}

MCInitialRtl == {NoCode}

MCReported == {"SYNTAX_ERROR", "FORMAL_INVARIANT_BREACH"}

\* The flags all off, and all on but for the repair mode.
MCConfigs == {[skipUnchanged |-> flag, evidenceV2 |-> flag, mode |-> "r1",
               override |-> TRUE, maxRepairs |-> 1] : flag \in BOOLEAN}
\* Another task's transcript, with up to three attempts.
Other(task, provider, sortsFirst, n) ==
    [task |-> task, provider |-> provider, first |-> sortsFirst,
     guidance |-> [i \in 1..n |-> -i]]

MCOthers == {Other("dev", "live", TRUE, 0), Other("dev", "live", TRUE, 3),
             Other("dev", "live", FALSE, 2), Other("sealed", "live", TRUE, 3),
             Other("dev", "mock", TRUE, 3)}
=============================================================================
