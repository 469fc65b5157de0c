------------------------- MODULE MCSiliconPipeline -------------------------
(***************************************************************************)
(* Instances of SiliconPipeline small enough for TLC: a candidate, the     *)
(* same with a comment, and another logic.  The last one is what the       *)
(* pre-checks reject, and it is too far from the commented one for the     *)
(* change budget.                                                          *)
(***************************************************************************)
EXTENDS SiliconPipeline

c(l, t) == [logic |-> l, text |-> t]

plain     == c("old", "plain")
commented == c("old", "commented")
rewrite   == c("new", "plain")

MCCode == {plain, commented, rewrite}

MCLargePatch == {<<commented, rewrite>>, <<rewrite, commented>>}

MCSuspect == {rewrite}

MCInitialRtl == {NoCode, plain}

\* A compile and a formal failure, one whose stage depends on the flag, and one
\* that ends the run.
MCReported == {"SYNTAX_ERROR", "FORMAL_INVARIANT_BREACH",
               "MISSING_VERIFICATION_ARTIFACT", "ENVIRONMENT_FAILURE"}

Settings(skip, v2, mode, override, repairs) ==
    [skipUnchanged |-> skip, evidenceV2 |-> v2, mode |-> mode,
     override |-> override, maxRepairs |-> repairs]

\* Each flag by itself and all of them together; the contract is the
\* evaluator's in the last setting and the architect's otherwise.
MCConfigs == {Settings(FALSE, FALSE, "r1", FALSE, 1),
              Settings(TRUE,  FALSE, "r1", FALSE, 1),
              Settings(FALSE, TRUE,  "r1", FALSE, 1),
              Settings(TRUE,  TRUE,  "r2", TRUE,  1)}
=============================================================================
