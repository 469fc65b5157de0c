------------------------- MODULE MCSignoffVerifier -------------------------
(***************************************************************************)
(* SignoffVerifier on two candidates, one with a latch and one that never  *)
(* exercises the contract's implication, verified in up to three passes of *)
(* a workspace: enough for an artifact of the first to meet the other      *)
(* candidate, and for a third pass to come back to the first.              *)
(***************************************************************************)
EXTENDS SignoffVerifier

CONSTANTS good, latched, vacuous

MCRtl == {good, latched, vacuous}

MCLatched == {latched}

MCVacuous == {vacuous}

\* A verifier that asks for everything, on a host that has everything; the
\* caller has staged nothing.
Live == [require |-> {"lec", "formal", "coverage", "pnr", "cdc"},
         liberty |-> TRUE, mock |-> FALSE, missing |-> {},
         backend |-> "external", contract |-> TRUE,
         properties |-> "implications", noCdc |-> FALSE,
         harness |-> FALSE, tb |-> FALSE, tbCovers |-> FALSE]

\* The benchmark's verifier, in a workspace the driver has staged.
Pipeline == [Live EXCEPT !.require = {"formal", "coverage", "cdc"},
                         !.backend = "structural", !.harness = TRUE,
                         !.tb = TRUE, !.tbCovers = TRUE]

\* A caller that opts out of whatever can be opted out of, has no contract
\* and brings a testbench without coverage.
Lax == [Live EXCEPT !.require = {}, !.contract = FALSE,
                    !.properties = "none", !.tb = TRUE]

Mock == [Live EXCEPT !.mock = TRUE, !.tb = TRUE]

MCConfigs == {
    Live,
    Pipeline,
    Lax,
    Mock,
    [Live EXCEPT !.backend = "crux", !.require = {"formal", "coverage", "cdc"}],
    [Live EXCEPT !.noCdc = TRUE, !.properties = "unsupported"],
    [Pipeline EXCEPT !.noCdc = TRUE, !.backend = "disabled"],
    [Pipeline EXCEPT !.backend = "disabled"],
    [Lax EXCEPT !.tbCovers = TRUE],
    [Lax EXCEPT !.tb = FALSE, !.require = {"formal"}],
    [Lax EXCEPT !.tb = FALSE, !.require = {"coverage"}],
    [Pipeline EXCEPT !.liberty = FALSE],
    [Mock EXCEPT !.missing = {"compiler"}],
    [Mock EXCEPT !.missing = Tool \ {"compiler"}],
    [Live EXCEPT !.missing = {"openroad"}],
    [Live EXCEPT !.missing = {"sby"}],
    [Live EXCEPT !.missing = {"yosys"}],
    [Pipeline EXCEPT !.missing = {"sta", "verilator"}]}
=============================================================================
