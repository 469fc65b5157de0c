-------------------------- MODULE SignoffVerifier --------------------------
(***************************************************************************)
(* SiliconSignoffVerifier.verify (core/verifier.py): the signoff gates run *)
(* one after the other on a workspace, fail closed on the first that       *)
(* fails, and sign off when no gate that counts was skipped or simulated.  *)
(*                                                                         *)
(* One workspace is verified again and again, as the repair loop rewrites  *)
(* its RTL.  What the gates and their tools leave in it (the syntax tree,  *)
(* the netlist, the coverage data, the CDC report, the formal harness) is  *)
(* still there in the next pass: each such file is modelled by the RTL it  *)
(* was made from.  What a tool finds is nondeterministic, except whether   *)
(* the RTL holds a latch and whether it exercises the contract's           *)
(* implications.  Numbers, diagnostics and scripts are left out.           *)
(***************************************************************************)
EXTENDS Integers, Sequences

CONSTANTS
    Rtl,            \* the candidates
    NoRtl,          \* no such file
    Latched,        \* candidates with a latch, not overridden by a comment
    Vacuous,        \* candidates that never exercise an implication's antecedent
    Configs,        \* the settings a verifier may be built with
    MaxPasses       \* bound: verify() calls on the workspace

Tool == {"compiler", "yosys", "sby", "verilator", "sta", "openroad"}

(***************************************************************************)
(* The constructor's arguments and the environment.  backend is the CDC    *)
(* backend found on the host.  harness and tb say what the caller has put  *)
(* in the workspace before the first pass (the driver stages both).        *)
(***************************************************************************)
Config == [require    : SUBSET {"lec", "formal", "coverage", "pnr", "cdc"},
           liberty    : BOOLEAN,
           mock       : BOOLEAN,        \* allow_mock_fallback
           missing    : SUBSET Tool,
           backend    : {"external", "crux", "structural", "disabled"},
           contract   : BOOLEAN,
           properties : {"none", "unsupported", "plain", "implications"},
           noCdc      : BOOLEAN,        \* contract_declares_no_cdc
           harness    : BOOLEAN,
           tb         : BOOLEAN,
           tbCovers   : BOOLEAN]        \* that testbench reports its coverage

ASSUME SignoffAssumption ==
    /\ NoRtl \notin Rtl
    /\ Latched \subseteq Rtl
    /\ Vacuous \subseteq Rtl
    /\ Configs \subseteq Config
    /\ MaxPasses \in Nat

\* The gates in the order they run; "dft" is the advisory scan audit.
Order == <<"1", "1b", "3", "2", "4", "5", "6", "dft">>

Gate == {Order[i] : i \in 1..8}

VARIABLES
    config,         \* the verifier's settings, fixed
    rtl,            \* the RTL in the workspace
    files,          \* what else is in the workspace
    pc,             \* the gate to run next, or "idle" between two passes
    reports,        \* gate_reports
    result,         \* the VerificationResult of the last pass
    passes,         \* verify() calls so far
    evidence,       \* history variable: the RTL each gate's tool accepted
    fresh           \* history variable: Gate 2 made the harness in this pass

vars == <<config, rtl, files, pc, reports, result, passes, evidence, fresh>>

workspace == <<config, rtl, passes>>

NoResult == [passed |-> FALSE, verified |-> FALSE, category |-> ""]

NoEvidence == [g \in Gate |-> NoRtl]

\* An earlier session may have left its elaboration, its coverage data and its
\* CDC report in the workspace: no pass deletes any of them.
Init ==
    /\ config \in Configs
    /\ rtl \in Rtl \cup {NoRtl}
    /\ \E old, covered, crossed \in Rtl \cup {NoRtl}, clean \in BOOLEAN :
          files = [ast |-> old, netlist |-> old, coverage |-> covered,
                   crux |-> [of |-> crossed, clean |-> clean /\ crossed # NoRtl],
                   harness |-> config.harness,
                   tb |-> IF config.tb THEN "given" ELSE "none"]
    /\ pc = "idle"
    /\ reports = <<>>
    /\ result = NoResult
    /\ passes = 0
    /\ evidence = NoEvidence
    /\ fresh = FALSE

-----------------------------------------------------------------------------
(***************************************************************************)
(* Gate reports.                                                           *)
(***************************************************************************)

Requires(what) == what \in config.require

Missing(tool) == tool \in config.missing

\* The gates _append_not_run_gates takes to be enabled.
Enabled(g) ==
    CASE g = "1b" -> Requires("lec")
      [] g = "2"  -> Requires("formal")
      [] g = "4"  -> config.liberty
      [] g = "5"  -> Requires("pnr")
      [] g = "6"  -> Requires("cdc")
      [] OTHER    -> TRUE

Position(g) == CHOOSE i \in 1..8 : Order[i] = g

AsNotRun(g) == [gate |-> g, status |-> "NOT_RUN", simulated |-> FALSE, skipped |-> FALSE]

\* The i-th gate, when it comes after g and is enabled.
Blocked(g, i) ==
    IF Position(g) < i /\ Enabled(Order[i]) THEN <<AsNotRun(Order[i])>> ELSE <<>>

\* A mutant: the slice stops short of the last gate.
NotRunShort(g) ==
    Blocked(g, 2) \o Blocked(g, 3) \o Blocked(g, 4) \o Blocked(g, 5) \o Blocked(g, 6)
        \o Blocked(g, 7)

NotRunAfter(g) ==
    Blocked(g, 2) \o Blocked(g, 3) \o Blocked(g, 4) \o Blocked(g, 5) \o Blocked(g, 6)
        \o Blocked(g, 7) \o Blocked(g, 8)

Executed(g, status, simulated, skipped) ==
    Append(reports, [gate |-> g, status |-> status, simulated |-> simulated,
                     skipped |-> skipped])

\* The first failing gate ends the pass.
Fail(g, category) ==
    /\ reports' = Executed(g, "FAIL", FALSE, FALSE) \o NotRunAfter(g)
    /\ result' = [passed |-> FALSE, verified |-> FALSE, category |-> category]
    /\ pc' = "idle"
    /\ UNCHANGED evidence

GateAfter(g) == IF g = "1" /\ ~Requires("lec") THEN "3" ELSE Order[Position(g) + 1]

Pass(g, simulated, skipped, about) ==
    /\ reports' = Executed(g, "PASS", simulated, skipped)
    /\ pc' = GateAfter(g)
    /\ evidence' = [evidence EXCEPT ![g] = about]
    /\ UNCHANGED result

\* The tool ran to its end on this RTL, or what was made from it, and
\* accepted it.
Accept(g, about) == Pass(g, FALSE, FALSE, about)

Skip(g) == Pass(g, FALSE, TRUE, NoRtl)

\* The tool is not installed: a mock result or EDA_BINARY_MISSING.
BinaryMissing(g) ==
    IF config.mock THEN Pass(g, TRUE, FALSE, NoRtl)
                   ELSE Fail(g, "EDA_BINARY_MISSING")

-----------------------------------------------------------------------------
(***************************************************************************)
(* A pass.                                                                 *)
(***************************************************************************)

\* The repair loop writes other RTL between two passes.
Rewrite(r) ==
    /\ pc = "idle"
    /\ passes < MaxPasses
    /\ rtl' = r
    /\ result' = NoResult
    /\ reports' = <<>>
    /\ UNCHANGED <<config, files, pc, passes, evidence, fresh>>

Begin ==
    /\ pc = "idle"
    /\ passes < MaxPasses
    /\ rtl # NoRtl
    /\ passes' = passes + 1
    /\ reports' = <<>>
    /\ result' = NoResult
    /\ evidence' = NoEvidence
    /\ fresh' = FALSE
    /\ pc' = "1"
    /\ UNCHANGED <<config, rtl, files>>

NoSources ==
    /\ pc = "idle"
    /\ passes < MaxPasses
    /\ rtl = NoRtl
    /\ passes' = passes + 1
    /\ reports' = <<>>
    /\ result' = [NoResult EXCEPT !.category = "MISSING_SOURCE_FILES"]
    /\ evidence' = NoEvidence
    /\ UNCHANGED <<config, rtl, files, pc, fresh>>

-----------------------------------------------------------------------------
(***************************************************************************)
(* Gate 1: static checks, compilation, elaboration.                        *)
(***************************************************************************)

\* The structural contract check, the lexical latch audit, the partial-reset
\* check or the compiler refuses the RTL.
RefusedBeforeElaboration ==
    /\ pc = "1"
    /\ Fail("1", "COMPILE")
    /\ UNCHANGED <<workspace, files, fresh>>

\* With a mock compiler the gate ends here and elaborates nothing.
Uncompiled ==
    /\ pc = "1"
    /\ Missing("compiler")
    /\ BinaryMissing("1")
    /\ UNCHANGED <<workspace, files, fresh>>

Unelaborated ==
    /\ pc = "1"
    /\ ~Missing("compiler") /\ Missing("yosys")
    /\ BinaryMissing("1")
    /\ UNCHANGED <<workspace, files, fresh>>

Elaborates == pc = "1" /\ ~Missing("compiler") /\ ~Missing("yosys")

\* The pass goes on whether or not yosys wrote the netlist.
ElaboratedUnchecked ==
    /\ Elaborates
    /\ rtl \notin Latched
    /\ \E n \in {files.netlist, rtl} :
          files' = [files EXCEPT !.ast = rtl, !.netlist = n]
    /\ Accept("1", rtl)
    /\ UNCHANGED <<workspace, fresh>>

Elaborated ==
    /\ Elaborates
    /\ rtl \notin Latched
    /\ files' = [files EXCEPT !.ast = rtl, !.netlist = rtl]
    /\ Accept("1", rtl)
    /\ UNCHANGED <<workspace, fresh>>

\* A latch in the new syntax tree, or a combinational loop in the log.
ElaboratedBad ==
    /\ Elaborates
    /\ files' = [files EXCEPT !.ast = rtl, !.netlist = rtl]
    /\ Fail("1", IF rtl \in Latched THEN "LATCH_INFERRED"
                                    ELSE "COMBINATIONAL_LOOP")
    /\ UNCHANGED <<workspace, fresh>>

\* yosys could not open the Liberty file: known by its message, before the
\* syntax tree is looked at.
NoLiberty ==
    /\ Elaborates
    /\ config.liberty
    /\ Fail("1", "ENVIRONMENT_FAILURE")
    /\ UNCHANGED <<workspace, files, fresh>>

\* yosys fails or times out, before or after it wrote the syntax tree; the
\* tree found in the workspace is inspected before the exit code.
ElaborationFails ==
    /\ Elaborates
    /\ \E tree \in {files.ast, rtl} :
          /\ files' = [files EXCEPT !.ast = tree]
          /\ Fail("1", IF tree \in Latched THEN "LATCH_INFERRED"
                                           ELSE "SYNTHESIS_ELABORATION_ERROR")
    /\ UNCHANGED <<workspace, fresh>>

-----------------------------------------------------------------------------
(***************************************************************************)
(* Gate 1b: logic equivalence of RTL and netlist.                          *)
(***************************************************************************)

NoNetlistForLec ==
    /\ pc = "1b"
    /\ files.netlist = NoRtl
    /\ IF config.mock THEN Pass("1b", TRUE, FALSE, NoRtl)
                      ELSE Fail("1b", "MISSING_NETLIST_FOR_LEC")
    /\ UNCHANGED <<workspace, files, fresh>>

LecUnavailable ==
    /\ pc = "1b"
    /\ files.netlist # NoRtl
    /\ Missing("yosys")
    /\ BinaryMissing("1b")
    /\ UNCHANGED <<workspace, files, fresh>>

Lec ==
    /\ pc = "1b"
    /\ files.netlist # NoRtl /\ ~Missing("yosys")
    /\ Accept("1b", files.netlist) \/ Fail("1b", "LEC_VERIFICATION_FAILED")
    /\ UNCHANGED <<workspace, files, fresh>>

-----------------------------------------------------------------------------
(***************************************************************************)
(* Gate 3: simulation and coverage.                                        *)
(***************************************************************************)

\* The testbench the gate finds, or makes from the contract.
Testbench == IF files.tb = "none" /\ config.contract THEN "generated" ELSE files.tb

NoTestbench ==
    /\ pc = "3"
    /\ Testbench = "none"
    /\ IF Requires("coverage") THEN Fail("3", "MISSING_VERIFICATION_ARTIFACT")
                               ELSE Skip("3")
    /\ UNCHANGED <<workspace, files, fresh>>

NoVerilator ==
    /\ pc = "3"
    /\ Testbench # "none"
    /\ Missing("verilator")
    /\ files' = [files EXCEPT !.tb = Testbench]
    /\ BinaryMissing("3")
    /\ UNCHANGED <<workspace, fresh>>

Simulates == pc = "3" /\ Testbench # "none" /\ ~Missing("verilator")

\* A generated testbench that runs to its end writes coverage data.
CoverageAfter ==
    IF Testbench = "generated" \/ config.tbCovers THEN rtl ELSE files.coverage

\* The build or the simulation fails, the latter with or without data written.
SimulationFails ==
    /\ Simulates
    /\ \E data \in {files.coverage, CoverageAfter} :
          files' = [files EXCEPT !.tb = Testbench, !.coverage = data]
    /\ Fail("3", "SIMULATION_FAILURE")
    /\ UNCHANGED <<workspace, fresh>>

\* No data is 0 percent, but 100 percent for a verifier with mock fallback,
\* whose report is not marked simulated.
Covered ==
    /\ Simulates
    /\ files' = [files EXCEPT !.tb = Testbench, !.coverage = CoverageAfter]
    /\ CoverageAfter # NoRtl \/ config.mock
    /\ Accept("3", CoverageAfter)
    /\ UNCHANGED <<workspace, fresh>>

CoverageDeficit ==
    /\ Simulates
    /\ files' = [files EXCEPT !.tb = Testbench, !.coverage = CoverageAfter]
    /\ CoverageAfter # NoRtl \/ ~config.mock
    /\ Fail("3", "COVERAGE_DEFICIT")
    /\ UNCHANGED <<workspace, fresh>>
-----------------------------------------------------------------------------
(***************************************************************************)
(* Gate 2: bounded model checking, then the vacuity check.                 *)
(***************************************************************************)

\* No .sby file was found and none can be made from a contract.
NoHarness ==
    /\ pc = "2"
    /\ ~files.harness
    /\ ~config.contract \/ config.properties = "none"
    /\ \/ ~Requires("formal") /\ Skip("2")
       \/ Requires("formal") /\ Fail("2", IF config.contract
                                           THEN "EMPTY_FORMAL_PROPERTY_SET"
                                           ELSE "MISSING_VERIFICATION_ARTIFACT")
    /\ UNCHANGED <<workspace, files, fresh>>

HarnessUnsupported ==
    /\ pc = "2"
    /\ ~files.harness
    /\ config.contract /\ config.properties = "unsupported"
    /\ Fail("2", "UNSUPPORTED_FORMAL_PROPERTY")
    /\ UNCHANGED <<workspace, files, fresh>>

\* The harness is written from the contract and stays in the workspace.
HarnessMade ==
    /\ pc = "2"
    /\ ~files.harness
    /\ config.contract /\ config.properties \in {"plain", "implications"}
    /\ files' = [files EXCEPT !.harness = TRUE]
    /\ fresh' = TRUE
    /\ UNCHANGED <<workspace, pc, reports, result, evidence>>

NoSby ==
    /\ pc = "2"
    /\ files.harness
    /\ Missing("sby")
    /\ BinaryMissing("2")
    /\ UNCHANGED <<workspace, files, fresh>>

Proves == pc = "2" /\ files.harness /\ ~Missing("sby")

\* A counterexample, an unsupported construct or a timeout.
Refuted ==
    /\ Proves
    /\ \E c \in {"FORMAL_INVARIANT_BREACH", "FORMAL_TIMEOUT"} : Fail("2", c)
    /\ UNCHANGED <<workspace, files, fresh>>

\* The cover job is run only for a harness this call has made.
Assessed == fresh /\ config.properties = "implications"

\* Antecedents never reached, told apart from a cover job that failed.
CoverJobFails ==
    /\ Proves
    /\ Assessed
    /\ Fail("2", "FORMAL_ANALYSIS_FAILED")
    /\ UNCHANGED <<workspace, files, fresh>>

FoundVacuous ==
    /\ Proves
    /\ Assessed /\ rtl \in Vacuous
    /\ Fail("2", "VACUOUS_PROPERTY")
    /\ UNCHANGED <<workspace, files, fresh>>

Proved ==
    /\ Proves
    /\ ~(Assessed /\ rtl \in Vacuous)
    /\ Accept("2", rtl)
    /\ UNCHANGED <<workspace, files, fresh>>

-----------------------------------------------------------------------------
(***************************************************************************)
(* Gates 4 and 5: timing, place and route.                                 *)
(***************************************************************************)

\* Without a Liberty file the gate raises; verify() makes it a failure.
TimingUnavailable ==
    /\ pc = "4"
    /\ ~config.liberty
    /\ Fail("4", "ENVIRONMENT_FAILURE")
    /\ UNCHANGED <<workspace, files, fresh>>

NoSta ==
    /\ pc = "4"
    /\ config.liberty /\ Missing("sta")
    /\ BinaryMissing("4")
    /\ UNCHANGED <<workspace, files, fresh>>

\* The netlist if there is one, else the sources.
Timed == IF files.netlist = NoRtl THEN rtl ELSE files.netlist

Timing ==
    /\ pc = "4"
    /\ config.liberty /\ ~Missing("sta")
    /\ Accept("4", Timed) \/ Fail("4", "TIMING_SLACK_VIOLATION")
    /\ UNCHANGED <<workspace, files, fresh>>

NoPnr ==
    /\ pc = "5"
    /\ ~Requires("pnr")
    /\ Skip("5")
    /\ UNCHANGED <<workspace, files, fresh>>

NoNetlistForPnr ==
    /\ pc = "5"
    /\ Requires("pnr") /\ files.netlist = NoRtl
    /\ Fail("5", "MISSING_NETLIST_FOR_PNR")
    /\ UNCHANGED <<workspace, files, fresh>>

NoOpenroad ==
    /\ pc = "5"
    /\ Requires("pnr") /\ files.netlist # NoRtl /\ Missing("openroad")
    /\ BinaryMissing("5")
    /\ UNCHANGED <<workspace, files, fresh>>

Pnr ==
    /\ pc = "5"
    /\ Requires("pnr") /\ files.netlist # NoRtl /\ ~Missing("openroad")
    /\ Accept("5", files.netlist) \/ Fail("5", "PNR_PLACEMENT_FAILED")
    /\ UNCHANGED <<workspace, files, fresh>>
-----------------------------------------------------------------------------
(***************************************************************************)
(* Gate 6: clock-domain crossings.                                         *)
(***************************************************************************)

DeclaredNoCdc == Requires("cdc") /\ config.contract /\ config.noCdc

CdcWaived ==
    /\ pc = "6"
    /\ DeclaredNoCdc
    /\ Skip("6")
    /\ UNCHANGED <<workspace, files, fresh>>

Crosses(backend) == pc = "6" /\ ~DeclaredNoCdc /\ config.backend = backend

CdcDisabled ==
    /\ Crosses("disabled")
    /\ Fail("6", "CDC_TOOLING_UNAVAILABLE")
    /\ UNCHANGED <<workspace, files, fresh>>

\* The runner's yosys is missing, or lacks the command the host's has.
CdcUnavailable ==
    /\ Crosses("external")
    /\ \/ config.mock /\ Pass("6", TRUE, FALSE, NoRtl)
       \/ ~config.mock /\ ~Requires("cdc") /\ Skip("6")
       \/ /\ ~config.mock /\ Requires("cdc")
          /\ Fail("6", IF Missing("yosys") THEN "EDA_BINARY_MISSING"
                                          ELSE "CDC_TOOLING_UNAVAILABLE")
    /\ UNCHANGED <<workspace, files, fresh>>

\* A run that exits with an error and no violation is a failure, but a pass
\* for a verifier with mock fallback, whose report is not marked simulated.
CdcExternal ==
    /\ Crosses("external")
    /\ ~Missing("yosys")
    /\ \/ Accept("6", rtl)
       \/ Fail("6", "CDC_VIOLATION")
       \/ config.mock /\ Accept("6", NoRtl)
       \/ ~config.mock /\ Fail("6", "CDC_ANALYSIS_FAILED")
    /\ UNCHANGED <<workspace, files, fresh>>

\* The checker writes its report before it exits with code 0.
CdcStructural ==
    /\ Crosses("structural")
    /\ \/ Accept("6", rtl)
       \/ \E c \in {"CDC_VIOLATION", "CDC_INCONCLUSIVE", "CDC_CHECKER_ERROR"} :
             Fail("6", c)
    /\ UNCHANGED <<workspace, files, fresh>>

\* The verdict is the report's, whatever crux's exit code.
CruxRuns ==
    /\ Crosses("crux")
    /\ \E clean \in BOOLEAN :
          /\ files' = [files EXCEPT !.crux = [of |-> rtl, clean |-> clean]]
          /\ IF clean THEN Accept("6", rtl) ELSE Fail("6", "CDC_VIOLATION")
    /\ UNCHANGED <<workspace, fresh>>

\* crux exits without writing its report: the verdict is that of the report an
\* earlier pass or session has left, if there is one.
CruxCrashes ==
    /\ Crosses("crux")
    /\ \/ files.crux.of = NoRtl /\ Fail("6", "CDC_CHECKER_ERROR")
       \/ files.crux.of # NoRtl /\ files.crux.clean /\ Accept("6", NoRtl)
       \/ files.crux.of # NoRtl /\ ~files.crux.clean /\ Fail("6", "CDC_VIOLATION")
    /\ UNCHANGED <<workspace, files, fresh>>

\* crux is gone, cannot be started, times out, or is not the pinned version; its
\* report, unreadable or of another version, is from then on as good as none.
CruxRefused ==
    /\ Crosses("crux")
    /\ files' \in {files, [files EXCEPT !.crux = [of |-> NoRtl, clean |-> FALSE]]}
    /\ \E c \in {"CDC_TOOLING_UNAVAILABLE", "CDC_CHECKER_ERROR"} : Fail("6", c)
    /\ UNCHANGED <<workspace, fresh>>

-----------------------------------------------------------------------------
(***************************************************************************)
(* The scan audit, and the aggregate.                                      *)
(***************************************************************************)

\* Gate 2 taken for optional when the caller did not ask for formal.
OptionalFormal == {"5", "dft"} \cup (IF Requires("formal") THEN {} ELSE {"2"})

\* The gates whose skip does not count against signoff.
Optional == {"5", "dft"} \cup (IF ~Requires("cdc") \/ DeclaredNoCdc THEN {"6"} ELSE {})

SignsOff(gates) ==
    \A i \in DOMAIN gates :
        /\ ~gates[i].simulated
        /\ gates[i].skipped => gates[i].gate \in Optional

Aggregate ==
    /\ pc = "dft"
    /\ reports' = Executed("dft", "PASS", FALSE, Missing("yosys"))
    /\ result' = [passed |-> TRUE, verified |-> SignsOff(reports'), category |-> ""]
    /\ pc' = "idle"
    /\ UNCHANGED <<workspace, files, evidence, fresh>>

-----------------------------------------------------------------------------
Call ==
    \/ \E r \in Rtl : Rewrite(r)
    \/ Begin
    \/ NoSources

Elaboration ==
    \/ RefusedBeforeElaboration
    \/ Uncompiled
    \/ Unelaborated
    \/ Elaborated
    \/ ElaboratedBad
    \/ NoLiberty
    \/ ElaborationFails
    \/ NoNetlistForLec
    \/ LecUnavailable
    \/ Lec

Simulation ==
    \/ NoTestbench
    \/ NoVerilator
    \/ SimulationFails
    \/ Covered
    \/ CoverageDeficit

Formal ==
    \/ NoHarness
    \/ HarnessUnsupported
    \/ HarnessMade
    \/ NoSby
    \/ Refuted
    \/ CoverJobFails
    \/ FoundVacuous
    \/ Proved

Physical ==
    \/ TimingUnavailable
    \/ NoSta
    \/ Timing
    \/ NoPnr
    \/ NoNetlistForPnr
    \/ NoOpenroad
    \/ Pnr

Cdc ==
    \/ CdcWaived
    \/ CdcDisabled
    \/ CdcUnavailable
    \/ CdcExternal
    \/ CdcStructural
    \/ CruxRuns
    \/ CruxCrashes
    \/ CruxRefused

Next == Call \/ Elaboration \/ Simulation \/ Formal \/ Physical \/ Cdc \/ Aggregate

Spec == Init /\ [][Next]_vars

-----------------------------------------------------------------------------
(***************************************************************************)
(* Properties.                                                             *)
(***************************************************************************)

\* The gates that stand behind a signoff under these settings.
Counted ==
    {"1", "3", "2", "4"}
    \cup (IF Requires("lec") THEN {"1b"} ELSE {})
    \cup (IF Requires("pnr") THEN {"5"} ELSE {})
    \cup (IF Requires("cdc") /\ ~DeclaredNoCdc THEN {"6"} ELSE {})

Stands(g) == evidence[g] = rtl

\* The gates that may judge what they find in place of what they have made: the
\* report of a crux run that died is an earlier one's, and the caller's own
\* testbench, when it writes no coverage data, is credited with what is there.
MayBeStale(g) ==
    \/ g = "6" /\ config.backend = "crux"
    \/ g = "3" /\ config.tb /\ ~config.tbCovers

\* Signed-off RTL is RTL that, in this very pass, every gate that counts has
\* really run on and accepted: not RTL of an earlier pass or session whose
\* netlist, coverage data or syntax tree is still in the workspace, and not a
\* gate that was skipped.  For a live verifier, the two cases above apart.
SignoffSound ==
    result.verified /\ ~config.mock =>
        \A g \in Counted : Stands(g) \/ MayBeStale(g)

\* A refused candidate is reported with one failed gate, the last that ran:
\* the gates before it passed, and every later one that is switched on is
\* there as not run.
FailureExplained ==
    pc = "idle" /\ ~result.passed /\ reports # <<>> =>
        \E i \in DOMAIN reports :
            /\ reports[i].status = "FAIL"
            /\ \A j \in 1..(i - 1) : reports[j].status = "PASS"
            /\ \A j \in (i + 1)..Len(reports) : reports[j].status = "NOT_RUN"
            /\ \A g \in Gate :
                  Enabled(g) => \E j \in DOMAIN reports : reports[j].gate = g

(***************************************************************************)
(* Properties the code does not have.                                      *)
(***************************************************************************)

\* No pass accepts RTL that never exercises an implication of its contract.
NeverVacuous ==
    config.contract /\ config.properties = "implications"
        /\ evidence["2"] # NoRtl => evidence["2"] \notin Vacuous

\* A mock fallback never stands behind a signoff: a tool has judged something at
\* every gate that counts.
MockNeverVerified ==
    result.verified /\ config.mock /\ config.backend # "crux" =>
        \A g \in Counted : evidence[g] # NoRtl

\* A crux run that did not finish blocks the gate.
CrashedCruxBlocks ==
    result.verified /\ config.backend = "crux" /\ "6" \in Counted => Stands("6")

\* A latch is reported of RTL that has one.
LatchIsReal == result.category = "LATCH_INFERRED" => rtl \in Latched
=============================================================================
