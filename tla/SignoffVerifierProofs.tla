----------------------- MODULE SignoffVerifierProofs -----------------------
(***************************************************************************)
(* What stands behind a signoff of SiliconSignoffVerifier.verify, for any  *)
(* RTL, any settings and any number of passes in the same workspace.       *)
(*                                                                         *)
(* A gate that was passed is settled: it has judged this RTL, or its       *)
(* report says that it was skipped, which the aggregate looks at.          *)
(* At the end: what the simulation of the third gate puts in front of a    *)
(* design, for any number of inputs.                                       *)
(***************************************************************************)
EXTENDS SignoffVerifier, VerilatorStimulus, TLAPS

Some == Rtl \cup {NoRtl}

Entry == [gate : Gate, status : {"PASS"}, simulated : BOOLEAN, skipped : BOOLEAN]

Files == [ast : Some, netlist : Some, coverage : Some,
          crux : [of : Some, clean : BOOLEAN], harness : BOOLEAN,
          tb : {"none", "given", "generated"}]

\* A testbench that was there before the gate is the caller's.
WorkspaceOK ==
    /\ config \in Config
    /\ rtl \in Some
    /\ files \in Files
    /\ files.tb = "given" => config.tb

Rank(g) ==
    CASE g = "1" -> 1 [] g = "1b" -> 2 [] g = "3" -> 3 [] g = "2" -> 4
      [] g = "4" -> 5 [] g = "5" -> 6 [] g = "6" -> 7 [] g = "dft" -> 8

\* The gates that have to be passed before g.
Behind(g) == {h \in Gate : Rank(h) < Rank(g) /\ (h = "1b" => Requires("lec"))}

Waivable(g) == g = "5" => ~Requires("pnr")

Skipped(g) ==
    /\ Waivable(g)
    /\ \E i \in DOMAIN reports : reports[i].skipped /\ reports[i].gate = g

Settled(g) == Stands(g) \/ MayBeStale(g) \/ Skipped(g)

\* In the middle of a pass, for a live verifier.
Progress ==
    pc # "idle" =>
        /\ reports \in Seq(Entry)
        /\ ~result.verified
        /\ ~config.mock => /\ \A h \in Behind(pc) : Settled(h)
                           /\ pc # "1" => files.netlist = rtl

SInv == /\ WorkspaceOK
        /\ pc \in Gate \cup {"idle"}
        /\ evidence \in [Gate -> Some]
        /\ Progress
        /\ SignoffSound

LEMMA Gates == Gate = {"1", "1b", "3", "2", "4", "5", "6", "dft"}
  BY DEF Gate, Order

\* The order in which _append_not_run_gates names the gates is the one in
\* which verify() runs them.
LEMMA Succession ==
    /\ GateAfter("1") = IF Requires("lec") THEN "1b" ELSE "3"
    /\ GateAfter("1b") = "3" /\ GateAfter("3") = "2" /\ GateAfter("2") = "4"
    /\ GateAfter("4") = "5" /\ GateAfter("5") = "6" /\ GateAfter("6") = "dft"
<1>0. 1..8 = {1, 2, 3, 4, 5, 6, 7, 8}
  OBVIOUS
<1> DEFINE At(g, n) == \A i \in 1..8 : Order[i] = g <=> i = n
<1>1. At("1", 1) /\ At("1b", 2) /\ At("3", 3) /\ At("2", 4) /\ At("4", 5)
      /\ At("5", 6) /\ At("6", 7)
  BY <1>0 DEF Order
<1>2. ASSUME NEW g, NEW n \in 1..8, At(g, n)
      PROVE  Position(g) = n
  BY <1>2 DEF Position
<1> HIDE DEF At
<1>3. /\ Position("1") = 1 /\ Position("1b") = 2 /\ Position("3") = 3 /\ Position("2") = 4
      /\ Position("4") = 5 /\ Position("5") = 6 /\ Position("6") = 7
  BY <1>1, <1>2
<1> QED
  BY <1>3 DEF GateAfter, Order

\* A gate is passed: what is settled stays so, and the gate joins it.
LEMMA PassKeeps ==
    ASSUME SInv, NEW g \in Gate \ {"dft"}, pc = g,
           NEW simulated \in BOOLEAN, NEW skipped \in BOOLEAN, NEW about \in Some,
           Pass(g, simulated, skipped, about),
           UNCHANGED workspace, WorkspaceOK',
           ~config.mock => /\ \/ skipped /\ Waivable(g)
                              \/ about = rtl
                              \/ MayBeStale(g)
                           /\ files'.netlist = rtl
    PROVE  SInv'
<1>1. /\ pc' = GateAfter(g) /\ result' = result /\ config' = config /\ rtl' = rtl
      /\ evidence' = [evidence EXCEPT ![g] = about]
  BY DEF Pass, workspace
<1>2. /\ pc' \in Gate /\ pc' # "1"
      /\ \A h \in Behind(pc') : h = g \/ h \in Behind(g)
  BY <1>1, Gates, Succession DEF Behind, Rank
<1>3. evidence' \in [Gate -> Some] /\ evidence'[g] = about
      /\ \A h \in Gate \ {g} : evidence'[h] = evidence[h]
  BY <1>1 DEF SInv
<1> DEFINE e == [gate |-> g, status |-> "PASS", simulated |-> simulated, skipped |-> skipped]
<1>4. reports' = Append(reports, e) /\ e \in Entry /\ reports \in Seq(Entry)
      /\ e.skipped = skipped /\ e.gate = g
  BY Gates DEF Pass, Executed, Entry, SInv, Progress
<1> HIDE DEF e
<1>5. /\ reports' \in Seq(Entry)
      /\ Len(reports) + 1 \in DOMAIN reports' /\ reports'[Len(reports) + 1] = e
      /\ \A i \in DOMAIN reports : i \in DOMAIN reports' /\ reports'[i] = reports[i]
  BY <1>4
<1>6. ~config.mock => \A h \in Behind(pc') : Settled(h)'
  <2> SUFFICES ASSUME ~config.mock, NEW h \in Behind(pc')
               PROVE  Settled(h)'
    OBVIOUS
  <2>1. CASE h = g
    BY <1>1, <1>3, <1>4, <1>5, <2>1 DEF Settled, MayBeStale, Stands, Skipped, Waivable, Requires
  <2>2. CASE h # g
    <3>1. Settled(h) /\ h \in Gate
      BY <1>2, <2>2, Gates DEF SInv, Progress, Behind
    <3>2. CASE Skipped(h)
      BY <1>1, <1>5, <3>2 DEF Settled, Skipped, Waivable, Requires
    <3> QED
      BY <1>1, <1>3, <2>2, <3>1, <3>2 DEF Settled, MayBeStale, Stands
  <2> QED
    BY <2>1, <2>2
<1>7. Behind(pc') = Behind(pc)'
  BY <1>1 DEF Behind, Requires
<1>8. ~result.verified
  BY Gates DEF SInv, Progress
<1>9. Progress'
  BY <1>1, <1>5, <1>6, <1>7, <1>8 DEF Progress
<1> QED
  BY <1>1, <1>2, <1>3, <1>8, <1>9 DEF SInv, SignoffSound

LEMMA FailKeeps ==
    ASSUME SInv, NEW g, NEW category, Fail(g, category), WorkspaceOK'
    PROVE  SInv'
  BY DEF Fail, SInv, Progress, SignoffSound

LEMMA AcceptKeeps ==
    ASSUME SInv, NEW g \in Gate \ {"dft"}, pc = g, NEW about \in Some,
           Accept(g, about), UNCHANGED workspace, WorkspaceOK',
           ~config.mock => /\ about = rtl \/ MayBeStale(g)
                           /\ files'.netlist = rtl
    PROVE  SInv'
  BY PassKeeps DEF Accept

LEMMA SkipKeeps ==
    ASSUME SInv, NEW g \in Gate \ {"1", "dft"}, pc = g, Skip(g), Waivable(g),
           UNCHANGED workspace, files'.netlist = files.netlist, WorkspaceOK'
    PROVE  SInv'
<1>1. ~config.mock => files'.netlist = rtl
  BY Gates DEF SInv, Progress
<1> QED
  BY <1>1, PassKeeps DEF Skip, Some

LEMMA AbsentKeeps ==
    ASSUME SInv, NEW g \in Gate \ {"dft"}, pc = g, BinaryMissing(g),
           UNCHANGED workspace, WorkspaceOK'
    PROVE  SInv'
<1>1. CASE config.mock
  BY <1>1, PassKeeps DEF BinaryMissing, Some
<1>2. CASE ~config.mock
  BY <1>2, FailKeeps DEF BinaryMissing
<1> QED
  BY <1>1, <1>2

-----------------------------------------------------------------------------
LEMMA Kept == ASSUME SInv, UNCHANGED <<workspace, files>> PROVE WorkspaceOK'
  BY DEF SInv, WorkspaceOK, workspace

LEMMA InitHolds == Init => SInv
<1> SUFFICES ASSUME Init
             PROVE  SInv
  OBVIOUS
<1>1. config \in Config
  BY SignoffAssumption DEF SignoffAssumption, Init
<1>2. files \in Files /\ (files.tb = "given" => config.tb)
  <2> PICK old \in Some, covered \in Some, crossed \in Some, clean \in BOOLEAN :
         files = [ast |-> old, netlist |-> old, coverage |-> covered,
                  crux |-> [of |-> crossed, clean |-> clean /\ crossed # NoRtl],
                  harness |-> config.harness,
                  tb |-> IF config.tb THEN "given" ELSE "none"]
    BY DEF Init, Some
  <2>1. config.harness \in BOOLEAN
    BY <1>1 DEF Config
  <2>2. (clean /\ crossed # NoRtl) \in BOOLEAN
    OBVIOUS
  <2> QED
    BY <2>1, <2>2 DEF Files, Some
<1>3. WorkspaceOK
  BY <1>1, <1>2 DEF Init, WorkspaceOK, Some
<1>4. evidence \in [Gate -> Some]
  BY DEF Init, NoEvidence, Some
<1> QED
  BY <1>3, <1>4 DEF Init, SInv, NoResult, Progress, SignoffSound

LEMMA CallKeeps == ASSUME SInv, Call PROVE SInv'
<1>1. ASSUME NEW r \in Rtl, Rewrite(r)
      PROVE  SInv'
  BY <1>1 DEF Rewrite, SInv, WorkspaceOK, Some, NoResult, Progress, SignoffSound
<1>2. CASE Begin
  <2>2. WorkspaceOK'
    BY <1>2 DEF Begin, SInv, WorkspaceOK
  <2>3. evidence' \in [Gate -> Some] /\ ~result'.verified /\ pc' = "1" /\ reports' = <<>>
    BY <1>2 DEF Begin, NoEvidence, Some, NoResult
  <2>4. Behind(pc)' = {}
    BY <1>2, Gates DEF Begin, Behind, Rank
  <2>5. Progress'
    BY <2>3, <2>4 DEF Progress
  <2> QED
    BY <2>2, <2>3, <2>5, Gates DEF SInv, SignoffSound
<1>3. CASE NoSources
  BY <1>3 DEF NoSources, SInv, WorkspaceOK, Some, NoResult, NoEvidence, Progress, SignoffSound
<1> QED
  BY <1>1, <1>2, <1>3 DEF Call

\* Past Gate 1 a live verifier has this RTL's netlist in the workspace.
LEMMA NetlistIsOwn ==
    ASSUME SInv, pc # "1", pc # "idle", ~config.mock
    PROVE  files.netlist = rtl
  BY DEF SInv, Progress

LEMMA ElaborationKeeps == ASSUME SInv, Elaboration PROVE SInv'
<1>0. rtl \in Some /\ files \in Files /\ files.netlist \in Some
  BY DEF SInv, WorkspaceOK, Files
<1>1. CASE RefusedBeforeElaboration
  BY <1>1, Kept, FailKeeps DEF RefusedBeforeElaboration
<1>2. CASE Uncompiled
  BY <1>2, Kept, AbsentKeeps, Gates DEF Uncompiled
<1>3. CASE Unelaborated
  BY <1>3, Kept, AbsentKeeps, Gates DEF Unelaborated
<1>4. ASSUME NEW tree \in Some, NEW netlist \in Some,
             files' = [files EXCEPT !.ast = tree, !.netlist = netlist],
             UNCHANGED workspace
      PROVE  WorkspaceOK' /\ files'.netlist = netlist
  BY <1>4 DEF SInv, WorkspaceOK, workspace, Files
<1>5. CASE Elaborated
  BY <1>0, <1>4, <1>5, AcceptKeeps, Gates DEF Elaborated, Elaborates
<1>6. CASE ElaboratedBad
  BY <1>0, <1>4, <1>6, FailKeeps DEF ElaboratedBad
<1>7. CASE NoLiberty
  BY <1>7, Kept, FailKeeps DEF NoLiberty
<1>8. CASE ElaborationFails
  <2> PICK tree \in {files.ast, rtl} :
          /\ files' = [files EXCEPT !.ast = tree]
          /\ Fail("1", IF tree \in Latched THEN "LATCH_INFERRED"
                                           ELSE "SYNTHESIS_ELABORATION_ERROR")
    BY <1>8 DEF ElaborationFails
  <2>1. WorkspaceOK'
    BY <1>8 DEF ElaborationFails, SInv, WorkspaceOK, workspace, Files
  <2> QED
    BY <2>1, FailKeeps
<1>9. CASE NoNetlistForLec
  <2>1. CASE config.mock
    BY <1>9, <2>1, Kept, PassKeeps, Gates DEF NoNetlistForLec, Some
  <2>2. CASE ~config.mock
    BY <1>9, <2>2, Kept, FailKeeps DEF NoNetlistForLec
  <2> QED
    BY <2>1, <2>2
<1>10. CASE LecUnavailable
  BY <1>10, Kept, AbsentKeeps, Gates DEF LecUnavailable
<1>11. CASE Lec
  <2>1. CASE Accept("1b", files.netlist)
    BY <1>0, <1>11, <2>1, Kept, AcceptKeeps, NetlistIsOwn, Gates DEF Lec
  <2>2. CASE Fail("1b", "LEC_VERIFICATION_FAILED")
    BY <1>11, <2>2, Kept, FailKeeps DEF Lec
  <2> QED
    BY <1>11, <2>1, <2>2 DEF Lec
<1> QED
  BY <1>1, <1>2, <1>3, <1>5, <1>6, <1>7, <1>8, <1>9, <1>10, <1>11 DEF Elaboration

\* A live verifier never takes coverage data of an earlier candidate for this
\* one's where the testbench writes its own.
LEMMA SimulationKeeps == ASSUME SInv, Simulation PROVE SInv'
<1>0. Testbench \in {"none", "given", "generated"} /\ CoverageAfter \in Some
  BY DEF Testbench, CoverageAfter, SInv, WorkspaceOK, Files
<1>1. ASSUME NEW data \in {files.coverage, CoverageAfter},
             files' = [files EXCEPT !.tb = Testbench, !.coverage = data],
             UNCHANGED workspace
      PROVE  WorkspaceOK' /\ files'.netlist = files.netlist
  BY <1>0, <1>1 DEF SInv, WorkspaceOK, workspace, Files, Testbench, CoverageAfter
<1>2. CASE NoTestbench
  <2>1. CASE Requires("coverage")
    BY <1>2, <2>1, Kept, FailKeeps DEF NoTestbench
  <2>2. CASE ~Requires("coverage")
    BY <1>2, <2>2, Kept, SkipKeeps, Gates DEF NoTestbench, Waivable
  <2> QED
    BY <2>1, <2>2
<1>3. CASE NoVerilator
  <2>1. WorkspaceOK'
    BY <1>0, <1>3 DEF NoVerilator, SInv, WorkspaceOK, workspace, Files, Testbench
  <2> QED
    BY <1>3, <2>1, AbsentKeeps, Gates DEF NoVerilator
<1>4. CASE SimulationFails
  BY <1>1, <1>4, FailKeeps DEF SimulationFails
<1>5. CASE Covered
  <2>1. files' = [files EXCEPT !.tb = Testbench, !.coverage = CoverageAfter]
        /\ UNCHANGED workspace /\ pc = "3" /\ Accept("3", CoverageAfter)
    BY <1>5 DEF Covered, Simulates
  <2>2. WorkspaceOK' /\ files'.netlist = files.netlist
    BY <1>1, <2>1
  <2>3. ~config.mock => (CoverageAfter = rtl \/ MayBeStale("3")) /\ files.netlist = rtl
    BY <1>0, <1>5, <2>1, NetlistIsOwn
       DEF Covered, Simulates, CoverageAfter, MayBeStale, SInv, WorkspaceOK, Testbench, Files
  <2> QED
    BY <1>0, <2>1, <2>2, <2>3, AcceptKeeps, Gates
<1>6. CASE CoverageDeficit
  BY <1>1, <1>6, FailKeeps DEF CoverageDeficit
<1> QED
  BY <1>2, <1>3, <1>4, <1>5, <1>6 DEF Simulation

LEMMA FormalKeeps == ASSUME SInv, Formal PROVE SInv'
<1>1. CASE NoHarness
  <2>1. CASE Skip("2")
    BY <1>1, <2>1, Kept, SkipKeeps, Gates DEF NoHarness, Waivable
  <2>2. CASE \E c \in {"EMPTY_FORMAL_PROPERTY_SET", "MISSING_VERIFICATION_ARTIFACT"} :
                Fail("2", c)
    BY <1>1, <2>2, Kept, FailKeeps DEF NoHarness
  <2> QED
    BY <1>1, <2>1, <2>2 DEF NoHarness
<1>2. CASE HarnessUnsupported
  BY <1>2, Kept, FailKeeps DEF HarnessUnsupported
<1>3. CASE HarnessMade
  <2>1. WorkspaceOK' /\ files'.netlist = files.netlist
    BY <1>3 DEF HarnessMade, SInv, WorkspaceOK, workspace, Files
  <2>2. /\ UNCHANGED <<config, rtl, pc, reports, result, evidence>>
        /\ pc = "2"
    BY <1>3 DEF HarnessMade, workspace
  <2>3. Behind(pc)' = Behind(pc) /\ \A h : Settled(h)' = Settled(h)
    BY <2>2 DEF Behind, Requires, Settled, MayBeStale, Stands, Skipped, Waivable
  <2>4. Progress'
    BY <2>1, <2>2, <2>3 DEF SInv, Progress
  <2>5. SignoffSound'
    BY <2>2 DEF SInv, Progress, SignoffSound
  <2> QED
    BY <2>1, <2>2, <2>4, <2>5 DEF SInv
<1>4. CASE NoSby
  BY <1>4, Kept, AbsentKeeps, Gates DEF NoSby
<1>5. CASE Refuted
  BY <1>5, Kept, FailKeeps DEF Refuted
<1>6. CASE CoverJobFails
  BY <1>6, Kept, FailKeeps DEF CoverJobFails
<1>7. CASE FoundVacuous
  BY <1>7, Kept, FailKeeps DEF FoundVacuous
<1>8. CASE Proved
  <2>1. rtl \in Some
    BY DEF SInv, WorkspaceOK
  <2> QED
    BY <1>8, <2>1, Kept, AcceptKeeps, NetlistIsOwn, Gates DEF Proved, Proves
<1> QED
  BY <1>1, <1>2, <1>3, <1>4, <1>5, <1>6, <1>7, <1>8 DEF Formal

LEMMA PhysicalKeeps == ASSUME SInv, Physical PROVE SInv'
<1>0. rtl \in Some /\ files.netlist \in Some
  BY DEF SInv, WorkspaceOK, Files
<1>1. CASE TimingUnavailable
  BY <1>1, Kept, FailKeeps DEF TimingUnavailable
<1>2. CASE NoSta
  BY <1>2, Kept, AbsentKeeps, Gates DEF NoSta
<1>3. CASE Timing
  <2>1. CASE Accept("4", Timed)
    BY <1>0, <1>3, <2>1, Kept, AcceptKeeps, NetlistIsOwn, Gates DEF Timing, Timed
  <2>2. CASE Fail("4", "TIMING_SLACK_VIOLATION")
    BY <1>3, <2>2, Kept, FailKeeps DEF Timing
  <2> QED
    BY <1>3, <2>1, <2>2 DEF Timing
<1>4. CASE NoPnr
  BY <1>4, Kept, SkipKeeps, Gates DEF NoPnr, Waivable
<1>5. CASE NoNetlistForPnr
  BY <1>5, Kept, FailKeeps DEF NoNetlistForPnr
<1>6. CASE NoOpenroad
  BY <1>6, Kept, AbsentKeeps, Gates DEF NoOpenroad
<1>7. CASE Pnr
  <2>1. CASE Accept("5", files.netlist)
    BY <1>0, <1>7, <2>1, Kept, AcceptKeeps, NetlistIsOwn, Gates DEF Pnr
  <2>2. CASE Fail("5", "PNR_PLACEMENT_FAILED")
    BY <1>7, <2>2, Kept, FailKeeps DEF Pnr
  <2> QED
    BY <1>7, <2>1, <2>2 DEF Pnr
<1> QED
  BY <1>1, <1>2, <1>3, <1>4, <1>5, <1>6, <1>7 DEF Physical

LEMMA CdcKeeps == ASSUME SInv, Cdc PROVE SInv'
<1>0. rtl \in Some /\ NoRtl \in Some
  BY DEF SInv, WorkspaceOK, Some
<1>1. CASE CdcWaived
  BY <1>1, Kept, SkipKeeps, Gates DEF CdcWaived, Waivable
<1>2. CASE CdcDisabled
  BY <1>2, Kept, FailKeeps DEF CdcDisabled
<1>3. CASE CdcUnavailable
  <2>1. CASE config.mock /\ Pass("6", TRUE, FALSE, NoRtl)
    BY <1>0, <1>3, <2>1, Kept, PassKeeps, Gates DEF CdcUnavailable, Crosses
  <2>2. CASE Skip("6")
    BY <1>3, <2>2, Kept, SkipKeeps, Gates DEF CdcUnavailable, Crosses, Waivable
  <2>3. CASE \E c \in {"EDA_BINARY_MISSING", "CDC_TOOLING_UNAVAILABLE"} : Fail("6", c)
    BY <1>3, <2>3, Kept, FailKeeps DEF CdcUnavailable
  <2> QED
    BY <1>3, <2>1, <2>2, <2>3 DEF CdcUnavailable
<1>4. ASSUME NEW about \in Some, Accept("6", about), pc = "6", UNCHANGED <<workspace, files>>,
             about = rtl \/ config.mock \/ config.backend = "crux"
      PROVE  SInv'
  BY <1>4, Kept, AcceptKeeps, NetlistIsOwn, Gates DEF MayBeStale
<1>5. CASE CdcExternal
  <2>1. CASE \E c \in {"CDC_VIOLATION", "CDC_ANALYSIS_FAILED"} : Fail("6", c)
    BY <1>5, <2>1, Kept, FailKeeps DEF CdcExternal
  <2>2. CASE Accept("6", rtl) \/ (config.mock /\ Accept("6", NoRtl))
    BY <1>0, <1>4, <1>5, <2>2 DEF CdcExternal, Crosses
  <2> QED
    BY <1>5, <2>1, <2>2 DEF CdcExternal
<1>6. CASE CdcStructural
  <2>1. CASE \E c \in {"CDC_VIOLATION", "CDC_INCONCLUSIVE", "CDC_CHECKER_ERROR"} : Fail("6", c)
    BY <1>6, <2>1, Kept, FailKeeps DEF CdcStructural
  <2>2. CASE Accept("6", rtl)
    BY <1>0, <1>4, <1>6, <2>2 DEF CdcStructural, Crosses
  <2> QED
    BY <1>6, <2>1, <2>2 DEF CdcStructural
<1>7. CASE CruxRuns
  <2> PICK clean \in BOOLEAN :
         /\ files' = [files EXCEPT !.crux = [of |-> rtl, clean |-> clean]]
         /\ IF clean THEN Accept("6", rtl) ELSE Fail("6", "CDC_VIOLATION")
    BY <1>7 DEF CruxRuns
  <2>1. UNCHANGED workspace /\ pc = "6"
    BY <1>7 DEF CruxRuns, Crosses
  <2>2. WorkspaceOK' /\ files'.netlist = files.netlist
    <3>1. [of |-> rtl, clean |-> clean] \in [of : Some, clean : BOOLEAN]
      BY <1>0
    <3> QED
      BY <2>1, <3>1 DEF SInv, WorkspaceOK, workspace, Files
  <2>3. CASE clean
    BY <1>0, <2>1, <2>2, <2>3, AcceptKeeps, NetlistIsOwn, Gates
  <2>4. CASE ~clean
    BY <2>2, <2>4, FailKeeps
  <2> QED
    BY <2>3, <2>4
<1>8. CASE CruxCrashes
  <2>1. CASE \E c \in {"CDC_VIOLATION", "CDC_CHECKER_ERROR"} : Fail("6", c)
    BY <1>8, <2>1, Kept, FailKeeps DEF CruxCrashes
  <2>2. CASE Accept("6", NoRtl)
    BY <1>0, <1>4, <1>8, <2>2 DEF CruxCrashes, Crosses
  <2> QED
    BY <1>8, <2>1, <2>2 DEF CruxCrashes
<1>9. CASE CruxRefused
  <2>1. CASE files' = files
    BY <1>9, <2>1, Kept, FailKeeps DEF CruxRefused
  <2>2. CASE files' = [files EXCEPT !.crux = [of |-> NoRtl, clean |-> FALSE]]
    <3>1. [of |-> NoRtl, clean |-> FALSE] \in [of : Some, clean : BOOLEAN]
      BY DEF Some
    <3>2. WorkspaceOK'
      BY <1>9, <2>2, <3>1 DEF CruxRefused, SInv, WorkspaceOK, workspace, Files
    <3> QED
      BY <1>9, <3>2, FailKeeps DEF CruxRefused
  <2> QED
    BY <1>9, <2>1, <2>2 DEF CruxRefused
<1> QED
  BY <1>1, <1>2, <1>3, <1>5, <1>6, <1>7, <1>8, <1>9 DEF Cdc

\* The aggregate: a signoff has no gate that counts among the skipped ones, so
\* that each of them is settled by evidence.
LEMMA AggregateKeeps == ASSUME SInv, Aggregate PROVE SInv'
<1>1. /\ pc = "dft" /\ pc' = "idle" /\ UNCHANGED <<config, rtl, files, evidence>>
      /\ result'.verified = SignsOff(reports')
  BY DEF Aggregate, workspace
<1>2. WorkspaceOK'
  BY <1>1 DEF SInv, WorkspaceOK
<1>3. reports \in Seq(Entry)
  BY <1>1 DEF SInv, Progress
<1> DEFINE e == [gate |-> "dft", status |-> "PASS", simulated |-> FALSE,
                 skipped |-> Missing("yosys")]
<1>4. reports' = Append(reports, e)
  BY DEF Aggregate, Executed
<1> HIDE DEF e
<1>5. \A i \in DOMAIN reports : i \in DOMAIN reports' /\ reports'[i] = reports[i]
  BY <1>3, <1>4
<1>6. SignoffSound'
  <2> SUFFICES ASSUME SignsOff(reports'), ~config.mock, NEW g \in Counted
               PROVE  Stands(g) \/ MayBeStale(g)
    BY <1>1 DEF SignoffSound, MayBeStale, Counted, Stands, Requires, DeclaredNoCdc
  <2>1. g \in Behind("dft")
    BY Gates DEF Counted, Behind, Rank
  <2>2. Settled(g)
    BY <1>1, <2>1 DEF SInv, Progress
  <2>3. ASSUME Skipped(g)
        PROVE  FALSE
    <3>1. g \in Optional /\ Waivable(g)
      BY <1>5, <2>3 DEF Skipped, SignsOff
    <3> QED
      BY <3>1 DEF Optional, Counted, Waivable
  <2> QED
    BY <2>2, <2>3 DEF Settled
<1> QED
  BY <1>1, <1>2, <1>6 DEF SInv, Progress

LEMMA StepKeeps == SInv /\ [Next]_vars => SInv'
<1> SUFFICES ASSUME SInv, [Next]_vars
             PROVE  SInv'
  OBVIOUS
<1>1. CASE UNCHANGED vars
  <2>1. UNCHANGED <<config, rtl, files, pc, reports, result, evidence>>
    BY <1>1 DEF vars
  <2>2. Behind(pc)' = Behind(pc) /\ \A h : Settled(h)' = Settled(h)
    BY <2>1 DEF Behind, Requires, Settled, MayBeStale, Stands, Skipped, Waivable
  <2>3. WorkspaceOK' /\ Progress'
    BY <2>1, <2>2 DEF SInv, WorkspaceOK, Progress
  <2>4. SignoffSound'
    BY <2>1 DEF SInv, SignoffSound, MayBeStale, Counted, Stands, Requires, DeclaredNoCdc
  <2> QED
    BY <2>1, <2>3, <2>4 DEF SInv
<1> QED
  BY <1>1, CallKeeps, ElaborationKeeps, SimulationKeeps, FormalKeeps, PhysicalKeeps,
     CdcKeeps, AggregateKeeps DEF Next

\* What SiliconSignoffVerifier.verify signs off, without mock fallback, is RTL
\* that in this very pass every gate that counts has judged itself: whatever
\* an earlier pass or session has left in the workspace, and whatever gates were
\* skipped.  A crux that died, and a testbench of the caller's that writes no
\* coverage data, are the two cases MayBeStale names.
THEOREM SignoffIsSound == Spec => []SignoffSound
<1>1. SInv => SignoffSound
  BY DEF SInv
<1> QED
  BY InitHolds, StepKeeps, <1>1, PTL DEF Spec

-----------------------------------------------------------------------------
(***************************************************************************)
(* A refused candidate: the gates that were passed and the one that is due *)
(* are all that stands before the gates that are named as not run.         *)
(***************************************************************************)

\* The gates the entries name.
Names(entries) == {entries[i].gate : i \in DOMAIN entries}

NotRunEntry == [gate : Gate, status : {"NOT_RUN"}, simulated : {FALSE}, skipped : {FALSE}]

\* Every enabled gate before the one that is due has its entry.
Reported ==
    pc # "idle" =>
        /\ reports \in Seq(Entry)
        /\ \A g \in Gate : Enabled(g) /\ Rank(g) < Rank(pc) => g \in Names(reports)

EInv == /\ pc \in Gate \cup {"idle"}
        /\ Reported
        /\ FailureExplained

LEMMA Joined ==
    ASSUME NEW S, NEW t \in Seq(S), NEW u \in Seq(S)
    PROVE  /\ t \o u \in Seq(S)
           /\ Names(t \o u) = Names(t) \cup Names(u)
<1>1. /\ t \o u \in Seq(S) /\ Len(t \o u) = Len(t) + Len(u)
      /\ \A i \in 1..Len(t) + Len(u) :
            (t \o u)[i] = IF i <= Len(t) THEN t[i] ELSE u[i - Len(t)]
  OBVIOUS
<1>2. /\ Len(t) \in Nat /\ DOMAIN t = 1..Len(t)
      /\ Len(u) \in Nat /\ DOMAIN u = 1..Len(u)
      /\ DOMAIN (t \o u) = 1..(Len(t) + Len(u))
  BY <1>1
<1>3. \A i \in DOMAIN t : i \in DOMAIN (t \o u) /\ (t \o u)[i] = t[i]
  BY <1>1, <1>2
<1>4. \A i \in DOMAIN u : i + Len(t) \in DOMAIN (t \o u) /\ (t \o u)[i + Len(t)] = u[i]
  BY <1>1, <1>2
<1>5. \A i \in DOMAIN (t \o u) :
         \/ i \in DOMAIN t /\ (t \o u)[i] = t[i]
         \/ i - Len(t) \in DOMAIN u /\ (t \o u)[i] = u[i - Len(t)]
  BY <1>1, <1>2
<1>6. Names(t) \subseteq Names(t \o u)
  BY <1>3 DEF Names
<1>7. Names(u) \subseteq Names(t \o u)
  BY <1>4 DEF Names
<1>8. Names(t \o u) \subseteq Names(t) \cup Names(u)
  BY <1>5 DEF Names
<1> QED
  BY <1>1, <1>6, <1>7, <1>8

LEMMA Positions ==
    /\ Gate = {"1", "1b", "3", "2", "4", "5", "6", "dft"}
    /\ \A g \in Gate : Position(g) = Rank(g) /\ Rank(g) \in 1..8 /\ Order[Rank(g)] = g
    /\ \A i \in 1..8 : Order[i] \in Gate
<1>1. 1..8 = {1, 2, 3, 4, 5, 6, 7, 8}
  OBVIOUS
<1> DEFINE At(g, n) == \A i \in 1..8 : Order[i] = g <=> i = n
<1>2. At("1", 1) /\ At("1b", 2) /\ At("3", 3) /\ At("2", 4) /\ At("4", 5)
      /\ At("5", 6) /\ At("6", 7) /\ At("dft", 8)
  BY <1>1 DEF Order
<1> HIDE DEF At
<1>3. /\ Rank("1") = 1 /\ Rank("1b") = 2 /\ Rank("3") = 3 /\ Rank("2") = 4
      /\ Rank("4") = 5 /\ Rank("5") = 6 /\ Rank("6") = 7 /\ Rank("dft") = 8
  BY DEF Rank
<1>4. \A g \in Gate : Rank(g) \in 1..8 /\ At(g, Rank(g))
  BY <1>2, <1>3, Gates
<1>5. \A g \in Gate : Position(g) = Rank(g) /\ Order[Rank(g)] = g
  BY <1>4 DEF Position, At
<1> QED
  BY <1>1, <1>4, <1>5, Gates DEF Gate

\* Every enabled gate after the one that failed is named, and no other way
\* than as not run (_append_not_run_gates).
LEMMA LaterGates ==
    ASSUME NEW g \in Gate
    PROVE  /\ NotRunAfter(g) \in Seq(NotRunEntry)
           /\ \A h \in Gate : Enabled(h) /\ Rank(g) < Rank(h) => h \in Names(NotRunAfter(g))
<1> DEFINE B(i) == Blocked(g, i)
<1>1. \A i \in 1..8 : /\ B(i) \in Seq(NotRunEntry)
                      /\ Position(g) < i /\ Enabled(Order[i]) => Order[i] \in Names(B(i))
  <2> SUFFICES ASSUME NEW i \in 1..8
               PROVE  /\ B(i) \in Seq(NotRunEntry)
                      /\ Position(g) < i /\ Enabled(Order[i]) => Order[i] \in Names(B(i))
    OBVIOUS
  <2>1. Order[i] \in Gate /\ AsNotRun(Order[i]) \in NotRunEntry
    BY Positions DEF AsNotRun, NotRunEntry
  <2>2. CASE Position(g) < i /\ Enabled(Order[i])
    <3>1. B(i) = <<AsNotRun(Order[i])>>
      BY <2>2 DEF Blocked
    <3>2. 1 \in DOMAIN B(i) /\ B(i)[1].gate = Order[i]
      BY <3>1 DEF AsNotRun
    <3> QED
      BY <2>1, <3>1, <3>2 DEF Names
  <2>3. CASE ~(Position(g) < i /\ Enabled(Order[i]))
    BY <2>3 DEF Blocked
  <2> QED
    BY <2>2, <2>3
<1> DEFINE c3 == B(2) \o B(3)
           c4 == c3 \o B(4)
           c5 == c4 \o B(5)
           c6 == c5 \o B(6)
           c7 == c6 \o B(7)
           c8 == c7 \o B(8)
<1>2. NotRunAfter(g) = c8
  BY DEF NotRunAfter
<1> HIDE DEF B
<1>3. c3 \in Seq(NotRunEntry) /\ Names(c3) = Names(B(2)) \cup Names(B(3))
  BY <1>1, Joined
<1> HIDE DEF c3
<1>4. c4 \in Seq(NotRunEntry) /\ Names(c4) = Names(c3) \cup Names(B(4))
  BY <1>1, <1>3, Joined
<1> HIDE DEF c4
<1>5. c5 \in Seq(NotRunEntry) /\ Names(c5) = Names(c4) \cup Names(B(5))
  BY <1>1, <1>4, Joined
<1> HIDE DEF c5
<1>6. c6 \in Seq(NotRunEntry) /\ Names(c6) = Names(c5) \cup Names(B(6))
  BY <1>1, <1>5, Joined
<1> HIDE DEF c6
<1>7. c7 \in Seq(NotRunEntry) /\ Names(c7) = Names(c6) \cup Names(B(7))
  BY <1>1, <1>6, Joined
<1> HIDE DEF c7
<1>8. c8 \in Seq(NotRunEntry) /\ Names(c8) = Names(c7) \cup Names(B(8))
  BY <1>1, <1>7, Joined
<1> HIDE DEF c8
<1>9. \A i \in 2..8 : Names(B(i)) \subseteq Names(c8)
  <2>1. 2..8 = {2, 3, 4, 5, 6, 7, 8}
    OBVIOUS
  <2> QED
    BY <2>1, <1>3, <1>4, <1>5, <1>6, <1>7, <1>8
<1>10. ASSUME NEW h \in Gate, Enabled(h), Rank(g) < Rank(h)
       PROVE  h \in Names(c8)
  <2>1. Order[Rank(h)] = h /\ Rank(h) \in 1..8 /\ Rank(g) \in 1..8 /\ Position(g) = Rank(g)
    BY Positions
  <2>2. Rank(h) \in 2..8
    BY <1>10, <2>1
  <2>3. h \in Names(B(Rank(h)))
    BY <1>1, <1>10, <2>1
  <2> QED
    BY <1>9, <2>2, <2>3
<1> QED
  BY <1>2, <1>8, <1>10

LEMMA PassReports ==
    ASSUME EInv, NEW g \in Gate \ {"dft"}, pc = g, config' = config,
           NEW simulated \in BOOLEAN, NEW skipped \in BOOLEAN, NEW about,
           Pass(g, simulated, skipped, about)
    PROVE  EInv'
<1> DEFINE e == [gate |-> g, status |-> "PASS", simulated |-> simulated, skipped |-> skipped]
<1>1. /\ reports' = Append(reports, e) /\ e \in Entry /\ reports \in Seq(Entry)
      /\ e.gate = g /\ pc' = GateAfter(g)
  BY Gates DEF Pass, Executed, Entry, EInv, Reported
<1> HIDE DEF e
<1>2. /\ reports' \in Seq(Entry)
      /\ Len(reports) + 1 \in DOMAIN reports' /\ reports'[Len(reports) + 1] = e
      /\ \A i \in DOMAIN reports : i \in DOMAIN reports' /\ reports'[i] = reports[i]
  BY <1>1
<1>3. Names(reports) \subseteq Names(reports') /\ g \in Names(reports')
  BY <1>1, <1>2 DEF Names
<1>4. /\ pc' \in Gate
      /\ \A h \in Gate : Enabled(h) /\ Rank(h) < Rank(pc') => h = g \/ Rank(h) < Rank(g)
  <2>1. Enabled("1b") => Requires("lec")
    BY DEF Enabled
  <2>2. /\ Rank("1") = 1 /\ Rank("1b") = 2 /\ Rank("3") = 3 /\ Rank("2") = 4
        /\ Rank("4") = 5 /\ Rank("5") = 6 /\ Rank("6") = 7 /\ Rank("dft") = 8
    BY DEF Rank
  <2> QED
    BY <1>1, <2>1, <2>2, Gates, Succession
<1>5. \A h : Enabled(h)' <=> Enabled(h)
  BY DEF Enabled, Requires
<1>6. Names(reports)' = Names(reports')
  BY DEF Names
<1>7. Reported'
  <2>1. Rank(pc)' = Rank(pc')
    BY DEF Rank
  <2>2. \A h \in Gate : Enabled(h) /\ Rank(h) < Rank(pc') => h \in Names(reports')
    BY <1>1, <1>3, <1>4, Gates DEF EInv, Reported
  <2> QED
    BY <1>2, <1>5, <1>6, <2>1, <2>2 DEF Reported
<1>8. pc' # "idle"
  BY <1>4, Gates
<1> QED
  BY <1>4, <1>7, <1>8 DEF EInv, FailureExplained

LEMMA FailReports ==
    ASSUME EInv, NEW g \in Gate, pc = g, config' = config, NEW category, Fail(g, category)
    PROVE  EInv'
<1> DEFINE e == [gate |-> g, status |-> "FAIL", simulated |-> FALSE, skipped |-> FALSE]
           a == Append(reports, e)
           u == NotRunAfter(g)
           n == Len(reports)
<1>1. /\ reports' = a \o u /\ pc' = "idle" /\ reports \in Seq(Entry)
      /\ \A h \in Gate : Enabled(h) /\ Rank(h) < Rank(g) => h \in Names(reports)
  BY Gates DEF Fail, Executed, EInv, Reported
<1>2. /\ u \in Seq(NotRunEntry)
      /\ \A h \in Gate : Enabled(h) /\ Rank(g) < Rank(h) => h \in Names(u)
  BY LaterGates
<1> DEFINE All == Entry \cup {e} \cup NotRunEntry
<1>3. e.gate = g /\ e.status = "FAIL"
  OBVIOUS
<1> HIDE DEF e, u
<1>4. reports \in Seq(All) /\ u \in Seq(All) /\ e \in All
  BY <1>1, <1>2
<1> HIDE DEF All
<1>5. /\ a \in Seq(All) /\ Len(a) = n + 1 /\ a[n + 1] = e /\ n \in Nat
      /\ \A i \in 1..n : a[i] = reports[i]
  BY <1>4
<1>6. Names(a) = Names(reports) \cup {g}
  <2>1. DOMAIN a = 1..(n + 1) /\ DOMAIN reports = 1..n
    BY <1>4, <1>5
  <2> QED
    BY <1>3, <1>5, <2>1 DEF Names
<1> HIDE DEF a
<1>7. /\ reports' \in Seq(All) /\ Names(reports') = Names(reports) \cup {g} \cup Names(u)
  BY <1>1, <1>4, <1>5, <1>6, Joined
<1>8. /\ Len(reports') = n + 1 + Len(u) /\ Len(u) \in Nat
      /\ \A i \in 1..(n + 1 + Len(u)) :
            reports'[i] = IF i <= n + 1 THEN a[i] ELSE u[i - (n + 1)]
  <2>1. /\ Len(a \o u) = Len(a) + Len(u) /\ Len(u) \in Nat
        /\ \A i \in 1..Len(a) + Len(u) :
              (a \o u)[i] = IF i <= Len(a) THEN a[i] ELSE u[i - Len(a)]
    BY <1>4, <1>5
  <2> QED
    BY <1>1, <1>5, <2>1
<1>9. /\ n + 1 \in DOMAIN reports' /\ reports'[n + 1].status = "FAIL"
  BY <1>3, <1>5, <1>7, <1>8
<1>10. \A j \in 1..n : reports'[j].status = "PASS"
  <2> SUFFICES ASSUME NEW j \in 1..n PROVE reports'[j].status = "PASS"
    OBVIOUS
  <2>1. reports'[j] = reports[j]
    BY <1>5, <1>8
  <2>2. reports[j] \in Entry
    BY <1>1
  <2> QED
    BY <2>1, <2>2 DEF Entry
<1>11. \A j \in (n + 2)..Len(reports') : reports'[j].status = "NOT_RUN"
  <2> SUFFICES ASSUME NEW j \in (n + 2)..Len(reports') PROVE reports'[j].status = "NOT_RUN"
    OBVIOUS
  <2>1. reports'[j] = u[j - (n + 1)] /\ j - (n + 1) \in 1..Len(u)
    BY <1>5, <1>8
  <2>2. u[j - (n + 1)] \in NotRunEntry
    BY <1>2, <2>1
  <2> QED
    BY <2>1, <2>2 DEF NotRunEntry
<1>12. \A h \in Gate : Enabled(h) => h \in Names(reports')
  <2>1. \A h \in Gate : h = g \/ Rank(h) < Rank(g) \/ Rank(g) < Rank(h)
    BY Gates DEF Rank
  <2> QED
    BY <1>1, <1>2, <1>7, <2>1
<1>13. \A h : Enabled(h)' <=> Enabled(h)
  BY DEF Enabled, Requires
<1>14. \A h \in Gate : Enabled(h)' => \E j \in DOMAIN reports' : reports'[j].gate = h
  BY <1>12, <1>13 DEF Names
<1>15. (n + 1) - 1 = n /\ (n + 1) + 1 = n + 2
  BY <1>5
<1>16. FailureExplained'
  BY <1>9, <1>10, <1>11, <1>14, <1>15 DEF FailureExplained
<1> QED
  BY <1>1, <1>16 DEF EInv, Reported

\* What a step of a gate comes to.
Judges == /\ config' = config
          /\ pc \in Gate
          /\ \/ \E c : Fail(pc, c)
             \/ /\ pc # "dft"
                /\ \E simulated, skipped \in BOOLEAN : \E about : Pass(pc, simulated, skipped, about)

LEMMA GatesJudge ==
    ASSUME Elaboration \/ Simulation \/ Formal \/ Physical \/ Cdc
    PROVE  Judges \/ HarnessMade
<1> USE Gates DEF Judges, workspace, Accept, Skip, BinaryMissing
<1>1. CASE Elaboration
  BY <1>1 DEF Elaboration, RefusedBeforeElaboration, Uncompiled, Unelaborated, Elaborated,
     ElaboratedBad, NoLiberty, ElaborationFails, Elaborates, NoNetlistForLec, LecUnavailable, Lec
<1>2. CASE Simulation
  BY <1>2 DEF Simulation, NoTestbench, NoVerilator, SimulationFails, Covered,
     CoverageDeficit, Simulates
<1>3. CASE Formal
  BY <1>3 DEF Formal, NoHarness, HarnessUnsupported, NoSby, Refuted, CoverJobFails,
     FoundVacuous, Proved, Proves
<1>4. CASE Physical
  BY <1>4 DEF Physical, TimingUnavailable, NoSta, Timing, NoPnr, NoNetlistForPnr,
     NoOpenroad, Pnr
<1>5. CASE Cdc
  BY <1>5 DEF Cdc, CdcWaived, CdcDisabled, CdcUnavailable, CdcExternal, CdcStructural,
     CruxRuns, CruxCrashes, CruxRefused, Crosses
<1> QED
  BY <1>1, <1>2, <1>3, <1>4, <1>5

LEMMA StepReports == EInv /\ [Next]_vars => EInv'
<1> SUFFICES ASSUME EInv, [Next]_vars PROVE EInv'
  OBVIOUS
<1>1. CASE Judges
  <2>1. ASSUME NEW c, Fail(pc, c) PROVE EInv'
    BY <1>1, <2>1, FailReports DEF Judges
  <2>2. ASSUME pc # "dft", NEW simulated \in BOOLEAN, NEW skipped \in BOOLEAN, NEW about,
               Pass(pc, simulated, skipped, about)
        PROVE  EInv'
    BY <1>1, <2>2, PassReports DEF Judges
  <2> QED
    BY <1>1, <2>1, <2>2 DEF Judges
<1>2. CASE HarnessMade \/ UNCHANGED vars
  <2>1. UNCHANGED <<config, pc, reports, result>>
    BY <1>2 DEF HarnessMade, workspace, vars
  <2>2. \A h : Enabled(h)' <=> Enabled(h)
    BY <2>1 DEF Enabled, Requires
  <2> QED
    BY <2>1, <2>2 DEF EInv, Reported, FailureExplained, Names
<1>3. CASE Call
  <2>1. ASSUME NEW r \in Rtl, Rewrite(r) PROVE EInv'
    BY <2>1 DEF Rewrite, EInv, Reported, FailureExplained
  <2>2. CASE Begin
    BY <2>2, Gates DEF Begin, EInv, Reported, FailureExplained, Rank
  <2>3. CASE NoSources
    BY <2>3 DEF NoSources, EInv, Reported, FailureExplained
  <2> QED
    BY <1>3, <2>1, <2>2, <2>3 DEF Call
<1>4. CASE Aggregate
  BY <1>4 DEF Aggregate, EInv, Reported, FailureExplained
<1> QED
  BY <1>1, <1>2, <1>3, <1>4, GatesJudge DEF Next

\* A candidate that SiliconSignoffVerifier.verify refuses is refused by one
\* gate: those before it passed, and each later one that is switched on is
\* named as not run (_append_not_run_gates).
THEOREM FailuresAreExplained == Spec => []FailureExplained
<1>1. Init => EInv
  BY DEF Init, EInv, Reported, FailureExplained
<1>2. EInv => FailureExplained
  BY DEF EInv
<1> QED
  BY <1>1, <1>2, StepReports, PTL DEF Spec

-----------------------------------------------------------------------------
(***************************************************************************)
(* An accepted candidate: the report is the list of the gates, in the      *)
(* order they run.  The vacuity check: until the formal gate has accepted, *)
(* nothing stands in its place, so a harness it makes comes before any     *)
(* verdict on it.  And how many steps a pass may take.                     *)
(***************************************************************************)

\* The gates a pass that goes through has run.
OnTheWay == {g \in Gate : g = "1b" => Requires("lec")}

Ordered(entries) ==
    \A i, j \in DOMAIN entries : i < j => Rank(entries[i].gate) < Rank(entries[j].gate)

\* In the middle of a pass the report is that of the gates behind the next one.
Underway ==
    pc # "idle" =>
        /\ pc \in OnTheWay
        /\ reports \in Seq(Entry)
        /\ ~result.passed
        /\ Ordered(reports)
        /\ Names(reports) = {g \in OnTheWay : Rank(g) < Rank(pc)}
        /\ Rank(pc) <= Rank("2") => evidence["2"] = NoRtl

\* An accepted candidate's report has each gate that is switched on once, in
\* the order the gates ran, and none that failed or did not run.
AcceptedInFull ==
    result.passed =>
        /\ Ordered(reports)
        /\ Names(reports) = OnTheWay
        /\ \A i \in DOMAIN reports : reports[i].status = "PASS"

\* A signoff is given to nothing that was refused.
SignedOffIsAccepted == result.verified => result.passed

\* RTL that never exercises its implications is not accepted by the formal
\* gate when the harness is one the same call has made.
VacuityCaught ==
    fresh /\ config.properties = "implications" => evidence["2"] \notin Vacuous

PassInv == /\ SInv
           /\ Underway
           /\ AcceptedInFull
           /\ SignedOffIsAccepted
           /\ VacuityCaught

LEMMA Ranks ==
    /\ Rank("1") = 1 /\ Rank("1b") = 2 /\ Rank("3") = 3 /\ Rank("2") = 4
    /\ Rank("4") = 5 /\ Rank("5") = 6 /\ Rank("6") = 7 /\ Rank("dft") = 8
BY DEF Rank

\* The report of a gate that was passed goes to the end of the list.
LEMMA ReportAppended ==
    ASSUME NEW before \in Seq(Entry), NEW e \in Entry, Ordered(before),
           \A g \in Names(before) : Rank(g) < Rank(e.gate)
    PROVE  /\ Append(before, e) \in Seq(Entry)
           /\ Ordered(Append(before, e))
           /\ Names(Append(before, e)) = Names(before) \cup {e.gate}
           /\ \A i \in DOMAIN Append(before, e) : Append(before, e)[i].status = "PASS"
<1> DEFINE after == Append(before, e)
           n == Len(before)
<1>1. /\ n \in Nat /\ after \in Seq(Entry) /\ DOMAIN before = 1..n
      /\ DOMAIN after = 1..(n + 1) /\ after[n + 1] = e
      /\ \A i \in 1..n : after[i] = before[i]
  OBVIOUS
<1> HIDE DEF after, n
<1>2. \A i \in 1..(n + 1) : i = n + 1 \/ i \in 1..n
  BY <1>1
<1>3. Names(after) = Names(before) \cup {e.gate}
  <2>1. Names(before) \subseteq Names(after)
    BY <1>1 DEF Names
  <2>2. e.gate \in Names(after)
    <3>1. n + 1 \in DOMAIN after
      BY <1>1
    <3> QED
      BY <1>1, <3>1 DEF Names
  <2>3. Names(after) \subseteq Names(before) \cup {e.gate}
    BY <1>1, <1>2 DEF Names
  <2> QED
    BY <2>1, <2>2, <2>3
<1>4. Ordered(after)
  <2> SUFFICES ASSUME NEW i \in 1..(n + 1), NEW j \in 1..(n + 1), i < j
               PROVE  Rank(after[i].gate) < Rank(after[j].gate)
    BY <1>1 DEF Ordered
  <2>1. i \in 1..n
    BY <1>1
  <2>2. CASE j = n + 1
    <3>1. before[i].gate \in Names(before)
      BY <1>1, <2>1 DEF Names
    <3> QED
      BY <1>1, <2>1, <2>2, <3>1
  <2>3. CASE j \in 1..n
    BY <1>1, <2>1, <2>3 DEF Ordered
  <2> QED
    BY <1>2, <2>2, <2>3
<1>5. \A i \in DOMAIN after : after[i].status = "PASS"
  <2>1. \A entry \in Entry : entry.status = "PASS"
    BY DEF Entry
  <2> QED
    BY <1>1, <2>1
<1> QED
  BY <1>1, <1>3, <1>4, <1>5 DEF after

LEMMA PassOnTheWay ==
    ASSUME PassInv, SInv', NEW g \in Gate \ {"dft"}, pc = g, UNCHANGED <<config, fresh>>,
           NEW simulated \in BOOLEAN, NEW skipped \in BOOLEAN, NEW about,
           Pass(g, simulated, skipped, about),
           g = "2" /\ Assessed => about \notin Vacuous
    PROVE  PassInv'
<1> DEFINE e == [gate |-> g, status |-> "PASS", simulated |-> simulated, skipped |-> skipped]
<1>1. /\ pc # "idle" /\ pc' = GateAfter(g) /\ result' = result
      /\ reports' = Append(reports, e) /\ e \in Entry /\ e.gate = g
      /\ evidence' = [evidence EXCEPT ![g] = about] /\ evidence \in [Gate -> Some]
  BY Gates DEF Pass, Executed, Entry, PassInv, SInv
<1> HIDE DEF e
<1>2. /\ g \in OnTheWay
      /\ reports \in Seq(Entry) /\ ~result.passed /\ Ordered(reports)
      /\ Names(reports) = {h \in OnTheWay : Rank(h) < Rank(g)}
      /\ Rank(g) <= Rank("2") => evidence["2"] = NoRtl
  BY <1>1 DEF PassInv, Underway
<1>3. /\ reports' \in Seq(Entry) /\ Ordered(reports')
      /\ Names(reports') = Names(reports) \cup {g}
  BY <1>1, <1>2, ReportAppended
<1>4. /\ pc' \in OnTheWay
      /\ {h \in OnTheWay : Rank(h) < Rank(pc')}
            = {h \in OnTheWay : Rank(h) < Rank(g)} \cup {g}
  BY <1>1, <1>2, Gates, Ranks, Succession DEF OnTheWay
<1>5. Rank(pc') <= Rank("2") => evidence'["2"] = NoRtl
  <2>1. Rank(pc') <= Rank("2") => g # "2" /\ Rank(g) <= Rank("2")
    BY <1>1, Gates, Ranks, Succession
  <2> QED
    BY <1>1, <1>2, <2>1, Gates
<1>6. OnTheWay' = OnTheWay /\ Rank(pc)' = Rank(pc') /\ Names(reports)' = Names(reports')
      /\ Ordered(reports)' = Ordered(reports')
  BY DEF OnTheWay, Requires, Rank, Names, Ordered
<1>7. Underway'
  BY <1>1, <1>2, <1>3, <1>4, <1>5, <1>6 DEF Underway
<1>8. VacuityCaught'
  <2>1. CASE g = "2"
    BY <1>1, <2>1, Gates DEF VacuityCaught, Assessed
  <2>2. CASE g # "2"
    BY <1>1, <2>2, Gates DEF PassInv, VacuityCaught
  <2> QED
    BY <2>1, <2>2
<1>9. AcceptedInFull' /\ SignedOffIsAccepted'
  BY <1>1, <1>2 DEF PassInv, AcceptedInFull, SignedOffIsAccepted
<1> QED
  BY <1>7, <1>8, <1>9 DEF PassInv

LEMMA FailOnTheWay ==
    ASSUME PassInv, SInv', NEW g \in Gate, pc = g, UNCHANGED <<config, fresh>>,
           NEW category, Fail(g, category)
    PROVE  PassInv'
<1>1. pc' = "idle" /\ ~result'.passed /\ ~result'.verified /\ evidence' = evidence
  BY DEF Fail
<1> QED
  BY <1>1 DEF PassInv, Underway, AcceptedInFull, SignedOffIsAccepted, VacuityCaught

\* What the gate that is due comes to: it fails, or it is passed, and then
\* the formal gate stands for no RTL that its own cover job found vacuous.
Decides ==
    /\ pc \in Gate
    /\ UNCHANGED <<config, fresh, files.harness>>
    /\ \/ \E category : Fail(pc, category)
       \/ /\ pc # "dft"
          /\ \E simulated, skipped \in BOOLEAN : \E about :
                /\ Pass(pc, simulated, skipped, about)
                /\ pc = "2" /\ Assessed => about \notin Vacuous

LEMMA GatesDecide ==
    ASSUME WorkspaceOK, Elaboration \/ Simulation \/ Formal \/ Physical \/ Cdc
    PROVE  Decides \/ HarnessMade
<1> USE Gates DEF Decides, workspace, Accept, Skip, BinaryMissing
<1>0. NoRtl \notin Vacuous
  BY SignoffAssumption
<1>1. CASE Elaboration
  <2>1. /\ \/ files' = files
           \/ \E a : files' = [files EXCEPT !.ast = a]
           \/ \E a, b : files' = [files EXCEPT !.ast = a, !.netlist = b]
        /\ UNCHANGED fresh /\ pc # "2"
    BY <1>1 DEF Elaboration, RefusedBeforeElaboration, Uncompiled, Unelaborated,
       Elaborated, ElaboratedBad, NoLiberty, ElaborationFails, Elaborates, NoNetlistForLec,
       LecUnavailable, Lec
  <2>2. files'.harness = files.harness
    BY <2>1 DEF WorkspaceOK, Files
  <2> QED
    BY <1>1, <2>1, <2>2, GatesJudge DEF Judges, HarnessMade
<1>2. CASE Simulation
  <2>1. /\ \/ files' = files
           \/ \E a : files' = [files EXCEPT !.tb = a]
           \/ \E a, b : files' = [files EXCEPT !.tb = a, !.coverage = b]
        /\ UNCHANGED fresh /\ pc # "2"
    BY <1>2 DEF Simulation, NoTestbench, NoVerilator, SimulationFails, Covered,
       CoverageDeficit, Simulates
  <2>2. files'.harness = files.harness
    BY <2>1 DEF WorkspaceOK, Files
  <2> QED
    BY <1>2, <2>1, <2>2, GatesJudge DEF Judges, HarnessMade
<1>3. CASE Formal
  BY <1>0, <1>3 DEF Formal, NoHarness, HarnessUnsupported, NoSby, Refuted, CoverJobFails,
     FoundVacuous, Proved, Proves
<1>4. CASE Physical
  BY <1>4 DEF Physical, TimingUnavailable, NoSta, Timing, NoPnr, NoNetlistForPnr,
     NoOpenroad, Pnr
<1>5. CASE Cdc
  <2>1. /\ files' = files \/ \E a : files' = [files EXCEPT !.crux = a]
        /\ UNCHANGED fresh /\ pc # "2"
    BY <1>5 DEF Cdc, CdcWaived, CdcDisabled, CdcUnavailable, CdcExternal, CdcStructural,
       CruxRuns, CruxCrashes, CruxRefused, Crosses
  <2>2. files'.harness = files.harness
    BY <2>1 DEF WorkspaceOK, Files
  <2> QED
    BY <1>5, <2>1, <2>2, GatesJudge DEF Judges, HarnessMade
<1> QED
  BY <1>1, <1>2, <1>3, <1>4, <1>5

\* What is said of a report is still said of it when nothing has changed.
LEMMA SameReport ==
    ASSUME Underway, AcceptedInFull, SignedOffIsAccepted,
           UNCHANGED <<config, pc, reports, result, evidence>>
    PROVE  Underway' /\ AcceptedInFull' /\ SignedOffIsAccepted'
<1>1. /\ OnTheWay' = OnTheWay /\ Rank(pc)' = Rank(pc)
      /\ Names(reports)' = Names(reports) /\ Ordered(reports)' = Ordered(reports)
  BY DEF OnTheWay, Requires, Rank, Names, Ordered
<1>2. Underway'
  BY <1>1 DEF Underway
<1>3. AcceptedInFull'
  BY <1>1 DEF AcceptedInFull
<1> QED
  BY <1>2, <1>3 DEF SignedOffIsAccepted

LEMMA AnyStepOnTheWay == PassInv /\ [Next]_vars => PassInv'
<1> SUFFICES ASSUME PassInv, [Next]_vars PROVE PassInv'
  OBVIOUS
<1>0. SInv'
  BY StepKeeps DEF PassInv
<1>1. CASE Decides
  <2>1. ASSUME NEW category, Fail(pc, category) PROVE PassInv'
    BY <1>0, <1>1, <2>1, FailOnTheWay DEF Decides
  <2>2. ASSUME pc # "dft", NEW simulated \in BOOLEAN, NEW skipped \in BOOLEAN, NEW about,
               Pass(pc, simulated, skipped, about), pc = "2" /\ Assessed => about \notin Vacuous
        PROVE  PassInv'
    BY <1>0, <1>1, <2>2, PassOnTheWay DEF Decides
  <2> QED
    BY <1>1, <2>1, <2>2 DEF Decides
<1>2. CASE HarnessMade
  <2>1. pc = "2" /\ UNCHANGED <<config, pc, reports, result, evidence>>
    BY <1>2 DEF HarnessMade, workspace
  <2>2. evidence["2"] = NoRtl /\ NoRtl \notin Vacuous
    BY <2>1, Ranks, SignoffAssumption DEF PassInv, Underway
  <2>3. Underway' /\ AcceptedInFull' /\ SignedOffIsAccepted'
    BY <2>1, SameReport DEF PassInv
  <2>4. VacuityCaught'
    BY <2>1, <2>2 DEF VacuityCaught
  <2> QED
    BY <1>0, <2>3, <2>4 DEF PassInv
<1>3. CASE UNCHANGED vars
  <2>1. UNCHANGED <<config, pc, reports, result, evidence, fresh>>
    BY <1>3 DEF vars
  <2>2. Underway' /\ AcceptedInFull' /\ SignedOffIsAccepted'
    BY <2>1, SameReport DEF PassInv
  <2>3. VacuityCaught'
    BY <2>1 DEF PassInv, VacuityCaught
  <2> QED
    BY <1>0, <2>2, <2>3 DEF PassInv
<1>4. CASE Call
  <2>1. ASSUME NEW r \in Rtl, Rewrite(r) PROVE PassInv'
    BY <1>0, <2>1 DEF Rewrite, PassInv, Underway, AcceptedInFull, SignedOffIsAccepted,
                      VacuityCaught, NoResult
  <2>2. CASE Begin
    <3>1. /\ pc' = "1" /\ reports' = <<>> /\ result' = NoResult /\ ~fresh'
          /\ evidence' = NoEvidence /\ config' = config
      BY <2>2 DEF Begin
    <3>2. Names(<<>>) = {} /\ Ordered(<<>>) /\ <<>> \in Seq(Entry)
      BY DEF Names, Ordered
    <3>3. "1" \in OnTheWay' /\ {g \in OnTheWay' : Rank(g) < Rank("1")} = {}
      BY Gates, Ranks DEF OnTheWay
    <3>4. evidence'["2"] = NoRtl
      BY <3>1, Gates DEF NoEvidence
    <3>5. Rank(pc)' = Rank("1") /\ Names(reports)' = {} /\ Ordered(reports)'
          /\ reports' \in Seq(Entry)
      BY <3>1, <3>2 DEF Rank, Names, Ordered
    <3>6. Underway'
      <4>1. {g \in OnTheWay : Rank(g) < Rank(pc)}' = {}
        BY <3>1, <3>3 DEF Rank
      <4> QED
        BY <3>1, <3>3, <3>4, <3>5, <4>1 DEF Underway, NoResult
    <3> QED
      BY <1>0, <3>1, <3>6 DEF PassInv, AcceptedInFull, SignedOffIsAccepted, VacuityCaught, NoResult
  <2>3. CASE NoSources
    <3>1. /\ pc' = pc /\ pc = "idle" /\ ~result'.passed /\ ~result'.verified
          /\ evidence'["2"] = NoRtl
      BY <2>3, Gates DEF NoSources, NoResult, NoEvidence
    <3>2. NoRtl \notin Vacuous
      BY SignoffAssumption
    <3> QED
      BY <1>0, <3>1, <3>2 DEF PassInv, Underway, AcceptedInFull, SignedOffIsAccepted, VacuityCaught
  <2> QED
    BY <1>4, <2>1, <2>2, <2>3 DEF Call
<1>5. CASE Aggregate
  <2> DEFINE e == [gate |-> "dft", status |-> "PASS", simulated |-> FALSE, skipped |-> Missing("yosys")]
  <2>1. /\ pc = "dft" /\ pc' = "idle" /\ reports' = Append(reports, e) /\ e.gate = "dft"
        /\ result'.passed /\ UNCHANGED <<config, evidence, fresh>>
    BY <1>5 DEF Aggregate, workspace, Executed
  <2>2. e \in Entry
    BY Gates DEF Entry, Missing
  <2> HIDE DEF e
  <2>3. /\ reports \in Seq(Entry) /\ Ordered(reports)
        /\ Names(reports) = {h \in OnTheWay : Rank(h) < Rank("dft")}
    BY <2>1 DEF PassInv, Underway
  <2>4. /\ Ordered(reports') /\ Names(reports') = Names(reports) \cup {"dft"}
        /\ \A i \in DOMAIN reports' : reports'[i].status = "PASS"
    BY <2>1, <2>2, <2>3, ReportAppended
  <2>5. Names(reports') = OnTheWay /\ OnTheWay' = OnTheWay
    BY <2>1, <2>3, <2>4, Gates, Ranks DEF OnTheWay, Requires
  <2>6. AcceptedInFull'
    BY <2>4, <2>5 DEF AcceptedInFull, Ordered, Names
  <2>7. Underway' /\ SignedOffIsAccepted' /\ VacuityCaught'
    BY <2>1 DEF PassInv, Underway, SignedOffIsAccepted, VacuityCaught
  <2> QED
    BY <1>0, <2>6, <2>7 DEF PassInv
<1> QED
  BY <1>1, <1>2, <1>3, <1>4, <1>5, GatesDecide DEF Next, PassInv, SInv

LEMMA PassInvariant == Spec => []PassInv
<1>1. Init => PassInv
  <2> SUFFICES ASSUME Init PROVE PassInv
    OBVIOUS
  <2>1. SInv
    BY InitHolds
  <2>2. pc = "idle" /\ ~result.passed /\ ~result.verified /\ ~fresh
    BY DEF Init, NoResult
  <2> QED
    BY <2>1, <2>2 DEF PassInv, Underway, AcceptedInFull, SignedOffIsAccepted, VacuityCaught
<1> QED
  BY <1>1, AnyStepOnTheWay, PTL DEF Spec

\* The report of an accepted candidate is complete (verify, the aggregate at
\* its end): each gate the settings call for is in it once, in the order of
\* the gates, with a PASS; and only an accepted candidate is signed off.
THEOREM AcceptedReportsInFull == Spec => [](AcceptedInFull /\ SignedOffIsAccepted)
<1>1. PassInv => AcceptedInFull /\ SignedOffIsAccepted
  BY DEF PassInv
<1> QED
  BY <1>1, PassInvariant, PTL

\* What the second gate accepts with a harness it has made in the same call
\* (check_2_formal) exercises the contract's implications: NeverVacuous fails
\* of the harnesses it finds in the workspace, and of those alone.
THEOREM VacuityIsCaught == Spec => []VacuityCaught
<1>1. PassInv => VacuityCaught
  BY DEF PassInv
<1> QED
  BY <1>1, PassInvariant, PTL

\* A harness that was staged before the first pass, as the driver's always is,
\* is never made anew, so no pass runs the cover job on it.
Staged == config.harness => files.harness /\ ~fresh

\* Where the driver has staged the harness, check_2_formal never assesses
\* vacuity, in any pass and whatever the repair loop has written since.
THEOREM StagedIsNeverAssessed == Spec => [](config.harness => ~Assessed)
<1>1. Init => Staged
  BY DEF Init, Staged
<1>2. PassInv /\ Staged /\ [Next]_vars => Staged'
  <2> SUFFICES ASSUME PassInv, Staged, [Next]_vars PROVE Staged'
    OBVIOUS
  <2>1. CASE Decides
    BY <2>1 DEF Decides, Staged
  <2>2. CASE HarnessMade
    BY <2>2 DEF HarnessMade, workspace, Staged
  <2>3. CASE Call
    BY <2>3 DEF Call, Rewrite, Begin, NoSources, Staged
  <2>4. CASE Aggregate \/ UNCHANGED vars
    BY <2>4 DEF Aggregate, workspace, vars, Staged
  <2> QED
    BY <2>1, <2>2, <2>3, <2>4, GatesDecide DEF Next, PassInv, SInv
<1>3. Staged => (config.harness => ~Assessed)
  BY DEF Staged, Assessed
<1> QED
  BY <1>1, <1>2, <1>3, PassInvariant, PTL DEF Spec

\* The steps a pass can still take: one for each gate it has not left, and one
\* to make the harness if there is none.
Left == IF pc = "idle" THEN 0 ELSE (9 - Rank(pc)) + (IF files.harness THEN 0 ELSE 1)

\* Whatever the tools do, a call of verify is over after at most nine steps:
\* no gate is run twice, and a harness is made once.
THEOREM PassesUseUp == Spec => [](Left \in 0..9) /\ [][pc # "idle" => Left' < Left]_vars
<1>1. PassInv => Left \in 0..9
  BY Ranks, Gates DEF PassInv, SInv, WorkspaceOK, Files, Left
<1>2. PassInv /\ PassInv' /\ [Next]_vars => [pc # "idle" => Left' < Left]_vars
  <2> SUFFICES ASSUME PassInv, PassInv', Next, pc # "idle" PROVE Left' < Left
    OBVIOUS
  <2>1. files.harness \in BOOLEAN /\ files'.harness \in BOOLEAN /\ pc \in Gate
    BY DEF PassInv, SInv, WorkspaceOK, Files
  <2>2. CASE Decides \/ Aggregate
    <3>1. /\ pc' = "idle" \/ (pc # "dft" /\ pc' = GateAfter(pc))
          /\ files'.harness = files.harness
      BY <2>2 DEF Decides, Aggregate, Fail, Pass
    <3> QED
      BY <2>1, <3>1, Gates, Ranks, Succession DEF Left, Rank
  <2>3. CASE HarnessMade
    BY <2>1, <2>3, Ranks DEF HarnessMade, Left, PassInv, SInv, WorkspaceOK, Files
  <2>4. CASE Call
    BY <2>4 DEF Call, Rewrite, Begin, NoSources
  <2> QED
    BY <2>2, <2>3, <2>4, GatesDecide DEF Next, PassInv, SInv
<1> QED
  BY <1>1, <1>2, PassInvariant, PTL DEF Spec

-----------------------------------------------------------------------------
(***************************************************************************)
(* The simulation of Gate 3, for every number of inputs.  The register     *)
(* does not depend on the contract, so what it holds after each of the     *)
(* first 25 random steps can be written down; the thirteen values a        *)
(* clocked design reacts to among them already give any two of the seven   *)
(* bits the inputs are fed from all four pairs of values.                  *)
(***************************************************************************)
Register(n) ==
    CASE n = 0 -> Seed
      [] n = 1 -> {2, 3, 5, 8, 10, 15, 18, 19, 20, 21, 23, 26, 28, 29}
      [] n = 2 -> {1, 2, 4, 7, 9, 14, 17, 18, 19, 20, 22, 25, 27, 28}
      [] n = 3 -> {0, 1, 3, 6, 8, 13, 16, 17, 18, 19, 21, 24, 26, 27}
      [] n = 4 -> {0, 3, 4, 5, 6, 7, 8, 9, 14, 16, 17, 19, 21, 25, 28, 29}
      [] n = 5 -> {5, 7, 9, 12, 13, 14, 16, 19, 21, 23, 24, 26, 27, 29}
      [] n = 6 -> {4, 6, 8, 11, 12, 13, 15, 18, 20, 22, 23, 25, 26, 28}
      [] n = 7 -> {3, 5, 7, 10, 11, 12, 14, 17, 19, 21, 22, 24, 25, 27}
      [] n = 8 -> {2, 4, 6, 9, 10, 11, 13, 16, 18, 20, 21, 23, 24, 26}
      [] n = 9 -> {1, 3, 5, 8, 9, 10, 12, 15, 17, 19, 20, 22, 23, 25}
      [] n = 10 -> {0, 2, 4, 7, 8, 9, 11, 14, 16, 18, 19, 21, 22, 24}
      [] n = 11 -> {1, 2, 4, 7, 9, 10, 12, 13, 14, 17, 19, 26, 28, 29}
      [] n = 12 -> {0, 1, 3, 6, 8, 9, 11, 12, 13, 16, 18, 25, 27, 28}
      [] n = 13 -> {0, 3, 4, 5, 6, 7, 9, 10, 11, 14, 17, 18, 19, 20, 21, 23,
                  24, 27, 28, 29}
      [] n = 14 -> {5, 10, 12, 13, 14, 15, 16, 17, 21, 22, 27, 29}
      [] n = 15 -> {4, 9, 11, 12, 13, 14, 15, 16, 20, 21, 26, 28}
      [] n = 16 -> {3, 8, 10, 11, 12, 13, 14, 15, 19, 20, 25, 27}
      [] n = 17 -> {2, 7, 9, 10, 11, 12, 13, 14, 18, 19, 24, 26}
      [] n = 18 -> {1, 6, 8, 9, 10, 11, 12, 13, 17, 18, 23, 25}
      [] n = 19 -> {0, 5, 7, 8, 9, 10, 11, 12, 16, 17, 22, 24}
      [] n = 20 -> {2, 3, 7, 10, 11, 12, 14, 16, 18, 19, 20, 26, 28, 29}
      [] n = 21 -> {1, 2, 6, 9, 10, 11, 13, 15, 17, 18, 19, 25, 27, 28}
      [] n = 22 -> {0, 1, 5, 8, 9, 10, 12, 14, 16, 17, 18, 24, 26, 27}
      [] n = 23 -> {0, 2, 3, 6, 7, 11, 12, 13, 14, 16, 17, 18, 19, 20, 21, 25,
                  28, 29}
      [] n = 24 -> {1, 3, 4, 5, 8, 9, 10, 11, 13, 14, 16, 17, 21, 23, 24, 26,
                  27, 29}
      [] n = 25 -> {0, 2, 3, 4, 7, 8, 9, 10, 12, 13, 15, 16, 20, 22, 23, 25,
                  26, 28}

\* The register takes these values, one after the other.
LEMMA RegisterAdvances ==
    \A n \in 0..24 : Advance(Register(n)) = Register(n + 1)
<1>1. Advance(Register(0)) = Register(1)
  BY DEF Advance, Differs, Mask, Register, Seed
<1>2. Advance(Register(1)) = Register(2)
  BY DEF Advance, Differs, Mask, Register
<1>3. Advance(Register(2)) = Register(3)
  BY DEF Advance, Differs, Mask, Register
<1>4. Advance(Register(3)) = Register(4)
  BY DEF Advance, Differs, Mask, Register
<1>5. Advance(Register(4)) = Register(5)
  BY DEF Advance, Differs, Mask, Register
<1>6. Advance(Register(5)) = Register(6)
  BY DEF Advance, Differs, Mask, Register
<1>7. Advance(Register(6)) = Register(7)
  BY DEF Advance, Differs, Mask, Register
<1>8. Advance(Register(7)) = Register(8)
  BY DEF Advance, Differs, Mask, Register
<1>9. Advance(Register(8)) = Register(9)
  BY DEF Advance, Differs, Mask, Register
<1>10. Advance(Register(9)) = Register(10)
  BY DEF Advance, Differs, Mask, Register
<1>11. Advance(Register(10)) = Register(11)
  BY DEF Advance, Differs, Mask, Register
<1>12. Advance(Register(11)) = Register(12)
  BY DEF Advance, Differs, Mask, Register
<1>13. Advance(Register(12)) = Register(13)
  BY DEF Advance, Differs, Mask, Register
<1>14. Advance(Register(13)) = Register(14)
  BY DEF Advance, Differs, Mask, Register
<1>15. Advance(Register(14)) = Register(15)
  BY DEF Advance, Differs, Mask, Register
<1>16. Advance(Register(15)) = Register(16)
  BY DEF Advance, Differs, Mask, Register
<1>17. Advance(Register(16)) = Register(17)
  BY DEF Advance, Differs, Mask, Register
<1>18. Advance(Register(17)) = Register(18)
  BY DEF Advance, Differs, Mask, Register
<1>19. Advance(Register(18)) = Register(19)
  BY DEF Advance, Differs, Mask, Register
<1>20. Advance(Register(19)) = Register(20)
  BY DEF Advance, Differs, Mask, Register
<1>21. Advance(Register(20)) = Register(21)
  BY DEF Advance, Differs, Mask, Register
<1>22. Advance(Register(21)) = Register(22)
  BY DEF Advance, Differs, Mask, Register
<1>23. Advance(Register(22)) = Register(23)
  BY DEF Advance, Differs, Mask, Register
<1>24. Advance(Register(23)) = Register(24)
  BY DEF Advance, Differs, Mask, Register
<1>25. Advance(Register(24)) = Register(25)
  BY DEF Advance, Differs, Mask, Register
<1> QED
  <2> SUFFICES ASSUME NEW n \in 0..24 PROVE Advance(Register(n)) = Register(n + 1)
    OBVIOUS
  <2> HIDE DEF Register, Advance
  <2> QED
    BY <1>1, <1>2, <1>3, <1>4, <1>5, <1>6, <1>7, <1>8, <1>9, <1>10, <1>11, <1>12, <1>13, <1>14, <1>15, <1>16, <1>17, <1>18, <1>19, <1>20, <1>21, <1>22, <1>23, <1>24, <1>25

\* The bits that feed the inputs.
Feed == {0, 4, 8, 12, 16, 20, 24}

\* The odd values up to the 25th hold every pair of values of two such bits.
LEMMA RegisterPairs ==
    ASSUME NEW a \in Feed, NEW b \in Feed, a # b, NEW x \in BOOLEAN, NEW y \in BOOLEAN
    PROVE  \E n \in {1, 3, 5, 11, 13, 25} :
              (a \in Register(n)) = x /\ (b \in Register(n)) = y
<1>1. Register(1) \cap Feed = {8, 20}
  BY DEF Register, Feed
<1>2. Register(3) \cap Feed = {0, 8, 16, 24}
  BY DEF Register, Feed
<1>3. Register(5) \cap Feed = {12, 16, 24}
  BY DEF Register, Feed
<1>4. Register(11) \cap Feed = {4, 12}
  BY DEF Register, Feed
<1>5. Register(13) \cap Feed = {0, 4, 20, 24}
  BY DEF Register, Feed
<1>6. Register(25) \cap Feed = {0, 4, 8, 12, 16, 20}
  BY DEF Register, Feed
<1> QED
  <2> HIDE DEF Register
  <2> QED
    BY <1>1, <1>2, <1>3, <1>4, <1>5, <1>6 DEF Feed

\* Two inputs are fed from the same bit only when they are a multiple of
\* seven apart.
LEMMA FeedOf ==
    ASSUME NEW i \in 0..31, NEW j \in 0..31
    PROVE  /\ (i * 4) % 28 \in Feed
           /\ (i - j) % 7 # 0 => (i * 4) % 28 # (j * 4) % 28
  BY DEF Feed

\* Once a design has reacted to those thirteen values, its inputs have varied.
LEMMA RegisterVaries ==
    ASSUME InputCount \in 1..32,
           \A n \in {1, 3, 5, 11, 13, 25} : Random(Register(n)) \in seen
    PROVE  PairsVary
<1> SUFFICES ASSUME NEW i \in InputPort, NEW j \in InputPort, (i - j) % 7 # 0,
                    NEW pair \in SUBSET {i, j}
             PROVE  \E v \in seen : v \cap {i, j} = pair
  BY DEF PairsVary
<1>1. i \in 0..31 /\ j \in 0..31
  BY DEF InputPort
<1> DEFINE a == (i * 4) % 28
           b == (j * 4) % 28
<1>2. a \in Feed /\ b \in Feed /\ a # b
  BY <1>1, FeedOf
<1>3. PICK n \in {1, 3, 5, 11, 13, 25} :
          (a \in Register(n)) = (i \in pair) /\ (b \in Register(n)) = (j \in pair)
  <2> DEFINE x == i \in pair
             y == j \in pair
  <2>1. x \in BOOLEAN /\ y \in BOOLEAN
    OBVIOUS
  <2>2. \E n \in {1, 3, 5, 11, 13, 25} :
           (a \in Register(n)) = x /\ (b \in Register(n)) = y
    <3> HIDE DEF a, b, x, y, Register
    <3> QED
      BY <1>2, <2>1, RegisterPairs
  <2> QED
    BY <2>2
<1>4. Random(Register(n)) \in seen
  OBVIOUS
<1>5. Random(Register(n)) \cap {i, j} = pair
  <2> HIDE DEF Register
  <2> QED
    BY <1>3 DEF Random
<1> QED
  BY <1>4, <1>5

\* Where the directed phases are when the design has reacted to an input.
Directed == {"start", "sweep", "walk"}

\* The clock is low when a phase begins and, in a clocked design, rises at the
\* even steps.
InStep ==
    /\ clocked \in BOOLEAN
    /\ resets \in BOOLEAN
    /\ phase \in Directed \cup {"random", "recover", "done"}
    /\ step \in Nat
    /\ step \in 0..PhaseLength(phase)
    /\ phase \in Directed \cup {"random"} =>
          clk = IF clocked THEN step % 2 ELSE 0

\* The register keeps its seed until the random phase, and takes the values of
\* Register in it.
RegisterInStep ==
    /\ phase \in Directed => lfsr = Seed
    /\ phase = "random" /\ step <= 25 => lfsr = Register(step)

\* What the directed phases applied has been seen, at the rising edges only if
\* there is a clock.
DirectedSeen ==
    /\ phase # "start" /\ ~(phase = "sweep" /\ step = 0) => {} \in seen
    /\ phase # "start" /\ ~clocked /\ ~(phase = "sweep" /\ step < 2) => InputPort \in seen
    /\ phase \notin {"start", "sweep"} =>
          \A i \in InputPort :
             (phase = "walk" => i < step) /\ (clocked => i % 2 = 0) => {i} \in seen

\* What the random phase applied at the first rising edges has been seen.
RandomSeen ==
    phase \notin Directed =>
        \A n \in {1, 3, 5, 11, 13, 25} :
           (phase = "random" => n <= step) => Random(Register(n)) \in seen

StimulusInv == InStep /\ RegisterInStep /\ DirectedSeen /\ RandomSeen

\* A step that only adds to what has been seen, and leaves the phase, keeps the
\* part of the invariant about the phases behind it.
LEMMA SeenGrows ==
    ASSUME StimulusInv, step' = step + 1, seen \subseteq seen',
           UNCHANGED <<clocked, phase>>, phase \in {"start", "random", "recover"}
    PROVE  DirectedSeen' /\ (phase # "random" => RandomSeen')
<1>1. DirectedSeen'
  <2>1. phase # "start" =>
           /\ {} \in seen'
           /\ ~clocked => InputPort \in seen'
           /\ \A i \in InputPort : (clocked => i % 2 = 0) => {i} \in seen'
    BY DEF StimulusInv, DirectedSeen
  <2> QED
    BY <2>1 DEF DirectedSeen, InputPort
<1>2. phase # "random" => RandomSeen'
  <2> HIDE DEF Register
  <2>1. phase = "recover" =>
           \A n \in {1, 3, 5, 11, 13, 25} : Random(Register(n)) \in seen'
    BY DEF StimulusInv, RandomSeen, Directed
  <2> QED
    BY <2>1 DEF RandomSeen, Random, InputPort, Directed
<1> QED
  BY <1>1, <1>2

\* The phases in order keep the invariant, for every number of inputs.
LEMMA StimulusInvariant == StimulusSpec => []StimulusInv
<1> USE StimulusAssumption
<1>1. StimulusInit => StimulusInv
  <2> SUFFICES ASSUME StimulusInit PROVE StimulusInv
    OBVIOUS
  <2> USE DEF StimulusInit
  <2>1. InStep
    <3>1. clocked \in BOOLEAN /\ resets \in BOOLEAN
      OBVIOUS
    <3>2. step \in 0..PhaseLength(phase)
      BY DEF PhaseLength
    <3> QED
      BY <3>1, <3>2 DEF InStep, Directed
  <2>2. RegisterInStep /\ DirectedSeen /\ RandomSeen
    BY DEF RegisterInStep, DirectedSeen, RandomSeen, Directed
  <2> QED
    BY <2>1, <2>2 DEF StimulusInv
<1>2. StimulusInv /\ [StimulusNext]_stimulusVars => StimulusInv'
  <2> SUFFICES ASSUME StimulusInv, [StimulusNext]_stimulusVars PROVE StimulusInv'
    OBVIOUS
  <2> HIDE DEF Register
  <2> USE DEF StimulusInv
  <2>1. CASE ResetStep
    <3>1. UNCHANGED <<clocked, resets, phase, lfsr>> /\ step' = step + 1
      BY <2>1 DEF ResetStep
    <3>2. seen \subseteq seen' /\ phase \in {"start", "recover"}
      BY <2>1 DEF ResetStep, React
    <3>3. step < PhaseLength(phase) /\ PhaseLength(phase)' = PhaseLength(phase)
      BY <2>1, <3>1 DEF ResetStep, PhaseLength
    <3>4. InStep'
      <4>1. phase = "start" => clk' = IF clocked THEN step' % 2 ELSE 0
        BY <2>1, <3>1 DEF InStep, ResetStep, Toggle, Directed
      <4>2. step' \in 0..PhaseLength(phase')
        BY <3>1, <3>3 DEF InStep, PhaseLength
      <4> QED
        BY <3>1, <3>2, <4>1, <4>2 DEF InStep, PhaseLength, Directed
    <3>5. RegisterInStep'
      BY <3>1, <3>2 DEF RegisterInStep
    <3> QED
      BY <3>1, <3>2, <3>4, <3>5, SeenGrows
  <2>2. CASE StimulusStep
    <3>1. UNCHANGED <<clocked, resets, phase>> /\ step' = step + 1
      BY <2>2 DEF StimulusStep
    <3>2. phase \in {"sweep", "walk", "random"} /\ step < PhaseLength(phase)
      BY <2>2 DEF StimulusStep
    <3>3. step \in Nat /\ step' \in Nat
      BY <3>1 DEF InStep
    <3>4. clk' = IF clocked THEN step' % 2 ELSE 0
      BY <2>2, <3>1, <3>2, <3>3 DEF InStep, StimulusStep, Toggle, Directed
    <3>5. InStep'
      <4>1. step' \in 0..PhaseLength(phase')
        BY <3>1, <3>2, <3>3 DEF InStep, PhaseLength
      <4> QED
        BY <3>1, <3>2, <3>3, <3>4, <4>1 DEF InStep, PhaseLength
    <3>6. seen \subseteq seen'
      BY <2>2 DEF StimulusStep, React
    <3>7. CASE phase = "sweep"
      <4>1. lfsr' = lfsr
        BY <2>2, <3>7 DEF StimulusStep
      <4>2. step = 0 \/ ~clocked => BoundaryValue(step) \in seen'
        BY <2>2, <3>1, <3>3, <3>4, <3>7 DEF StimulusStep, React
      <4>3. {} \in seen'
        BY <3>3, <3>6, <3>7, <4>2 DEF DirectedSeen, BoundaryValue
      <4>4. ~clocked /\ step' >= 2 => InputPort \in seen'
        BY <3>1, <3>3, <3>6, <3>7, <4>2 DEF DirectedSeen, BoundaryValue
      <4>5. DirectedSeen'
        BY <3>1, <3>3, <3>7, <4>3, <4>4 DEF DirectedSeen, InputPort
      <4>6. RegisterInStep' /\ RandomSeen'
        BY <3>1, <3>7, <4>1 DEF RegisterInStep, RandomSeen, Directed
      <4> QED
        BY <3>5, <4>5, <4>6
    <3>8. CASE phase = "walk"
      <4>1. lfsr' = lfsr
        BY <2>2, <3>8 DEF StimulusStep
      <4>2. step % 2 = 0 \/ ~clocked => Walking(step) \in seen'
        BY <2>2, <3>1, <3>3, <3>4, <3>8 DEF StimulusStep, React
      <4>3. step \in InputPort => Walking(step) = {step}
        BY DEF Walking
      <4>4. ASSUME NEW i \in InputPort, i < step', clocked => i % 2 = 0
            PROVE  {i} \in seen'
        <5>1. i \in 0..31
          BY DEF InputPort
        <5>2. CASE i < step
          BY <3>6, <3>8, <4>4, <5>2 DEF DirectedSeen
        <5>3. CASE i = step
          BY <4>2, <4>3, <4>4, <5>3
        <5> QED
          BY <3>1, <3>3, <4>4, <5>1, <5>2, <5>3
      <4>5. DirectedSeen'
        <5>1. {} \in seen' /\ (~clocked => InputPort \in seen')
          BY <3>6, <3>8 DEF DirectedSeen
        <5> QED
          BY <3>1, <3>8, <4>4, <5>1 DEF DirectedSeen, InputPort
      <4>6. RegisterInStep' /\ RandomSeen'
        BY <3>1, <3>8, <4>1 DEF RegisterInStep, RandomSeen, Directed
      <4> QED
        BY <3>5, <4>5, <4>6
    <3>9. CASE phase = "random"
      <4>1. lfsr' = Advance(lfsr) /\ (step % 2 = 0 \/ ~clocked => Random(lfsr') \in seen')
        BY <2>2, <3>1, <3>3, <3>4, <3>9 DEF StimulusStep, React
      <4>2. step' <= 25 => lfsr' = Register(step')
        BY <3>1, <3>3, <3>9, <4>1, RegisterAdvances DEF RegisterInStep
      <4>3. ASSUME NEW n \in {1, 3, 5, 11, 13, 25}, n <= step'
            PROVE  Random(Register(n)) \in seen'
        <5>1. CASE n <= step
          BY <3>6, <3>9, <5>1 DEF RandomSeen, Directed
        <5>2. CASE n = step'
          BY <3>1, <3>3, <4>1, <4>2, <5>2
        <5> QED
          BY <3>1, <3>3, <4>3, <5>1, <5>2
      <4>4. RegisterInStep'
        BY <3>1, <3>9, <4>2 DEF RegisterInStep, Directed
      <4>5. RandomSeen'
        BY <3>1, <3>9, <4>3 DEF RandomSeen, Random, InputPort
      <4> QED
        BY <3>1, <3>5, <3>6, <3>9, <4>4, <4>5, SeenGrows
    <3> QED
      BY <3>2, <3>7, <3>8, <3>9
  <2>3. CASE NextPhase
    <3>1. UNCHANGED <<clocked, resets, clk, lfsr, seen>> /\ step' = 0
      BY <2>3 DEF NextPhase
    <3>2. /\ phase' = Following(phase) /\ step = PhaseLength(phase)
          /\ phase \in Directed \cup {"random", "recover"}
      BY <2>3 DEF NextPhase, InStep
    <3>3. InStep'
      <4>1. 0 \in 0..PhaseLength(phase')
        BY DEF PhaseLength
      <4>2. phase \in Directed => step % 2 = 0 \/ ~clocked
        BY <3>2 DEF PhaseLength, Directed
      <4>3. phase' \in Directed \cup {"random"} => clk' = 0
        BY <3>1, <3>2, <4>2 DEF InStep, Following, Directed
      <4> QED
        BY <3>1, <3>2, <4>1, <4>3 DEF InStep, PhaseLength, Following, Directed
    <3>4. RegisterInStep'
      <4>1. lfsr' = Register(0) \/ phase \notin Directed
        BY <3>1 DEF RegisterInStep, Directed, Register
      <4> QED
        BY <3>1, <3>2, <4>1 DEF RegisterInStep, Following, Directed
    <3>5. DirectedSeen'
      <4>1. CASE phase = "start"
        <5>1. phase' = "sweep"
          BY <3>2, <4>1 DEF Following
        <5> QED
          BY <3>1, <5>1 DEF DirectedSeen
      <4>2. CASE phase = "sweep"
        <5>1. phase' = "walk" /\ step >= 2
          BY <3>2, <4>2 DEF Following, PhaseLength
        <5>2. \A i \in InputPort : ~(i < step')
          BY <3>1 DEF InputPort
        <5>3. {} \in seen' /\ (~clocked => InputPort \in seen')
          BY <3>1, <4>2, <5>1 DEF DirectedSeen, InStep
        <5> QED
          BY <3>1, <5>1, <5>2, <5>3 DEF DirectedSeen, InputPort
      <4>3. CASE phase \in {"walk", "random", "recover"}
        <5>1. phase = "walk" => \A i \in InputPort : i < step
          BY <3>2 DEF PhaseLength, InputPort
        <5>2. /\ {} \in seen' /\ (~clocked => InputPort \in seen')
              /\ \A i \in InputPort : (clocked => i % 2 = 0) => {i} \in seen'
          BY <3>1, <4>3, <5>1 DEF DirectedSeen
        <5> QED
          BY <3>1, <5>2 DEF DirectedSeen, InputPort
      <4> QED
        BY <3>2, <4>1, <4>2, <4>3 DEF Directed
    <3>6. RandomSeen'
      <4>1. phase \in {"start", "sweep"} => phase' \in Directed
        BY <3>2 DEF Following, Directed
      <4>2. phase = "walk" => phase' = "random"
        BY <3>2 DEF Following
      <4>3. phase = "random" => step >= 400
        BY <3>2 DEF PhaseLength
      <4>4. phase \in {"random", "recover"} =>
               \A n \in {1, 3, 5, 11, 13, 25} : Random(Register(n)) \in seen
        <5>1. phase \in {"random", "recover"} => phase \notin Directed
          BY DEF Directed
        <5>2. phase = "random" => \A n \in {1, 3, 5, 11, 13, 25} : n <= step
          BY <4>3 DEF InStep
        <5> QED
          BY <5>1, <5>2 DEF RandomSeen
      <4>5. CASE phase \in {"start", "sweep"}
        BY <4>1, <4>5 DEF RandomSeen
      <4>6. CASE phase = "walk"
        <5>1. \A n \in {1, 3, 5, 11, 13, 25} : ~(n <= step')
          BY <3>1
        <5> QED
          BY <4>2, <4>6, <5>1 DEF RandomSeen
      <4>7. CASE phase \in {"random", "recover"}
        BY <3>1, <4>4, <4>7 DEF RandomSeen, Random, InputPort
      <4> QED
        BY <3>2, <4>5, <4>6, <4>7 DEF Directed
    <3> QED
      BY <3>3, <3>4, <3>5, <3>6
  <2>4. CASE UNCHANGED stimulusVars
    <3> USE DEF stimulusVars
    <3>1. InStep' /\ RegisterInStep'
      BY <2>4 DEF InStep, PhaseLength, RegisterInStep
    <3>2. DirectedSeen' /\ RandomSeen'
      BY <2>4 DEF DirectedSeen, RandomSeen, InputPort, Random
    <3> QED
      BY <3>1, <3>2
  <2> QED
    BY <2>1, <2>2, <2>3, <2>4 DEF StimulusNext
<1> QED
  BY <1>1, <1>2, PTL DEF StimulusSpec

\* The inputs of a design are exercised whatever their number, up to the 32
\* the walk has a position for: the directed phases are over only when the
\* design has reacted to what they apply, and the program only when its inputs
\* have varied independently.
THEOREM InputsAlwaysExercised == StimulusSpec => []InputsExercised
<1>1. StimulusInv => InputsExercised
  <2> SUFFICES ASSUME StimulusInv PROVE InputsExercised
    OBVIOUS
  <2> HIDE DEF Register
  <2>1. phase \in {"random", "recover", "done"} => SweepSeen
    <3> SUFFICES ASSUME phase \in {"random", "recover", "done"} PROVE SweepSeen
      OBVIOUS
    <3>1. \A i \in InputPort : (clocked => i % 2 = 0) => {i} \in seen
      BY DEF StimulusInv, DirectedSeen
    <3>2. \A i \in InputPort : i % 2 = 0 \/ i % 2 = 1
      BY DEF InputPort
    <3> QED
      BY <3>1, <3>2 DEF StimulusInv, DirectedSeen, SweepSeen
  <2>2. phase = "done" => PairsVary
    BY RegisterVaries, StimulusAssumption DEF StimulusInv, RandomSeen, Directed
  <2> QED
    BY <2>1, <2>2 DEF InputsExercised
<1> QED
  BY <1>1, StimulusInvariant, PTL
=============================================================================
