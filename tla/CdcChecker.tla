------------------------------ MODULE CdcChecker ------------------------------
(***************************************************************************)
(* Gate 6 with the repository's own clock-domain-crossing checker          *)
(* (tools/cdc_checker, SiliconSignoffVerifier._run_gate6_structural_cdc):  *)
(* what the parser keeps of a design, the domains, the crossings, their    *)
(* classification, the status of the report and what the gate makes of it. *)
(* The candidate grows by one statement at a time between two checks, as   *)
(* repairs change it, and the report of an earlier check stays in the      *)
(* workspace.                                                              *)
(*                                                                         *)
(* A statement is one assignment with the always block around it: the net  *)
(* it drives, the clock of the block (NoClock for assign and always_comb), *)
(* an asynchronous reset with the word or the comma it is separated by in  *)
(* the sensitivity list, the nets of the if and case conditions, the nets  *)
(* of the right-hand side, and whether it stands in a for loop, which is   *)
(* outside the subset.                                                     *)
(***************************************************************************)
EXTENDS Naturals, FiniteSets, Sequences

CONSTANTS
    NetOrder,    \* the nets, in alphabetical order (crossings are sorted)
    Statements,  \* the statements a candidate may be made of
    MaxSize,     \* bound on the statements of a candidate
    Inputs,      \* input ports
    Outputs,     \* output ports
    Wide,        \* nets declared with a range wider than one bit
    ResetNamed,  \* nets whose name begins with rst, reset or arst
    FifoNamed,   \* nets whose name contains fifo
    InstanceNets,\* nets connected to an instance of another module
    NoClock

Net == {NetOrder[i] : i \in DOMAIN NetOrder}

ASSUME NetlistAssumption ==
    /\ Inputs \cup Outputs \cup Wide \cup ResetNamed \cup FifoNamed
         \cup InstanceNets \subseteq Net
    /\ \A s \in Statements :
          /\ s.lhs \in Net \ Inputs   \* the language forbids to drive an input
          /\ s.cond \cup s.rhs \subseteq Net
          /\ s.sep \in {"or", ",", ""}
          /\ s.loop \in BOOLEAN
    /\ MaxSize \in Nat

VARIABLES
    design,    \* the statements of the present candidate
    cdcReport, \* cdc_report.json: its status, and whether it is this design's
    cdcGate    \* the gate's verdict on the present candidate, once it has run

cdcVars == <<design, cdcReport, cdcGate>>

-----------------------------------------------------------------------------
(***************************************************************************)
(* The parser.  Conditions are stripped before the identifiers of an       *)
(* assignment are collected.  A sensitivity list is split at commas only,  *)
(* and a part that is not one edge of one signal makes the whole block     *)
(* combinational: "posedge clk or negedge rst_n" is such a part.           *)
(***************************************************************************)
SensitivityEdges(s) ==
    IF s.clk = NoClock \/ s.sep = "or" THEN {}
    ELSE IF s.sep = "," THEN {s.clk, s.rst}
    ELSE {s.clk}

IsSeq(s) == SensitivityEdges(s) # {}

Seqs(d) == {s \in d : IsSeq(s)}

Driving(d, n) == {s \in d : s.lhs = n}

OutsideSubset(d) == \E s \in d : s.loop

Registers(d) == {s.lhs : s \in Seqs(d)}

\* The domain of a register: its only clock, or Unknown for a block of two
\* edges and for a register driven from blocks of different clocks.
Unknown == "unknown"

Only(clocks) ==
    IF \E c \in clocks : clocks = {c} THEN CHOOSE c \in clocks : TRUE ELSE Unknown

Domain(d, n) == Only({Only(SensitivityEdges(s)) : s \in Seqs(d) \cap Driving(d, n)})

InDomain(d, c) == {n \in Registers(d) : Domain(d, n) = c}

Clocks(d) == UNION {SensitivityEdges(s) : s \in d}

-----------------------------------------------------------------------------
(***************************************************************************)
(* Cones.  Closure(wires, reads, seeds) is what the seeds depend on        *)
(* through the wires, each of which depends on what it reads.              *)
(* Fanin(d, seeds, stop) does not go through the nets in stop.             *)
(***************************************************************************)
Closure(wires, reads, seeds) ==
    LET reach[i \in 0..Cardinality(wires)] ==
            IF i = 0 THEN seeds
            ELSE LET seen == reach[i - 1]
                 IN  seen \cup UNION {reads[w] : w \in {v \in wires : v.lhs \in seen}}
    IN  reach[Cardinality(wires)]

Fanin(d, seeds, stop) ==
    LET wires == {s \in d : ~IsSeq(s)}
    IN  Closure(wires, [w \in wires |-> w.rhs \ stop], seeds \ stop)

IsEndpoint(d, n) == Driving(d, n) = {} \/ n \in Registers(d)

CombCone(d, seeds) == {n \in Fanin(d, seeds, {}) : IsEndpoint(d, n)}

\* All that a register samples in domain c, over all its drivers.
Sampled(d, n, c) ==
    IF Domain(d, n) = c
    THEN UNION {CombCone(d, s.rhs) : s \in Seqs(d) \cap Driving(d, n)}
    ELSE {}

\* The nets the trace of a register's driver visits: not the register again.
Traced(d, n) ==
    UNION {Fanin(d, s.rhs, {n}) : s \in Seqs(d) \cap Driving(d, n)}

-----------------------------------------------------------------------------
(***************************************************************************)
(* Crossings, and the nets whose domain cannot be told.                    *)
(***************************************************************************)
Crosses(d, x, r) ==
    /\ Domain(d, r) # Unknown
    /\ x \in Traced(d, r)
    /\ Domain(d, x) \notin {Unknown, Domain(d, r)}

Crossings(d) ==
    {p \in Registers(d) \X Registers(d) : Crosses(d, p[1], p[2])}

Obscure(d, r, n) ==
    /\ Domain(d, r) # Unknown
    /\ n \in Traced(d, r)
    /\ \/ n \in InstanceNets
       \/ Driving(d, n) = {} /\ n \notin Inputs \cup Outputs
       \/ n \in Registers(d) /\ Domain(d, n) = Unknown

UnknownHits(d) ==
    {<<r, r>> : r \in {q \in Registers(d) : Domain(d, q) = Unknown}}
    \cup {p \in Registers(d) \X Net : Obscure(d, p[1], p[2])}

\* The nets between a source and the register that samples it.
Between(d, x, r) ==
    {n \in Traced(d, r) : x \in Fanin(d, {n}, {r})}

\* The second stages of a chain whose first stage is r: registers of the
\* domain that sample r, and nothing but registers of the domain.
Stages(d, r, c) ==
    {n \in InDomain(d, c) \ {r} :
        /\ r \in Sampled(d, n, c)
        /\ Sampled(d, n, c) \subseteq InDomain(d, c)}

\* A mutant: a second stage has to sample the first one and nothing else.
HasChainExact(d, x, r, c) ==
    /\ x \in Sampled(d, r, c)
    /\ Sampled(d, r, c) \subseteq InDomain(d, c) \cup {x}
    /\ \E n \in Stages(d, r, c) : Sampled(d, n, c) = {r}

HasChain(d, x, r, c) ==
    /\ x \in Sampled(d, r, c)
    /\ Sampled(d, r, c) \subseteq InDomain(d, c) \cup {x}
    /\ Stages(d, r, c) # {}

Consumers(d, n, c) ==
    {m \in InDomain(d, c) : n \in Sampled(d, m, c)}

StagesUsed(d, stages) ==
    \/ \E s \in d : s.rhs \cap stages # {} /\ (IsSeq(s) => s.lhs \notin stages)
    \/ stages \cap Outputs # {}

\* A mutant: only the source's consumers are looked at.
NoBypassOfSource(d, x, r, c) == Consumers(d, x, c) \subseteq {r}

NoBypass(d, x, r, c) ==
    /\ Consumers(d, x, c) \subseteq {r}
    /\ Consumers(d, r, c) \subseteq Stages(d, r, c)
    /\ StagesUsed(d, Stages(d, r, c))

Declared(d) ==
    Inputs \cup Outputs \cup UNION {{s.lhs} \cup s.cond \cup s.rhs : s \in d}

FifoCandidate(d) ==
    Cardinality(Clocks(d)) >= 2 /\ FifoNamed \cap Declared(d) # {}

Severity(d, x, r) ==
    LET c == Domain(d, r)
    IN  IF (Between(d, x, r) \cup {x, r}) \cap ResetNamed # {} THEN "inconclusive"
        ELSE IF FifoCandidate(d) THEN "inconclusive"
        ELSE IF HasChain(d, x, r, c) /\ ~NoBypass(d, x, r, c) THEN "error"
        ELSE IF x \in Wide THEN "inconclusive"
        ELSE IF HasChain(d, x, r, c) THEN "ok"
        ELSE "error"

-----------------------------------------------------------------------------
(***************************************************************************)
(* The status.  Crossings are classified by destination, in alphabetical   *)
(* order; within one destination in the order of the text, which is left   *)
(* open here.  The first finding that is not ok decides: an error after an *)
(* inconclusive one does not make the report a failure.                    *)
(***************************************************************************)
Position(n) == CHOOSE i \in DOMAIN NetOrder : NetOrder[i] = n

Findings(d) == {x \in Crossings(d) : Severity(d, x[1], x[2]) # "ok"}

FirstFindings(d) ==
    {x \in Findings(d) :
        \A y \in Findings(d) : Position(x[2]) <= Position(y[2])}

StatusOf(severity) == IF severity = "error" THEN "FAIL" ELSE "INCONCLUSIVE"

Statuses(d) ==
    IF OutsideSubset(d) THEN {"ERROR"}
    ELSE IF Findings(d) # {}
         THEN {StatusOf(Severity(d, x[1], x[2])) : x \in FirstFindings(d)}
    ELSE IF UnknownHits(d) # {} THEN {"INCONCLUSIVE"}
    ELSE {"PASS"}

ExitCode(status) ==
    CASE status = "PASS" -> 0
      [] status = "FAIL" -> 1
      [] status = "INCONCLUSIVE" -> 2
      [] OTHER -> 3

-----------------------------------------------------------------------------
CdcInit ==
    /\ design = {}
    /\ cdcReport = [status |-> "none", fresh |-> FALSE]
    /\ cdcGate = "none"

\* A repair writes another candidate; what is in the workspace stays.
Extend(s) ==
    /\ Cardinality(design) < MaxSize
    /\ s \notin design
    /\ design' = design \cup {s}
    /\ cdcReport' = [cdcReport EXCEPT !.fresh = FALSE]
    /\ cdcGate' = "none"

\* What the gate says of an exit code and of the report it finds.
GateVerdict(exit, status) ==
    IF exit = 0 /\ status = "PASS" THEN "passed"
    ELSE IF exit = 1 \/ status = "FAIL" THEN "CDC_VIOLATION"
    ELSE IF exit = 2 \/ status = "INCONCLUSIVE" THEN "CDC_INCONCLUSIVE"
    ELSE "CDC_CHECKER_ERROR"

\* The checker runs, writes its report and exits with the report's code.
CheckerRuns ==
    /\ cdcGate = "none"
    /\ \E status \in Statuses(design) :
          /\ cdcReport' = [status |-> status, fresh |-> TRUE]
          /\ cdcGate' = GateVerdict(ExitCode(status), status)
    /\ UNCHANGED design

\* The checker ends before it has written its report, of a signal or of an
\* exception of the interpreter, whose exit code is 1: the gate reads the
\* report of an earlier check, if there is one.
CheckerDies ==
    /\ cdcGate = "none"
    /\ \E exit \in {1, 3} : cdcGate' = GateVerdict(exit, cdcReport.status)
    /\ UNCHANGED <<design, cdcReport>>

\* The checker does not come back in time, or cannot be started, or there is
\* no RTL file: the gate is blocked without looking at a report.
CheckerUnavailable ==
    /\ cdcGate = "none"
    /\ cdcGate' = "CDC_CHECKER_ERROR"
    /\ UNCHANGED <<design, cdcReport>>

CdcNext ==
    \/ \E s \in Statements : Extend(s)
    \/ CheckerRuns
    \/ CheckerDies
    \/ CheckerUnavailable

CdcSpec == CdcInit /\ [][CdcNext]_cdcVars

-----------------------------------------------------------------------------
(***************************************************************************)
(* What the design does, whatever the checker makes of it: a register      *)
(* samples, at its clock, all that its right-hand sides and conditions     *)
(* depend on.  An input port in a condition is left out: a register may    *)
(* have a reset or an enable from outside, which has no clock here.        *)
(***************************************************************************)
RealClocks(d, n) == {s.clk : s \in Driving(d, n)} \ {NoClock}

Reads(s) == s.rhs \cup (s.cond \ Inputs)

RealSamples(d, n) ==
    LET wires == {s \in d : s.clk = NoClock}
        seeds == UNION {Reads(s) : s \in {q \in Driving(d, n) : q.clk # NoClock}}
    IN  {x \in Closure(wires, [w \in wires |-> Reads(w)], seeds) :
           Driving(d, x) = {} \/ RealClocks(d, x) # {}}

Synchronous(d, n) == {x \in Net : RealClocks(d, x) = RealClocks(d, n)}

ReallyCrosses(d, x, n) ==
    /\ RealClocks(d, x) # {} /\ RealClocks(d, n) # {}
    /\ x \in RealSamples(d, n) /\ x \notin Synchronous(d, n)

RealCrossings(d) == {p \in Net \X Net : ReallyCrosses(d, p[1], p[2])}

SecondStages(d, n) ==
    {m \in Synchronous(d, n) \ {n} :
        n \in RealSamples(d, m) /\ RealSamples(d, m) \subseteq Synchronous(d, n)}

\* One bit, sampled by one register on its own, and nothing but second stages
\* sees that register; the second stages are not dead ends.
Synchronised(d, x, n) ==
    /\ x \notin Wide
    /\ RealSamples(d, n) \subseteq Synchronous(d, n) \cup {x}
    /\ \A m \in Synchronous(d, n) :
          /\ m # n => x \notin RealSamples(d, m)
          /\ n \in RealSamples(d, m) => m \in SecondStages(d, n)
    /\ \/ SecondStages(d, n) \cap Outputs # {}
       \/ \E s \in d : s.lhs \notin SecondStages(d, n)
                     /\ Reads(s) \cap SecondStages(d, n) # {}

\* What the parser understands: no condition depends on a net of the design,
\* no asynchronous reset is written with the word or, and no net is driven both
\* in a clocked block and outside.
Understood(d) ==
    /\ \A s \in d : s.sep # "or" /\ s.cond \subseteq Inputs
    /\ \A s, t \in d : s.lhs = t.lhs /\ s.clk = NoClock => t.clk = NoClock

(***************************************************************************)
(* Properties.                                                             *)
(***************************************************************************)

\* The gate passes a candidate only on a report about it, never on what an
\* earlier check has left in the workspace, and only if every register that
\* really samples another clock's register is the first stage of a
\* synchroniser without a bypass.  The second holds of the designs the parser
\* understands.  Of others it does not: a crossing through an if condition is
\* not seen, a register with an asynchronous reset is taken for a wire, and a
\* register is not traced through itself.
CdcPassSound ==
    cdcGate = "passed" =>
        /\ cdcReport = [status |-> "PASS", fresh |-> TRUE]
        /\ Understood(design) =>
              \A x \in RealCrossings(design) : Synchronised(design, x[1], x[2])

\* A violation the checker itself has reported is one: the repair loop is
\* never sent after a crossing that is synchronised, or that is none.  A register
\* whose asynchronous reset stands behind a comma has no domain, so that what is
\* synchronised by one is a violation.
CdcViolationReal ==
    /\ cdcGate = "CDC_VIOLATION" /\ cdcReport = [status |-> "FAIL", fresh |-> TRUE]
    /\ Understood(design) /\ \A s \in design : s.sep = ""
    => \E x \in RealCrossings(design) : ~Synchronised(design, x[1], x[2])
=============================================================================
