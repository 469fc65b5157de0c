-------------------------- MODULE VerilatorStimulus --------------------------
(***************************************************************************)
(* The simulation of Gate 3: the C++ test driver that                      *)
(* VerificationHarnessGenerator.build_verilator_cpp_testbench writes for a *)
(* contract, one step per eval() of the design.  It toggles the clock,     *)
(* sets the inputs and evaluates, so that a register only ever sees the    *)
(* inputs of every second step.  The inputs are one bit wide.              *)
(***************************************************************************)
EXTENDS Integers, FiniteSets, Sequences

CONSTANT InputCount   \* inputs other than clock and reset, numbered from 0

ASSUME StimulusAssumption == InputCount \in 1..32

VARIABLES
    clocked,  \* the contract has a clock
    resets,   \* the contract has a reset
    phase,    \* the phase of the program that is being executed
    step,     \* steps done in this phase
    clk,      \* level of the clock
    lfsr,     \* the set of bits of the register that are one
    seen      \* the inputs (those that are one) the design has reacted to

stimulusVars == <<clocked, resets, phase, step, clk, lfsr, seen>>

InputPort == 0..InputCount - 1

Mask == {2, 3, 4, 6, 8, 9, 12, 14, 15, 18, 19, 20, 21, 23, 26, 28, 29, 31}
Seed == {0, 5, 6, 7, 10, 11, 13, 15}

Differs(s, t) == (s \cup t) \ (s \cap t)

\* A mutant: the feedback without the mask.
RotateOnly(s) ==
    {i \in 0..30 : i + 1 \in s} \cup IF 0 \in s THEN {31} ELSE {}

\* lfsr = (lfsr >> 1) | (lsb ? 1 << 31 : 0); if (lsb) lfsr ^= mask
Advance(s) ==
    LET rotated == {i \in 0..30 : i + 1 \in s}
                   \cup IF 0 \in s THEN {31} ELSE {}
    IN  IF 0 \in s THEN Differs(rotated, Mask) ELSE rotated

\* The inputs at step n of a phase.
BoundaryValue(n) == IF n % 2 = 0 THEN {} ELSE InputPort

Walking(n) == {i \in InputPort : i = n}

Random(s) == {i \in InputPort : (i * 4) % 28 \in s}

\* A clocked design reacts at a rising edge, any other to every change.
React(level, inputs) ==
    seen' = IF clocked /\ level = 0 THEN seen ELSE seen \cup {inputs}

StimulusInit ==
    /\ clocked \in BOOLEAN
    /\ resets \in IF clocked THEN BOOLEAN ELSE {FALSE}
    /\ phase = "start"
    /\ step = 0
    /\ clk = 0
    /\ lfsr = Seed
    /\ seen = {}

PhaseLength(p) ==
    CASE p = "start" -> IF ~clocked THEN 0 ELSE IF resets THEN 10 ELSE 4
      [] p = "sweep" -> IF clocked THEN 2 ELSE 4
      [] p = "walk" -> 32
      [] p = "random" -> IF clocked THEN 400 ELSE 500
      [] p = "recover" -> IF resets THEN 5 ELSE 0
      [] OTHER -> 0

Following(p) ==
    CASE p = "start" -> "sweep" [] p = "sweep" -> "walk"
      [] p = "walk" -> "random" [] p = "random" -> "recover"
      [] OTHER -> "done"

Toggle == clk' = IF clocked THEN 1 - clk ELSE clk

\* Half a cycle of the reset sequences, in which the inputs are not touched;
\* the reset is released before the last one.
ResetStep ==
    /\ phase \in {"start", "recover"}
    /\ step < PhaseLength(phase)
    /\ Toggle
    /\ step' = step + 1
    /\ IF phase = "recover" /\ step = 4 THEN React(clk', Random(lfsr))
       ELSE UNCHANGED seen
    /\ UNCHANGED <<clocked, resets, phase, lfsr>>

StimulusStep ==
    /\ phase \in {"sweep", "walk", "random"}
    /\ step < PhaseLength(phase)
    /\ Toggle
    /\ step' = step + 1
    /\ lfsr' = IF phase = "random" THEN Advance(lfsr) ELSE lfsr
    /\ React(clk', CASE phase = "sweep" -> BoundaryValue(step)
                     [] phase = "walk" -> Walking(step)
                     [] OTHER -> Random(lfsr'))
    /\ UNCHANGED <<clocked, resets, phase>>

NextPhase ==
    /\ phase # "done"
    /\ step = PhaseLength(phase)
    /\ phase' = Following(phase)
    /\ step' = 0
    /\ UNCHANGED <<clocked, resets, clk, lfsr, seen>>

StimulusNext == ResetStep \/ StimulusStep \/ NextPhase

StimulusSpec == StimulusInit /\ [][StimulusNext]_stimulusVars

-----------------------------------------------------------------------------
(***************************************************************************)
(* Properties.                                                             *)
(***************************************************************************)

\* After its directed phases the design has reacted to all inputs zero and to
\* a walking one, and one without a clock to all inputs one.  A clocked design
\* has seen the one only at the even positions, and all ones never: the other
\* half of the pattern is set at falling edges.
SweepSeen ==
    /\ {} \in seen
    /\ \A i \in InputPort : {i} \in seen \/ (clocked /\ i % 2 = 1)
    /\ InputPort \in seen \/ clocked

\* Over the whole program two inputs take all four pairs of values, unless
\* they are seven apart, when they are fed from the same bit of the register.
PairsVary ==
    \A i, j \in InputPort : (i - j) % 7 # 0 =>
        \A pair \in SUBSET {i, j} : \E v \in seen : v \cap {i, j} = pair

\* The design has reacted to what the directed phases apply once they are
\* over, and at the end of the program its inputs have varied independently.
InputsExercised ==
    /\ phase \in {"random", "recover", "done"} => SweepSeen
    /\ phase = "done" => PairsVary
=============================================================================
