---------------------------- MODULE TraceChain ----------------------------
(***************************************************************************)
(* The trace file of a workspace: PhaseDriver._emit_trace (core/driver.py) *)
(* and TraceRecord (core/types.py).                                        *)
(*                                                                         *)
(* A record carries the hash of the one before.  A hash is the number of   *)
(* the record it is of: the bodies differ at least in their time stamps.   *)
(* The driver keeps the last hash and the next step in memory only, and    *)
(* moves them on after the write.  A write can fail, and the driver can    *)
(* die in it, before any byte, after some, or after the last: bytes left   *)
(* without a newline run together with the next record.                    *)
(***************************************************************************)
EXTENDS Naturals, Sequences, FiniteSets

CONSTANTS
    MaxDrivers,     \* bound: drivers started on the file, one after another
    MaxSteps,       \* bound: records made by a driver
    MaxTorn         \* bound: writes that fail or are cut off

VARIABLES
    file,           \* the writes, in order: a record and whether it is whole
    made,           \* the number of records made, by all drivers
    drivers,        \* the number of drivers started
    alive,          \* a driver is running
    stepIndex,      \* self.step_index
    prevHash        \* self.prev_hash

chainVars == <<file, made, drivers, alive, stepIndex, prevHash>>

ZeroHash == 0

ChainInit ==
    /\ file = <<>>
    /\ made = 0
    /\ drivers = 0
    /\ alive = FALSE
    /\ stepIndex = 0
    /\ prevHash = ZeroHash

\* A driver starts a chain of its own, whatever the file holds.
StartDriver ==
    /\ ~alive
    /\ drivers < MaxDrivers
    /\ drivers' = drivers + 1
    /\ alive' = TRUE
    /\ stepIndex' = 0
    /\ prevHash' = ZeroHash
    /\ UNCHANGED <<file, made>>

EndDriver ==
    /\ alive
    /\ alive' = FALSE
    /\ UNCHANGED <<file, made, drivers, stepIndex, prevHash>>

\* The record made now, written whole or in part.
Written(whole) ==
    [hash |-> made + 1, prev |-> prevHash, step |-> stepIndex, whole |-> whole]

Torn == {i \in DOMAIN file : ~file[i].whole}

Emitting ==
    /\ alive
    /\ stepIndex < MaxSteps
    /\ made' = made + 1
    /\ UNCHANGED drivers

MoveOn ==
    /\ prevHash' = made + 1
    /\ stepIndex' = stepIndex + 1

EmitTrace ==
    /\ Emitting
    /\ file' = Append(file, Written(TRUE))
    /\ MoveOn
    /\ UNCHANGED alive

\* What a write leaves that does not come to its end.
CutOff ==
    /\ made < MaxDrivers * MaxSteps + MaxTorn
    /\ \/ UNCHANGED file
       \/ /\ Cardinality(Torn) < MaxTorn
          /\ file' = Append(file, Written(FALSE))

\* A memory that moves on before the write.
EmitTraceFailsLate ==
    /\ Emitting
    /\ CutOff
    /\ MoveOn
    /\ UNCHANGED alive

\* The write raises: memory is as before, and where the caller catches the
\* exception the driver goes on.
EmitTraceFails ==
    /\ Emitting
    /\ CutOff
    /\ UNCHANGED <<alive, stepIndex, prevHash>>

\* The process dies in the write; the whole record may have reached the file.
DieEmitting ==
    /\ Emitting
    /\ alive' = FALSE
    /\ \/ CutOff
       \/ file' = Append(file, Written(TRUE))
    /\ UNCHANGED <<stepIndex, prevHash>>

ChainNext ==
    \/ StartDriver
    \/ EndDriver
    \/ EmitTrace
    \/ EmitTraceFails
    \/ DieEmitting

ChainSpec == ChainInit /\ [][ChainNext]_chainVars

-----------------------------------------------------------------------------
\* Whether the i-th write is a line of its own, as a reader of the file needs.
Readable(f, i) == f[i].whole /\ (i = 1 \/ f[i - 1].whole)

\* A record a reader can place: the first of a chain, the next of the record
\* above it, or below a line that cannot be parsed.
Placed(f, i) ==
    \/ f[i].step = 0 /\ f[i].prev = ZeroHash
    \/ /\ i > 1
       /\ \/ ~Readable(f, i - 1)
          \/ f[i].prev = f[i - 1].hash /\ f[i].step = f[i - 1].step + 1

\* Directly below a readable record there is the next record of its chain or
\* the first of another; a chain is interrupted only by lines no reader can
\* parse, and no record ever follows a record that is not in the file.
BreaksAreVisible == \A i \in DOMAIN file : Readable(file, i) => Placed(file, i)
=============================================================================
