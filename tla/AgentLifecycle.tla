--------------------------- MODULE AgentLifecycle ---------------------------
(***************************************************************************)
(* PhaseDriver.run (core/driver.py): the general agent lifecycle, with its *)
(* snapshot taken and restored one directory entry at a time, and with     *)
(* processes that die in the middle of it.                                 *)
(*                                                                         *)
(* A run belongs to a session, whose id names its snapshot directory under *)
(* .mind/snapshots.  A run that dies (the process is killed, a file        *)
(* operation or the verifier raises) leaves workspace and snapshot as they *)
(* are; later runs, of the same session id or of another, start from       *)
(* there.  Runs of one workspace follow each other, they never overlap.    *)
(* The actions a model may choose (files, commands, skill scripts) and the *)
(* tests the verifier runs are taken for what they do to the workspace.    *)
(* The policy keeps write_file out of .mind; commands, scripts and tests   *)
(* run in a sandbox that binds the whole workspace for writing, so they    *)
(* may also alter or remove a snapshot directory, of any session.          *)
(***************************************************************************)
EXTENDS Integers, FiniteSets

CONSTANTS
    Item,           \* entries of the workspace directory
    Value,          \* what an entry may hold
    Absent,         \* the entry does not exist
    NoDir,          \* the snapshot directory does not exist
    Session,        \* session ids
    MaxRepairs,     \* max_repairs
    MaxRuns         \* bound: runs started on the workspace

Contents == [Item -> Value \cup {Absent}]

ASSUME LifecycleAssumption ==
    /\ Absent \notin Value
    /\ NoDir \notin Contents
    /\ IsFiniteSet(Item)
    /\ MaxRepairs \in Nat
    /\ MaxRuns \in Nat

VARIABLES
    ws,             \* the workspace, .mind excluded
    snaps,          \* the snapshot directory of each session
    session,        \* the session of the current or last run
    pc,             \* where the current run is
    todo,           \* entries an iterdir() loop has still to deal with
    turn,           \* self.turn
    verdict,        \* the last verification result
    phase,          \* the phase of the last trace record
    outcome,        \* how the current or last run ended
    runs,           \* runs started so far
    original,       \* history variable: the workspace a session began with
    complete,       \* history variable: sessions whose snapshot was completed
    touched         \* history variable: sessions whose snapshot a command, a
                    \* script or a test has altered since its session began

vars == <<ws, snaps, session, pc, todo, turn, verdict, phase, outcome, runs,
          original, complete, touched>>

history == <<runs, original, complete, touched>>

Empty == [i \in Item |-> Absent]

Present(contents) == {i \in Item : contents[i] # Absent}

Verdict == {"none", "passed", "failed", "non_repairable"}

Init ==
    /\ ws \in Contents
    /\ snaps = [s \in Session |-> NoDir]
    /\ session \in Session
    /\ pc = "idle"
    /\ todo = {}
    /\ turn = 0
    /\ verdict = "none"
    /\ phase = ""
    /\ outcome = "none"
    /\ runs = 0
    /\ original = [s \in Session |-> Empty]
    /\ complete = {}
    /\ touched = {}

-----------------------------------------------------------------------------
(***************************************************************************)
(* Snapshot: _create_snapshot, _restore_snapshot, _purge_snapshot.         *)
(***************************************************************************)

\* The directory made without removing what an earlier run left in it.
CleanDirKept(s) == IF snaps[s] = NoDir THEN Empty ELSE snaps[s]

\* rmtree of an old directory, then mkdir.
CleanDir(s) == Empty

\* INTAKE and ROUTE records, then the start of _create_snapshot.
Begin(s) ==
    /\ pc = "idle"
    /\ runs < MaxRuns
    /\ runs' = runs + 1
    /\ session' = s
    /\ snaps' = [snaps EXCEPT ![s] = CleanDir(s)]
    /\ todo' = Present(ws)
    /\ original' = [original EXCEPT ![s] = ws]
    /\ complete' = complete \ {s}
    /\ touched' = touched \ {s}
    /\ turn' = 0
    /\ verdict' = "none"
    /\ phase' = "ROUTE"
    /\ outcome' = "running"
    /\ pc' = "copying"
    /\ UNCHANGED ws

CopyOut(i) ==
    /\ pc = "copying"
    /\ i \in todo
    /\ snaps' = [snaps EXCEPT ![session][i] = ws[i]]
    /\ todo' = todo \ {i}
    /\ UNCHANGED <<ws, session, pc, turn, verdict, phase, outcome, history>>

\* The SNAPSHOT record; the turns begin.
SnapshotTaken ==
    /\ pc = "copying"
    /\ todo = {}
    /\ pc' = "turn"
    /\ phase' = "SNAPSHOT"
    /\ complete' = complete \cup {session}
    /\ UNCHANGED <<ws, snaps, session, todo, turn, verdict, outcome, runs,
                   original, touched>>

DeleteEntry(i) ==
    /\ pc = "deleting"
    /\ i \in todo
    /\ ws' = [ws EXCEPT ![i] = Absent]
    /\ todo' = todo \ {i}
    /\ UNCHANGED <<snaps, session, pc, turn, verdict, phase, outcome, history>>

DeletedAll ==
    /\ pc = "deleting"
    /\ todo = {}
    /\ pc' = "restoring"
    /\ todo' = Present(snaps[session])
    /\ UNCHANGED <<ws, snaps, session, turn, verdict, phase, outcome, history>>

\* An entry moved back, not copied.
SnapshotAfterMove(i) == [snaps EXCEPT ![session][i] = Absent]

SnapshotAfterCopy(i) == snaps

CopyBack(i) ==
    /\ pc = "restoring"
    /\ i \in todo
    /\ ws' = [ws EXCEPT ![i] = snaps[session][i]]
    /\ snaps' = SnapshotAfterCopy(i)
    /\ todo' = todo \ {i}
    /\ UNCHANGED <<session, pc, turn, verdict, phase, outcome, history>>

-----------------------------------------------------------------------------
(***************************************************************************)
(* Turns.                                                                  *)
(***************************************************************************)

InTurn ==
    /\ pc = "turn"
    /\ turn < MaxRepairs

\* A failed call that does not spend its turn.
TurnFailsFree(p) ==
    /\ InTurn
    /\ phase' = p
    /\ UNCHANGED <<ws, snaps, session, pc, todo, turn, verdict, outcome, history>>

\* The failures that only spend a turn: the model call (MODEL_CALL record),
\* the action's schema (PARSE) and the policy (POLICY_CHECK).
TurnFails(p) ==
    /\ InTurn
    /\ turn' = turn + 1
    /\ phase' = p
    /\ UNCHANGED <<ws, snaps, session, pc, todo, verdict, outcome, history>>

\* A write, a command, a script or a test may leave anything in the workspace;
\* all but a write may leave anything of the snapshot directories too.
CodeRuns ==
    /\ ws' \in Contents
    /\ snaps' \in [Session -> Contents \cup {NoDir}]
    /\ touched' = touched \cup {s \in Session : snaps'[s] # snaps[s]}

\* The action raises, possibly after some of its effects.
ExecuteRaises ==
    /\ InTurn
    /\ CodeRuns
    /\ turn' = turn + 1
    /\ phase' = "EXECUTE"
    /\ UNCHANGED <<session, pc, todo, verdict, outcome, runs, original, complete>>

Execute ==
    /\ InTurn
    /\ CodeRuns
    /\ phase' = "OBSERVE"
    /\ pc' = "verify"
    /\ UNCHANGED <<session, todo, turn, verdict, outcome, runs, original, complete>>

\* The verifier's tools leave their files, and the tests are the model's code.
VerifierRuns ==
    /\ pc = "verify"
    /\ CodeRuns
    /\ pc' = "report"
    /\ UNCHANGED <<session, todo, turn, verdict, phase, outcome, runs, original,
                   complete>>

Verify ==
    /\ pc = "report"
    /\ verdict' \in Verdict \ {"none"}
    /\ phase' = "VERIFY"
    /\ pc' = "judge"
    /\ UNCHANGED <<ws, snaps, session, todo, turn, outcome, history>>

\* The snapshot is purged and the run returns True.
Accept ==
    /\ pc = "judge"
    /\ verdict = "passed"
    /\ snaps' = [snaps EXCEPT ![session] = NoDir]
    /\ complete' = complete \ {session}
    /\ phase' = "TRACE"
    /\ outcome' = "true"
    /\ pc' = "idle"
    /\ UNCHANGED <<ws, session, todo, turn, verdict, runs, original, touched>>

\* The turn count _restore_snapshot starts from: a non-repairable failure
\* aborts in any turn, another failure when it was the last turn.
TurnsAfter == IF verdict = "failed" THEN turn + 1 ELSE turn

MustRestore == verdict = "non_repairable" \/ TurnsAfter >= MaxRepairs

\* A restore that copies over the files without deleting the others.
BeginRestoreOver ==
    /\ pc = "judge"
    /\ verdict # "passed"
    /\ MustRestore
    /\ snaps[session] # NoDir
    /\ turn' = TurnsAfter
    /\ pc' = "deleting"
    /\ todo' = {}
    /\ UNCHANGED <<ws, snaps, session, verdict, phase, outcome, history>>

BeginRestore ==
    /\ pc = "judge"
    /\ verdict # "passed"
    /\ MustRestore
    /\ snaps[session] # NoDir
    /\ turn' = TurnsAfter
    /\ pc' = "deleting"
    /\ todo' = Present(ws)
    /\ UNCHANGED <<ws, snaps, session, verdict, phase, outcome, history>>

\* _restore_snapshot raises when the directory is gone: nothing is deleted.
NothingToRestore ==
    /\ pc = "judge"
    /\ verdict # "passed"
    /\ MustRestore
    /\ snaps[session] = NoDir
    /\ turn' = TurnsAfter
    /\ outcome' = "died"
    /\ pc' = "idle"
    /\ UNCHANGED <<ws, snaps, session, todo, verdict, phase, history>>

\* REPAIR_REQUIRED: the next turn.
NextTurn ==
    /\ pc = "judge"
    /\ verdict # "passed"
    /\ ~MustRestore
    /\ turn' = TurnsAfter
    /\ phase' = "REPAIR_OR_FINISH"
    /\ pc' = "turn"
    /\ UNCHANGED <<ws, snaps, session, todo, verdict, outcome, history>>

\* The restored run records REPAIR_OR_FINISH and TRACE and returns False.
Restored ==
    /\ pc = "restoring"
    /\ todo = {}
    /\ phase' = "TRACE"
    /\ outcome' = "false"
    /\ pc' = "idle"
    /\ UNCHANGED <<ws, snaps, session, todo, turn, verdict, history>>

\* The loop is left because the last turn failed before its verification:
\* return False, with nothing restored and nothing recorded.
TurnsRunOut ==
    /\ pc = "turn"
    /\ turn >= MaxRepairs
    /\ outcome' = "false"
    /\ pc' = "idle"
    /\ UNCHANGED <<ws, snaps, session, todo, turn, verdict, phase, history>>

\* The process is killed, or a file operation or the verifier raises.
Die ==
    /\ pc # "idle"
    /\ outcome' = "died"
    /\ pc' = "idle"
    /\ todo' = {}
    /\ UNCHANGED <<ws, snaps, session, turn, verdict, phase, history>>

-----------------------------------------------------------------------------
Snapshotting ==
    \/ \E i \in Item : CopyOut(i) \/ DeleteEntry(i) \/ CopyBack(i)
    \/ SnapshotTaken
    \/ DeletedAll
    \/ Restored

Turn ==
    \/ \E p \in {"MODEL_CALL", "PARSE", "POLICY_CHECK"} : TurnFails(p)
    \/ ExecuteRaises
    \/ Execute
    \/ VerifierRuns
    \/ Verify
    \/ Accept
    \/ BeginRestore
    \/ NothingToRestore
    \/ NextTurn
    \/ TurnsRunOut

Next ==
    \/ \E s \in Session : Begin(s)
    \/ Snapshotting
    \/ Turn
    \/ Die

Spec == Init /\ [][Next]_vars

\* A started run keeps running: its loops are finite and its calls time out.
FairSpec == Spec /\ WF_vars(Snapshotting \/ Turn)

-----------------------------------------------------------------------------
(***************************************************************************)
(* Properties.                                                             *)
(***************************************************************************)

\* Every variable has its type; no run has more turns than max_repairs.
TypeOK ==
    /\ ws \in Contents
    /\ snaps \in [Session -> Contents \cup {NoDir}]
    /\ session \in Session
    /\ pc \in {"idle", "copying", "turn", "verify", "report", "judge", "deleting",
              "restoring"}
    /\ todo \in SUBSET Item
    /\ turn \in 0..MaxRepairs
    /\ verdict \in Verdict
    /\ phase \in {"", "ROUTE", "SNAPSHOT", "MODEL_CALL", "PARSE", "POLICY_CHECK",
                 "EXECUTE", "OBSERVE", "VERIFY", "REPAIR_OR_FINISH", "TRACE"}
    /\ outcome \in {"none", "running", "true", "false", "died"}
    /\ runs \in 0..MaxRuns
    /\ original \in [Session -> Contents]
    /\ complete \in SUBSET Session
    /\ touched \in SUBSET Session

\* A completed snapshot is exactly what its session began with, and stays so
\* through the turns, an interrupted or finished restore, the death of its
\* run and the runs of other sessions, until the run is accepted or the
\* session id is used again.  Only code run in the sandbox can alter it: a
\* command, a skill script or a test.
SnapshotFaithful == \A s \in complete \ touched : snaps[s] = original[s]

\* At every point of a run at which it may die, what the user had before is
\* whole in the workspace or in the snapshot, unless code run in the sandbox
\* has altered that snapshot.
OriginalHeld ==
    pc # "idle" /\ session \notin touched =>
        ws = original[session] \/ snaps[session] = original[session]

\* A run that records its end after a roll back has left exactly what its
\* snapshot directory held, entries it added gone and entries it deleted
\* present; that is the workspace it began with, unless code run in the
\* sandbox has altered the snapshot.
RolledBackExactly ==
    outcome = "false" /\ phase = "TRACE" =>
        /\ ws = snaps[session]
        /\ session \notin touched => ws = original[session]

\* Each run implements the workspace transaction from its Begin on: it commits
\* only what the verifier has just passed, and when it records that it gave up,
\* every entry is as the run found it.  A death, the return without a record
\* when the turns run out, and a roll back from a snapshot that code run in
\* the sandbox has altered are the third end, which promises nothing.
RunTxn == INSTANCE RepairTransaction WITH
    Content  <- Contents,
    files    <- ws,
    original <- original[session],
    accepted <- IF verdict = "passed" THEN {ws} ELSE {},
    outcome  <- CASE outcome = "running" -> "open"
                  [] outcome = "true" -> "committed"
                  [] outcome = "false" /\ phase = "TRACE" /\ session \notin touched
                       -> "rolled_back"
                  [] OTHER -> "escaped"

RunIsTransaction ==
    [][\/ outcome # "running" /\ RunTxn!Init'
       \/ [RunTxn!Next]_(RunTxn!vars)]_vars

\* A run comes to an end.
RunEnds == (pc # "idle") ~> (pc = "idle")

\* The property the code does not have: a run that returns False has rolled
\* its workspace back, from a snapshot nobody has altered, and recorded its end.
FalseMeansRolledBack ==
    outcome = "false" =>
        phase = "TRACE" /\ (session \in touched \/ ws = original[session])
=============================================================================
