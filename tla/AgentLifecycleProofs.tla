----------------------- MODULE AgentLifecycleProofs -----------------------
(***************************************************************************)
(* The snapshot of PhaseDriver.run for any set of entries, contents and    *)
(* sessions, any turn budget and any number of runs that die anywhere.     *)
(*                                                                         *)
(* What holds at a step depends on how far the loops over the entries are: *)
(* the invariant says of each loop what is true of the entries done.       *)
(***************************************************************************)
EXTENDS AgentLifecycle, FiniteSetTheorems, TLAPS

\* The snapshot so far, while the session's workspace is copied out.
CopyingOut ==
    pc = "copying" =>
        /\ ws = original[session]
        /\ session \notin complete
        /\ snaps[session] \in Contents
        /\ \A i \in Item : i \notin todo => snaps[session][i] = ws[i]

\* Entries a restore has deleted, and entries it has copied back.
Deleting  == pc = "deleting" => \A i \in Item : i \notin todo => ws[i] = Absent
Restoring ==
    pc = "restoring" => \A i \in Item : i \notin todo => ws[i] = snaps[session][i]

\* After its snapshot a run has had a complete one until it ends, and a
\* restore goes on only while there is a directory.
Snapshotted ==
    /\ pc \notin {"idle", "copying"} => session \in complete
    /\ pc \in {"deleting", "restoring"} => snaps[session] \in Contents

\* A run under way has not recorded an end.
UnderWay == pc # "idle" => outcome = "running" /\ phase # "TRACE"

TurnsLeft == pc \in {"verify", "report", "judge"} => turn < MaxRepairs

LInv == /\ TypeOK
        /\ CopyingOut
        /\ Deleting
        /\ Restoring
        /\ Snapshotted
        /\ UnderWay
        /\ TurnsLeft
        /\ SnapshotFaithful
        /\ RolledBackExactly

LEMMA ContentsEqual ==
    ASSUME NEW c \in Contents, NEW d \in Contents, \A i \in Item : c[i] = d[i]
    PROVE  c = d
  BY DEF Contents

\* What an update of one entry of one session's snapshot leaves.
LEMMA EntryWritten ==
    ASSUME NEW c \in Contents, NEW i \in Item, NEW v \in Value \cup {Absent}
    PROVE  /\ [c EXCEPT ![i] = v] \in Contents
           /\ [c EXCEPT ![i] = v][i] = v
           /\ \A j \in Item \ {i} : [c EXCEPT ![i] = v][j] = c[j]
  BY DEF Contents

LEMMA InitHolds == Init => LInv
<1> SUFFICES ASSUME Init
             PROVE  LInv
  OBVIOUS
<1>1. Empty \in Contents
  BY DEF Empty, Contents
<1>2. TypeOK
  <2>1. snaps \in [Session -> Contents \cup {NoDir}] /\ original \in [Session -> Contents]
    BY <1>1 DEF Init
  <2>2. turn \in 0..MaxRepairs /\ runs \in 0..MaxRuns
    <3>1. MaxRepairs \in Nat /\ MaxRuns \in Nat
      BY LifecycleAssumption DEF LifecycleAssumption
    <3>2. turn = 0 /\ runs = 0
      BY DEF Init
    <3> QED
      BY <3>1, <3>2
  <2>3. /\ ws \in Contents /\ session \in Session
        /\ todo \in SUBSET Item /\ complete \in SUBSET Session /\ touched \in SUBSET Session
    BY DEF Init
  <2>4. /\ pc = "idle" /\ verdict = "none" /\ phase = "" /\ outcome = "none"
    BY DEF Init
  <2> QED
    BY <2>1, <2>2, <2>3, <2>4 DEF TypeOK, Verdict
<1> QED
  BY <1>2 DEF Init, LInv, CopyingOut, Deleting, Restoring, Snapshotted, UnderWay,
              TurnsLeft, SnapshotFaithful, RolledBackExactly

LEMMA BeginKeeps == ASSUME LInv, NEW s \in Session, Begin(s) PROVE LInv'
<1>1. Empty \in Contents /\ \A i \in Item : Empty[i] = Absent
  BY DEF Empty, Contents
<1>2. TypeOK'
  <2>1. /\ snaps' \in [Session -> Contents \cup {NoDir}]
        /\ original' \in [Session -> Contents]
    BY <1>1 DEF Begin, CleanDir, LInv, TypeOK
  <2>2. turn' \in 0..MaxRepairs /\ runs' \in 0..MaxRuns
    <3>1. MaxRepairs \in Nat /\ MaxRuns \in Nat
      BY LifecycleAssumption DEF LifecycleAssumption
    <3>2. turn' = 0 /\ runs' = runs + 1 /\ runs < MaxRuns /\ runs \in 0..MaxRuns
      BY DEF Begin, LInv, TypeOK
    <3> QED
      BY <3>1, <3>2
  <2>3. /\ ws' \in Contents /\ todo' \in SUBSET Item /\ complete' \in SUBSET Session
        /\ touched' \in SUBSET Session
    BY DEF Begin, LInv, TypeOK, Present
  <2>4. /\ session' \in Session /\ pc' = "copying" /\ verdict' = "none"
        /\ phase' = "ROUTE" /\ outcome' = "running"
    BY DEF Begin
  <2> QED
    BY <2>1, <2>2, <2>3, <2>4 DEF TypeOK, Verdict
<1>3. CopyingOut'
  <2>1. /\ session' = s /\ ws' = ws /\ todo' = Present(ws) /\ s \notin complete'
        /\ original'[s] = ws /\ snaps'[s] = Empty
    BY DEF Begin, CleanDir, LInv, TypeOK
  <2>2. \A i \in Item : i \notin Present(ws) => ws[i] = Absent
    BY DEF Present
  <2> QED
    BY <1>1, <2>1, <2>2 DEF CopyingOut
<1>4. SnapshotFaithful'
  <2> SUFFICES ASSUME NEW r \in complete' \ touched'
               PROVE  snaps'[r] = original'[r]
    BY DEF SnapshotFaithful
  <2>1. r \in complete \ touched /\ r # s /\ r \in Session
    BY DEF Begin, LInv, TypeOK
  <2> QED
    BY <2>1 DEF Begin, LInv, TypeOK, SnapshotFaithful
<1>5. (Deleting /\ Restoring /\ Snapshotted /\ UnderWay /\ TurnsLeft /\ RolledBackExactly)'
  BY DEF Begin, Deleting, Restoring, Snapshotted, UnderWay, TurnsLeft, RolledBackExactly
<1> QED
  BY <1>2, <1>3, <1>4, <1>5 DEF LInv

LEMMA CopyOutKeeps == ASSUME LInv, NEW i \in Item, CopyOut(i) PROVE LInv'
<1> DEFINE c == snaps[session]
<1>1. /\ c \in Contents /\ session \in Session /\ ws \in Contents
      /\ ws[i] \in Value \cup {Absent} /\ session \notin complete
  BY DEF CopyOut, LInv, TypeOK, CopyingOut, Contents
<1>2. /\ snaps'[session] = [c EXCEPT ![i] = ws[i]]
      /\ \A s \in Session \ {session} : snaps'[s] = snaps[s]
      /\ snaps' \in [Session -> Contents \cup {NoDir}]
  BY <1>1, EntryWritten DEF CopyOut, LInv, TypeOK
<1>3. TypeOK'
  BY <1>2 DEF CopyOut, LInv, TypeOK, history
<1>4. CopyingOut'
  <2> SUFFICES ASSUME NEW j \in Item, j \notin todo'
               PROVE  snaps'[session][j] = ws[j]
    BY <1>1, <1>2, EntryWritten DEF CopyOut, LInv, CopyingOut, history
  <2>1. CASE j = i
    BY <1>1, <1>2, <2>1, EntryWritten
  <2>2. CASE j # i
    BY <1>1, <1>2, <2>2, EntryWritten DEF CopyOut, LInv, CopyingOut
  <2> QED
    BY <2>1, <2>2
<1>5. SnapshotFaithful'
  BY <1>1, <1>2 DEF CopyOut, LInv, TypeOK, SnapshotFaithful, history
<1>6. (Deleting /\ Restoring /\ Snapshotted /\ UnderWay /\ TurnsLeft /\ RolledBackExactly)'
  BY DEF CopyOut, LInv, Deleting, Restoring, Snapshotted, UnderWay, TurnsLeft,
         RolledBackExactly, history
<1> QED
  BY <1>3, <1>4, <1>5, <1>6 DEF LInv

LEMMA SnapshotTakenKeeps == ASSUME LInv, SnapshotTaken PROVE LInv'
<1>1. snaps[session] = original[session]
  <2>1. \A i \in Item : snaps[session][i] = ws[i]
    BY DEF SnapshotTaken, LInv, CopyingOut
  <2> QED
    BY <2>1, ContentsEqual DEF SnapshotTaken, LInv, TypeOK, CopyingOut
<1>2. TypeOK'
  BY DEF SnapshotTaken, LInv, TypeOK
<1>3. SnapshotFaithful'
  BY <1>1 DEF SnapshotTaken, LInv, SnapshotFaithful
<1>4. (CopyingOut /\ Deleting /\ Restoring /\ Snapshotted /\ UnderWay /\ TurnsLeft /\ RolledBackExactly)'
  BY DEF SnapshotTaken, LInv, CopyingOut, Deleting, Restoring, Snapshotted, UnderWay,
         TurnsLeft, RolledBackExactly
<1> QED
  BY <1>2, <1>3, <1>4 DEF LInv

LEMMA DeleteEntryKeeps == ASSUME LInv, NEW i \in Item, DeleteEntry(i) PROVE LInv'
<1>1. /\ ws' \in Contents /\ ws'[i] = Absent
      /\ \A j \in Item \ {i} : ws'[j] = ws[j]
  BY DEF DeleteEntry, LInv, TypeOK, Contents
<1>2. TypeOK'
  BY <1>1 DEF DeleteEntry, LInv, TypeOK, history
<1>3. Deleting'
  BY <1>1 DEF DeleteEntry, LInv, Deleting
<1>4. (CopyingOut /\ Restoring /\ Snapshotted /\ UnderWay /\ TurnsLeft /\ SnapshotFaithful /\ RolledBackExactly)'
  BY DEF DeleteEntry, LInv, CopyingOut, Restoring, Snapshotted, UnderWay, TurnsLeft,
         SnapshotFaithful, RolledBackExactly, history
<1> QED
  BY <1>2, <1>3, <1>4 DEF LInv

LEMMA DeletedAllKeeps == ASSUME LInv, DeletedAll PROVE LInv'
<1>1. TypeOK'
  BY DEF DeletedAll, LInv, TypeOK, Present, history
<1>2. Restoring'
  BY DEF DeletedAll, LInv, Deleting, Restoring, Present
<1>3. (CopyingOut /\ Deleting /\ Snapshotted /\ UnderWay /\ TurnsLeft /\ SnapshotFaithful /\ RolledBackExactly)'
  BY DEF DeletedAll, LInv, CopyingOut, Deleting, Snapshotted, UnderWay, TurnsLeft,
         SnapshotFaithful, RolledBackExactly, history
<1> QED
  BY <1>1, <1>2, <1>3 DEF LInv

LEMMA CopyBackKeeps == ASSUME LInv, NEW i \in Item, CopyBack(i) PROVE LInv'
<1>1. snaps' = snaps /\ session \in complete /\ snaps[session] \in Contents
  BY DEF CopyBack, SnapshotAfterCopy, LInv, Snapshotted
<1>2. /\ ws' \in Contents /\ ws'[i] = snaps[session][i]
      /\ \A j \in Item \ {i} : ws'[j] = ws[j]
  <2>1. snaps[session][i] \in Value \cup {Absent}
    BY <1>1 DEF Contents
  <2> QED
    BY <2>1 DEF CopyBack, LInv, TypeOK, Contents
<1>3. TypeOK'
  BY <1>1, <1>2 DEF CopyBack, LInv, TypeOK, history
<1>4. Restoring'
  BY <1>1, <1>2 DEF CopyBack, LInv, Restoring
<1>5. (CopyingOut /\ Deleting /\ Snapshotted /\ UnderWay /\ TurnsLeft /\ SnapshotFaithful /\ RolledBackExactly)'
  BY <1>1 DEF CopyBack, LInv, CopyingOut, Deleting, Snapshotted, UnderWay, TurnsLeft,
         SnapshotFaithful, RolledBackExactly, history
<1> QED
  BY <1>3, <1>4, <1>5 DEF LInv

\* A finished restore leaves what the directory holds: what the session began
\* with, when nobody has altered it.
LEMMA RestoredKeeps == ASSUME LInv, Restored PROVE LInv'
<1>1. ws = snaps[session]
  <2>1. \A i \in Item : ws[i] = snaps[session][i]
    BY DEF Restored, LInv, Restoring
  <2>2. ws \in Contents /\ snaps[session] \in Contents
    BY DEF Restored, LInv, Snapshotted, TypeOK
  <2> QED
    BY <2>1, <2>2, ContentsEqual
<1>5. session \notin touched => ws = original[session]
  BY <1>1 DEF Restored, LInv, Snapshotted, SnapshotFaithful
<1>2. TypeOK'
  BY DEF Restored, LInv, TypeOK, history
<1>3. RolledBackExactly'
  BY <1>1, <1>5 DEF Restored, RolledBackExactly, history
<1>4. (CopyingOut /\ Deleting /\ Restoring /\ Snapshotted /\ UnderWay /\ TurnsLeft /\ SnapshotFaithful)'
  BY DEF Restored, LInv, CopyingOut, Deleting, Restoring, Snapshotted, UnderWay, TurnsLeft,
         SnapshotFaithful, history
<1> QED
  BY <1>2, <1>3, <1>4 DEF LInv

\* A turn there was is within the budget when it is spent.
LEMMA SpendsTurn ==
    ASSUME LInv, turn < MaxRepairs
    PROVE  turn + 1 \in 0..MaxRepairs
<1>1. MaxRepairs \in Nat
  BY LifecycleAssumption DEF LifecycleAssumption
<1>2. turn \in 0..MaxRepairs
  BY DEF LInv, TypeOK
<1> QED
  BY <1>1, <1>2

\* Code run in the sandbox disturbs no snapshot it is not blamed for.
LEMMA CodeRunsKeeps ==
    ASSUME LInv, CodeRuns, complete' = complete, original' = original
    PROVE  /\ ws' \in Contents /\ snaps' \in [Session -> Contents \cup {NoDir}]
           /\ touched' \in SUBSET Session
           /\ SnapshotFaithful'
<1>1. /\ ws' \in Contents /\ snaps' \in [Session -> Contents \cup {NoDir}]
      /\ touched' \in SUBSET Session
  BY DEF CodeRuns, LInv, TypeOK
<1>2. ASSUME NEW s \in complete' \ touched'
      PROVE  snaps'[s] = original'[s]
  <2>1. s \in complete \ touched /\ s \in Session
    BY <1>2 DEF CodeRuns, LInv, TypeOK
  <2>2. snaps'[s] = snaps[s]
    BY <1>2, <2>1 DEF CodeRuns
  <2> QED
    BY <2>1, <2>2 DEF LInv, SnapshotFaithful
<1> QED
  BY <1>1, <1>2 DEF SnapshotFaithful

LEMMA TurnKeeps == ASSUME LInv, Turn PROVE LInv'
<1>1. ASSUME NEW p \in {"MODEL_CALL", "PARSE", "POLICY_CHECK"}, TurnFails(p)
      PROVE  LInv'
  <2>1. turn' \in 0..MaxRepairs
    BY <1>1, SpendsTurn DEF TurnFails, InTurn
  <2>2. TypeOK'
    BY <1>1, <2>1 DEF TurnFails, InTurn, LInv, TypeOK, history
  <2> QED
    BY <1>1, <2>2 DEF TurnFails, InTurn, LInv, CopyingOut, Deleting, Restoring, Snapshotted,
                      UnderWay, TurnsLeft, SnapshotFaithful, RolledBackExactly, history
<1>2. CASE ExecuteRaises
  <2>1. turn' \in 0..MaxRepairs
    BY <1>2, SpendsTurn DEF ExecuteRaises, InTurn
  <2>2. TypeOK' /\ SnapshotFaithful'
    BY <1>2, <2>1, CodeRunsKeeps DEF ExecuteRaises, InTurn, LInv, TypeOK
  <2> QED
    BY <1>2, <2>2 DEF ExecuteRaises, InTurn, LInv, CopyingOut, Deleting, Restoring,
                      Snapshotted, UnderWay, TurnsLeft, RolledBackExactly
<1>3. CASE Execute \/ VerifierRuns
  <2>1. TypeOK' /\ SnapshotFaithful'
    BY <1>3, CodeRunsKeeps DEF Execute, VerifierRuns, InTurn, LInv, TypeOK
  <2> QED
    BY <1>3, <2>1 DEF Execute, VerifierRuns, InTurn, LInv, CopyingOut, Deleting, Restoring,
                      Snapshotted, UnderWay, TurnsLeft, RolledBackExactly
<1>4. CASE Verify \/ NothingToRestore
  <2>1. TypeOK'
    <3>1. CASE Verify
      BY <3>1 DEF Verify, LInv, TypeOK, history
    <3>2. CASE NothingToRestore
      <4>1. turn' \in 0..MaxRepairs
        BY <3>2, SpendsTurn DEF NothingToRestore, TurnsAfter, LInv, TypeOK, TurnsLeft
      <4> QED
        BY <3>2, <4>1 DEF NothingToRestore, LInv, TypeOK, history
    <3> QED
      BY <1>4, <3>1, <3>2
  <2> QED
    BY <1>4, <2>1 DEF Verify, NothingToRestore, LInv, CopyingOut, Deleting, Restoring,
                      Snapshotted, UnderWay, TurnsLeft, SnapshotFaithful, RolledBackExactly,
                      history
<1>5. CASE Accept
  <2>1. TypeOK'
    BY <1>5 DEF Accept, LInv, TypeOK
  <2>2. SnapshotFaithful'
    <3> SUFFICES ASSUME NEW s \in complete' \ touched'
                 PROVE  snaps'[s] = original'[s]
      BY DEF SnapshotFaithful
    <3>1. s \in complete \ touched /\ s # session /\ s \in Session
      BY <1>5 DEF Accept, LInv, TypeOK
    <3> QED
      BY <1>5, <3>1 DEF Accept, LInv, TypeOK, SnapshotFaithful
  <2>3. (CopyingOut /\ Deleting /\ Restoring /\ Snapshotted /\ UnderWay /\ TurnsLeft /\ RolledBackExactly)'
    BY <1>5 DEF Accept, CopyingOut, Deleting, Restoring, Snapshotted, UnderWay, TurnsLeft,
                RolledBackExactly
  <2> QED
    BY <2>1, <2>2, <2>3 DEF LInv
<1>6. ASSUME pc = "judge"
      PROVE  TurnsAfter \in 0..MaxRepairs
  BY <1>6, SpendsTurn DEF TurnsAfter, LInv, TypeOK, TurnsLeft
<1>7. CASE BeginRestore
  <2>1. TypeOK'
    BY <1>6, <1>7 DEF BeginRestore, LInv, TypeOK, Present, history
  <2>2. Deleting' /\ Snapshotted'
    BY <1>7 DEF BeginRestore, Deleting, Snapshotted, Present, LInv, TypeOK, history
  <2>3. (CopyingOut /\ Restoring /\ UnderWay /\ TurnsLeft /\ SnapshotFaithful /\ RolledBackExactly)'
    BY <1>7 DEF BeginRestore, LInv, CopyingOut, Restoring, Snapshotted, UnderWay, TurnsLeft,
                SnapshotFaithful, RolledBackExactly, history
  <2> QED
    BY <2>1, <2>2, <2>3 DEF LInv
<1>8. CASE NextTurn
  <2>1. TypeOK'
    BY <1>6, <1>8 DEF NextTurn, LInv, TypeOK, history
  <2>2. (CopyingOut /\ Deleting /\ Restoring /\ Snapshotted /\ UnderWay /\ TurnsLeft /\ SnapshotFaithful /\ RolledBackExactly)'
    BY <1>8 DEF NextTurn, LInv, CopyingOut, Deleting, Restoring, Snapshotted, UnderWay,
                TurnsLeft, SnapshotFaithful, RolledBackExactly, history
  <2> QED
    BY <2>1, <2>2 DEF LInv
<1>9. CASE TurnsRunOut
  BY <1>9 DEF TurnsRunOut, LInv, TypeOK, CopyingOut, Deleting, Restoring, Snapshotted,
              UnderWay, TurnsLeft, SnapshotFaithful, RolledBackExactly, history
<1> QED
  BY <1>1, <1>2, <1>3, <1>4, <1>5, <1>7, <1>8, <1>9 DEF Turn

LEMMA DieKeeps == ASSUME LInv, Die PROVE LInv'
  BY DEF Die, LInv, TypeOK, CopyingOut, Deleting, Restoring, Snapshotted, UnderWay,
         TurnsLeft, SnapshotFaithful, RolledBackExactly, history

LEMMA StepKeeps == LInv /\ [Next]_vars => LInv'
<1> SUFFICES ASSUME LInv, [Next]_vars
             PROVE  LInv'
  OBVIOUS
<1>1. CASE \E s \in Session : Begin(s)
  BY <1>1, BeginKeeps
<1>2. CASE Snapshotting
  BY <1>2, CopyOutKeeps, DeleteEntryKeeps, CopyBackKeeps, SnapshotTakenKeeps,
     DeletedAllKeeps, RestoredKeeps DEF Snapshotting
<1>3. CASE UNCHANGED vars
  <2>1. TypeOK'
    BY <1>3 DEF vars, history, LInv, TypeOK
  <2>2. (CopyingOut /\ Deleting /\ Restoring /\ Snapshotted /\ UnderWay /\ TurnsLeft)'
    BY <1>3 DEF vars, LInv, CopyingOut, Deleting, Restoring, Snapshotted, UnderWay, TurnsLeft
  <2>3. (SnapshotFaithful /\ RolledBackExactly)'
    BY <1>3 DEF vars, LInv, SnapshotFaithful, RolledBackExactly
  <2> QED
    BY <2>1, <2>2, <2>3 DEF LInv
<1> QED
  BY <1>1, <1>2, <1>3, TurnKeeps, DieKeeps DEF Next

\* The inductive invariant of the snapshot loops of PhaseDriver.run.
THEOREM LifecycleInvariant == Spec => []LInv
  BY InitHolds, StepKeeps, PTL DEF Spec

\* Every variable of the lifecycle keeps its type, and no run takes more
\* turns than max_repairs, whatever its failures.
THEOREM TypeCorrect == Spec => []TypeOK
<1>1. LInv => TypeOK
  BY DEF LInv
<1> QED
  BY LifecycleInvariant, <1>1, PTL

\* A completed snapshot directory holds what its session began with until the
\* run is accepted or the session id is used again, whatever dies, unless code
\* run in the sandbox alters it.
THEOREM SnapshotStaysFaithful == Spec => []SnapshotFaithful
<1>1. LInv => SnapshotFaithful
  BY DEF LInv
<1> QED
  BY LifecycleInvariant, <1>1, PTL

\* At no point of a run can a death lose what the user had: it is whole in
\* the workspace or in the session's snapshot directory, unless code run in the
\* sandbox has altered that directory.
THEOREM OriginalIsHeld == Spec => []OriginalHeld
<1>1. LInv => OriginalHeld
  <2> SUFFICES ASSUME LInv, pc # "idle", session \notin touched
               PROVE  ws = original[session] \/ snaps[session] = original[session]
    BY DEF OriginalHeld
  <2>1. CASE pc = "copying"
    BY <2>1 DEF LInv, CopyingOut
  <2>2. CASE pc # "copying"
    BY <2>2 DEF LInv, Snapshotted, SnapshotFaithful
  <2> QED
    BY <2>1, <2>2
<1> QED
  BY LifecycleInvariant, <1>1, PTL

\* A run of PhaseDriver.run that records the end of a roll back has left every
\* entry as its snapshot directory has it, and that is as the run found it
\* unless code run in the sandbox altered the directory, through any turns and
\* any earlier deaths.
THEOREM RollBackIsExact == Spec => []RolledBackExactly
<1>1. LInv => RolledBackExactly
  BY DEF LInv
<1> QED
  BY LifecycleInvariant, <1>1, PTL

-----------------------------------------------------------------------------
(***************************************************************************)
(* Refinement.  What the transaction calls accepted depends on the last    *)
(* verdict, which outlives its turn: only between a verification and its   *)
(* judgement may it be a pass.                                             *)
(***************************************************************************)
Verdicts ==
    /\ pc = "judge" => verdict # "none"
    /\ pc \notin {"idle", "judge"} => verdict # "passed"
    /\ pc = "idle" => outcome # "running"

\* The three hold by themselves, without the loops' part of the invariant.
LEMMA VerdictsInvariant == Spec => []Verdicts
<1>1. Init => Verdicts
  BY DEF Init, Verdicts
<1>2. Verdicts /\ [Next]_vars => Verdicts'
  BY DEF Verdicts, Next, Begin, Snapshotting, CopyOut, DeleteEntry, CopyBack, SnapshotTaken,
         DeletedAll, Restored, Turn, TurnFails, InTurn, ExecuteRaises, Execute, VerifierRuns,
         Verify, Accept, BeginRestore, NothingToRestore, NextTurn, TurnsRunOut, Die, vars
<1> QED
  BY <1>1, <1>2, PTL DEF Spec

\* A run that writes files, in a turn or in a restore, edits.
LEMMA EditStep ==
    ASSUME LInv, LInv', pc # "idle", verdict # "passed",
           UNCHANGED <<session, verdict, outcome, original>>
    PROVE  RunTxn!Edit
<1>1. outcome = "running" /\ ws' \in Contents
  BY DEF LInv, UnderWay, TypeOK
<1> QED
  BY <1>1 DEF RunTxn!Edit

\* A run that dies, returns without a record or rolls back to an altered
\* snapshot escapes.
LEMMA EscapeStep ==
    ASSUME LInv, LInv', pc # "idle", UNCHANGED <<ws, session, verdict, original>>,
           outcome' = "died" \/ (outcome' = "false" /\ (phase' # "TRACE" \/ session \in touched'))
    PROVE  RunTxn!Escape
<1>1. outcome = "running" /\ ws' \in Contents
  BY DEF LInv, UnderWay, TypeOK
<1> QED
  BY <1>1 DEF RunTxn!Escape

LEMMA RunBegins ==
    ASSUME LInv, LInv', Verdicts, NEW s \in Session, Begin(s)
    PROVE  outcome # "running" /\ RunTxn!Init'
<1>1. outcome # "running"
  BY DEF Begin, Verdicts
<1>2. /\ ws' \in Contents /\ original'[session'] = ws' /\ verdict' = "none"
      /\ outcome' = "running"
  BY DEF Begin, LInv, TypeOK
<1> QED
  BY <1>1, <1>2 DEF RunTxn!Init

LEMMA RunSteps ==
    ASSUME LInv, LInv', Verdicts, Snapshotting \/ Turn \/ Die
    PROVE  [RunTxn!Next]_(RunTxn!vars)
<1>1. CASE \E i \in Item : CopyOut(i) \/ DeleteEntry(i) \/ CopyBack(i)
  <2>1. /\ pc # "idle" /\ verdict # "passed"
        /\ UNCHANGED <<session, verdict, outcome, original>>
    BY <1>1 DEF CopyOut, DeleteEntry, CopyBack, Verdicts, history
  <2> QED
    BY <2>1, EditStep DEF RunTxn!Next
<1>2. CASE SnapshotTaken \/ DeletedAll \/ BeginRestore \/ NextTurn \/ ExecuteRaises \/ Execute
           \/ VerifierRuns \/ \E p \in {"MODEL_CALL", "PARSE", "POLICY_CHECK"} : TurnFails(p)
  <2>1. /\ pc # "idle" /\ verdict # "passed"
        /\ UNCHANGED <<session, verdict, outcome, original>>
    BY <1>2 DEF SnapshotTaken, DeletedAll, BeginRestore, NextTurn, ExecuteRaises, Execute,
                VerifierRuns, TurnFails, InTurn, Verdicts, history
  <2> QED
    BY <2>1, EditStep DEF RunTxn!Next
<1>3. CASE Restored
  <2>1. /\ pc # "idle" /\ outcome = "running" /\ outcome' = "false" /\ phase' = "TRACE"
        /\ UNCHANGED <<ws, session, verdict, original, touched>>
    BY <1>3 DEF Restored, LInv, UnderWay, history
  <2>2. CASE session \in touched
    BY <2>1, <2>2, EscapeStep DEF RunTxn!Next
  <2>3. CASE session \notin touched
    <3>1. ws' = original[session]
      BY <2>1, <2>3 DEF LInv, RolledBackExactly
    <3> QED
      BY <2>1, <2>3, <3>1 DEF RunTxn!Next, RunTxn!RollBack
  <2> QED
    BY <2>2, <2>3
<1>4. CASE Verify
  <2>1. /\ outcome = "running" /\ verdict # "passed"
        /\ UNCHANGED <<ws, session, outcome, original>>
    BY <1>4 DEF Verify, LInv, UnderWay, Verdicts, history
  <2> QED
    BY <2>1 DEF RunTxn!Next, RunTxn!Approve, RunTxn!Refuse
<1>5. CASE Accept
  <2>1. /\ outcome = "running" /\ outcome' = "true" /\ verdict = "passed"
        /\ UNCHANGED <<ws, session, verdict, original>>
    BY <1>5 DEF Accept, LInv, UnderWay
  <2> QED
    BY <2>1 DEF RunTxn!Next, RunTxn!Commit
<1>6. CASE TurnsRunOut
  <2>1. /\ pc # "idle" /\ outcome' = "false" /\ phase' # "TRACE"
        /\ UNCHANGED <<ws, session, verdict, original>>
    BY <1>6 DEF TurnsRunOut, LInv, UnderWay, history
  <2> QED
    BY <2>1, EscapeStep DEF RunTxn!Next
<1>7. CASE Die \/ NothingToRestore
  <2>1. /\ pc # "idle" /\ outcome' = "died"
        /\ UNCHANGED <<ws, session, verdict, original>>
    BY <1>7 DEF Die, NothingToRestore, history
  <2> QED
    BY <2>1, EscapeStep DEF RunTxn!Next
<1> QED
  BY <1>1, <1>2, <1>3, <1>4, <1>5, <1>6, <1>7 DEF Snapshotting, Turn

\* Every run of PhaseDriver.run is a workspace transaction from its Begin on,
\* whatever earlier runs of any session have left behind: what it returns True
\* for was just verified, and a roll back it records is exact, unless code run
\* in the sandbox has altered the snapshot.
THEOREM RunsAreTransactions == Spec => RunIsTransaction
<1>1. ASSUME LInv, LInv', Verdicts, [Next]_vars
      PROVE  \/ outcome # "running" /\ RunTxn!Init'
             \/ [RunTxn!Next]_(RunTxn!vars)
             \/ UNCHANGED vars
  BY <1>1, RunBegins, RunSteps DEF Next
<1> QED
  BY <1>1, LifecycleInvariant, VerdictsInvariant, PTL DEF Spec, RunIsTransaction

-----------------------------------------------------------------------------
(***************************************************************************)
(* Termination, as far as safety goes: a number that every step of a run   *)
(* makes smaller.  It counts the entries the loop under way has still to   *)
(* deal with, and what may follow: the turns left, four steps each, and   *)
(* the two loops of a restore.                                             *)
(***************************************************************************)
Loops == 2 * Cardinality(Item)

Remaining ==
    CASE pc = "restoring" -> 1 + Cardinality(todo)
      [] pc = "deleting" -> 2 + Cardinality(Item) + Cardinality(todo)
      [] pc = "judge" -> 4 + Loops + 4 * (MaxRepairs - turn)
      [] pc = "report" -> 5 + Loops + 4 * (MaxRepairs - turn)
      [] pc = "verify" -> 6 + Loops + 4 * (MaxRepairs - turn)
      [] pc = "turn" -> 7 + Loops + 4 * (MaxRepairs - turn)
      [] pc = "copying" -> 8 + Loops + 4 * MaxRepairs + Cardinality(todo)
      [] OTHER -> 0

\* A step of a run, its death included, uses something up; the next run has to
\* begin to have more again.
StepsUseUp == [][Remaining' < Remaining \/ \E s \in Session : Begin(s)]_vars

\* The entries left are at most all of them, and one less after each.
LEMMA EntriesLeft ==
    ASSUME TypeOK
    PROVE  /\ Cardinality(Item) \in Nat
           /\ \A t \in SUBSET Item :
                 /\ Cardinality(t) \in 0..Cardinality(Item)
                 /\ \A i \in t : Cardinality(t \ {i}) = Cardinality(t) - 1
<1>1. IsFiniteSet(Item)
  BY LifecycleAssumption DEF LifecycleAssumption
<1>2. Cardinality(Item) \in Nat
  BY <1>1, FS_CardinalityType
<1>3. ASSUME NEW t \in SUBSET Item
      PROVE  /\ Cardinality(t) \in 0..Cardinality(Item)
             /\ \A i \in t : Cardinality(t \ {i}) = Cardinality(t) - 1
  <2>1. IsFiniteSet(t) /\ Cardinality(t) <= Cardinality(Item)
    BY <1>1, FS_Subset
  <2>2. Cardinality(t) \in Nat
    BY <2>1, FS_CardinalityType
  <2>3. \A i \in t : Cardinality(t \ {i}) = Cardinality(t) - 1
    BY <2>1, FS_RemoveElement
  <2> QED
    BY <1>2, <2>1, <2>2, <2>3
<1> QED
  BY <1>2, <1>3

LEMMA TurnsType ==
    ASSUME LInv PROVE turn \in Nat /\ MaxRepairs \in Nat /\ MaxRepairs - turn \in Nat
<1>1. MaxRepairs \in Nat
  BY LifecycleAssumption DEF LifecycleAssumption
<1>2. turn \in 0..MaxRepairs
  BY DEF LInv, TypeOK
<1> QED
  BY <1>1, <1>2

LEMMA RemainingType == ASSUME LInv PROVE Remaining \in Nat
<1>1. turn \in Nat /\ MaxRepairs \in Nat /\ MaxRepairs - turn \in Nat
  BY TurnsType
<1>2. Cardinality(Item) \in Nat /\ Cardinality(todo) \in Nat
  <2>1. TypeOK /\ todo \in SUBSET Item
    BY DEF LInv, TypeOK
  <2> QED
    BY <2>1, EntriesLeft
<1> QED
  BY <1>1, <1>2 DEF Remaining, Loops

LEMMA RunUsesUp ==
    ASSUME LInv, LInv', Verdicts, Snapshotting \/ Turn \/ Die
    PROVE  Remaining' < Remaining
<1> DEFINE n == Cardinality(Item)
           left == Cardinality(todo)
<1>1. turn \in Nat /\ MaxRepairs \in Nat /\ MaxRepairs - turn \in Nat
  BY TurnsType
<1>2. n \in Nat /\ left \in 0..n
  BY EntriesLeft DEF LInv, TypeOK
<1>3. CASE \E i \in Item : CopyOut(i) \/ DeleteEntry(i) \/ CopyBack(i)
  <2>1. PICK i \in todo : todo' = todo \ {i}
    BY <1>3 DEF CopyOut, DeleteEntry, CopyBack
  <2>2. Cardinality(todo') = left - 1
    BY <2>1, EntriesLeft DEF LInv, TypeOK
  <2>3. pc' = pc /\ turn' = turn /\ pc \in {"copying", "deleting", "restoring"}
    BY <1>3 DEF CopyOut, DeleteEntry, CopyBack
  <2> QED
    BY <1>1, <1>2, <2>2, <2>3 DEF Remaining, Loops
<1>4. CASE SnapshotTaken
  BY <1>1, <1>2, <1>4 DEF SnapshotTaken, Remaining, Loops
<1>5. CASE DeletedAll \/ BeginRestore
  <2>1. Cardinality(todo') \in 0..n
    BY EntriesLeft DEF LInv, TypeOK
  <2>2. \/ pc = "deleting" /\ pc' = "restoring"
        \/ pc = "judge" /\ pc' = "deleting"
    BY <1>5 DEF DeletedAll, BeginRestore
  <2> QED
    BY <1>1, <1>2, <2>1, <2>2 DEF Remaining, Loops
<1>6. CASE Restored \/ Accept \/ TurnsRunOut \/ NothingToRestore \/ Die
  <2>1. pc # "idle" /\ pc' = "idle"
    BY <1>6 DEF Restored, Accept, TurnsRunOut, NothingToRestore, Die
  <2>2. Remaining' = 0
    BY <2>1 DEF Remaining
  <2>3. pc \in {"copying", "turn", "verify", "report", "judge", "deleting", "restoring"}
    BY <2>1 DEF LInv, TypeOK
  <2>4. Remaining > 0
    BY <1>1, <1>2, <2>3 DEF Remaining, Loops
  <2> QED
    BY <2>2, <2>4
<1>7. CASE ExecuteRaises \/ \E p \in {"MODEL_CALL", "PARSE", "POLICY_CHECK"} : TurnFails(p)
  <2>1. pc = "turn" /\ pc' = pc /\ turn' = turn + 1
    BY <1>7 DEF ExecuteRaises, TurnFails, InTurn
  <2> QED
    BY <1>1, <1>2, <2>1 DEF Remaining, Loops
<1>8. CASE Execute \/ VerifierRuns \/ Verify
  <2>1. /\ turn' = turn
        /\ \/ pc = "turn" /\ pc' = "verify"
           \/ pc = "verify" /\ pc' = "report"
           \/ pc = "report" /\ pc' = "judge"
    BY <1>8 DEF Execute, VerifierRuns, Verify, InTurn
  <2> QED
    BY <1>1, <1>2, <2>1 DEF Remaining, Loops
<1>9. CASE NextTurn
  <2>1. verdict = "failed"
    BY <1>9 DEF NextTurn, MustRestore, Verdicts, LInv, TypeOK, Verdict
  <2>2. pc = "judge" /\ pc' = "turn" /\ turn' = turn + 1
    BY <1>9, <2>1 DEF NextTurn, TurnsAfter
  <2> QED
    BY <1>1, <1>2, <2>2 DEF Remaining, Loops
<1> QED
  BY <1>3, <1>4, <1>5, <1>6, <1>7, <1>8, <1>9 DEF Snapshotting, Turn

\* Every run of PhaseDriver.run uses up what it has, whatever its turns, its
\* verdicts and the entries they leave to delete: it can take only so many
\* steps.
THEOREM RunsUseUp == Spec => [](Remaining \in Nat) /\ StepsUseUp
<1>1. ASSUME LInv, LInv', Verdicts, Next
      PROVE  Remaining' < Remaining \/ \E s \in Session : Begin(s)
  BY <1>1, RunUsesUp DEF Next
<1> QED
  BY <1>1, LifecycleInvariant, VerdictsInvariant, RemainingType, PTL DEF Spec, StepsUseUp
=============================================================================
