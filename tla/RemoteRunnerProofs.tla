------------------------ MODULE RemoteRunnerProofs ------------------------
(***************************************************************************)
(* The remote runner, for any number of workspaces on one remote           *)
(* directory, any files, and any number of responses, calls, transfers cut *)
(* short or left under way and calls given up: whose sources a verdict is  *)
(* about, and whose output comes back with it.                             *)
(***************************************************************************)
EXTENDS RemoteRunner, TLAPS

Version == [of : Workspaces, stage : Nat] \cup {Absent}
Tree    == [Files -> Version]
Causes  == {"shared", "withdrawn", "upload", "download", "late", "orphan"}

Calls == [at : {"idle"}]
         \cup [at : {"uploading", "commanded"}, named : SUBSET Files]
         \cup [at : {"running"}, named : SUBSET Files, read : Tree]
         \cup [at : {"returned"}, named : SUBSET Files, read : Tree, wrote : BOOLEAN]

Verdicts  == [read : Tree, want : Tree, wrote : BOOLEAN]
Transfers == [of : Workspaces, up : BOOLEAN, unread : SUBSET (Files \cup {"output"}),
              held : Tree, out : Tree, id : Nat]

Typed ==
    /\ local \in [Workspaces -> Tree] /\ intended \in [Workspaces -> Tree]
    /\ remote \in Tree /\ artefact \in Tree /\ localArt \in [Workspaces -> Tree]
    /\ call \in [Workspaces -> Calls]
    /\ judged \in [Workspaces -> Verdicts]
    /\ orphans \in SUBSET Tree /\ late \in SUBSET Transfers
    /\ staged \in Nat /\ faults \in Nat
    /\ cause \in [Workspaces -> SUBSET Causes]

Reading(w) == call[w].at \in {"running", "returned"}

\* As long as no other workspace has uploaded, nothing of another one is in
\* the directory, or in what came back from it.
Alone ==
    \A w \in Workspaces : "shared" \notin cause[w] =>
        /\ \A v \in Workspaces \ {w} : call[v].at \in {"idle", "uploading"}
        /\ \A f \in Files : /\ remote[f].of \in {w, "nobody"}
                            /\ local[w][f].of \in {w, "nobody"}
                            /\ Reading(w) => call[w].read[f].of \in {w, "nobody"}
                            /\ \A t \in late : t.held[f].of \in {w, "nobody"}

\* A file the driver has neither written nor withdrawn is nowhere.
Withdrawn ==
    \A w \in Workspaces, f \in Files :
        "withdrawn" \notin cause[w] /\ intended[w][f] = Absent =>
            /\ remote[f].of # w
            /\ \A v \in Workspaces : /\ local[v][f].of # w
                                     /\ Reading(v) => call[v].read[f].of # w
            /\ \A t \in late : t.held[f].of # w

\* A transfer that outlived its call is a cause for its own workspace, and its
\* upload was one for every other.
Blamed ==
    \A t \in late : /\ "late" \in cause[t.of]
                    /\ \A v \in Workspaces \ {t.of} : "shared" \in cause[v]

\* What the driver has written is in the workspace, then in the command, in
\* the directory, and in what the tool reads.
InStep ==
    \A w \in Workspaces, f \in Files :
        /\ intended[w][f].of \in {w, "nobody"}
        /\ cause[w] \cap {"upload", "late", "shared"} = {} /\ intended[w][f] # Absent =>
              /\ local[w][f] = intended[w][f]
              /\ call[w].at \in {"commanded", "running", "returned"} =>
                    remote[f] = intended[w][f]
              /\ call[w].at # "idle" /\ call[w].named # {} => f \in call[w].named
              /\ Reading(w) /\ call[w].named # {} => call[w].read[f] = intended[w][f]

SInv == Typed /\ Alone /\ Withdrawn /\ Blamed /\ InStep /\ VerdictIsOwn

Unexplained(w) == cause[w] \cap {"shared", "download", "late", "orphan"} = {}

\* Where the output stands between two verdicts.
Outputs ==
    /\ orphans # {} => \A w \in Workspaces : "orphan" \in cause[w]
    /\ \A w \in Workspaces :
          /\ call[w].at = "returned" /\ call[w].wrote =>
                call[w].named # {} /\ call[w].read # Nothing
          /\ Unexplained(w) /\ judged[w].wrote => localArt[w] \in {Nothing, judged[w].read}
          /\ Unexplained(w) =>
                IF call[w].at = "returned" /\ call[w].wrote
                THEN artefact = call[w].read
                ELSE judged[w].wrote => artefact = judged[w].read

OInv == SInv /\ Outputs

-----------------------------------------------------------------------------
LEMMA VersionOf ==
    ASSUME NEW v \in Version
    PROVE  /\ v.of = "nobody" <=> v = Absent
           /\ v.of \in Workspaces \cup {"nobody"}
  BY RemoteAssumption DEF Version, Absent

LEMMA UnpackIs ==
    ASSUME NEW from \in Tree, NEW over \in Tree, NEW which
    PROVE  /\ Unpack(from, over, which) \in Tree
           /\ \A f \in Files : Unpack(from, over, which)[f] =
                 IF f \in which /\ from[f] # Absent THEN from[f] ELSE over[f]
  BY DEF Unpack, Present, Tree, Version

LEMMA NothingIs ==
    /\ Nothing \in Tree
    /\ \A f \in Files : Nothing[f] = Absent
  BY DEF Nothing, Tree, Version

LEMMA SourcesInit == RemoteInit => SInv
  BY NothingIs, RemoteAssumption DEF RemoteInit, SInv, Typed, Calls, Idle, NoRun, Causes,
     Verdicts, Reading, Alone, Withdrawn, Blamed, InStep, VerdictIsOwn, Mistaken, Absent

\* The parts of a step that leaves the verdicts alone, or adds to the causes.
LEMMA VerdictsKeep ==
    ASSUME SInv, judged' = judged, \A w \in Workspaces : cause[w] \subseteq cause'[w]
    PROVE  VerdictIsOwn'
  BY DEF SInv, VerdictIsOwn, Mistaken

LEMMA StageKeeps ==
    ASSUME NEW a \in Workspaces, SInv, Stage(a)
    PROVE  SInv'
<1> DEFINE written == [f \in Files |-> [of |-> a, stage |-> staged + 1]]
<1>1. PICK names \in SUBSET Files :
          /\ local' = [local EXCEPT ![a] = Unpack(written, @, names)]
          /\ intended' = [intended EXCEPT ![a] = Unpack(written, @, names)]
  BY DEF Stage
<1>2. UNCHANGED <<remote, artefact, localArt, call, judged, orphans, late, used, cause,
                  faults>>
      /\ call[a].at = "idle" /\ staged' \in Nat
  BY DEF Stage, At, SInv, Typed
<1>3. written \in Tree /\ \A f \in Files : written[f].of = a /\ written[f] # Absent
  BY RemoteAssumption DEF SInv, Typed, Tree, Version, Absent
<1> HIDE DEF written
<1>4. /\ Unpack(written, local[a], names) \in Tree
      /\ \A f \in Files : Unpack(written, local[a], names)[f] =
            IF f \in names THEN written[f] ELSE local[a][f]
      /\ Unpack(written, intended[a], names) \in Tree
      /\ \A f \in Files : Unpack(written, intended[a], names)[f] =
            IF f \in names THEN written[f] ELSE intended[a][f]
  BY <1>3, UnpackIs DEF SInv, Typed
<1>5. /\ \A w \in Workspaces : w # a => local'[w] = local[w] /\ intended'[w] = intended[w]
      /\ \A f \in Files :
           /\ local'[a][f] = IF f \in names THEN written[f] ELSE local[a][f]
           /\ intended'[a][f] = IF f \in names THEN written[f] ELSE intended[a][f]
  BY <1>1, <1>4 DEF SInv, Typed
<1>6. Typed'
  BY <1>1, <1>2, <1>4 DEF SInv, Typed
<1>7. Alone'
  BY <1>2, <1>3, <1>5 DEF SInv, Alone, Reading
<1>8. Withdrawn'
  BY <1>2, <1>3, <1>5 DEF SInv, Withdrawn, Reading
<1>9. InStep' /\ Blamed'
  BY <1>2, <1>3, <1>5 DEF SInv, InStep, Blamed, Reading
<1> QED
  BY <1>2, <1>6, <1>7, <1>8, <1>9, VerdictsKeep DEF SInv

LEMMA RestoreKeeps ==
    ASSUME NEW a \in Workspaces, SInv, RestoreOriginal(a)
    PROVE  SInv'
<1>1. UNCHANGED <<remote, artefact, call, judged, orphans, late, staged, used, faults>>
      /\ call[a].at = "idle"
  BY DEF RestoreOriginal, At
<1>2. /\ \A w \in Workspaces : w # a => /\ local'[w] = local[w] /\ intended'[w] = intended[w]
                                        /\ cause'[w] = cause[w]
      /\ \A f \in Files : local'[a][f] = Absent /\ intended'[a][f] = Absent
      /\ cause'[a] = cause[a] \cup {"withdrawn"}
  BY NothingIs DEF RestoreOriginal, Blame, SInv, Typed
<1>3. Typed'
  BY <1>1, NothingIs DEF RestoreOriginal, Blame, SInv, Typed, Causes
<1>4. Alone'
  BY <1>1, <1>2 DEF SInv, Alone, Reading, Absent
<1>5. Withdrawn'
  BY <1>1, <1>2, RemoteAssumption DEF SInv, Withdrawn, Reading, Absent
<1>6. InStep' /\ Blamed'
  <2>1. Blamed'
    <3>1. \A w \in Workspaces : cause[w] \subseteq cause'[w]
      BY <1>2
    <3> QED
      BY <1>1, <3>1 DEF SInv, Typed, Transfers, Blamed
  <2> QED
    BY <1>1, <1>2, <2>1 DEF SInv, InStep, Reading, Absent
<1> QED
  BY <1>1, <1>2, <1>3, <1>4, <1>5, <1>6, VerdictsKeep DEF SInv

LEMMA ComposeKeeps ==
    ASSUME NEW a \in Workspaces, SInv, Compose(a)
    PROVE  SInv'
<1>1. UNCHANGED <<local, intended, remote, artefact, localArt, judged, orphans, late,
                  staged, cause, faults>> /\ call[a].at = "idle"
  BY DEF Compose, At
<1>2. PICK named \in {{}, Present(local[a])} :
          call' = [call EXCEPT ![a] = [at |-> "uploading", named |-> named]]
  BY DEF Compose
<1>3. /\ \A w \in Workspaces : w # a => call'[w] = call[w]
      /\ call'[a] = [at |-> "uploading", named |-> named]
      /\ call'[a].at = "uploading" /\ call'[a].named = named
  BY <1>2 DEF SInv, Typed
<1>4. Typed'
  BY <1>1, <1>2 DEF SInv, Typed, Calls, Present
<1>5. Alone' /\ Withdrawn'
  BY <1>1, <1>3 DEF SInv, Alone, Withdrawn, Reading
<1>6. InStep' /\ Blamed'
  BY <1>1, <1>2, <1>3 DEF SInv, InStep, Blamed, Reading, Present
<1> QED
  BY <1>1, <1>4, <1>5, <1>6, VerdictsKeep DEF SInv

\* A transfer its caller gives up holds nothing yet.
LEMMA LagStarts ==
    ASSUME NEW a \in Workspaces, NEW up \in BOOLEAN, SInv
    PROVE  /\ Transfer(a, up) \in Transfers
           /\ Transfer(a, up).of = a
           /\ \A f \in Files : Transfer(a, up).held[f] = Absent
  BY NothingIs DEF Transfer, Transfers, SInv, Typed

\* An upload of some files: all of them when nothing goes wrong, none yet when
\* the caller gives it up.
LEMMA UploadOfSome ==
    ASSUME NEW a \in Workspaces, NEW some, SInv, At(a, "uploading"),
           remote' = Unpack(local[a], remote, some),
           Uploaded(a),
           artefact' \in Tree,
           faults' \in Nat,
           \A w \in Workspaces \ {a} : cause'[w] = cause[w] \cup {"shared"},
           \/ cause'[a] = cause[a] \cup {"upload"} /\ late' = late
           \/ cause'[a] = cause[a] \cup {"late"} /\ late' = late \cup {Transfer(a, TRUE)}
           \/ Files \subseteq some /\ cause'[a] = cause[a] /\ late' = late,
           cause' \in [Workspaces -> SUBSET Causes]
    PROVE  SInv'
<1>1. call[a].at = "uploading" /\ local[a] \in Tree
  BY DEF At, SInv, Typed
<1>u. /\ UNCHANGED <<local, intended, localArt, judged, orphans, staged>>
      /\ call' = [call EXCEPT ![a].at = "commanded"]
  BY DEF Uploaded
<1>2. /\ \A w \in Workspaces : w # a => call'[w] = call[w]
      /\ call'[a].at = "commanded" /\ call'[a].named = call[a].named
      /\ call'[a] \in Calls
  BY <1>1, <1>u DEF SInv, Typed, Calls
<1>3. /\ remote' \in Tree
      /\ \A f \in Files : remote'[f] =
            IF f \in some /\ local[a][f] # Absent THEN local[a][f] ELSE remote[f]
  BY <1>1, UnpackIs DEF SInv, Typed
<1>h. /\ late' \in SUBSET Transfers
      /\ \A t \in late' : t \in late \/ (/\ t.of = a /\ "late" \in cause'[a]
                                         /\ \A f \in Files : t.held[f] = Absent)
  <2>1. CASE late' = late
    BY <2>1 DEF SInv, Typed
  <2>2. CASE late' = late \cup {Transfer(a, TRUE)} /\ cause'[a] = cause[a] \cup {"late"}
    <3>1. /\ Transfer(a, TRUE) \in Transfers /\ Transfer(a, TRUE).of = a
          /\ \A f \in Files : Transfer(a, TRUE).held[f] = Absent
      BY LagStarts
    <3> QED
      BY <2>2, <3>1 DEF SInv, Typed
  <2> QED
    BY <2>1, <2>2
<1>4. Typed'
  BY <1>2, <1>3, <1>u, <1>h DEF SInv, Typed
<1>k. \A f \in Files : \A t \in late' : t \in late \/ t.held[f].of = "nobody"
  BY <1>h DEF Absent
<1>n. \A w \in Workspaces : cause[w] \subseteq cause'[w]
  OBVIOUS
<1>5. Alone'
  <2> SUFFICES ASSUME NEW w \in Workspaces, "shared" \notin cause'[w]
               PROVE  /\ \A v \in Workspaces \ {w} : call'[v].at \in {"idle", "uploading"}
                      /\ \A f \in Files :
                            /\ remote'[f].of \in {w, "nobody"}
                            /\ local'[w][f].of \in {w, "nobody"}
                            /\ Reading(w)' => call'[w].read[f].of \in {w, "nobody"}
                            /\ \A t \in late' : t.held[f].of \in {w, "nobody"}
    BY DEF Alone
  <2>1. w = a /\ "shared" \notin cause[a]
    BY <1>n
  <2> QED
    BY <1>2, <1>3, <1>u, <1>k, <2>1 DEF SInv, Alone, Reading
<1>6. Withdrawn'
  <2> SUFFICES ASSUME NEW w \in Workspaces, NEW f \in Files,
                      "withdrawn" \notin cause'[w], intended[w][f] = Absent
               PROVE  /\ remote'[f].of # w
                      /\ \A v \in Workspaces : /\ local[v][f].of # w
                                               /\ Reading(v)' => call'[v].read[f].of # w
                      /\ \A t \in late' : t.held[f].of # w
    BY <1>u DEF Withdrawn
  <2>1. "withdrawn" \notin cause[w]
    BY <1>n
  <2>2. /\ remote[f].of # w /\ "nobody" # w
        /\ \A v \in Workspaces : /\ local[v][f].of # w
                                 /\ Reading(v) => call[v].read[f].of # w
        /\ \A t \in late : t.held[f].of # w
    BY <2>1, RemoteAssumption DEF SInv, Withdrawn
  <2> QED
    BY <1>2, <1>3, <1>k, <2>2 DEF Reading
<1>b. Blamed'
  <2>1. \A w \in Workspaces : cause[w] \subseteq cause'[w]
    OBVIOUS
  <2> QED
    BY <1>h, <2>1 DEF SInv, Typed, Transfers, Blamed
<1>7. InStep'
  <2>1. ASSUME NEW w \in Workspaces, NEW f \in Files, w # a
        PROVE  /\ intended[w][f].of \in {w, "nobody"}
               /\ cause'[w] \cap {"upload", "late", "shared"} # {}
    BY <2>1 DEF SInv, InStep
  <2>2. ASSUME NEW f \in Files, cause'[a] \cap {"upload", "late", "shared"} = {},
               intended[a][f] # Absent
        PROVE  /\ local[a][f] = intended[a][f] /\ remote'[f] = intended[a][f]
               /\ call[a].named # {} => f \in call[a].named
    <3>1. Files \subseteq some /\ cause'[a] = cause[a]
      BY <2>2
    <3> QED
      BY <1>1, <1>3, <2>2, <3>1 DEF SInv, InStep
  <2>3. \A f \in Files : intended[a][f].of \in {a, "nobody"}
    BY DEF SInv, InStep
  <2> QED
    BY <1>2, <1>u, <2>1, <2>2, <2>3 DEF InStep, Reading
<1> QED
  BY <1>4, <1>5, <1>6, <1>7, <1>b, <1>u, VerdictsKeep DEF SInv

LEMMA UploadKeeps ==
    ASSUME NEW a \in Workspaces, SInv, Upload(a) \/ UploadFails(a) \/ UploadLags(a)
    PROVE  SInv'
<1>1. /\ OutputOver(a) \in Tree /\ artefact \in Tree
      /\ faults \in Nat /\ faults + 1 \in Nat
  BY DEF OutputOver, SInv, Typed
<1>2. CASE Upload(a)
  BY <1>1, <1>2, UploadOfSome DEF Upload, Share, SInv, Typed, Causes
<1>3. CASE UploadFails(a)
  <2>1. PICK some : remote' = Unpack(local[a], remote, some)
    BY <1>3 DEF UploadFails
  <2> QED
    BY <1>1, <1>3, <2>1, UploadOfSome DEF UploadFails, Share, SInv, Typed, Causes
<1>4. CASE UploadLags(a)
  <2>1. remote' = Unpack(local[a], remote, {})
    <3>1. Unpack(local[a], remote, {}) = remote
      BY DEF Unpack, SInv, Typed, Tree
    <3> QED
      BY <1>4, <3>1 DEF UploadLags
  <2> QED
    BY <1>1, <1>4, <2>1, UploadOfSome DEF UploadLags, Share, SInv, Typed, Causes
<1> QED
  BY <1>2, <1>3, <1>4

LEMMA ExecuteKeeps ==
    ASSUME NEW a \in Workspaces, SInv, Execute(a)
    PROVE  SInv'
<1> DEFINE read == ToolReads(call[a].named)
<1>1. /\ UNCHANGED <<local, intended, remote, artefact, localArt, judged, orphans, late,
                     staged, cause, faults>>
      /\ call[a].at = "commanded" /\ call[a].named \in SUBSET Files
  BY DEF Execute, At, SInv, Typed, Calls
<1>2. /\ read \in Tree
      /\ \A f \in Files : read[f] = IF f \in call[a].named THEN remote[f] ELSE Absent
  BY DEF ToolReads, SInv, Typed, Tree, Version
<1>3. /\ \A w \in Workspaces : w # a => call'[w] = call[w]
      /\ call'[a] = [at |-> "running", named |-> call[a].named, read |-> read]
  BY DEF Execute, SInv, Typed
<1> HIDE DEF read
<1>4. Typed'
  <2>1. call' \in [Workspaces -> Calls]
    BY <1>1, <1>2, <1>3 DEF Execute, SInv, Typed, Calls
  <2> QED
    BY <1>1, <2>1 DEF SInv, Typed
<1>5. Alone'
  BY <1>1, <1>2, <1>3 DEF SInv, Alone, Reading, Absent
<1>6. Withdrawn'
  BY <1>1, <1>2, <1>3, RemoteAssumption DEF SInv, Withdrawn, Reading, Absent
<1>7. InStep' /\ Blamed'
  BY <1>1, <1>2, <1>3 DEF SInv, InStep, Blamed, Reading
<1> QED
  BY <1>1, <1>4, <1>5, <1>6, <1>7, VerdictsKeep DEF SInv

\* A call that comes back, with what it read or without a verdict, or that is
\* over.
LEMMA ReturnKeeps ==
    ASSUME NEW a \in Workspaces, SInv,
           UNCHANGED <<local, intended, remote, localArt, judged, late, staged>>,
           artefact' \in Tree, orphans' \in SUBSET Tree, faults' \in Nat,
           cause' \in [Workspaces -> SUBSET Causes],
           \A w \in Workspaces : /\ cause[w] \subseteq cause'[w]
                                 /\ cause'[w] \subseteq cause[w] \cup {"orphan"},
           NEW then, call' = [call EXCEPT ![a] = then],
           \/ call[a].at \in {"commanded", "running"} /\ then \in {NoVerdict, Idle}
           \/ call[a].at = "running" /\ \E wrote \in BOOLEAN : then = Returns(a, wrote)
    PROVE  SInv'
<1>1. /\ call[a].at \in {"commanded", "running"} /\ call[a] \in Calls
      /\ \A w \in Workspaces : w # a => call'[w] = call[w]
      /\ call'[a] = then
  BY DEF SInv, Typed
<1>2. \/ then.at = "idle"
      \/ then.at = "returned" /\ then.named = {} /\ \A f \in Files : then.read[f] = Absent
      \/ /\ then.at = "returned" /\ call[a].at = "running" /\ then.named = call[a].named
         /\ then.read = call[a].read
  BY NothingIs DEF NoVerdict, Idle, Returns
<1>3. then \in Calls
  <2>1. CASE then \in {NoVerdict, Idle}
    <3>1. Idle \in Calls
      BY DEF Idle, Calls
    <3>2. NoVerdict \in Calls
      <4>1. Nothing \in Tree /\ FALSE \in BOOLEAN /\ {} \in SUBSET Files
        BY NothingIs
      <4> QED
        BY <4>1 DEF NoVerdict, Calls
    <3> QED
      BY <2>1, <3>1, <3>2
  <2>2. CASE call[a].at = "running" /\ \E wrote \in BOOLEAN : then = Returns(a, wrote)
    <3>1. call[a].named \in SUBSET Files /\ call[a].read \in Tree
      BY <1>1, <2>2 DEF Calls
    <3> QED
      BY <2>2, <3>1 DEF Returns, Calls
  <2> QED
    BY <2>1, <2>2
<1>4. Typed'
  BY <1>3 DEF SInv, Typed
<1>5. Alone'
  BY <1>1, <1>2 DEF SInv, Alone, Reading, Absent
<1>6. Withdrawn'
  BY <1>1, <1>2, RemoteAssumption DEF SInv, Withdrawn, Reading, Absent
<1>7. InStep'
  BY <1>1, <1>2 DEF SInv, InStep, Reading
<1>8. Blamed'
  BY DEF SInv, Typed, Transfers, Blamed
<1> QED
  BY <1>4, <1>5, <1>6, <1>7, <1>8, VerdictsKeep DEF SInv

LEMMA FinishKeeps ==
    ASSUME NEW a \in Workspaces, SInv, Finish(a) \/ Abandoned(a) \/ Refused(a)
    PROVE  SInv'
<1>1. CASE Finish(a)
  <2>1. PICK wrote \in BOOLEAN :
           /\ artefact' = IF wrote THEN call[a].read ELSE artefact
           /\ call' = [call EXCEPT ![a] = Returns(a, wrote)]
    BY <1>1 DEF Finish, MayWrite
  <2>2. /\ call[a].at = "running" /\ call[a].read \in Tree
        /\ UNCHANGED <<local, intended, remote, localArt, judged, late, staged, orphans,
                       faults, cause>>
    BY <1>1 DEF Finish, At, SInv, Typed, Calls
  <2>3. artefact' \in Tree
    BY <2>1, <2>2 DEF SInv, Typed
  <2> QED
    BY <2>1, <2>2, <2>3, ReturnKeeps DEF SInv, Typed
<1>2. CASE Abandoned(a)
  <2>1. PICK then \in {NoVerdict, Idle} : call' = [call EXCEPT ![a] = then]
    BY <1>2 DEF Abandoned
  <2>2. /\ call[a].at = "running" /\ orphans' \in SUBSET Tree /\ faults' \in Nat
        /\ UNCHANGED <<local, intended, remote, artefact, localArt, judged, late, staged>>
    BY <1>2 DEF Abandoned, At, SInv, Typed, Calls
  <2>3. cause' \in [Workspaces -> SUBSET Causes]
    BY <1>2 DEF Abandoned, SInv, Typed, Causes
  <2>4. \A w \in Workspaces : cause'[w] = cause[w] \cup {"orphan"}
    BY <1>2 DEF Abandoned
  <2> QED
    BY <2>1, <2>2, <2>3, <2>4, ReturnKeeps DEF SInv, Typed
<1>3. CASE Refused(a)
  <2>1. PICK then \in {NoVerdict, Idle} : call' = [call EXCEPT ![a] = then]
    BY <1>3 DEF Refused
  <2> QED
    BY <1>3, <2>1, ReturnKeeps DEF Refused, At, SInv, Typed
<1> QED
  BY <1>1, <1>2, <1>3

\* A verdict about what the call read: where it is mistaken, the invariant
\* names the cause.
LEMMA VerdictExplained ==
    ASSUME NEW a \in Workspaces, SInv, call[a].at = "returned", Judged(a),
           \A w \in Workspaces : cause[w] \subseteq cause'[w]
    PROVE  /\ VerdictIsOwn'
           /\ judged' \in [Workspaces -> Verdicts]
<1>1. /\ call[a].read \in Tree /\ intended[a] \in Tree /\ call[a].wrote \in BOOLEAN
      /\ call[a].named \in SUBSET Files
  BY DEF SInv, Typed, Calls
<1>2. judged' \in [Workspaces -> Verdicts]
  BY <1>1 DEF Judged, Verdicts, SInv, Typed
<1>3. ASSUME NEW w \in Workspaces, NEW f \in Files, judged'[w].read[f] # judged'[w].want[f]
      PROVE  LET got == judged'[w].read[f]
             IN IF got.of \notin {w, Absent.of} THEN "shared" \in cause'[w]
                ELSE IF judged'[w].want[f] = Absent THEN "withdrawn" \in cause'[w]
                ELSE cause'[w] \cap {"upload", "late", "shared"} # {}
  <2>1. CASE judged'[w] = judged[w]
    BY <1>3, <2>1 DEF SInv, VerdictIsOwn, Mistaken
  <2>2. CASE w = a /\ call[a].named # {}
    <3>1. judged'[a].read = call[a].read /\ judged'[a].want = intended[a]
      BY <2>2 DEF Judged, SInv, Typed
    <3> DEFINE got == call[a].read[f]
    <3>2. got \in Version /\ intended[a][f] \in Version
      BY <1>1 DEF Tree
    <3>3. CASE got.of \notin {a, "nobody"}
      BY <2>2, <3>1, <3>3 DEF SInv, Alone, Reading, Absent
    <3>4. CASE got.of \in {a, "nobody"} /\ intended[a][f] = Absent
      <4>1. got.of = a
        BY <1>3, <2>2, <3>1, <3>2, <3>4, VersionOf
      <4> QED
        BY <2>2, <3>1, <3>4, <4>1 DEF SInv, Withdrawn, Reading, Absent
    <3>5. CASE got.of \in {a, "nobody"} /\ intended[a][f] # Absent
      BY <1>3, <2>2, <3>1, <3>5 DEF SInv, InStep, Reading, Absent
    <3> QED
      BY <3>3, <3>4, <3>5
  <2> QED
    BY <2>1, <2>2 DEF Judged, SInv, Typed
<1> QED
  BY <1>2, <1>3 DEF VerdictIsOwn, Mistaken

\* A download of some files: all of them when nothing goes wrong, none yet
\* when the caller gives it up.
LEMMA DownloadKeeps ==
    ASSUME NEW a \in Workspaces, SInv, Download(a) \/ DownloadFails(a) \/ DownloadLags(a)
    PROVE  SInv'
<1>1. /\ UNCHANGED <<intended, remote, artefact, orphans, staged>>
      /\ call[a].at = "returned" /\ call' = [call EXCEPT ![a] = Idle]
      /\ Judged(a)
      /\ faults' \in Nat
  <2>1. CASE Download(a)
    BY <2>1 DEF Download, At, SInv, Typed
  <2>2. CASE DownloadFails(a)
    BY <2>2 DEF DownloadFails, At, SInv, Typed
  <2>3. CASE DownloadLags(a)
    BY <2>3 DEF DownloadLags, At, SInv, Typed
  <2> QED
    BY <2>1, <2>2, <2>3
<1>2. PICK some : local' = [local EXCEPT ![a] = Unpack(remote, @, some)]
  <2>1. CASE Download(a) \/ DownloadFails(a)
    BY <2>1 DEF Download, DownloadFails
  <2>2. CASE DownloadLags(a)
    <3>1. Unpack(remote, local[a], {}) = local[a]
      BY DEF Unpack, SInv, Typed, Tree
    <3> QED
      BY <2>2, <3>1 DEF DownloadLags, SInv, Typed
  <2> QED
    BY <2>1, <2>2
<1>3. /\ \A w \in Workspaces : w # a => call'[w] = call[w] /\ local'[w] = local[w]
      /\ call'[a].at = "idle" /\ call' \in [Workspaces -> Calls]
  BY <1>1, <1>2 DEF Idle, SInv, Typed, Calls
<1>4. /\ local'[a] \in Tree
      /\ \A f \in Files : local'[a][f] =
            IF f \in some /\ remote[f] # Absent THEN remote[f] ELSE local[a][f]
  BY <1>2, UnpackIs DEF SInv, Typed
<1>5. /\ cause' \in [Workspaces -> SUBSET Causes]
      /\ \A w \in Workspaces : /\ cause[w] \subseteq cause'[w]
                                /\ cause'[w] \subseteq cause[w] \cup {"download", "late"}
  BY DEF Download, DownloadFails, DownloadLags, Blame, SInv, Typed, Causes
<1>h. /\ late' \in SUBSET Transfers
      /\ \A t \in late' : t \in late \/ (/\ t.of = a /\ "late" \in cause'[a]
                                         /\ \A f \in Files : t.held[f] = Absent)
  <2>1. CASE late' = late
    BY <2>1 DEF SInv, Typed
  <2>2. CASE DownloadLags(a)
    <3>1. late' = late \cup {Transfer(a, FALSE)} /\ "late" \in cause'[a]
      BY <2>2 DEF DownloadLags, Blame, SInv, Typed
    <3>2. /\ Transfer(a, FALSE) \in Transfers /\ Transfer(a, FALSE).of = a
          /\ \A f \in Files : Transfer(a, FALSE).held[f] = Absent
      BY LagStarts
    <3> QED
      BY <3>1, <3>2 DEF SInv, Typed
  <2> QED
    BY <2>1, <2>2 DEF Download, DownloadFails
<1>6. Typed'
  <2>1. local' \in [Workspaces -> Tree]
    BY <1>2, <1>4 DEF SInv, Typed
  <2>2. localArt' \in [Workspaces -> Tree]
    BY DEF Download, DownloadFails, DownloadLags, Fetched, SInv, Typed
  <2> QED
    BY <1>1, <1>3, <1>5, <1>h, <2>1, <2>2, VerdictExplained DEF SInv, Typed
<1>7. Alone'
  BY <1>1, <1>3, <1>4, <1>5, <1>h DEF SInv, Alone, Reading, Absent
<1>8. Withdrawn'
  BY <1>1, <1>3, <1>4, <1>5, <1>h, RemoteAssumption DEF SInv, Withdrawn, Reading, Absent
<1>9. InStep'
  BY <1>1, <1>3, <1>4, <1>5 DEF SInv, InStep, Reading
<1>b. Blamed'
  <2>1. \A v \in Workspaces \ {a} : "shared" \in cause[v]
    BY <1>1 DEF SInv, Alone
  <2> QED
    BY <1>5, <1>h, <2>1 DEF SInv, Typed, Transfers, Blamed
<1> QED
  BY <1>1, <1>5, <1>6, <1>7, <1>8, <1>9, <1>b, VerdictExplained DEF SInv

LEMMA OrphanKeeps == ASSUME SInv, OrphanWrites PROVE SInv'
<1>1. UNCHANGED <<local, intended, remote, localArt, call, judged, late, staged, cause,
                  faults>>
  BY DEF OrphanWrites
<1>2. artefact' \in Tree /\ orphans' \in SUBSET Tree
  BY DEF OrphanWrites, SInv, Typed
<1> QED
  BY <1>1, <1>2 DEF SInv, Typed, Alone, Withdrawn, Blamed, InStep, Reading, VerdictIsOwn,
     Mistaken

\* A transfer under way reads a file of one side or writes one it holds to the
\* other: nothing new comes into being.
LEMMA LateKeeps ==
    ASSUME SInv, NEW t \in late, LatePack(t) \/ LateUnpack(t) \/ LateOutput(t)
    PROVE  SInv'
<1> DEFINE w == t.of
<1>1. /\ t \in Transfers /\ w \in Workspaces /\ t.held \in Tree /\ t.out \in Tree
      /\ "late" \in cause[w] /\ \A v \in Workspaces \ {w} : "shared" \in cause[v]
  BY DEF SInv, Typed, Transfers, Blamed
<1>2. UNCHANGED <<intended, call, judged, orphans, staged, cause, faults>>
  BY DEF LatePack, LateUnpack, LateOutput
<1>3. /\ artefact' \in Tree /\ localArt' \in [Workspaces -> Tree]
  BY <1>1 DEF LatePack, LateUnpack, LateOutput, SInv, Typed
<1>4. /\ remote' \in Tree /\ local' \in [Workspaces -> Tree]
      /\ \A v \in Workspaces : v # w => local'[v] = local[v]
      /\ \A f \in Files : /\ remote'[f] \in {remote[f], t.held[f]}
                          /\ local'[w][f] \in {local[w][f], t.held[f]}
  <2>1. CASE LatePack(t) \/ LateOutput(t)
    BY <1>1, <2>1 DEF LatePack, LateOutput, SInv, Typed
  <2>2. CASE LateUnpack(t)
    <3>1. PICK f \in Files :
             IF t.up
             THEN remote' = Unpack(t.held, remote, {f}) /\ local' = local
             ELSE local' = [local EXCEPT ![w] = Unpack(t.held, @, {f})] /\ remote' = remote
      BY <2>2 DEF LateUnpack, Present
    <3>2. CASE t.up
      BY <1>1, <3>1, <3>2, UnpackIs DEF SInv, Typed
    <3>3. CASE ~t.up
      <4>1. /\ Unpack(t.held, local[w], {f}) \in Tree
            /\ \A g \in Files : Unpack(t.held, local[w], {f})[g] \in {local[w][g], t.held[g]}
        BY <1>1, UnpackIs DEF SInv, Typed
      <4> QED
        BY <1>1, <3>1, <3>3, <4>1 DEF SInv, Typed
    <3> QED
      BY <3>2, <3>3
  <2> QED
    BY <2>1, <2>2
<1>5. PICK new \in Transfers :
         /\ late' \subseteq late \cup {new}
         /\ new.of = w
         /\ \A f \in Files : new.held[f] \in {t.held[f], Absent, local[w][f], remote[f]}
  <2>1. CASE LatePack(t)
    <3>1. PICK n \in t.unread :
            LET rest == [t EXCEPT !.unread = @ \ {n}]
            IN IF n = "output"
               THEN Instead(t, [rest EXCEPT !.out = IF t.up THEN localArt[w] ELSE artefact])
               ELSE Instead(t, [rest EXCEPT !.held[n] = IF t.up THEN local[w][n] ELSE remote[n]])
      BY <2>1 DEF LatePack
    <3> DEFINE out == IF t.up THEN localArt[w] ELSE artefact
               got == IF t.up THEN local[w][n] ELSE remote[n]
    <3>2. CASE n = "output"
      <4> DEFINE new == [t EXCEPT !.unread = @ \ {n}, !.out = out]
      <4>1. out \in Tree
        BY <1>1 DEF SInv, Typed
      <4>2. new \in Transfers /\ new.of = w /\ new.held = t.held
        BY <1>1, <4>1 DEF Transfers
      <4>3. late' \subseteq late \cup {new}
        BY <3>1, <3>2 DEF Instead
      <4> QED
        BY <4>2, <4>3
    <3>3. CASE n # "output"
      <4> DEFINE new == [t EXCEPT !.unread = @ \ {n}, !.held[n] = got]
      <4>1. n \in Files /\ got \in Version
        BY <1>1, <3>3 DEF SInv, Typed, Transfers, Tree
      <4>2. new \in Transfers /\ new.of = w
        BY <1>1, <4>1 DEF Transfers, Tree
      <4>3. \A f \in Files : new.held[f] \in {t.held[f], local[w][f], remote[f]}
        BY <1>1, <4>1 DEF Transfers, Tree
      <4>4. late' \subseteq late \cup {new}
        BY <3>1, <3>3 DEF Instead
      <4> QED
        BY <4>2, <4>3, <4>4
    <3> QED
      BY <3>2, <3>3
  <2>2. CASE LateUnpack(t)
    <3>1. PICK f \in Files : Instead(t, [t EXCEPT !.held[f] = Absent])
      BY <2>2 DEF LateUnpack, Present
    <3> DEFINE new == [t EXCEPT !.held[f] = Absent]
    <3>2. new \in Transfers /\ new.of = w
      BY <1>1, RemoteAssumption DEF Transfers, Tree, Version
    <3>3. \A g \in Files : new.held[g] \in {t.held[g], Absent}
      BY <1>1 DEF Transfers, Tree
    <3>4. late' \subseteq late \cup {new}
      BY <3>1 DEF Instead
    <3> QED
      BY <3>2, <3>3, <3>4
  <2>3. CASE LateOutput(t)
    <3> DEFINE new == [t EXCEPT !.out = Nothing]
    <3>1. new \in Transfers /\ new.of = w /\ new.held = t.held
      BY <1>1, NothingIs DEF Transfers
    <3>2. late' \subseteq late \cup {new}
      BY <2>3 DEF LateOutput, Instead
    <3> QED
      BY <3>1, <3>2
  <2> QED
    BY <2>1, <2>2, <2>3
<1> HIDE DEF w
<1>6. Typed'
  BY <1>2, <1>3, <1>4, <1>5 DEF SInv, Typed
<1>7. Alone'
  <2>1. ASSUME NEW v \in Workspaces, "shared" \notin cause'[v]
        PROVE  v = w /\ "shared" \notin cause[w]
    BY <1>1, <1>2, <2>1
  <2> QED
    BY <1>2, <1>4, <1>5, <2>1 DEF SInv, Alone, Reading, Absent
<1>8. Withdrawn'
  <2> SUFFICES ASSUME NEW v \in Workspaces, NEW f \in Files,
                      "withdrawn" \notin cause[v], intended[v][f] = Absent
               PROVE  /\ remote'[f].of # v
                      /\ \A u \in Workspaces : local'[u][f].of # v
                      /\ \A u \in Workspaces : Reading(u) => call[u].read[f].of # v
                      /\ \A u \in late' : u.held[f].of # v
    BY <1>2 DEF Withdrawn, Reading
  <2>1. /\ remote[f].of # v /\ t.held[f].of # v /\ Absent.of # v
        /\ \A u \in Workspaces : local[u][f].of # v
        /\ \A u \in Workspaces : Reading(u) => call[u].read[f].of # v
        /\ \A u \in late : u.held[f].of # v
    BY RemoteAssumption DEF SInv, Withdrawn, Absent
  <2>2. remote'[f] \in {remote[f], t.held[f]} /\ local'[w][f] \in {local[w][f], t.held[f]}
    BY <1>4
  <2>3. new.held[f] \in {t.held[f], Absent, local[w][f], remote[f]}
    BY <1>5
  <2>4. \A u \in Workspaces : local'[u][f] = local[u][f] \/ local'[u][f] = t.held[f]
    BY <1>4, <2>2
  <2> QED
    BY <1>1, <1>5, <2>1, <2>2, <2>3, <2>4
<1>9. Blamed' /\ InStep'
  <2>1. Blamed'
    BY <1>1, <1>2, <1>5 DEF SInv, Blamed
  <2>2. \A v \in Workspaces : cause'[v] \cap {"upload", "late", "shared"} # {}
    BY <1>1, <1>2
  <2> QED
    BY <1>2, <2>1, <2>2 DEF SInv, InStep
<1> QED
  BY <1>2, <1>6, <1>7, <1>8, <1>9, VerdictsKeep DEF SInv

LEMMA SourcesStep == SInv /\ [RemoteNext]_remoteVars => SInv'
<1> SUFFICES ASSUME SInv, [RemoteNext]_remoteVars PROVE SInv'
  OBVIOUS
<1>1. CASE UNCHANGED remoteVars
  BY <1>1 DEF remoteVars, SInv, Typed, Alone, Withdrawn, Blamed, InStep, Reading,
     VerdictIsOwn, Mistaken
<1>2. CASE OrphanWrites
  BY <1>2, OrphanKeeps
<1>3. ASSUME NEW a \in Workspaces, Stage(a) \/ RestoreOriginal(a) \/ RunnerStep(a)
      PROVE  SInv'
  BY <1>3, StageKeeps, RestoreKeeps, ComposeKeeps, UploadKeeps, ExecuteKeeps, FinishKeeps,
     DownloadKeeps DEF RunnerStep
<1>4. CASE \E t \in late : LatePack(t) \/ LateUnpack(t) \/ LateOutput(t)
  BY <1>4, LateKeeps
<1> QED
  BY <1>1, <1>2, <1>3, <1>4 DEF RemoteNext

LEMMA SourcesInvariant == RemoteSpec => []SInv
  BY SourcesInit, SourcesStep, PTL DEF RemoteSpec

\* A completed gate judged the caller's own sources; each way it can have
\* judged others is the only one (RemoteSSHRunner.run).
THEOREM VerdictsAreOwn == RemoteSpec => []VerdictIsOwn
<1>1. SInv => VerdictIsOwn
  BY DEF SInv
<1> QED
  BY <1>1, SourcesInvariant, PTL

\* Neither a call nor what is left of one changes what the driver wrote, but for
\* the four named causes.
THEOREM CallsKeepSources == RemoteSpec => SourcesKept
<1> DEFINE Kept ==
      \A w \in Workspaces :
          /\ intended'[w] = intended[w]
          /\ local[w] = intended[w]
          /\ cause[w] \cap {"shared", "upload", "late", "withdrawn"} = {}
          => local'[w] = local[w]
<1>1. ASSUME SInv, [RemoteNext]_remoteVars PROVE [Kept]_remoteVars
  <2>1. CASE OrphanWrites \/ UNCHANGED remoteVars
    BY <2>1 DEF OrphanWrites, remoteVars
  <2>3. ASSUME NEW t \in late, LatePack(t) \/ LateUnpack(t) \/ LateOutput(t),
               NEW w \in Workspaces, cause[w] \cap {"shared", "late"} = {}
        PROVE  FALSE
    BY <1>1, <2>3 DEF SInv, Blamed
  <2>2. ASSUME NEW a \in Workspaces, NEW w \in Workspaces,
               Stage(a) \/ RestoreOriginal(a) \/ RunnerStep(a),
               intended'[w] = intended[w], local[w] = intended[w],
               cause[w] \cap {"shared", "upload", "late", "withdrawn"} = {}
        PROVE  local'[w] = local[w]
    <3>1. CASE Stage(a)
      BY <1>1, <2>2, <3>1 DEF Stage, SInv, Typed
    <3>2. CASE RestoreOriginal(a)
      BY <1>1, <2>2, <3>2 DEF RestoreOriginal, SInv, Typed
    <3>3. CASE Download(a) \/ DownloadFails(a)
      <4>1. PICK some : local' = [local EXCEPT ![a] = Unpack(remote, @, some)]
        BY <3>3 DEF Download, DownloadFails
      <4>2. call[a].at = "returned" /\ remote \in Tree /\ local[a] \in Tree
        BY <1>1, <3>3 DEF Download, DownloadFails, At, SInv, Typed
      <4>3. CASE w = a
        <5>1. local'[a] \in Tree /\ local'[a] = Unpack(remote, local[a], some)
          BY <1>1, <4>1, <4>2, UnpackIs DEF SInv, Typed
        <5>2. ASSUME NEW f \in Files PROVE local'[a][f] = local[a][f]
          <6>1. remote[f] \in Version
            BY <4>2 DEF Tree
          <6>2. CASE intended[a][f] = Absent
            <7>1. remote[f].of = "nobody"
              BY <1>1, <2>2, <4>3, <6>1, <6>2, VersionOf DEF SInv, Alone, Withdrawn
            <7> QED
              BY <4>2, <5>1, <6>1, <7>1, UnpackIs, VersionOf
          <6>3. CASE intended[a][f] # Absent
            BY <1>1, <2>2, <4>2, <4>3, <5>1, <6>3, UnpackIs DEF SInv, InStep
          <6> QED
            BY <6>2, <6>3
        <5> QED
          BY <1>1, <4>2, <4>3, <5>1, <5>2 DEF Tree
      <4> QED
        BY <1>1, <4>1, <4>3 DEF SInv, Typed
    <3> QED
      BY <2>2, <3>1, <3>2, <3>3 DEF RunnerStep, Compose, Upload, UploadFails, Execute,
         UploadLags, Uploaded, Refused, Finish, Abandoned, DownloadLags
  <2> QED
    BY <1>1, <2>1, <2>2, <2>3 DEF RemoteNext
<1> QED
  BY <1>1, SourcesInvariant, PTL DEF RemoteSpec, SourcesKept

-----------------------------------------------------------------------------
LEMMA OutputInit == RemoteInit => Outputs
  BY DEF RemoteInit, Outputs, Idle, NoRun

\* Steps that write no output and judge nothing.
LEMMA OutputKeeps ==
    ASSUME OInv, UNCHANGED <<artefact, judged>>, orphans' = orphans,
           \A w \in Workspaces :
              /\ cause[w] \subseteq cause'[w]
              /\ localArt'[w] \in {localArt[w], Nothing}
              /\ \/ call'[w] = call[w]
                 \/ /\ call[w].at # "returned"
                    /\ call'[w].at # "returned" \/ ~call'[w].wrote
    PROVE  Outputs'
<1>1. \A w \in Workspaces : Unexplained(w)' => Unexplained(w)
  BY DEF Unexplained
<1>2. orphans' # {} => \A w \in Workspaces : "orphan" \in cause'[w]
  BY DEF OInv, Outputs
<1>3. ASSUME NEW w \in Workspaces
      PROVE  /\ call'[w].at = "returned" /\ call'[w].wrote =>
                   call'[w].named # {} /\ call'[w].read # Nothing
             /\ Unexplained(w)' /\ judged'[w].wrote => localArt'[w] \in {Nothing, judged'[w].read}
             /\ Unexplained(w)' => IF call'[w].at = "returned" /\ call'[w].wrote
                                 THEN artefact' = call'[w].read
                                 ELSE judged'[w].wrote => artefact' = judged'[w].read
  BY <1>1 DEF OInv, Outputs
<1> QED
  BY <1>2, <1>3 DEF Outputs

\* Steps of the driver between calls, the start of a call and of its command,
\* and a call that is refused.
LEMMA DriverOutput ==
    ASSUME NEW a \in Workspaces, OInv,
           Stage(a) \/ RestoreOriginal(a) \/ Compose(a) \/ Execute(a) \/ Refused(a)
    PROVE  Outputs'
<1>1. /\ UNCHANGED <<artefact, judged, orphans>>
      /\ \A w \in Workspaces : /\ cause[w] \subseteq cause'[w]
                               /\ localArt'[w] \in {localArt[w], Nothing}
  BY DEF Stage, RestoreOriginal, Compose, Execute, Refused, Blame, OInv, SInv, Typed
<1>2. /\ \A w \in Workspaces : w # a => call'[w] = call[w]
      /\ call'[a] = call[a] \/ (/\ call[a].at # "returned"
                                /\ call'[a].at # "returned" \/ ~call'[a].wrote)
  <2>1. CASE Stage(a) \/ RestoreOriginal(a)
    BY <2>1 DEF Stage, RestoreOriginal
  <2>2. CASE Compose(a)
    BY <2>2 DEF Compose, At, OInv, SInv, Typed
  <2>3. CASE Execute(a)
    BY <2>3 DEF Execute, At, OInv, SInv, Typed
  <2>4. CASE Refused(a)
    BY <2>4 DEF Refused, NoVerdict, Idle, At, OInv, SInv, Typed
  <2> QED
    BY <2>1, <2>2, <2>3, <2>4
<1> QED
  BY <1>1, <1>2, OutputKeeps

\* An upload puts back the output of the last verdict.
LEMMA UploadOutput ==
    ASSUME NEW a \in Workspaces, OInv, Upload(a) \/ UploadFails(a) \/ UploadLags(a)
    PROVE  Outputs'
<1>1. /\ UNCHANGED <<localArt, judged, orphans>> /\ call[a].at = "uploading"
      /\ call' = [call EXCEPT ![a].at = "commanded"]
  BY DEF Upload, UploadFails, UploadLags, Uploaded, At
<1>2. /\ \A w \in Workspaces : w # a => call'[w] = call[w]
      /\ call'[a].at = "commanded"
  BY <1>1 DEF OInv, SInv, Typed, Calls
<1>3. /\ \A w \in Workspaces : w # a => "shared" \in cause'[w]
      /\ \A w \in Workspaces : cause[w] \subseteq cause'[w]
  BY DEF Upload, UploadFails, UploadLags, Share, OInv, SInv, Typed
<1>4. artefact' = artefact \/ (artefact' = localArt[a] /\ localArt[a] # Nothing)
  BY DEF Upload, UploadFails, UploadLags, OutputOver
<1>5. \A w \in Workspaces : Unexplained(w)' => w = a /\ Unexplained(w)
  BY <1>3 DEF Unexplained
<1> QED
  BY <1>1, <1>2, <1>3, <1>4, <1>5 DEF OInv, Outputs

\* A command that leaves its output, or none.
LEMMA FinishOutput == ASSUME NEW a \in Workspaces, OInv, Finish(a) PROVE Outputs'
<1>1. /\ UNCHANGED <<localArt, judged, orphans, cause>> /\ call[a].at = "running"
  BY DEF Finish, At
<1>2. PICK wrote \in MayWrite(a) :
         /\ artefact' = IF wrote THEN call[a].read ELSE artefact
         /\ call' = [call EXCEPT ![a] = Returns(a, wrote)]
  BY DEF Finish
<1>3. /\ \A w \in Workspaces : w # a => call'[w] = call[w]
      /\ call'[a].at = "returned" /\ call'[a].named = call[a].named
      /\ call'[a].read = call[a].read /\ call'[a].wrote = wrote
  BY <1>2 DEF Returns, OInv, SInv, Typed
<1>4. wrote \in BOOLEAN /\ (wrote => call[a].read # Nothing /\ call[a].named # {})
  BY DEF MayWrite
<1>5. \A w \in Workspaces \ {a} : "shared" \in cause[w]
  BY <1>1 DEF OInv, SInv, Alone
<1>6. \A w \in Workspaces : Unexplained(w)' => w = a /\ Unexplained(w)
  BY <1>1, <1>5 DEF Unexplained
<1> QED
  BY <1>1, <1>2, <1>3, <1>4, <1>6 DEF OInv, Outputs

\* A command that was given up may still write, in any call from here on.
LEMMA AbandonedOutput ==
    ASSUME OInv, (\E a \in Workspaces : Abandoned(a)) \/ OrphanWrites
    PROVE  Outputs'
<1>1. \A w \in Workspaces : "orphan" \in cause'[w]
  BY DEF Abandoned, OrphanWrites, OInv, Outputs
<1>2. \A w \in Workspaces : call'[w].at = "returned" /\ call'[w].wrote =>
         call[w].at = "returned" /\ call'[w] = call[w]
  BY DEF Abandoned, NoVerdict, Idle, OrphanWrites, OInv, SInv, Typed
<1> QED
  BY <1>1, <1>2 DEF OInv, Outputs, Unexplained

LEMMA LateOutputs ==
    ASSUME OInv, NEW t \in late, LatePack(t) \/ LateUnpack(t) \/ LateOutput(t)
    PROVE  Outputs'
<1>1. UNCHANGED <<call, judged, orphans, cause>>
  BY DEF LatePack, LateUnpack, LateOutput
<1>2. \A w \in Workspaces : ~Unexplained(w)'
  BY <1>1 DEF OInv, SInv, Blamed, Unexplained
<1> QED
  BY <1>1, <1>2 DEF OInv, Outputs

\* A download brings the output of the verdict back.
LEMMA DownloadOutput ==
    ASSUME NEW a \in Workspaces, OInv, Download(a) \/ DownloadFails(a) \/ DownloadLags(a)
    PROVE  Outputs'
<1>1. /\ UNCHANGED <<artefact, orphans>> /\ call[a].at = "returned"
      /\ \A w \in Workspaces : cause[w] \subseteq cause'[w]
      /\ \A w \in Workspaces : w # a => /\ call'[w] = call[w]
                                        /\ localArt'[w] = localArt[w]
                                        /\ judged'[w] = judged[w]
      /\ call'[a].at = "idle"
  <2>1. /\ UNCHANGED <<artefact, orphans>> /\ call[a].at = "returned"
        /\ call' = [call EXCEPT ![a] = Idle] /\ Judged(a)
    BY DEF Download, DownloadFails, DownloadLags, At
  <2>2. \A w \in Workspaces : /\ cause[w] \subseteq cause'[w]
                              /\ w # a => localArt'[w] = localArt[w]
    BY DEF Download, DownloadFails, DownloadLags, Fetched, Blame, OInv, SInv, Typed
  <2>3. call'[a].at = "idle" /\ \A w \in Workspaces : w # a => call'[w] = call[w]
    BY <2>1 DEF Idle, OInv, SInv, Typed
  <2>4. \A w \in Workspaces : w # a => judged'[w] = judged[w]
    BY <2>1 DEF Judged, OInv, SInv, Typed
  <2> QED
    BY <2>1, <2>2, <2>3, <2>4
<1>2. ASSUME Unexplained(a)'
      PROVE  /\ judged'[a].wrote => localArt'[a] \in {Nothing, judged'[a].read}
             /\ judged'[a].wrote => artefact = judged'[a].read
  <2>1. Download(a)
    BY <1>2 DEF DownloadFails, DownloadLags, Blame, Unexplained, OInv, SInv, Typed
  <2>2. /\ localArt'[a] = IF artefact = Nothing THEN localArt[a] ELSE artefact
        /\ judged'[a] = IF call[a].named = {} THEN judged[a]
                        ELSE [read |-> call[a].read, want |-> intended[a],
                              wrote |-> call[a].wrote]
        /\ Unexplained(a)
    BY <1>2, <2>1 DEF Download, Fetched, Judged, Unexplained, OInv, SInv, Typed
  <2>3. /\ call[a].wrote => call[a].named # {} /\ call[a].read # Nothing
        /\ judged[a].wrote => localArt[a] \in {Nothing, judged[a].read}
        /\ IF call[a].wrote THEN artefact = call[a].read
           ELSE judged[a].wrote => artefact = judged[a].read
    BY <1>1, <2>2 DEF OInv, Outputs
  <2> QED
    BY <2>2, <2>3
<1>3. \A w \in Workspaces : Unexplained(w)' => Unexplained(w)
  BY <1>1 DEF Unexplained
<1> QED
  BY <1>1, <1>2, <1>3 DEF OInv, Outputs

LEMMA OutputStep == OInv /\ [RemoteNext]_remoteVars => OInv'
<1> SUFFICES ASSUME OInv, [RemoteNext]_remoteVars PROVE Outputs'
  BY SourcesStep DEF OInv
<1>1. CASE UNCHANGED remoteVars
  BY <1>1 DEF remoteVars, OInv, Outputs, Unexplained
<1>2. CASE OrphanWrites
  BY <1>2, AbandonedOutput
<1>3. ASSUME NEW a \in Workspaces, Stage(a) \/ RestoreOriginal(a) \/ RunnerStep(a)
      PROVE  Outputs'
  BY <1>3, DriverOutput, UploadOutput, FinishOutput, AbandonedOutput, DownloadOutput
     DEF RunnerStep
<1>4. CASE \E t \in late : LatePack(t) \/ LateUnpack(t) \/ LateOutput(t)
  BY <1>4, LateOutputs
<1> QED
  BY <1>1, <1>2, <1>3, <1>4 DEF RemoteNext

\* The output in the workspace is that of the run whose verdict the caller
\* has (the download of RemoteSSHRunner.run).
THEOREM OutputsAreOfVerdict == RemoteSpec => []OutputOfVerdict
<1>1. OInv => OutputOfVerdict
  BY DEF OInv, Outputs, Unexplained, OutputOfVerdict, At
<1>2. RemoteInit => OInv
  BY SourcesInit, OutputInit DEF OInv
<1> QED
  BY <1>1, <1>2, OutputStep, PTL DEF RemoteSpec
=============================================================================
