---- MODULE RemoteRunner ----
(* RemoteSSHRunner (src/mind3/sandbox/remote_eda.py): a tool call made on a    *)
(* remote host as upload, command, download.  The factory get_eda_runner gives *)
(* every workspace the same remote directory, the uploads and downloads are    *)
(* archives unpacked over what is there (nothing is ever removed), and their   *)
(* results are ignored.  A transfer that takes longer than its 45 seconds is   *)
(* not stopped either: the caller goes on, and so do ssh and the two tars.  A  *)
(* version of a file is who wrote it and when; a tool output is the set of     *)
(* versions the tool read.                                                     *)
EXTENDS Naturals, FiniteSets

CONSTANTS
    Workspaces,     \* the workspaces whose factory names this host
    Files,          \* the source file names a response may write
    MaxStages,      \* bound: responses written, in all
    MaxCalls,       \* bound: tool calls, in all
    MaxFaults       \* bound: transfers and commands that fail or take too long, in all

ASSUME RemoteAssumption ==
    /\ MaxStages \in Nat /\ MaxCalls \in Nat /\ MaxFaults \in Nat
    /\ "nobody" \notin Workspaces /\ "output" \notin Files   \* names of the model's own

VARIABLES
    local,      \* the sources in each workspace
    intended,   \* the sources the driver has put there
    remote,     \* the sources in the remote directory
    artefact,   \* the tool output in the remote directory
    localArt,   \* the tool output in each workspace
    call,       \* where each workspace's runner.run stands
    judged,     \* what the last completed call of a workspace read, and should have
    orphans,    \* what commands read that still run after their call was given up
    late,       \* transfers still under way after their call was given up
    staged,     \* responses written so far
    used,       \* calls made so far
    cause,      \* what has happened to a workspace's copies on the way
    faults

remoteVars == <<local, intended, remote, artefact, localArt, call, judged, orphans,
                late, staged, used, cause, faults>>

Absent  == [of |-> "nobody", stage |-> 0]
Nothing == [f \in Files |-> Absent]
Idle    == [at |-> "idle"]
NoRun   == [read |-> Nothing, want |-> Nothing, wrote |-> FALSE]

RemoteInit ==
    /\ local = [w \in Workspaces |-> Nothing] /\ intended = local
    /\ remote = Nothing /\ artefact = Nothing
    /\ localArt = [w \in Workspaces |-> Nothing]
    /\ call = [w \in Workspaces |-> Idle]
    /\ judged = [w \in Workspaces |-> NoRun]
    /\ orphans = {} /\ late = {}
    /\ staged = 0 /\ used = 0
    /\ cause = [w \in Workspaces |-> {}]
    /\ faults = 0

Present(tree) == {f \in Files : tree[f] # Absent}

(* tar -x of the files in `which` of an archive of `from` over `over`. *)
Unpack(from, over, which) ==
    [f \in Files |-> IF f \in which \cap Present(from) THEN from[f] ELSE over[f]]

Blame(w, why) == cause' = [cause EXCEPT ![w] = @ \cup why]

At(w, place) == call[w].at = place

(* A tool run by the command: it reads the sources the command names. *)
ToolReads(named) == [f \in Files |-> IF f \in named THEN remote[f] ELSE Absent]

----------------------------------------------------------------------------
(* The driver, between calls. *)

(* write_file_actions: a response rewrites some of the sources. *)
Stage(w) ==
    /\ At(w, "idle") /\ staged < MaxStages
    /\ \E names \in SUBSET Files \ {{}} :
          LET written == [f \in Files |-> [of |-> w, stage |-> staged + 1]]
          IN /\ local' = [local EXCEPT ![w] = Unpack(written, @, names)]
             /\ intended' = [intended EXCEPT ![w] = Unpack(written, @, names)]
    /\ staged' = staged + 1
    /\ UNCHANGED <<remote, artefact, localArt, call, judged, orphans, late, used, cause, faults>>

(* _restore_snapshot at the end of a failed run: the workspace is emptied and  *)
(* the original copied back (here a workspace that had no sources).            *)
RestoreOriginal(w) ==
    /\ At(w, "idle") /\ intended[w] # Nothing
    /\ local' = [local EXCEPT ![w] = Nothing]
    /\ intended' = [intended EXCEPT ![w] = Nothing]
    /\ localArt' = [localArt EXCEPT ![w] = Nothing]
    /\ Blame(w, {"withdrawn"})
    /\ UNCHANGED <<remote, artefact, call, judged, orphans, late, staged, used, faults>>

----------------------------------------------------------------------------
(* RemoteSSHRunner.run. *)

(* The command is composed: a version probe names no source, a gate names      *)
(* every source _select_signoff_sources lists in the workspace.                *)
Compose(w) ==
    /\ At(w, "idle") /\ used < MaxCalls
    /\ \E named \in {{}, Present(local[w])} :
          call' = [call EXCEPT ![w] = [at |-> "uploading", named |-> named]]
    /\ used' = used + 1
    /\ UNCHANGED <<local, intended, remote, artefact, localArt, judged, orphans,
                   late, staged, cause, faults>>

(* sync_to_remote.  Every other workspace shares the directory from here on.   *)
Share(w) == [v \in Workspaces |-> IF v = w THEN {} ELSE {"shared"}]

(* What an upload leaves of the output in the remote directory. *)
OutputOver(w) == IF localArt[w] = Nothing THEN artefact ELSE localArt[w]

Uploaded(w) ==
    /\ call' = [call EXCEPT ![w].at = "commanded"]
    /\ UNCHANGED <<local, intended, localArt, judged, orphans, staged, used>>

(* Mutant of Upload: a directory that has files is taken to be in step. *)
UploadOnce(w) ==
    /\ At(w, "uploading")
    /\ remote' = IF Present(remote) = {} THEN Unpack(local[w], remote, Files) ELSE remote
    /\ artefact' = OutputOver(w)
    /\ Uploaded(w)
    /\ cause' = [v \in Workspaces |-> cause[v] \cup Share(w)[v]]
    /\ UNCHANGED <<late, faults>>

(* Mutant of Upload: only calls that read sources upload them. *)
UploadForGates(w) ==
    /\ At(w, "uploading")
    /\ remote' = IF call[w].named = {} THEN remote ELSE Unpack(local[w], remote, Files)
    /\ artefact' = OutputOver(w)
    /\ Uploaded(w)
    /\ cause' = [v \in Workspaces |-> cause[v] \cup Share(w)[v]]
    /\ UNCHANGED <<late, faults>>

Upload(w) ==
    /\ At(w, "uploading")
    /\ remote' = Unpack(local[w], remote, Files)
    /\ artefact' = OutputOver(w)
    /\ Uploaded(w)
    /\ cause' = [v \in Workspaces |-> cause[v] \cup Share(w)[v]]
    /\ UNCHANGED <<late, faults>>

(* The archive is cut short (or refused): run does not look at the result.     *)
UploadFails(w) ==
    /\ At(w, "uploading") /\ faults < MaxFaults
    /\ \E some \in SUBSET Files : remote' = Unpack(local[w], remote, some)
    /\ artefact' \in {artefact, OutputOver(w)}
    /\ Uploaded(w)
    /\ cause' = [v \in Workspaces |->
                   cause[v] \cup Share(w)[v] \cup (IF v = w THEN {"upload"} ELSE {})]
    /\ faults' = faults + 1
    /\ UNCHANGED late

(* communicate(timeout=45) gives up: the transfer goes on beside the command.  *)
Transfer(w, up) ==
    [of |-> w, up |-> up, unread |-> Files \cup {"output"}, held |-> Nothing,
     out |-> Nothing, id |-> faults]

UploadLags(w) ==
    /\ At(w, "uploading") /\ faults < MaxFaults
    /\ late' = late \cup {Transfer(w, TRUE)}
    /\ Uploaded(w)
    /\ cause' = [v \in Workspaces |->
                   cause[v] \cup Share(w)[v] \cup (IF v = w THEN {"late"} ELSE {})]
    /\ faults' = faults + 1
    /\ UNCHANGED <<remote, artefact>>

(* The command starts and reads its sources ... *)
Execute(w) ==
    /\ At(w, "commanded")
    /\ call' = [call EXCEPT ![w] = [at |-> "running", named |-> @.named,
                                    read |-> ToolReads(call[w].named)]]
    /\ UNCHANGED <<local, intended, remote, artefact, localArt, judged, orphans, late,
                   staged, used, cause, faults>>

(* A call that comes back without a verdict: 255, and the directory is fetched *)
(* all the same.                                                               *)
NoVerdict == [at |-> "returned", named |-> {}, read |-> Nothing, wrote |-> FALSE]

(* ... or ssh is refused: nothing is run, the call comes back (255).  Or ssh   *)
(* cannot be started at all: run returns at once.                              *)
Refused(w) ==
    /\ At(w, "commanded")
    /\ \E then \in {NoVerdict, Idle} : call' = [call EXCEPT ![w] = then]
    /\ UNCHANGED <<local, intended, remote, artefact, localArt, judged, orphans, late,
                   staged, used, cause, faults>>

(* Whether the tool writes its output: a probe and a tool without a source do  *)
(* not, and a tool that fails need not.                                        *)
MayWrite(w) == {b \in BOOLEAN : b => call[w].named # {} /\ call[w].read # Nothing}

Returns(w, wrote) ==
    [at |-> "returned", named |-> call[w].named, read |-> call[w].read, wrote |-> wrote]

(* Mutant of Finish: an output that is there is not written again. *)
FinishKeepsOutput(w) ==
    /\ At(w, "running")
    /\ \E wrote \in MayWrite(w) :
          /\ artefact' = IF wrote /\ artefact = Nothing THEN call[w].read ELSE artefact
          /\ call' = [call EXCEPT ![w] = Returns(w, wrote)]
    /\ UNCHANGED <<local, intended, remote, localArt, judged, orphans, late, staged, used,
                   cause, faults>>

(* ... and leaves its output in the remote directory, or none. *)
Finish(w) ==
    /\ At(w, "running")
    /\ \E wrote \in MayWrite(w) :
          /\ artefact' = IF wrote THEN call[w].read ELSE artefact
          /\ call' = [call EXCEPT ![w] = Returns(w, wrote)]
    /\ UNCHANGED <<local, intended, remote, localArt, judged, orphans, late, staged, used,
                   cause, faults>>

(* subprocess.run gives up on ssh: 124 and no download; or the connection is   *)
(* lost: 255, and the directory is fetched.  The remote command, which has no  *)
(* terminal, goes on.                                                          *)
Abandoned(w) ==
    /\ At(w, "running") /\ faults < MaxFaults
    /\ \E then \in {NoVerdict, Idle} : call' = [call EXCEPT ![w] = then]
    /\ orphans' = orphans \cup ({call[w].read} \ {Nothing})
    /\ cause' = [v \in Workspaces |-> cause[v] \cup {"orphan"}]
    /\ faults' = faults + 1
    /\ UNCHANGED <<local, intended, remote, artefact, localArt, judged, late, staged, used>>

OrphanWrites ==
    /\ \E run \in orphans : artefact' = run /\ orphans' = orphans \ {run}
    /\ UNCHANGED <<local, intended, remote, localArt, call, judged, late, staged, used,
                   cause, faults>>

(* The call is over: its exit code and text are those of what it read. *)
Judged(w) ==
    judged' = [judged EXCEPT ![w] =
        IF call[w].named = {} THEN @
        ELSE [read |-> call[w].read, want |-> intended[w], wrote |-> call[w].wrote]]

(* sync_from_remote: the whole directory comes back over the workspace. *)
Fetched(w) == [localArt EXCEPT ![w] = IF artefact = Nothing THEN @ ELSE artefact]

Download(w) ==
    /\ At(w, "returned")
    /\ local' = [local EXCEPT ![w] = Unpack(remote, @, Files)]
    /\ localArt' = Fetched(w)
    /\ Judged(w)
    /\ call' = [call EXCEPT ![w] = Idle]
    /\ UNCHANGED <<intended, remote, artefact, orphans, late, staged, used, cause, faults>>

DownloadFails(w) ==
    /\ At(w, "returned") /\ faults < MaxFaults
    /\ \E some \in SUBSET Files : local' = [local EXCEPT ![w] = Unpack(remote, @, some)]
    /\ localArt' \in {localArt, Fetched(w)}
    /\ Judged(w)
    /\ call' = [call EXCEPT ![w] = Idle]
    /\ Blame(w, {"download"})
    /\ faults' = faults + 1
    /\ UNCHANGED <<intended, remote, artefact, orphans, late, staged, used>>

(* The download too goes on, after run has returned. *)
DownloadLags(w) ==
    /\ At(w, "returned") /\ faults < MaxFaults
    /\ late' = late \cup {Transfer(w, FALSE)}
    /\ Judged(w)
    /\ call' = [call EXCEPT ![w] = Idle]
    /\ Blame(w, {"late"})
    /\ faults' = faults + 1
    /\ UNCHANGED <<local, intended, remote, artefact, localArt, orphans, staged, used>>

----------------------------------------------------------------------------
(* A transfer its caller has given up: each file is packed when the first tar  *)
(* comes to it, and unpacked when the second one does.                         *)

Instead(t, new) ==
    late' = (late \ {t}) \cup
            (IF new.unread = {} /\ new.held = Nothing /\ new.out = Nothing THEN {} ELSE {new})

LatePack(t) ==
    /\ \E n \in t.unread :
          LET rest == [t EXCEPT !.unread = @ \ {n}]
          IN IF n = "output"
             THEN Instead(t, [rest EXCEPT !.out = IF t.up THEN localArt[t.of] ELSE artefact])
             ELSE Instead(t, [rest EXCEPT !.held[n] = IF t.up THEN local[t.of][n] ELSE remote[n]])
    /\ UNCHANGED <<local, intended, remote, artefact, localArt, call, judged, orphans,
                   staged, used, cause, faults>>

LateUnpack(t) ==
    /\ \E f \in Present(t.held) :
          /\ Instead(t, [t EXCEPT !.held[f] = Absent])
          /\ IF t.up
             THEN remote' = Unpack(t.held, remote, {f}) /\ local' = local
             ELSE local' = [local EXCEPT ![t.of] = Unpack(t.held, @, {f})] /\ remote' = remote
    /\ UNCHANGED <<intended, artefact, localArt, call, judged, orphans, staged, used,
                   cause, faults>>

LateOutput(t) ==
    /\ t.out # Nothing
    /\ Instead(t, [t EXCEPT !.out = Nothing])
    /\ IF t.up
       THEN artefact' = t.out /\ localArt' = localArt
       ELSE localArt' = [localArt EXCEPT ![t.of] = t.out] /\ artefact' = artefact
    /\ UNCHANGED <<local, intended, remote, call, judged, orphans, staged, used, cause, faults>>

----------------------------------------------------------------------------
RunnerStep(w) ==
    \/ Compose(w) \/ Upload(w) \/ UploadFails(w) \/ UploadLags(w) \/ Execute(w)
    \/ Refused(w) \/ Finish(w) \/ Abandoned(w)
    \/ Download(w) \/ DownloadFails(w) \/ DownloadLags(w)

RemoteNext ==
    \/ \E w \in Workspaces : Stage(w) \/ RestoreOriginal(w) \/ RunnerStep(w)
    \/ OrphanWrites
    \/ \E t \in late : LatePack(t) \/ LateUnpack(t) \/ LateOutput(t)

RemoteSpec == RemoteInit /\ [][RemoteNext]_remoteVars

----------------------------------------------------------------------------
(* What the runner owes its caller. *)

Mistaken(w, f) == judged[w].read[f] # judged[w].want[f]

(* A completed gate judged the sources the driver had put in its workspace.    *)
(* Each way it can have judged another is the only way: somebody else's file   *)
(* because another workspace used the directory, a file of its own that had    *)
(* been withdrawn because uploads remove nothing, an older or missing version  *)
(* because an upload was cut short, a transfer outlived its call or the        *)
(* directory is shared.                                                        *)
VerdictIsOwn ==
    \A w \in Workspaces, f \in Files :
        LET got == judged[w].read[f]
        IN Mistaken(w, f) =>
              IF got.of \notin {w, Absent.of} THEN "shared" \in cause[w]
              ELSE IF judged[w].want[f] = Absent THEN "withdrawn" \in cause[w]
              ELSE cause[w] \cap {"upload", "late", "shared"} # {}

(* When the command whose exit code the gates have wrote an output, the output *)
(* they read back is that one, unless the directory is shared, a download was  *)
(* cut short, a transfer outlived its call, or a command that was given up was *)
(* still writing.                                                              *)
OutputOfVerdict ==
    \A w \in Workspaces :
        /\ At(w, "idle")
        /\ judged[w].wrote /\ localArt[w] # Nothing
        /\ cause[w] \cap {"shared", "download", "late", "orphan"} = {}
        => localArt[w] = judged[w].read

(* Neither a call nor what is left of an earlier one changes the sources the   *)
(* driver wrote, unless the directory is shared, an upload was cut short, a    *)
(* transfer outlived its call, or files were withdrawn.                        *)
SourcesKept ==
    [][\A w \in Workspaces :
          /\ intended'[w] = intended[w]
          /\ local[w] = intended[w]
          /\ cause[w] \cap {"shared", "upload", "late", "withdrawn"} = {}
          => local'[w] = local[w]]_remoteVars
====
