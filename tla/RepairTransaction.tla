------------------------- MODULE RepairTransaction -------------------------
(***************************************************************************)
(* What every repair loop of the driver promises about the workspace it    *)
(* works in: the loop edits files freely, and ends in one of two ways.     *)
(* Either it commits, and then the files are the ones the verifier has     *)
(* just accepted, or it gives up, and then every file is back to what it   *)
(* was when the snapshot was taken.  An exception that leaves the driver   *)
(* (a policy violation on a harness file, a verifier that raises) is the   *)
(* third end: the promise says nothing of the files then.                  *)
(***************************************************************************)

CONSTANT Content    \* what the workspace may hold

VARIABLES
    files,          \* the workspace's content, .mind excluded
    original,       \* the content at the start of the run
    accepted,       \* the contents the verifier has accepted
    outcome         \* "open", "committed", "rolled_back" or "escaped"

vars == <<files, original, accepted, outcome>>

Outcome == {"open", "committed", "rolled_back", "escaped"}

Init ==
    /\ files \in Content
    /\ original = files
    /\ accepted = {}
    /\ outcome = "open"

\* A write of the harness, of a first candidate or of a repair.
Edit ==
    /\ outcome = "open"
    /\ files' \in Content
    /\ UNCHANGED <<original, accepted, outcome>>

\* The verifier accepts the files as they are.
Approve ==
    /\ outcome = "open"
    /\ accepted' = {files}
    /\ UNCHANGED <<files, original, outcome>>

\* The verifier refuses the files as they are.
Refuse ==
    /\ outcome = "open"
    /\ accepted' = {}
    /\ UNCHANGED <<files, original, outcome>>

Commit ==
    /\ outcome = "open"
    /\ files \in accepted
    /\ outcome' = "committed"
    /\ UNCHANGED <<files, original, accepted>>

RollBack ==
    /\ outcome = "open"
    /\ outcome' = "rolled_back"
    /\ files' = original
    /\ UNCHANGED <<original, accepted>>

\* An exception: files already written stay written.
Escape ==
    /\ outcome = "open"
    /\ outcome' = "escaped"
    /\ files' \in Content
    /\ UNCHANGED <<original, accepted>>

Next == Edit \/ Approve \/ Refuse \/ Commit \/ RollBack \/ Escape

Spec == Init /\ [][Next]_vars
=============================================================================
