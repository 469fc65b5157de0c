-------------------------- MODULE MCAgentLifecycle --------------------------
(***************************************************************************)
(* AgentLifecycle on a workspace of two entries, with two session ids and  *)
(* two runs, so that a run can die and be followed by another, of the same *)
(* session or not.                                                         *)
(***************************************************************************)
EXTENDS AgentLifecycle
=============================================================================
