------------------------------ MODULE MCControl ------------------------------
(***************************************************************************)
(* An instance of Control for TLC: one client that asks for a stop, and    *)
(* one that sends any one command; a service, a task and a teardown        *)
(* command.                                                                *)
(***************************************************************************)
EXTENDS Control, TLC

CONSTANTS stop1, other, svc, job, td

WantsOf     == (stop1 :> {"shutdown"}) @@ (other :> Action)
Modes       == (svc :> "service") @@ (job :> "task") @@ (td :> "teardown")
OneTeardown == <<td>>

File(e1, e2, e3, a) ==
  [edits |-> (svc :> e1) @@ (job :> e2) @@ (td :> e3), added |-> a]
AllFiles == {File("changed", "same", "changed", FALSE),
             File("same", "changed", "same", FALSE),
             File("same", "removed", "same", TRUE),
             File("moved", "same", "changed", FALSE)}
=============================================================================
