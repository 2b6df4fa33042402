--------------------------- MODULE MCProcessGroup ---------------------------
(***************************************************************************)
(* Instances of ProcessGroup for TLC.                                      *)
(***************************************************************************)
EXTENDS ProcessGroup

CONSTANTS first, second

\* Two incarnations of one process, one after the other.
OneName == [e \in Exec |-> "svc"]
=============================================================================
