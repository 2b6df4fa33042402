------------------------------- MODULE MCEvents -------------------------------
(***************************************************************************)
(* An instance of Monitor, and so of Events and Journal, for TLC: two      *)
(* processes, a journal of two copies of one event each.                   *)
(***************************************************************************)
EXTENDS Monitor

CONSTANTS api, db

TwoNames == <<api, db>>
AllObservers == {"query", "stream", "up", "restart", "screen"}
ChangesOf == [o \in Observers |-> IF o = "restart" THEN 3 ELSE 2]
EventsOf  == [o \in Observers |-> IF o \in {"stream", "restart"} THEN 4 ELSE 3]
=============================================================================
