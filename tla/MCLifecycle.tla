----------------------------- MODULE MCLifecycle -----------------------------
(***************************************************************************)
(* Instances of Lifecycle for TLC.                                         *)
(***************************************************************************)
EXTENDS Lifecycle, TLC

CONSTANTS db, api, job

\* Two services of a daemon: db has a polled probe and a retry policy, api
\* starts when db is ready.  Restart requests, shutdown, signal.
PairDeps    == (db :> <<>>) @@ (api :> <<db>>)
PairMode    == (db :> "service") @@ (api :> "service")
PairRestart == (db :> "on-failure") @@ (api :> "never")
PairMax     == (db :> 1) @@ (api :> 0)
PairReady   == (db :> "poll") @@ (api :> "none")

\* A task that waits for a service with a log probe, a health check that
\* restarts it, and a handoff budget.
JobDeps    == (api :> <<>>) @@ (job :> <<api>>)
JobMode    == (api :> "service") @@ (job :> "task")
JobRestart == (api :> "always") @@ (job :> "never")
JobMax     == (api :> 1) @@ (job :> 0)
JobReady   == (api :> "log") @@ (job :> "none")

\* Two independent services that exit cleanly; one keeps the daemon alive.
FreeDeps    == [p \in Proc |-> <<>>]
FreeMode    == [p \in Proc |-> "service"]
FreeRestart == [p \in Proc |-> "never"]
FreeMax     == [p \in Proc |-> 0]
FreeReady   == [p \in Proc |-> "none"]

\* Two tasks in a row.
ChainDeps == (db :> <<>>) @@ (job :> <<db>>)
ChainMode == [p \in Proc |-> "task"]
==============================================================================
