------------------------------ MODULE MCVerify -------------------------------
(***************************************************************************)
(* An instance of Config, Session, Attempt and Compare for TLC.  A run     *)
(* plays one scenario:                                                     *)
(*   load     a configuration is loaded and planned                        *)
(*   ports    two supervisors acquire, use and give up their sessions      *)
(*   verify   supervisors make attempts on one session: two of them, one   *)
(*            after the other in one process, or after one that died       *)
(*   compare  one check is compared over two worktrees                     *)
(***************************************************************************)
EXTENDS Attempt, Compare

VARIABLE scenario

Sorted == <<"api", "client", "job", "merge-port">>
Names3 == {"api", "client", "job"}

Plain(m, deps) ==
  [mode |-> m, restart |-> "never", health |-> "none", probe |-> 0, deps |-> deps,
   env |-> NoPORT, file |-> NoPORT, http |-> Undeclared, refs |-> {}]
Stack(m, r, procs) == [merge |-> m, resources |-> r, procs |-> procs]
Two(api, client) == [n \in {"api", "client"} |-> IF n = "api" THEN api ELSE client]

-----------------------------------------------------------------------------
(* load: every dependency graph of three processes, and merges over every  *)
(* way two processes may name their ports.                                 *)

Graphs ==
  {Stack(NoMerge, <<>>, [n \in Names3 |-> Plain(IF n = "job" THEN m ELSE "", g[n])]) :
     m \in {"", "task", "teardown"}, g \in [Names3 -> SUBSET Names3]}

PortSpecs ==
  {Plain(m, {}) : m \in {"", "task"}} \cup
  {[Plain("", {}) EXCEPT !.env = e, !.file = f, !.http = h] :
     e \in {NoPORT, Number(2), PortOf("client")}, f \in {NoPORT, Number(1)},
     h \in {Undeclared, 0, 1, 2}}

Merges ==
  {[NoMerge EXCEPT !.on = TRUE, !.client = c, !.server = 2, !.client_process = q] :
     c \in {1, 2}, q \in {"", "api"}}
  \cup {[NoMerge EXCEPT !.on = TRUE, !.routes = r] : r \in {{1}, {1, 2}}}

Merged == {Stack(m, <<>>, Two(a, c)) : m \in Merges, a \in PortSpecs, c \in PortSpecs}

-----------------------------------------------------------------------------
(* ports: one resource under two spellings, a preferred port two processes *)
(* share, ports pinned by a merge, and a port left to the system.          *)

Http(n) == [Plain("", {}) EXCEPT !.http = n]
Db(t) == [text |-> t, trimmed |-> t]
Spelled == [t \in {"db", "/db"} |-> "db"]

Shared == Stack(NoMerge, <<Db("db"), Db("/db")>>, Two(Http(1), [Http(1) EXCEPT !.refs = {"api"}]))
Pinned2 == Stack([NoMerge EXCEPT !.on = TRUE, !.client = 1, !.server = 2, !.port = 3], <<>>,
                 Two(Http(2), Http(1)))
AnyPort == Stack([NoMerge EXCEPT !.on = TRUE, !.client = 1, !.server = 2, !.port = 1], <<>>,
                 Two(Http(0), Plain("", {})))

\* An upstream whose number is written in its env and that has a named port of
\* its own, and the same one started from the named port.
Written == Stack([NoMerge EXCEPT !.on = TRUE, !.routes = {3}, !.port = 1], <<>>,
                 [n \in {"api"} |-> [Http(2) EXCEPT !.env = Number(3)]])
FromNamed == [Written EXCEPT !.merge.routes = {2}, !.procs["api"].env = NoPORT]

ReloadChoices ==
  {Load([Shared EXCEPT !.procs["client"].refs = {}]),
   Load([Pinned2 EXCEPT !.procs["client"].http = 2]),
   Load([Pinned2 EXCEPT !.procs["api"].refs = {"client"}]),
   Load(FromNamed)}

Pair(one, two) == [p \in Supervisor |-> IF p = "one" THEN Load(one) ELSE Load(two)]
SameSession == [p \in Supervisor |-> "A"]
OwnSession == [p \in Supervisor |-> IF p = "one" THEN "A" ELSE "B"]

-----------------------------------------------------------------------------
(* verify: one service, and what validation refuses.                       *)

Service == Stack(NoMerge, <<>>, [n \in {"api"} |-> Plain("", {})])
TaskOnly == Stack(NoMerge, <<>>, [n \in {"job"} |-> Plain("task", {})])
Dangling == Stack(NoMerge, <<>>, Two(Http(1), [Plain("", {}) EXCEPT !.refs = {"client"}]))
Cyclic == Stack(NoMerge, <<>>, [n \in {"api"} |-> Plain("", {"api"})])

IDs == [p \in Supervisor |-> IF p = "one" THEN {1, 3} ELSE {2}]
Times(one, two) == [p \in Supervisor |-> IF p = "one" THEN one ELSE two]

-----------------------------------------------------------------------------
(* compare: runs that differ in one respect each.                          *)

Passes == [startup |-> "passed", refused |-> FALSE, check |-> "exited", code |-> 0, late |-> FALSE,
           interrupt |-> FALSE, cancelled |-> FALSE, environment |-> "none", erred |-> FALSE,
           cleanup |-> TRUE, persisted |-> TRUE, stdout |-> <<2, 0>>, stderr |-> <<>>,
           large |-> FALSE]
NoCode == -1
Prints(out, err) == [Passes EXCEPT !.stdout = out, !.stderr = err]
CheckRuns ==
  {Passes, Prints(<<2, 1>>, <<>>), Prints(<<2>>, <<>>), Prints(<<2, 2, 2>>, <<>>),
   Prints(<<2, 2, 0, 3>>, <<>>), Prints(<<3, 2, 2>>, <<2>>), Prints(<<2, 0>>, <<3>>),
   [Passes EXCEPT !.code = 1], [Passes EXCEPT !.large = TRUE], [Passes EXCEPT !.erred = TRUE],
   [Passes EXCEPT !.late = TRUE, !.code = NoCode],
   [Prints(<<>>, <<>>) EXCEPT !.check = "unstarted", !.code = NoCode],
   [Passes EXCEPT !.check = "handed_off", !.code = NoCode, !.cleanup = FALSE],
   [Passes EXCEPT !.environment = "ineligible"], [Passes EXCEPT !.cancelled = TRUE],
   [Prints(<<>>, <<>>) EXCEPT !.check = "canceled", !.code = NoCode, !.interrupt = TRUE,
                              !.cancelled = TRUE],
   [Prints(<<>>, <<>>) EXCEPT !.startup = "not_run", !.check = "not_run", !.code = NoCode,
                              !.refused = TRUE, !.persisted = FALSE]}

\* The files have the shape the theorems about the configuration ask for.
ASSUME FilesAssumption ==
  \A f \in Graphs \cup Merged \cup {Shared, Pinned2, AnyPort, Written, FromNamed, Service,
                                   TaskOnly, Dangling, Cyclic} :
    IsFile(f) /\ f.merge.client_process # MergePortProcessName

-----------------------------------------------------------------------------
NoConfig == ConfigInit({Service}, {{}})
NoSession == SessionInit({Pair(Service, Service)}, {SameSession})
NoAttempt == AttemptInit({Times(0, 0)}, {NotLooking})

\* One of them has died.
TwoIsGone ==
  /\ conf = Pair(Service, Service) /\ session = SameSession
  /\ plan = [p \in Supervisor |-> IF p = "two" THEN [EmptyPlan EXCEPT !.at = "gone"] ELSE EmptyPlan]
  /\ lease = [x \in Label |-> Nobody] /\ bound = [n \in PortNumber |-> Free] /\ outside = 0

Init ==
  \/ /\ scenario = "load"
     /\ ConfigInit(Graphs, SUBSET Names3) \/ ConfigInit(Merged, {{}})
     /\ NoSession /\ NoAttempt /\ CompareOff
  \/ /\ scenario = "ports"
     /\ \/ SessionInit({Pair(Shared, Pinned2), Pair(Shared, AnyPort)}, {OwnSession})
        \/ SessionInit({Pair(Shared, Shared)}, {SameSession})
     /\ NoConfig /\ NoAttempt /\ CompareOff
  \/ /\ scenario = "verify"
     /\ \/ /\ SessionInit({Pair(Service, Service)}, {SameSession})
           /\ AttemptInit({Times(1, 1), Times(2, 0)}, {NotLooking})
        \/ /\ SessionInit({Pair(Pinned2, TaskOnly), Pair(Dangling, Cyclic)}, {SameSession})
           /\ AttemptInit({Times(1, 0), Times(0, 1)}, {NotLooking})
        \/ TwoIsGone /\ \E id \in AttemptID["two"] : AttemptLost({Times(1, 0)}, "two", id)
     /\ NoConfig /\ CompareOff
  \/ scenario = "compare" /\ CompareInit /\ NoConfig /\ NoSession /\ NoAttempt

\* One supervisor acquires, the other does nothing.
Alone(only) ==
  /\ scenario = "ports"
  /\ SessionInit({Pair(only, Cyclic)}, {OwnSession})
  /\ NoConfig /\ NoAttempt /\ CompareOff

ReloadInit == Alone(Written)

Next ==
  /\ \/ /\ scenario = "load" /\ Explain
        /\ UNCHANGED <<sessionVars, attemptVars, compareVars>>
     \/ /\ scenario = "ports" /\ (PortsNext \/ \E p \in Supervisor : AcquireStep(p))
        /\ UNCHANGED <<configVars, attemptVars, compareVars>>
     \/ /\ scenario = "verify" /\ VerifyNext
        /\ UNCHANGED <<configVars, compareVars>>
     \/ /\ scenario = "compare" /\ CompareNext
        /\ UNCHANGED <<configVars, sessionVars, attemptVars>>
  /\ UNCHANGED scenario
=============================================================================
