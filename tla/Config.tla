------------------------------- MODULE Config -------------------------------
(***************************************************************************)
(* The configuration: what Load accepts and adds (the merge proxy, its     *)
(* dependencies and the readiness probes of its upstreams), which          *)
(* processes a filter selects and the static start order of the plan.      *)
(* Sources: internal/config/config.go, explain.go, and the preflight ports *)
(* of cmd/proc-compose/helpers.go.                                         *)
(*                                                                         *)
(* A process is a record of the fields these functions read:               *)
(*   mode, restart, health   its mode, restart policy and health action    *)
(*   probe                   0, the port a probe was injected at, or Own   *)
(*   deps                    the processes of depends_on                   *)
(*   env, file               the PORT its env block and its env_file give  *)
(*   http                    ports.http: Undeclared, 0 or a preferred port *)
(*   refs                    the processes whose ports.http it references  *)
(* Commands, directories, the scan for API prefixes and the client's URL   *)
(* variables are left out.                                                 *)
(***************************************************************************)
EXTENDS Integers, Sequences, FiniteSets, SequencesExt, Relation

CONSTANTS
  NameOrder,    \* every process name, sorted
  MaxPort,      \* 65535
  DefaultPort   \* the merge port when none is configured

ASSUME ConfigAssumption ==
  /\ NameOrder \in Seq(STRING) /\ IsInjective(NameOrder)
  /\ MaxPort \in Nat \ {0}
  /\ DefaultPort \in 1..MaxPort

MergePortProcessName == "merge-port"
NoName == ""
Undeclared == -1
Own == -1
PortNumber == 1..MaxPort

\* A PORT that is not declared, a number (0 stands for text that is none), a
\* reference to the http port of a process.
NoPORT    == [is |-> "none", n |-> 0, of |-> ""]
Number(n) == [is |-> "number", n |-> n, of |-> ""]
PortOf(p) == [is |-> "ref", n |-> 0, of |-> p]

NoMerge == [on |-> FALSE, client |-> 0, server |-> 0, port |-> 0,
            routes |-> {}, client_process |-> ""]
Refused == [ok |-> FALSE]

VARIABLES
  file,     \* the configuration file
  filter,   \* the names on the command line
  loaded,   \* what Load made of it
  levels    \* the start level of each process of the plan

configVars == <<file, filter, loaded, levels>>

SortedProcessNames(S) == SelectSeq(NameOrder, LAMBDA n : n \in S)

EffectiveMode(p) == IF p.mode = "" THEN "service" ELSE p.mode

-----------------------------------------------------------------------------
(* The ports processes are started on, and the upstreams of the proxy.     *)

Declared(p) == IF p.env # NoPORT THEN p.env ELSE p.file

Resolvable(procs, port) ==
  port.is = "ref" => port.of \in DOMAIN procs /\ procs[port.of].http \in PortNumber

Known(procs, n) ==
  IF Declared(procs[n]) = NoPORT
  THEN procs[n].http \in PortNumber
  ELSE Resolvable(procs, Declared(procs[n]))

ServedPort(procs, n) ==
  LET port == Declared(procs[n])
  IN  IF port = NoPORT THEN [port |-> procs[n].http, named |-> {n}]
      ELSE IF port.is = "ref" THEN [port |-> procs[port.of].http, named |-> {port.of}]
      ELSE [port |-> port.n, named |-> {}]

servedPorts(procs) ==
  [n \in {m \in DOMAIN procs : Known(procs, m)} |-> ServedPort(procs, n)]

serviceUpstreams(procs) == {n \in DOMAIN procs : EffectiveMode(procs[n]) = "service"}

\* The first of the names that is a candidate, or none.
FirstOf(names, candidates) ==
  LET hits == {i \in DOMAIN names : names[i] \in candidates}
  IN  IF hits = {} THEN NoName ELSE names[CHOOSE i \in hits : \A j \in hits : i <= j]

procWithPort(candidates, served, port) ==
  FirstOf(NameOrder, {n \in candidates \cap DOMAIN served :
                        /\ port > 0
                        /\ n # MergePortProcessName
                        /\ served[n].port = port})

ServerNames == <<"server", "backend", "api">>
ClientNames == <<"client", "frontend", "web", "ui", "app">>

findServerProc(candidates, served, m) ==
  LET byPort == procWithPort(candidates, served, m.server)
  IN  IF byPort # NoName THEN byPort ELSE FirstOf(ServerNames, candidates)

findClientProc(candidates, served, m) ==
  LET byPort == procWithPort(candidates, served, m.client)
  IN  IF m.client_process \in candidates THEN m.client_process
      ELSE IF byPort # NoName THEN byPort ELSE FirstOf(ClientNames, candidates)

\* The upstream processes, each with the port the proxy sends its traffic to.
resolveUpstreamProcesses(candidates, served, m) ==
  LET client == findClientProc(candidates, served, m)
      server == findServerProc(candidates, served, m)
      routed == {procWithPort(candidates, served, port) : port \in m.routes} \ {NoName}
  IN  IF m.routes # {}
      THEN [n \in routed |-> served[n].port]
      ELSE [n \in ({client, server} \ {NoName}) |-> IF n = server THEN m.server ELSE m.client]

checkUpstreamPort(name, served, port) ==
  name \in DOMAIN served => served[name].port = port

MergeUpstreamPorts(c) ==
  LET served == servedPorts(c.procs)
      up == resolveUpstreamProcesses(serviceUpstreams(c.procs), served, c.merge)
  IN  IF ~c.merge.on THEN {}
      ELSE UNION {served[n].named : n \in DOMAIN up \cap DOMAIN served}

\* The ports `up` looks at before it starts: the proxy's, and those of its
\* upstreams that the file fixes; the session holds the others.
processPorts(procs) ==
  LET served == servedPorts(procs)
      fixed == {n \in (DOMAIN served \cap serviceUpstreams(procs)) \ {MergePortProcessName} :
                  served[n].port > 0 /\ served[n].named = {}}
  IN  {served[n].port : n \in fixed}

managedMergeUpstreamPorts(c) ==
  LET targets == IF c.merge.routes # {} THEN c.merge.routes
                                        ELSE {c.merge.client, c.merge.server}
  IN  processPorts(c.procs) \cap (targets \ {0})

mergePreflightPorts(c) ==
  IF c.merge.on THEN {c.merge.port} \cup managedMergeUpstreamPorts(c) ELSE {}

-----------------------------------------------------------------------------
(* Load *)

\* The range checks of buildMergeCmd; either routes or a client and a server.
buildMergeCmd(m) ==
  /\ m.routes \cup {m.port} \subseteq PortNumber
  /\ IF m.routes = {} THEN {m.client, m.server} \subseteq PortNumber
                      ELSE m.client = 0 /\ m.server = 0

checkClientProcess(c) ==
  c.merge.client_process \in DOMAIN c.procs =>
    EffectiveMode(c.procs[c.merge.client_process]) = "service"

MergeAccepted(c, served) ==
  LET candidates == serviceUpstreams(c.procs)
  IN  /\ MergePortProcessName \notin DOMAIN c.procs
      /\ checkClientProcess(c)
      /\ buildMergeCmd(c.merge)
      /\ c.merge.routes = {} =>
           /\ checkUpstreamPort(findClientProc(candidates, served, c.merge), served, c.merge.client)
           /\ checkUpstreamPort(findServerProc(candidates, served, c.merge), served, c.merge.server)

injectTCPReadyIfMissing(p, port) == IF p.probe = 0 THEN [p EXCEPT !.probe = port] ELSE p

mergeProc(c, upstreams) ==
  [mode |-> "", restart |-> "on-failure", health |-> "none", probe |-> c.merge.port,
   deps |-> DOMAIN upstreams, env |-> NoPORT, file |-> NoPORT, http |-> Undeclared,
   refs |-> {}]

Wire(c, upstreams) ==
  [c EXCEPT !.procs =
     [n \in DOMAIN c.procs \cup {MergePortProcessName} |->
        IF n = MergePortProcessName THEN mergeProc(c, upstreams)
        ELSE IF n \in DOMAIN upstreams THEN injectTCPReadyIfMissing(c.procs[n], upstreams[n])
        ELSE c.procs[n]]]

validateTeardown(p) == p.http = Undeclared /\ p.deps = {}

validateHealth(p) == p.health = "restart" => p.restart # "never"

ValidProcess(p) ==
  /\ p.http \in {Undeclared} \cup 0..MaxPort
  /\ p.mode \in {"task", "teardown"} =>
       p.probe = 0 /\ p.restart = "never" /\ p.health = "none"
  /\ p.mode = "teardown" => validateTeardown(p)
  /\ validateHealth(p)

ValidDependencies(procs) ==
  \A n \in DOMAIN procs : \A dep \in procs[n].deps :
    /\ dep # n
    /\ dep \in DOMAIN procs
    /\ procs[dep].mode # "teardown"

\* Depth-first search with three colours: gray names are on the current path.
visit(procs) ==
  LET Names == DOMAIN procs
      Colours == [gray : SUBSET Names, black : SUBSET Names, cycle : BOOLEAN]
      from[s \in Colours, name \in Names] ==
        LET follow(t, dep) ==
              CASE t.cycle \/ dep \in t.black -> t
                [] dep \in t.gray /\ ~t.cycle -> [t EXCEPT !.cycle = TRUE]
                [] OTHER -> from[t, dep]
            left == FoldLeft(follow, [s EXCEPT !.gray = @ \cup {name}],
                             SortedProcessNames(procs[name].deps))
        IN  IF left.cycle THEN left
            ELSE [left EXCEPT !.gray = @ \ {name}, !.black = @ \cup {name}]
  IN  from

detectCycles(procs) ==
  LET start(s, name) == IF s.cycle \/ name \in s.black THEN s ELSE visit(procs)[s, name]
  IN  FoldLeft(start, [gray |-> {}, black |-> {}, cycle |-> FALSE],
               SortedProcessNames(DOMAIN procs)).cycle

\* A label repeated as written is refused; one that only repeats another
\* label's trimmed text is skipped.  The order of the labels has no meaning.
ValidResources(labels) == \A i, j \in DOMAIN labels : labels[i].text = labels[j].text => i = j

Normalized(labels) == {labels[i].trimmed : i \in DOMAIN labels}

\* The env_file overrides the env block.
FileWins(p) == IF p.file # NoPORT THEN [p EXCEPT !.env = p.file] ELSE p

MergeEnvFile(p) == [p EXCEPT !.env = Declared(p)]

Finish(c) ==
  [ok |-> TRUE, merge |-> c.merge, resources |-> Normalized(c.resources),
   procs |-> [n \in DOMAIN c.procs |-> MergeEnvFile(c.procs[n])]]

Defaulted(raw) ==
  IF raw.merge.on /\ raw.merge.port = 0 THEN [raw EXCEPT !.merge.port = DefaultPort] ELSE raw

Load(raw) ==
  LET c == Defaulted(raw)
      served == servedPorts(c.procs)
      upstreams == resolveUpstreamProcesses(serviceUpstreams(c.procs), served, c.merge)
      wired == IF c.merge.on THEN Wire(c, upstreams) ELSE c
  IN  IF /\ DOMAIN c.procs # {} \/ c.merge.on
         /\ c.merge.on => MergeAccepted(c, served)
         /\ \A n \in DOMAIN wired.procs : ValidProcess(wired.procs[n])
         /\ ValidDependencies(wired.procs)
         /\ ~detectCycles(wired.procs)
         /\ ValidResources(c.resources)
      THEN Finish(wired)
      ELSE Refused

-----------------------------------------------------------------------------
(* Selection and plan *)

CheckSelector(c, name) == name \in DOMAIN c.procs /\ c.procs[name].mode # "teardown"

\* What is selected once name is included: nothing more for a name that is
\* selected, unknown or a teardown process.
include(procs) ==
  LET Startable == {n \in DOMAIN procs : procs[n].mode # "teardown"}
      with[selected \in SUBSET Startable, name \in Startable] ==
        LET more(s, dep) == IF dep \in Startable \ s THEN with[s, dep] ELSE s
        IN  FoldLeft(more, selected \cup {name}, SortedProcessNames(procs[name].deps))
  IN  [selected \in SUBSET Startable, name \in {NameOrder[i] : i \in DOMAIN NameOrder} |->
         IF name \in Startable \ selected THEN with[selected, name] ELSE selected]

\* A selection that stops at the direct dependencies.
DirectOnly(c, names) ==
  LET from == IF names = {} THEN DOMAIN c.procs ELSE names
  IN  from \cup UNION {c.procs[n].deps : n \in from}

SelectedNames(c, names) ==
  LET more(s, n) == include(c.procs)[s, n]
      selected == FoldLeft(more, {}, SortedProcessNames(IF names = {} THEN DOMAIN c.procs ELSE names))
  IN  {name \in DOMAIN c.procs : name \in selected}

TeardownNames(c) == {n \in DOMAIN c.procs : c.procs[n].mode = "teardown"}

depth(c, names) ==
  LET level[n \in names] ==
        LET below == {level[dep] + 1 : dep \in c.procs[n].deps}
        IN  IF below = {} THEN 0 ELSE CHOOSE l \in below : \A k \in below : k <= l
  IN  level

Plan(c, names) ==
  IF \A n \in names : CheckSelector(c, n) THEN depth(c, SelectedNames(c, names)) ELSE <<>>

referenceResolvable(c, ref, selected) ==
  ref \in selected /\ c.procs[ref].http # Undeclared

Unresolved(c, selected) ==
  \E n \in selected \cup TeardownNames(c) :
    \E ref \in c.procs[n].refs : ~referenceResolvable(c, ref, selected)

-----------------------------------------------------------------------------
(* One configuration, loaded and planned.                                  *)

ConfigInit(files, filters) ==
  /\ file \in files
  /\ filter \in filters
  /\ loaded = Refused
  /\ levels = <<>>

Explain ==
  /\ loaded = Refused
  /\ loaded' = Load(file)
  /\ levels' = IF Load(file).ok THEN Plan(Load(file), filter) ELSE <<>>
  /\ UNCHANGED <<file, filter>>

ConfigSpec(files, filters) == ConfigInit(files, filters) /\ [][Explain]_configVars

-----------------------------------------------------------------------------
(* The shape of a file *)

ProcessRecord ==
  [mode : STRING, restart : STRING, health : STRING, probe : Int, deps : SUBSET STRING,
   env : [is : STRING, n : Int, of : STRING], file : [is : STRING, n : Int, of : STRING],
   http : Int, refs : SUBSET STRING]

MergeRecord ==
  [on : BOOLEAN, client : Int, server : Int, port : Int, routes : SUBSET Int,
   client_process : STRING]

LabelRecord == [text : STRING, trimmed : STRING]

IsFile(f) ==
  f \in [merge : MergeRecord, resources : Seq(LabelRecord),
         procs : [DOMAIN f.procs -> ProcessRecord]]

-----------------------------------------------------------------------------
(* Properties *)

DependsOn(procs) ==
  TransitiveClosure([e \in (DOMAIN procs) \X (DOMAIN procs) |-> e[2] \in procs[e[1]].deps],
                    DOMAIN procs)

\* Nothing is wrong with the file, and it has no cycle.
Faultless(c) ==
  /\ DOMAIN c.procs # {}
  /\ \A n \in DOMAIN c.procs : ValidProcess(c.procs[n]) /\ ~DependsOn(c.procs)[n, n]
  /\ ValidDependencies(c.procs) /\ ValidResources(c.resources)

\* A configuration that loads has no dependency cycle, and a file
\* without a cycle and without another fault is not refused.  The plan of a filter is
\* the least set of processes that holds the named ones and the dependencies
\* of its members, every process starts on a level above all it depends on,
\* and no level is empty (detectCycles, SelectedNames, Plan).
SelectionExact ==
  /\ loaded.ok =>
       LET above == DependsOn(loaded.procs)
           named == IF filter = {} THEN {n \in DOMAIN loaded.procs : CheckSelector(loaded, n)}
                                   ELSE filter
           plan == DOMAIN levels
       IN  /\ \A n \in DOMAIN loaded.procs : ~above[n, n]
           /\ (\A n \in filter : CheckSelector(loaded, n)) =>
                /\ plan = named \cup {n \in DOMAIN loaded.procs : \E m \in named : above[m, n]}
                /\ \A n, m \in plan : above[n, m] => levels[m] < levels[n]
                /\ \A n \in plan : levels[n] > 0 => \E m \in plan : levels[m] = levels[n] - 1
  /\ ~file.merge.on /\ Faultless(file) => Load(file).ok

\* The session pins the ports of the upstreams that it recomputes from the
\* loaded configuration (MergeUpstreamPorts).  They are the upstreams Load
\* wired: the proxy waits for exactly these processes, each is a service with
\* a readiness probe, is started on the port that the proxy sends its traffic
\* to, and a named port it is started from prefers that very port.  A port the
\* proxy sends traffic to is never left unguarded: the session holds it, or
\* the preflight of `up` looks at it (mergePreflightPorts).
UpstreamsAgree ==
  loaded.ok /\ loaded.merge.on =>
    LET procs == loaded.procs
        served == servedPorts(procs)
        up == resolveUpstreamProcesses(serviceUpstreams(procs), served, loaded.merge)
    IN  /\ procs[MergePortProcessName].deps = DOMAIN up
        /\ \A n \in DOMAIN up :
             /\ EffectiveMode(procs[n]) = "service" /\ procs[n].probe # 0
             /\ n \in DOMAIN served => served[n].port = up[n]
             /\ n \in DOMAIN served => \A q \in served[n].named :
                  q \in MergeUpstreamPorts(loaded) /\ procs[q].http = up[n]
             /\ n \in DOMAIN served /\ served[n].named = {} =>
                  up[n] \in mergePreflightPorts(loaded)
=============================================================================
