------------------------------ MODULE Session -------------------------------
(***************************************************************************)
(* Sessions: supervisors (up, verify, compare) that take the leases of a   *)
(* session, its resources and its ports one after the other, hold the      *)
(* ports bound until a process that uses them is about to start, and let   *)
(* go of everything when an acquisition fails, the plan closes or the      *)
(* supervisor dies.  Programs outside proc-compose bind ports as they      *)
(* like, and an inspection takes a free instance lease for a moment.       *)
(* Source: internal/session/session.go.                                    *)
(*                                                                         *)
(* A lease is a locked file: it belongs to one open file, also within one  *)
(* supervisor.  The ports of a process are abstracted to its http port.    *)
(***************************************************************************)
EXTENDS Config

CONSTANTS
  Supervisor,   \* the supervisor processes
  SessionName,  \* the sessions they may run
  Resource,     \* the resources that can be leased
  Identity,     \* the resource each label names
  MaxTries,     \* 128 candidates of allocate
  MaxOutside,   \* ports that outside programs may take
  Reloads       \* configurations a reload may find

ASSUME SessionAssumption ==
  /\ {MaxTries, MaxOutside} \subseteq Nat
  /\ {"nobody", "inspector"} \cap Supervisor = {}
  /\ \A label \in DOMAIN Identity : Identity[label] \in Resource

VARIABLES
  conf,      \* the loaded configuration of each supervisor
  session,   \* the session it runs
  plan,      \* its Plan
  lease,     \* who holds each lease
  bound,     \* who listens on each port
  outside    \* ports that outside programs took so far

sessionVars == <<conf, session, plan, lease, bound, outside>>

Nobody == "nobody"
Inspector == "inspector"
Free == <<"free", Nobody>>
Listener(p) == <<"listener", p>>
Process(p) == <<"process", p>>
Outsider == <<"outsider", Nobody>>

InstanceLease(s) == <<"instance", s>>
ResourceLease(r) == <<"resource", r>>
PortLease(n) == <<"tcp", n>>
Label == {InstanceLease(s) : s \in SessionName} \cup {ResourceLease(r) : r \in Resource}
           \cup {PortLease(n) : n \in PortNumber}

EmptyPlan ==
  [at |-> "idle", todo |-> {}, step |-> "start", tries |-> 0, port |-> 0, names |-> {},
   ports |-> <<>>, mergePort |-> 0, leases |-> {}, held |-> {}, uses |-> <<>>,
   base |-> Refused, launched |-> {}, why |-> "none"]

-----------------------------------------------------------------------------
(* Acquire *)

\* The names of the plan: the selection, and every teardown process.
Names(c, names) == SelectedNames(c, names) \cup TeardownNames(c)

Identities(c) == {Identity[label] : label \in c.resources}

\* What Acquire takes behind the instance: the resources, each once, the merge
\* port, the pinned ports, and the ports that may move.
Wanted(c, names) ==
  LET port(do, n, number) == [do |-> do, label |-> PortLease(number), process |-> n, port |-> number]
      declared == {n \in names : c.procs[n].http # Undeclared}
      pinned == declared \cap MergeUpstreamPorts(c)
  IN  {[do |-> "lease", label |-> ResourceLease(r), process |-> NoName, port |-> 0] :
         r \in Identities(c)}
        \cup (IF c.merge.on /\ MergePortProcessName \in names
              THEN {port("proxy", MergePortProcessName, c.merge.port)} ELSE {})
        \cup {port("hold", n, c.procs[n].http) : n \in pinned}
        \cup {port("allocate", n, c.procs[n].http) : n \in declared \ pinned}

\* They are taken in this order, the ports of one kind by process name.
Phase == [lease |-> 0, proxy |-> 1, hold |-> 2, allocate |-> 3]

Rank(item) ==
  Phase[item.do] * (Len(NameOrder) + 1)
    + (IF \E i \in DOMAIN NameOrder : NameOrder[i] = item.process
       THEN CHOOSE i \in DOMAIN NameOrder : NameOrder[i] = item.process ELSE 0)

First(items) == CHOOSE item \in items : \A other \in items : Rank(item) <= Rank(other)

Acquire(p, names) ==
  /\ plan[p].at = "idle"
  /\ plan' = [plan EXCEPT ![p] =
       IF \A n \in names : CheckSelector(conf[p], n)
       THEN [EmptyPlan EXCEPT !.at = "instance", !.base = conf[p],
                              !.names = Names(conf[p], names),
                              !.todo = Wanted(conf[p], Names(conf[p], names))]
       ELSE [EmptyPlan EXCEPT !.at = "over", !.why = "usage_error"]]
  /\ UNCHANGED <<conf, session, lease, bound, outside>>

Item(p) == First(plan[p].todo)

Acquiring(p, kinds, step) ==
  /\ plan[p].at = "acquiring"
  /\ plan[p].todo # {}
  /\ Item(p).do \in kinds
  /\ plan[p].step = step

\* An error anywhere in Acquire closes what was taken so far.
Fails(p, why) == plan' = [plan EXCEPT ![p].at = "closing", ![p].why = why]

\* The instance comes first; who finds it taken has nothing to give back.
TakeInstance(p) ==
  LET label == InstanceLease(session[p])
  IN  /\ plan[p].at = "instance"
      /\ IF lease[label] = Nobody
         THEN /\ lease' = [lease EXCEPT ![label] = p]
              /\ plan' = [plan EXCEPT ![p].at = "acquiring", ![p].leases = {label}]
         ELSE Fails(p, "session_occupied") /\ UNCHANGED lease
      /\ UNCHANGED <<conf, session, bound, outside>>

TakeLease(p) ==
  /\ Acquiring(p, {"lease"}, "start")
  /\ IF lease[Item(p).label] = Nobody
     THEN /\ lease' = [lease EXCEPT ![Item(p).label] = p]
          /\ plan' = [plan EXCEPT ![p].todo = @ \ {Item(p)}, ![p].leases = @ \cup {Item(p).label}]
     ELSE Fails(p, "resource_unavailable") /\ UNCHANGED lease
  /\ UNCHANGED <<conf, session, bound, outside>>

\* The port of the item is leased and bound: it is assigned.
Assigned(q, number) ==
  LET item == First(q.todo)
      ports == [n \in DOMAIN q.ports \cup {item.process} |->
                  IF n = item.process THEN number ELSE q.ports[n]]
  IN  [q EXCEPT !.todo = @ \ {item}, !.step = "start", !.tries = 0, !.held = @ \cup {number},
                !.mergePort = IF item.do = "proxy" THEN number ELSE @,
                !.ports = IF item.do = "proxy" THEN @ ELSE ports]

\* hold: at the exact number, the lease first.
Hold(p) ==
  /\ Acquiring(p, {"proxy", "hold"}, "start")
  /\ IF Item(p).port \notin plan[p].held /\ lease[Item(p).label] = Nobody
     THEN /\ lease' = [lease EXCEPT ![Item(p).label] = p]
          /\ plan' = [plan EXCEPT ![p].step = "leased", ![p].leases = @ \cup {Item(p).label}]
     ELSE /\ Fails(p, IF Item(p).port \in plan[p].held
                      THEN "invalid_configuration" ELSE "resource_unavailable")
          /\ UNCHANGED lease
  /\ UNCHANGED <<conf, session, bound, outside>>

HoldBind(p) ==
  /\ Acquiring(p, {"proxy", "hold"}, "leased")
  /\ IF bound[Item(p).port] = Free
     THEN /\ bound' = [bound EXCEPT ![Item(p).port] = Listener(p)]
          /\ plan' = [plan EXCEPT ![p] = Assigned(@, Item(p).port)]
     ELSE Fails(p, "resource_unavailable") /\ UNCHANGED bound
  /\ UNCHANGED <<conf, session, lease, outside>>

\* allocate: the first candidate from the preferred port on that can be
\* bound, and then leased; 0 leaves the choice to the system.
Candidates(p) ==
  IF plan[p].tries >= MaxTries THEN {}
  ELSE IF Item(p).port = 0 THEN {n \in PortNumber : bound[n] = Free}
  ELSE {Item(p).port + plan[p].tries} \cap PortNumber

Allocate(p) ==
  /\ Acquiring(p, {"allocate"}, "start")
  /\ \/ /\ Candidates(p) = {}
        /\ Fails(p, "invalid_configuration")
        /\ UNCHANGED bound
     \/ \E n \in Candidates(p) :
          IF bound[n] = Free
          THEN /\ bound' = [bound EXCEPT ![n] = Listener(p)]
               /\ plan' = [plan EXCEPT ![p].step = "bound", ![p].port = n]
          ELSE /\ plan' = [plan EXCEPT ![p].tries = @ + 1]
               /\ UNCHANGED bound
  /\ UNCHANGED <<conf, session, lease, outside>>

\* The bound port is taken for its own.
BoundIsOwn(number) == TRUE

\* A port that another session leases is given back, and the next one tried.
LeaseFree(number) == lease[PortLease(number)] = Nobody

AllocateLease(p) ==
  LET number == plan[p].port
      assigned == Assigned(plan[p], number)
  IN  /\ Acquiring(p, {"allocate"}, "bound")
      /\ IF LeaseFree(number)
         THEN /\ lease' = [lease EXCEPT ![PortLease(number)] = p]
              /\ plan' = [plan EXCEPT ![p] =
                   [assigned EXCEPT !.leases = assigned.leases \cup {PortLease(number)}]]
              /\ UNCHANGED bound
         ELSE /\ bound' = [bound EXCEPT ![number] = Free]
              /\ plan' = [plan EXCEPT ![p].step = "start", ![p].tries = @ + 1]
              /\ UNCHANGED lease
      /\ UNCHANGED <<conf, session, outside>>

\* The ports a process declares or references, and the proxy's own.
Used(q, c, n) ==
  {q.ports[m] : m \in ({n} \cup c.procs[n].refs) \cap DOMAIN q.ports}
    \cup (IF n = MergePortProcessName /\ q.mergePort # 0 THEN {q.mergePort} ELSE {})

\* A configuration changes no lease: same resources, same merge port, same
\* named ports of the processes of the plan.
SameLeases(q, c) ==
  /\ c.resources = q.base.resources
  /\ q.mergePort # 0 /\ c.merge.on => c.merge.port = q.mergePort
  /\ \A n \in q.names \cap DOMAIN c.procs : c.procs[n].http = q.base.procs[n].http

References(q, c) ==
  \A n \in q.names \cap DOMAIN c.procs : c.procs[n].refs \subseteq DOMAIN q.ports

\* Uses only grow.
Grown(q, c) ==
  [n \in q.names |-> (IF n \in DOMAIN q.uses THEN q.uses[n] ELSE {})
                       \cup (IF n \in DOMAIN c.procs THEN Used(q, c, n) ELSE {})]

Resolve(p) ==
  /\ plan[p].at = "acquiring" /\ plan[p].todo = {}
  /\ IF SameLeases(plan[p], conf[p]) /\ References(plan[p], conf[p])
     THEN plan' = [plan EXCEPT ![p].at = "held", ![p].uses = Grown(plan[p], conf[p])]
     ELSE Fails(p, "invalid_configuration")
  /\ UNCHANGED <<conf, session, lease, bound, outside>>

\* A reload may not change the mode or the dependencies of a process.
SameStack(old, new) ==
  \A n \in DOMAIN old.procs \cap DOMAIN new.procs :
    /\ EffectiveMode(old.procs[n]) = EffectiveMode(new.procs[n])
    /\ old.procs[n].deps = new.procs[n].deps

\* A reload resolves the new configuration against the same plan; the runner
\* may refuse it afterwards.
ResolveReload(p) ==
  /\ plan[p].at = "held"
  /\ \E c \in Reloads :
       /\ c # conf[p] /\ c.ok /\ SameLeases(plan[p], c) /\ References(plan[p], c)
       /\ conf' = [conf EXCEPT ![p] = IF SameStack(@, c) THEN c ELSE @]
       /\ plan' = [plan EXCEPT ![p].uses = Grown(plan[p], c)]
  /\ UNCHANGED <<session, lease, bound, outside>>

-----------------------------------------------------------------------------
(* The plan in use *)

\* The runner is about to start a process: the ports it uses are let go.
ReleasePorts(p, n) ==
  /\ plan[p].at = "held" /\ n \in plan[p].names \ plan[p].launched
  /\ LET freed == plan[p].uses[n] \cap plan[p].held
     IN  /\ bound' = [x \in PortNumber |-> IF x \in freed THEN Free ELSE bound[x]]
         /\ plan' = [plan EXCEPT ![p].held = @ \ freed, ![p].launched = @ \cup {n}]
  /\ UNCHANGED <<conf, session, lease, outside>>

\* The started process listens on its port, when it is still free.
Listens(p, n) ==
  /\ plan[p].at = "held" /\ n \in plan[p].launched \cap DOMAIN plan[p].ports
  /\ bound[plan[p].ports[n]] = Free
  /\ bound' = [bound EXCEPT ![plan[p].ports[n]] = Process(p)]
  /\ UNCHANGED <<conf, session, plan, lease, outside>>

\* The stack is over, its processes are gone, and the plan is closed.
StackEnds(p) ==
  /\ plan[p].at = "held"
  /\ bound' = [x \in PortNumber |-> IF bound[x] = Process(p) THEN Free ELSE bound[x]]
  /\ plan' = [plan EXCEPT ![p].at = "closing"]
  /\ UNCHANGED <<conf, session, lease, outside>>

\* Close: the listeners, then the leases.
Close(p) ==
  /\ plan[p].at = "closing"
  /\ bound' = [x \in PortNumber |-> IF x \in plan[p].held THEN Free ELSE bound[x]]
  /\ plan' = [plan EXCEPT ![p].at = "unbound", ![p].held = {}]
  /\ UNCHANGED <<conf, session, lease, outside>>

CloseLeases(p) ==
  /\ plan[p].at = "unbound"
  /\ lease' = [x \in Label |-> IF x \in plan[p].leases THEN Nobody ELSE lease[x]]
  /\ plan' = [plan EXCEPT ![p].at = "over", ![p].leases = {}]
  /\ UNCHANGED <<conf, session, bound, outside>>

\* The system closes the files and sockets of a supervisor that is gone.
SystemCloses(p) ==
  /\ bound' = [x \in PortNumber |-> IF bound[x] = Listener(p) THEN Free ELSE bound[x]]
  /\ lease' = [x \in Label |-> IF lease[x] = p THEN Nobody ELSE lease[x]]
  /\ plan' = [plan EXCEPT ![p] = [EmptyPlan EXCEPT !.at = "gone"]]

Crash(p) ==
  /\ plan[p].at \notin {"idle", "over", "gone"}
  /\ SystemCloses(p)
  /\ UNCHANGED <<conf, session, outside>>

-----------------------------------------------------------------------------
(* Others *)

\* InstanceHeld takes a lease that is free, and gives it back.
InstanceHeld(s) ==
  /\ lease[InstanceLease(s)] = Nobody
  /\ lease' = [lease EXCEPT ![InstanceLease(s)] = Inspector]
  /\ UNCHANGED <<conf, session, plan, bound, outside>>

InspectionEnds(s) ==
  /\ lease[InstanceLease(s)] = Inspector
  /\ lease' = [lease EXCEPT ![InstanceLease(s)] = Nobody]
  /\ UNCHANGED <<conf, session, plan, bound, outside>>

OutsideBinds(n) ==
  /\ outside < MaxOutside /\ bound[n] = Free
  /\ bound' = [bound EXCEPT ![n] = Outsider]
  /\ outside' = outside + 1
  /\ UNCHANGED <<conf, session, plan, lease>>

OutsideFrees(n) ==
  /\ bound[n] = Outsider
  /\ bound' = [bound EXCEPT ![n] = Free]
  /\ UNCHANGED <<conf, session, plan, lease, outside>>

SessionInit(confs, sessions) ==
  /\ conf \in confs
  /\ session \in sessions
  /\ plan = [p \in Supervisor |-> EmptyPlan]
  /\ lease = [x \in Label |-> Nobody]
  /\ bound = [n \in PortNumber |-> Free]
  /\ outside = 0

AcquireStep(p) ==
  \/ TakeInstance(p) \/ TakeLease(p) \/ Hold(p) \/ HoldBind(p) \/ Allocate(p) \/ AllocateLease(p)
  \/ Resolve(p) \/ Close(p) \/ CloseLeases(p)

PortsNext ==
  \/ \E p \in Supervisor :
       \/ conf[p].ok /\ Acquire(p, {})
       \/ ResolveReload(p) \/ StackEnds(p) \/ Crash(p)
       \/ \E n \in plan[p].names : ReleasePorts(p, n) \/ Listens(p, n)
  \/ \E s \in SessionName : InstanceHeld(s) \/ InspectionEnds(s)
  \/ \E n \in PortNumber : OutsideBinds(n) \/ OutsideFrees(n)

PortsSpec(confs, sessions) ==
  /\ SessionInit(confs, sessions)
  /\ [][PortsNext \/ \E p \in Supervisor : AcquireStep(p)]_sessionVars

-----------------------------------------------------------------------------
(* Properties *)

Ports(q) == {q.ports[n] : n \in DOMAIN q.ports} \cup ({q.mergePort} \ {0})

\* A plan that was granted owns its instance, its resources and its ports.
\* Every named port of the configuration in force has a number of its own, an
\* upstream of the merge it was granted for its preferred one, every reference
\* was one the static plan calls resolvable, and no program but a listener of
\* the plan is on a port before a process that uses it was about to start.  A
\* plan that was refused after its instance, closed or lost with its supervisor
\* owns nothing; one that was refused the instance may have been refused by an
\* earlier plan of the same process, which still owns it.
NoTrespass ==
  \A p \in Supervisor :
    LET q == plan[p]
    IN  /\ q.at = "held" =>
             /\ lease[InstanceLease(session[p])] = p
             /\ \A r \in Identities(conf[p]) : lease[ResourceLease(r)] = p
             /\ \A x \in Ports(q) : lease[PortLease(x)] = p
             /\ IsInjective(q.ports) /\ q.mergePort \notin {q.ports[n] : n \in DOMAIN q.ports}
             /\ \A n \in q.names \cap DOMAIN conf[p].procs :
                  conf[p].procs[n].http # Undeclared =>
                    /\ n \in DOMAIN q.ports
                    /\ n \in MergeUpstreamPorts(q.base) => q.ports[n] = conf[p].procs[n].http
             /\ \A x \in Ports(q) :
                  (\A n \in q.launched : x \notin q.uses[n]) => bound[x] = Listener(p)
             /\ ~Unresolved(q.base, q.names \ TeardownNames(q.base))
        /\ q.at = "gone" \/ (q.at = "over" /\ q.why # "session_occupied") =>
             /\ \A x \in Label : lease[x] # p
             /\ \A x \in PortNumber : bound[x] # Listener(p)

\* "A named port an upstream is started on is assigned exactly its preferred
\* port, which is the merge port: the session never moves it"
\* (docs/configuration.md).  The upstreams are those the proxy in force waits
\* for.
UpstreamsPinned ==
  \A p \in Supervisor :
    plan[p].at = "held" /\ conf[p].merge.on =>
      LET procs == conf[p].procs
          served == servedPorts(procs)
      IN  \A n \in procs[MergePortProcessName].deps \cap DOMAIN served :
            \A m \in served[n].named \cap plan[p].names : plan[p].ports[m] = procs[m].http
=============================================================================
