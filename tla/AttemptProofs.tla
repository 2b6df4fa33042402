---------------------------- MODULE AttemptProofs ----------------------------
(***************************************************************************)
(* Proofs about Attempt and the leases of Session, for every number of     *)
(* supervisors, attempts and launches, and whatever the configurations     *)
(* say: no two runners work on one session, a verdict of passed was        *)
(* earned, and the receipts tell the truth.  And about Compare, for any    *)
(* runs of the check, any number of repetitions and any size at which an   *)
(* output is cut: the verdict of a comparison is true of what the checks   *)
(* did, not only of what was kept of their output.                         *)
(***************************************************************************)
EXTENDS Attempt, Compare, TLAPS

-----------------------------------------------------------------------------
(* The inductive invariant                                                 *)

Start == {"idle", "acquiring", "acquired"}
Trying == {"recorded", "waiting", "polling", "ready", "checking", "cleanup",
           "awaiting", "ending"}
Concluded == {"prune", "release", "leaving", "answered"}

\* The places of an attempt that works under the granted plan.
Working == {"acquired", "prune", "release"} \cup Trying

\* The attempts and their stacks are records.
RecordsOK ==
  /\ DOMAIN att = Supervisor /\ DOMAIN stack = Supervisor
  /\ \A p \in Supervisor : DOMAIN att[p] = DOMAIN Idle /\ DOMAIN stack[p] = DOMAIN NoStack

\* The instance lease of the session.
Instance(p) == InstanceLease(session[p])

\* A plan knows the leases it holds, and has the instance from the first lease
\* on until it lets go.
LeaseOf(p) ==
  /\ DOMAIN plan[p] = DOMAIN EmptyPlan
  /\ \A x \in plan[p].leases \cap Label : lease[x] = p
  /\ plan[p].at \in {"acquiring", "held"} => Instance(p) \in plan[p].leases

LeaseInv ==
  /\ session \in {[p \in Supervisor |-> s] : s \in SessionName}
  /\ lease \in [Label -> Supervisor \cup {Nobody, Inspector}]
  /\ DOMAIN plan = Supervisor
  /\ \A p \in Supervisor : LeaseOf(p)

\* An attempt works only under a granted plan.
StageOf(p) ==
  /\ Gone(p) => att[p].pc = "idle"
  /\ att[p].pc = "idle" => plan[p].at \in {"idle", "gone"}
  /\ att[p].pc \in Working => plan[p].at = "held"

\* A runner that may still signal has the instance, also when the attempt that
\* started it is over and the next one is refused; a plan that holds the
\* instance is closed only when the runner is done.
RunnerOf(p) ==
  /\ stack[p].done => stack[p].run = "returned"
  /\ Live(p) => lease[Instance(p)] = p
  /\ Live(p) /\ Instance(p) \in plan[p].leases =>
       /\ att[p].pc \notin {"idle", "acquiring", "acquired", "recorded", "leaving"}
       /\ plan[p].at = "held"
  /\ att[p].pc \in {"ending", "prune", "release"} /\ att[p].authority = "withdrawn" => ~Live(p)

\* The check: a change of the service shows in its state or its generation
\* until the monitor has seen it, and an attempt without an error so far has
\* earned what it will be given.
CheckIs(a, s) ==
  /\ {a.baseline, s.gen} \subseteq Nat
  /\ a.pc # "checking" => ~a.disturbed
  /\ a.pc \in Start \cup {"recorded", "waiting", "polling", "ready"} => a.check = "not_run"
  /\ a.pc = "checking" => a.check \in {"not_run", "refused", "canceled", "running", "zero",
                                       "nonzero", "handed_off"}
  /\ a.pc \in {"ready", "checking"} => a.startup = "passed"
  /\ a.pc = "checking" /\ a.check = "canceled" => a.ctx = "cancelled"
  /\ a.pc = "checking" /\ s.run = "running" => s.gen >= a.baseline
  /\ a.pc = "checking" /\ a.disturbed =>
       a.lost \/ s.state # "running" \/ s.gen # a.baseline
  /\ a.pc \in {"waiting", "polling", "ready", "checking"} =>
       s.run \in {"running", "returned"}
  /\ a.pc = "cleanup" /\ ~a.erred => a.clean /\ s.run \in {"running", "returned"}
  /\ a.pc = "awaiting" => s.run \in {"stopping", "returned"} /\ (~a.erred => a.clean)
  /\ a.pc = "ending" /\ ~a.erred => a.clean /\ s.run = "returned" /\ ~s.problem

CheckOf(p) == CheckIs(att[p], stack[p])

\* The attempt whose id is in att[p] is p's, and its verdict is open or given.
VerdictOf(p) ==
  LET a == att[p]
  IN  /\ a.pc \in Start => a.status = "not_run" /\ a.exit = 0
      /\ a.pc \in Trying =>
           a.id \in DOMAIN begun /\ begun[a.id].by = p /\ ~begun[a.id].terminal
      /\ a.pc \in Concluded /\ a.status = "passed" =>
           /\ a.persisted /\ a.id \in DOMAIN begun
           /\ begun[a.id].by = p /\ begun[a.id].terminal /\ begun[a.id].earned
      /\ a.pc \in {"prune", "release"} /\ a.persisted =>
           /\ a.id \in DOMAIN begun /\ begun[a.id].by = p /\ begun[a.id].terminal
           /\ a.id \in DOMAIN receipts /\ receipts[a.id] = Receipt(p, a, "completed")

\* Every receipt is of an attempt that was begun and can be read back; an
\* attempt without a verdict has an active one.
ReceiptInv ==
  /\ \A id \in DOMAIN receipts :
       /\ id \in DOMAIN begun /\ recordedVerdict(receipts[id])
       /\ receipts[id].owner \in Supervisor
       /\ receipts[id].status = "passed" => begun[id].earned
  /\ \A id \in DOMAIN begun : DOMAIN begun[id] = {"by", "earned", "terminal"}
  /\ \A id \in DOMAIN begun : ~begun[id].terminal =>
       id \in DOMAIN receipts /\ receipts[id].state = "active"

\* The attempts command has seen the owner gone before it asks for the lease.
LookInv ==
  /\ DOMAIN look = {"pc", "id", "owner"}
  /\ look.pc \in {"owner", "lease", "abandoned"} => look.owner \in Supervisor
  /\ look.pc \in {"lease", "abandoned"} => Gone(look.owner)

SupervisorInv == \A p \in Supervisor : StageOf(p) /\ RunnerOf(p) /\ CheckOf(p) /\ VerdictOf(p)

IndInv == RecordsOK /\ LeaseInv /\ SupervisorInv /\ ReceiptInv /\ LookInv

-----------------------------------------------------------------------------
(* Steps *)

\* The steps by what they change: the attempt alone, the stack, the plan, the
\* receipts, and the attempts command.
AttemptOnly(p) ==
  \/ AcquireFailed(p) \/ WaitReady(p) \/ Polling(p) \/ Baseline(p)
  \/ RunCheck(p) \/ CheckEnds(p) \/ CheckTimeout(p) \/ MonitorRequired(p)
  \/ FinishCheck(p) \/ CleanupReturned(p) \/ CleanupDeadline(p) \/ Leave(p)
  \/ Interrupt(p)
StackStep(p) ==
  \/ Cleanup(p) \/ BecomesReady(p) \/ ServiceExits(p) \/ HealthChanges(p)
  \/ ServiceRestarts(p) \/ RunReturns(p)
PlanStep(p) ==
  \/ Run(p) \/ ResolveCrashedRun(p) \/ StartRunner(p) \/ Release(p)
  \/ Again(p) \/ Exit(p) \/ Killed(p)
ReceiptStep(p) ==
  \/ WriteActive(p) \/ Conclude(p) \/ Prune(p)
LookStep ==
  \/ LoadAttempt \/ OwnerAlive \/ LeaseHeld \/ LookEnds

\* A step of p leaves the attempt, the stack and the plan of the others alone.
Others(p) == \A q \in Supervisor \ {p} :
  att'[q] = att[q] /\ stack'[q] = stack[q] /\ plan'[q] = plan[q]

\* The next-state relation by kinds of steps.
LEMMA Kinds ==
  ASSUME VerifyNext
  PROVE  \/ \E p \in Supervisor :
              \/ AcquireStep(p) /\ UNCHANGED attemptVars
              \/ AttemptOnly(p) \/ StackStep(p) \/ PlanStep(p) \/ ReceiptStep(p)
         \/ LookStep
  BY DEF VerifyNext, AttemptNext, AttemptOnly, StackStep, PlanStep, ReceiptStep, LookStep

-----------------------------------------------------------------------------
(* Records *)

\* An attempt that is refused: answered with a failure, and nothing to clean up.
LEMMA RefusedStep ==
  ASSUME RecordsOK, NEW p \in Supervisor, RefusedWith(p)
  PROVE  /\ DOMAIN att' = Supervisor /\ DOMAIN att'[p] = DOMAIN Idle
         /\ \A q \in Supervisor \ {p} : att'[q] = att[q]
         /\ att'[p].pc = "answered" /\ att'[p].status = "failed"
         /\ ~att'[p].disturbed /\ att'[p].baseline = 0
  BY DEF RecordsOK, RefusedWith, Answer, Idle

\* The attempt alone changes.
LEMMA AttemptFrame ==
  ASSUME RecordsOK, NEW p \in Supervisor, AttemptOnly(p)
  PROVE  /\ RecordsOK' /\ Others(p)
         /\ UNCHANGED <<sessionVars, stack, receipts, begun, look>>
<1> USE DEF RecordsOK, Idle, NoStack, Others
<1>1. CASE AcquireFailed(p)
  BY <1>1 DEF AcquireFailed, At, RefusedWith, Answer, sessionVars
<1>2. CASE WaitReady(p)
  BY <1>2 DEF WaitReady, At, StartupIs, sessionVars
<1>3. CASE Polling(p)
  BY <1>3 DEF Polling, At, StartupIs, sessionVars
<1>4. CASE Baseline(p)
  BY <1>4 DEF Baseline, At, sessionVars
<1>5. CASE RunCheck(p)
  BY <1>5 DEF RunCheck, At, sessionVars
<1>6. CASE CheckEnds(p)
  BY <1>6 DEF CheckEnds, At, sessionVars
<1>7. CASE CheckTimeout(p)
  BY <1>7 DEF CheckTimeout, At, sessionVars
<1>8. CASE MonitorRequired(p)
  BY <1>8 DEF MonitorRequired, At, sessionVars
<1>9. CASE FinishCheck(p)
  BY <1>9 DEF FinishCheck, At, Environment, CheckRecord, sessionVars
<1>10. CASE CleanupReturned(p)
  BY <1>10 DEF CleanupReturned, At, CleanupIs, recordTeardown, sessionVars
<1>11. CASE CleanupDeadline(p)
  BY <1>11 DEF CleanupDeadline, At, CleanupIs, recordTeardown, sessionVars
<1>12. CASE Leave(p)
  BY <1>12 DEF Leave, At, sessionVars
<1>13. CASE Interrupt(p)
  BY <1>13 DEF Interrupt, sessionVars
<1> QED  BY <1>1, <1>2, <1>3, <1>4, <1>5, <1>6, <1>7, <1>8, <1>9, <1>10, <1>11,
  <1>12, <1>13 DEF AttemptOnly

\* The stack changes, or what the attempt knows of it.
LEMMA StackFrame ==
  ASSUME RecordsOK, NEW p \in Supervisor, StackStep(p)
  PROVE  /\ RecordsOK' /\ Others(p)
         /\ UNCHANGED <<sessionVars, receipts, begun, look>>
<1> USE DEF RecordsOK, Idle, NoStack, Others
<1>1. CASE Cleanup(p)
  BY <1>1 DEF Cleanup, At, sessionVars
<1>2. CASE BecomesReady(p)
  BY <1>2 DEF BecomesReady, sessionVars
<1>3. CASE ServiceExits(p)
  BY <1>3 DEF ServiceExits, Disturbed, sessionVars
<1>4. CASE HealthChanges(p)
  BY <1>4 DEF HealthChanges, At, sessionVars
<1>5. CASE ServiceRestarts(p)
  BY <1>5 DEF ServiceRestarts, sessionVars
<1>6. CASE RunReturns(p)
  BY <1>6 DEF RunReturns, sessionVars
<1> QED  BY <1>1, <1>2, <1>3, <1>4, <1>5, <1>6 DEF StackStep

\* The plan, and what goes with it.
LEMMA PlanFrame ==
  ASSUME RecordsOK, DOMAIN plan = Supervisor, NEW p \in Supervisor, PlanStep(p)
  PROVE  /\ RecordsOK' /\ Others(p)
         /\ UNCHANGED <<session, receipts, begun, look>>
<1> USE DEF RecordsOK, Idle, NoStack, Others
<1>1. CASE Run(p)
  <2>1. CASE conf[p].ok /\ HasService(conf[p])
    <3>1. /\ att' = [att EXCEPT ![p].pc = "acquiring"]
          /\ \E q : plan' = [plan EXCEPT ![p] = q]
          /\ UNCHANGED <<session, stack, receipts, begun, look>>
      BY <1>1, <2>1 DEF Run, Acquire
    <3> QED  BY <3>1
  <2>2. CASE ~(conf[p].ok /\ HasService(conf[p]))
    <3>1. RefusedWith(p) /\ UNCHANGED <<plan, session, stack, receipts, begun, look>>
      BY <1>1, <2>2 DEF Run, sessionVars
    <3> QED  BY <3>1, RefusedStep
  <2> QED  BY <2>1, <2>2
<1>2. CASE ResolveCrashedRun(p)
  BY <1>2 DEF ResolveCrashedRun, At, Fails
<1>3. CASE StartRunner(p)
  BY <1>3 DEF StartRunner, At
<1>4. CASE Release(p)
  BY <1>4 DEF Release, At
<1>5. CASE Again(p)
  BY <1>5 DEF Again, At
<1>6. CASE Exit(p)
  BY <1>6 DEF Exit, At, SystemCloses
<1>7. CASE Killed(p)
  BY <1>7 DEF Killed, SystemCloses
<1> QED  BY <1>1, <1>2, <1>3, <1>4, <1>5, <1>6, <1>7 DEF PlanStep

\* The receipts.
LEMMA ReceiptFrame ==
  ASSUME RecordsOK, DOMAIN plan = Supervisor, NEW p \in Supervisor,
    ReceiptStep(p)
  PROVE  /\ RecordsOK' /\ Others(p)
         /\ UNCHANGED <<session, lease, look>>
<1> USE DEF RecordsOK, Idle, NoStack, Others
<1>1. CASE WriteActive(p)
  BY <1>1 DEF WriteActive, At, Answer
<1>2. CASE Conclude(p)
  BY <1>2 DEF Conclude, At, Answer, sessionVars
<1>3. CASE Prune(p)
  BY <1>3 DEF Prune, At, sessionVars
<1> QED  BY <1>1, <1>2, <1>3 DEF ReceiptStep

-----------------------------------------------------------------------------
(* Leases *)

PlansOK == DOMAIN plan = Supervisor /\ \A q \in Supervisor : DOMAIN plan[q] = DOMAIN EmptyPlan

\* A step of Acquire or Close takes a free lease, leaves the leases alone, or
\* gives back those of the plan.
Takes(p, x) ==
  /\ plan'[p].at = "acquiring"
  /\ lease[x] = Nobody /\ lease' = [lease EXCEPT ![x] = p]
  /\ \/ plan[p].at = "instance" /\ x = Instance(p) /\ plan'[p].leases = {x}
     \/ plan[p].at = "acquiring" /\ plan'[p].leases = plan[p].leases \cup {x}
Stays(p) ==
  /\ lease' = lease /\ plan'[p].leases = plan[p].leases
  /\ \/ plan[p].at = "acquiring" /\ plan'[p].at \in {"acquiring", "held"}
     \/ plan[p].at \in {"instance", "acquiring"} /\ plan'[p].at = "closing"
     \/ plan[p].at = "closing" /\ plan'[p].at = "unbound"
Frees(p) ==
  /\ plan[p].at = "unbound" /\ plan'[p].at = "over" /\ plan'[p].leases = {}
  /\ lease' = [x \in Label |-> IF x \in plan[p].leases THEN Nobody ELSE lease[x]]

\* The plan of p alone changes.
PlanOnly(p) == PlansOK' /\ \A q \in Supervisor \ {p} : plan'[q] = plan[q]

\* An error closes the plan, with the leases it has.
LEMMA FailsStep ==
  ASSUME PlansOK, NEW p \in Supervisor, NEW why, Fails(p, why)
  PROVE  /\ PlanOnly(p)
         /\ plan'[p].at = "closing" /\ plan'[p].leases = plan[p].leases
  BY DEF PlansOK, PlanOnly, Fails, EmptyPlan

\* A port that is assigned moves the plan on, and takes no lease.
LEMMA AssignedFields ==
  ASSUME NEW q, DOMAIN q = DOMAIN EmptyPlan, NEW number
  PROVE  /\ DOMAIN Assigned(q, number) = DOMAIN EmptyPlan
         /\ Assigned(q, number).at = q.at /\ Assigned(q, number).leases = q.leases
<1> DEFINE item == First(q.todo)
           port == IF item.do = "proxy" THEN number ELSE q.mergePort
           ports == IF item.do = "proxy" THEN q.ports
                    ELSE [n \in DOMAIN q.ports \cup {item.process} |->
                            IF n = item.process THEN number ELSE q.ports[n]]
           rest == q.todo \ {item}
           held == q.held \cup {number}
<1>1. Assigned(q, number) = [q EXCEPT !.todo = rest, !.step = "start", !.tries = 0, !.held = held,
                                      !.mergePort = port, !.ports = ports]
  BY DEF Assigned, EmptyPlan
<1> HIDE DEF port, ports, rest, held
<1> QED  BY <1>1 DEF EmptyPlan

\* The steps of an acquisition.
LEMMA AcquireMoves ==
  ASSUME PlansOK, NEW p \in Supervisor, AcquireStep(p)
  PROVE  /\ PlanOnly(p) /\ session' = session
         /\ (\E x : Takes(p, x)) \/ Stays(p) \/ Frees(p)
<1>1. CASE TakeInstance(p)
  <2>1. CASE lease[Instance(p)] = Nobody
    <3>1. /\ plan[p].at = "instance" /\ lease[Instance(p)] = Nobody
          /\ lease' = [lease EXCEPT ![Instance(p)] = p]
          /\ plan' = [plan EXCEPT ![p].at = "acquiring", ![p].leases = {Instance(p)}]
      BY <1>1, <2>1 DEF TakeInstance, Acquiring, Instance
    <3>2. PlanOnly(p) /\ Takes(p, Instance(p))
      BY <3>1 DEF PlanOnly, PlansOK, Takes, EmptyPlan
    <3> QED  BY <1>1, <3>2 DEF TakeInstance
  <2>2. CASE ~(lease[Instance(p)] = Nobody)
    <3>1. PICK why : Fails(p, why) /\ lease' = lease /\ plan[p].at \in {"instance", "acquiring"}
      BY <1>1, <2>2 DEF TakeInstance, Acquiring, Instance
    <3>2. PlanOnly(p) /\ Stays(p)
      BY <3>1, FailsStep DEF Stays
    <3> QED  BY <1>1, <3>2 DEF TakeInstance
  <2> QED  BY <2>1, <2>2
<1>2. CASE TakeLease(p)
  <2>1. CASE lease[Item(p).label] = Nobody
    <3>1. /\ plan[p].at = "acquiring" /\ lease[Item(p).label] = Nobody
          /\ lease' = [lease EXCEPT ![Item(p).label] = p]
          /\ plan' = [plan EXCEPT ![p].todo = plan[p].todo \ {Item(p)},
                                  ![p].leases = plan[p].leases \cup {Item(p).label}]
      BY <1>2, <2>1 DEF TakeLease, Acquiring
    <3>2. PlanOnly(p) /\ Takes(p, Item(p).label)
      BY <3>1 DEF PlanOnly, PlansOK, Takes, EmptyPlan
    <3> QED  BY <1>2, <3>2 DEF TakeLease
  <2>2. CASE ~(lease[Item(p).label] = Nobody)
    <3>1. PICK why : Fails(p, why) /\ lease' = lease /\ plan[p].at \in {"instance", "acquiring"}
      BY <1>2, <2>2 DEF TakeLease, Acquiring
    <3>2. PlanOnly(p) /\ Stays(p)
      BY <3>1, FailsStep DEF Stays
    <3> QED  BY <1>2, <3>2 DEF TakeLease
  <2> QED  BY <2>1, <2>2
<1>3. CASE Hold(p)
  <2>1. CASE Item(p).port \notin plan[p].held /\ lease[Item(p).label] = Nobody
    <3>1. /\ plan[p].at = "acquiring" /\ lease[Item(p).label] = Nobody
          /\ lease' = [lease EXCEPT ![Item(p).label] = p]
          /\ plan' = [plan EXCEPT ![p].step = "leased",
                                  ![p].leases = plan[p].leases \cup {Item(p).label}]
      BY <1>3, <2>1 DEF Hold, Acquiring
    <3>2. PlanOnly(p) /\ Takes(p, Item(p).label)
      BY <3>1 DEF PlanOnly, PlansOK, Takes, EmptyPlan
    <3> QED  BY <1>3, <3>2 DEF Hold
  <2>2. CASE ~(Item(p).port \notin plan[p].held /\ lease[Item(p).label] = Nobody)
    <3>1. PICK why : Fails(p, why) /\ lease' = lease /\ plan[p].at \in {"instance", "acquiring"}
      BY <1>3, <2>2 DEF Hold, Acquiring
    <3>2. PlanOnly(p) /\ Stays(p)
      BY <3>1, FailsStep DEF Stays
    <3> QED  BY <1>3, <3>2 DEF Hold
  <2> QED  BY <2>1, <2>2
<1>4. CASE HoldBind(p)
  <2>1. CASE bound[Item(p).port] = Free
    <3>1. /\ plan[p].at = "acquiring" /\ lease' = lease
          /\ plan' = [plan EXCEPT ![p] = Assigned(plan[p], Item(p).port)]
      BY <1>4, <2>1 DEF HoldBind, Acquiring
    <3>2. PlanOnly(p) /\ Stays(p)
      BY <3>1, AssignedFields DEF PlanOnly, PlansOK, Stays
    <3> QED  BY <1>4, <3>2 DEF HoldBind
  <2>2. CASE bound[Item(p).port] # Free
    <3>1. Fails(p, "resource_unavailable") /\ lease' = lease /\ plan[p].at = "acquiring"
      BY <1>4, <2>2 DEF HoldBind, Acquiring
    <3>2. PlanOnly(p) /\ Stays(p)
      BY <3>1, FailsStep DEF Stays
    <3> QED  BY <1>4, <3>2 DEF HoldBind
  <2> QED  BY <2>1, <2>2
<1>5. CASE Allocate(p)
  <2>1. lease' = lease /\ session' = session /\ plan[p].at = "acquiring"
    BY <1>5 DEF Allocate, Acquiring
  <2>2. CASE Fails(p, "invalid_configuration")
    BY <2>1, <2>2, FailsStep DEF Stays
  <2>3. CASE \E n : plan' = [plan EXCEPT ![p].step = "bound", ![p].port = n]
    BY <2>1, <2>3 DEF PlanOnly, PlansOK, Stays, EmptyPlan
  <2>4. CASE plan' = [plan EXCEPT ![p].tries = plan[p].tries + 1]
    BY <2>1, <2>4 DEF PlanOnly, PlansOK, Stays, EmptyPlan
  <2> QED  BY <1>5, <2>2, <2>3, <2>4 DEF Allocate
<1>6. CASE AllocateLease(p)
  <2> DEFINE number == plan[p].port
             assigned == Assigned(plan[p], number)
  <2>1. session' = session /\ plan[p].at = "acquiring"
    BY <1>6 DEF AllocateLease, Acquiring
  <2>2. CASE LeaseFree(number)
    <3>1. /\ lease[PortLease(number)] = Nobody
          /\ lease' = [lease EXCEPT ![PortLease(number)] = p]
          /\ plan' = [plan EXCEPT ![p] =
               [assigned EXCEPT !.leases = assigned.leases \cup {PortLease(number)}]]
      BY <1>6, <2>2 DEF AllocateLease, LeaseFree
    <3>2. PlanOnly(p) /\ Takes(p, PortLease(number))
      BY <2>1, <3>1, AssignedFields DEF PlanOnly, PlansOK, Takes, EmptyPlan
    <3> QED  BY <2>1, <3>2
  <2>3. CASE ~LeaseFree(number)
    <3>1. /\ lease' = lease
          /\ plan' = [plan EXCEPT ![p].step = "start", ![p].tries = plan[p].tries + 1]
      BY <1>6, <2>3 DEF AllocateLease
    <3> QED  BY <2>1, <3>1 DEF PlanOnly, PlansOK, Stays, EmptyPlan
  <2> QED  BY <2>2, <2>3
<1>7. CASE Resolve(p)
  <2>1. session' = session /\ lease' = lease /\ plan[p].at = "acquiring"
    BY <1>7 DEF Resolve
  <2>2. CASE Fails(p, "invalid_configuration")
    BY <2>1, <2>2, FailsStep DEF Stays
  <2>3. CASE \E u : plan' = [plan EXCEPT ![p].at = "held", ![p].uses = u]
    BY <2>1, <2>3 DEF PlanOnly, PlansOK, Stays, EmptyPlan
  <2> QED  BY <1>7, <2>2, <2>3 DEF Resolve
<1>8. CASE Close(p)
  BY <1>8 DEF Close, PlanOnly, PlansOK, Stays, EmptyPlan
<1>9. CASE CloseLeases(p)
  BY <1>9 DEF CloseLeases, PlanOnly, PlansOK, Frees, EmptyPlan
<1> QED  BY <1>1, <1>2, <1>3, <1>4, <1>5, <1>6, <1>7, <1>8, <1>9 DEF AcquireStep

\* The attempt starts over with an empty plan, or closes the one it has.
Keeps(p) ==
  /\ lease' = lease /\ plan'[p].leases \in {plan[p].leases, {}}
  /\ plan'[p].at \in {"acquiring", "held"} =>
       plan'[p].at = plan[p].at /\ plan'[p].leases = plan[p].leases

\* An acquisition of the whole configuration starts with nothing.
LEMMA AcquireStart ==
  ASSUME PlansOK, NEW p \in Supervisor, Acquire(p, {})
  PROVE  /\ PlanOnly(p) /\ lease' = lease /\ session' = session
         /\ plan'[p].at = "instance" /\ plan'[p].leases = {}
<1>1. /\ lease' = lease /\ session' = session
  BY DEF Acquire
<1>2. PICK base, names, todo :
        plan' = [plan EXCEPT ![p] = [EmptyPlan EXCEPT !.at = "instance", !.base = base,
                                                      !.names = names, !.todo = todo]]
  BY DEF Acquire
<1>3. plan'[p] = [EmptyPlan EXCEPT !.at = "instance", !.base = base,
                                   !.names = names, !.todo = todo]
  BY <1>2 DEF PlansOK
<1>4. /\ DOMAIN plan'[p] = DOMAIN EmptyPlan
      /\ plan'[p].at = "instance" /\ plan'[p].leases = {}
  BY <1>3 DEF EmptyPlan
<1> QED  BY <1>1, <1>2, <1>4 DEF PlanOnly, PlansOK

\* What the other steps of an attempt do to its plan.
LEMMA PlanMoves ==
  ASSUME PlansOK, NEW p \in Supervisor, PlanStep(p)
  PROVE  /\ PlansOK'
         /\ \/ Keeps(p)
            \/ SystemCloses(p)
<1> USE DEF PlansOK, EmptyPlan
<1>1. CASE Run(p)
  <2>1. CASE plan' = plan /\ lease' = lease
    BY <2>1 DEF Keeps
  <2>2. CASE Acquire(p, {})
    BY <2>2, AcquireStart DEF Keeps, PlanOnly
  <2> QED  BY <1>1, <2>1, <2>2 DEF Run, sessionVars
<1>2. CASE ResolveCrashedRun(p)
  <2>1. CASE plan' = plan /\ lease' = lease
    BY <2>1 DEF Keeps
  <2>2. CASE lease' = lease /\ Fails(p, "crashed_run")
    BY <2>2, FailsStep DEF Keeps, PlanOnly
  <2> QED  BY <1>2, <2>1, <2>2 DEF ResolveCrashedRun
<1>3. CASE StartRunner(p)
  BY <1>3 DEF StartRunner, Keeps
<1>4. CASE Release(p)
  BY <1>4 DEF Release, Keeps
<1>5. CASE Again(p)
  BY <1>5 DEF Again, Keeps
<1>6. CASE Exit(p)
  BY <1>6 DEF Exit, SystemCloses
<1>7. CASE Killed(p)
  BY <1>7 DEF Killed, SystemCloses
<1> QED  BY <1>1, <1>2, <1>3, <1>4, <1>5, <1>6, <1>7 DEF PlanStep

\* The steps that write receipts leave the leases alone.
LEMMA ReceiptMoves ==
  ASSUME PlansOK, NEW p \in Supervisor, ReceiptStep(p)
  PROVE  PlansOK' /\ Keeps(p)
<1> USE DEF PlansOK, Keeps, EmptyPlan
<1>1. CASE WriteActive(p)
  BY <1>1 DEF WriteActive
<1>2. CASE Conclude(p)
  BY <1>2 DEF Conclude, sessionVars
<1>3. CASE Prune(p)
  BY <1>3 DEF Prune, sessionVars
<1> QED  BY <1>1, <1>2, <1>3 DEF ReceiptStep

\* The instance of a session is a lease.
LEMMA InstanceIsLabel ==
  ASSUME LeaseInv, NEW p \in Supervisor
  PROVE  /\ Instance(p) \in Label
         /\ \A q \in Supervisor : Instance(q) = Instance(p)
         /\ session' = session => LET x == Instance(p) IN x' = x
<1>1. PICK s \in SessionName : session = [q \in Supervisor |-> s]
  BY DEF LeaseInv
<1> QED  BY <1>1 DEF Instance, Label

\* A step of p changes nobody else's leases.
LeasesKept(p) ==
  /\ lease' \in [Label -> Supervisor \cup {Nobody, Inspector}]
  /\ \A q \in Supervisor \ {p}, x \in Label : lease[x] = q => lease'[x] = q

\* LeaseInv from what a step does to the plans.
LEMMA LeaseStep ==
  ASSUME LeaseInv, NEW p \in Supervisor, PlansOK', session' = session,
         \A q \in Supervisor \ {p} : plan'[q] = plan[q],
         LeasesKept(p), LeaseOf(p)'
  PROVE  LeaseInv'
<1>1. ASSUME NEW q \in Supervisor \ {p} PROVE LeaseOf(q)'
  BY <1>1 DEF LeaseInv, LeaseOf, LeasesKept, Instance
<1> QED  BY <1>1 DEF LeaseInv, LeasesKept, PlansOK

\* Acquisition and closing keep the books.
LEMMA AcquireLeases ==
  ASSUME LeaseInv, NEW p \in Supervisor, AcquireStep(p)
  PROVE  LeaseInv' /\ LeasesKept(p)
<1>1. PlansOK
  BY DEF LeaseInv, LeaseOf, PlansOK
<1>2. PlanOnly(p) /\ session' = session
  BY <1>1, AcquireMoves
<1>3. /\ Nobody \notin Supervisor /\ DOMAIN plan'[p] = DOMAIN EmptyPlan
      /\ Instance(p)' = Instance(p) /\ Instance(p) \in Label
  BY <1>2, SessionAssumption, InstanceIsLabel DEF Nobody, PlanOnly, PlansOK
<1>4. LeaseOf(p)' /\ LeasesKept(p)
  <2>1. ASSUME NEW x, Takes(p, x) PROVE LeaseOf(p)' /\ LeasesKept(p)
    BY <1>3, <2>1 DEF LeaseInv, LeaseOf, LeasesKept, Takes
  <2>2. CASE Stays(p)
    BY <1>3, <2>2 DEF LeaseInv, LeaseOf, LeasesKept, Stays
  <2>3. CASE Frees(p)
    BY <1>3, <2>3 DEF LeaseInv, LeaseOf, LeasesKept, Frees
  <2> QED  BY <1>1, <2>1, <2>2, <2>3, AcquireMoves
<1> QED  BY <1>2, <1>4, LeaseStep DEF PlanOnly

\* So does every step of an attempt.
LEMMA AttemptLeases ==
  ASSUME LeaseInv, NEW p \in Supervisor, session' = session,
         \A q \in Supervisor \ {p} : plan'[q] = plan[q],
         PlansOK', Keeps(p) \/ SystemCloses(p)
  PROVE  LeaseInv' /\ LeasesKept(p)
<1>1. /\ DOMAIN plan'[p] = DOMAIN EmptyPlan
      /\ Instance(p)' = Instance(p) /\ Instance(p) \in Label
  BY InstanceIsLabel DEF PlansOK
<1>2. LeaseOf(p)' /\ LeasesKept(p)
  <2>1. CASE Keeps(p)
    BY <1>1, <2>1 DEF LeaseInv, LeaseOf, LeasesKept, Keeps
  <2>2. CASE SystemCloses(p)
    <3>1. plan'[p].at = "gone" /\ plan'[p].leases = {}
      BY <2>2 DEF SystemCloses, LeaseInv, EmptyPlan
    <3> QED  BY <1>1, <2>2, <3>1 DEF LeaseInv, LeaseOf, LeasesKept, SystemCloses
  <2> QED  BY <2>1, <2>2
<1> QED  BY <1>2, LeaseStep

\* The attempts command takes a free instance and gives back its own.
LEMMA LookLeases ==
  ASSUME LeaseInv, LookStep
  PROVE  /\ LeaseInv' /\ UNCHANGED <<plan, session, att, stack, receipts, begun>>
         /\ \A q \in Supervisor, x \in Label : lease[x] = q => lease'[x] = q
<1>1. UNCHANGED <<plan, session, att, stack, receipts, begun>>
  BY DEF LookStep, LoadAttempt, OwnerAlive, LeaseHeld, LookEnds, InstanceHeld,
    InspectionEnds, sessionVars
<1>2. \/ lease' = lease
      \/ \E x : lease[x] = Nobody /\ lease' = [lease EXCEPT ![x] = Inspector]
      \/ \E x : lease[x] = Inspector /\ lease' = [lease EXCEPT ![x] = Nobody]
  BY DEF LookStep, LoadAttempt, OwnerAlive, LeaseHeld, LookEnds, InstanceHeld,
    InspectionEnds, sessionVars
<1>3. {Nobody, Inspector} \cap Supervisor = {}
  BY SessionAssumption DEF Nobody, Inspector
<1>4. /\ lease' \in [Label -> Supervisor \cup {Nobody, Inspector}]
      /\ \A q \in Supervisor, x \in Label : lease[x] = q => lease'[x] = q
  BY <1>2, <1>3 DEF LeaseInv
<1> QED  BY <1>1, <1>4 DEF LeaseInv, LeaseOf, Instance

-----------------------------------------------------------------------------
(* One supervisor: its attempt *)

\* The end of the wait for readiness.
LEMMA StartupStep ==
  ASSUME RecordsOK, NEW p \in Supervisor, NEW status, StartupIs(p, status)
  PROVE  /\ att'[p].pc = IF status = "passed" THEN "ready" ELSE "cleanup"
         /\ att'[p].startup = status /\ (att'[p].erred <=> status # "passed")
         /\ \A f \in {"baseline", "check", "disturbed", "ctx"} : att'[p][f] = att[p][f]
<1>1. DOMAIN att = Supervisor /\ DOMAIN att[p] = DOMAIN Idle
  BY DEF RecordsOK
<1>2. /\ att'[p].pc = IF status = "passed" THEN "ready" ELSE "cleanup"
      /\ att'[p].startup = status /\ (att'[p].erred <=> status # "passed")
  BY <1>1 DEF StartupIs, Idle
<1>3. /\ att'[p].baseline = att[p].baseline /\ att'[p].check = att[p].check
      /\ att'[p].disturbed = att[p].disturbed /\ att'[p].ctx = att[p].ctx
  BY <1>1 DEF StartupIs, Idle
<1> QED  BY <1>2, <1>3

\* An attempt that moves on keeps its plan.
LEMMA AttemptStage ==
  ASSUME RecordsOK, NEW p \in Supervisor, StageOf(p), AttemptOnly(p)
  PROVE  StageOf(p)'
<1> USE DEF RecordsOK, Start, Trying, Concluded, Working, Gone, Live, Instance,
  Idle, NoStack, StageOf
<1>1. CASE AcquireFailed(p)
  BY <1>1 DEF AcquireFailed, At, RefusedWith, Answer, sessionVars
<1>2. CASE WaitReady(p)
  BY <1>2 DEF WaitReady, At, StartupIs, sessionVars
<1>3. CASE Polling(p)
  BY <1>3 DEF Polling, At, StartupIs, sessionVars
<1>4. CASE Baseline(p)
  BY <1>4 DEF Baseline, At, sessionVars
<1>5. CASE RunCheck(p)
  BY <1>5 DEF RunCheck, At, sessionVars
<1>6. CASE CheckEnds(p)
  BY <1>6 DEF CheckEnds, At, sessionVars
<1>7. CASE CheckTimeout(p)
  BY <1>7 DEF CheckTimeout, At, sessionVars
<1>8. CASE MonitorRequired(p)
  BY <1>8 DEF MonitorRequired, At, sessionVars
<1>9. CASE FinishCheck(p)
  BY <1>9 DEF FinishCheck, At, Environment, CheckRecord, sessionVars
<1>10. CASE CleanupReturned(p)
  BY <1>10 DEF CleanupReturned, At, CleanupIs, recordTeardown, sessionVars
<1>11. CASE CleanupDeadline(p)
  BY <1>11 DEF CleanupDeadline, At, CleanupIs, recordTeardown, sessionVars
<1>12. CASE Leave(p)
  BY <1>12 DEF Leave, At, sessionVars
<1>13. CASE Interrupt(p)
  BY <1>13 DEF Interrupt, sessionVars
<1> QED  BY <1>1, <1>2, <1>3, <1>4, <1>5, <1>6, <1>7, <1>8, <1>9, <1>10, <1>11,
  <1>12, <1>13 DEF AttemptOnly

\* An attempt that stops waiting says whether the runner may still signal.
LEMMA AttemptRunner ==
  ASSUME RecordsOK, NEW p \in Supervisor, StageOf(p), RunnerOf(p),
    AttemptOnly(p)
  PROVE  RunnerOf(p)'
<1> USE DEF RecordsOK, Start, Trying, Concluded, Working, Gone, Live, Instance,
  Idle, NoStack, RunnerOf, StageOf
<1>1. CASE AcquireFailed(p)
  BY <1>1 DEF AcquireFailed, At, RefusedWith, Answer, sessionVars
<1>2. CASE WaitReady(p)
  BY <1>2 DEF WaitReady, At, StartupIs, sessionVars
<1>3. CASE Polling(p)
  BY <1>3 DEF Polling, At, StartupIs, sessionVars
<1>4. CASE Baseline(p)
  BY <1>4 DEF Baseline, At, sessionVars
<1>5. CASE RunCheck(p)
  BY <1>5 DEF RunCheck, At, sessionVars
<1>6. CASE CheckEnds(p)
  BY <1>6 DEF CheckEnds, At, sessionVars
<1>7. CASE CheckTimeout(p)
  BY <1>7 DEF CheckTimeout, At, sessionVars
<1>8. CASE MonitorRequired(p)
  BY <1>8 DEF MonitorRequired, At, sessionVars
<1>9. CASE FinishCheck(p)
  BY <1>9 DEF FinishCheck, At, Environment, CheckRecord, sessionVars
<1>10. CASE CleanupReturned(p)
  BY <1>10 DEF CleanupReturned, At, CleanupIs, recordTeardown, sessionVars
<1>11. CASE CleanupDeadline(p)
  BY <1>11 DEF CleanupDeadline, At, CleanupIs, recordTeardown, sessionVars
<1>12. CASE Leave(p)
  BY <1>12 DEF Leave, At, sessionVars
<1>13. CASE Interrupt(p)
  BY <1>13 DEF Interrupt, sessionVars
<1> QED  BY <1>1, <1>2, <1>3, <1>4, <1>5, <1>6, <1>7, <1>8, <1>9, <1>10, <1>11,
  <1>12, <1>13 DEF AttemptOnly

\* Without an error so far, the attempt has earned it: the check was clean and
\* the stack came down.
LEMMA AttemptCheck ==
  ASSUME RecordsOK, NEW p \in Supervisor, CheckOf(p), RunnerOf(p),
    AttemptOnly(p)
  PROVE  CheckOf(p)'
<1> USE DEF RecordsOK, Start, Trying, Concluded, Working, Gone, Live, Instance,
  Idle, NoStack, CheckOf, CheckIs
<1>1. CASE AcquireFailed(p)
  BY <1>1 DEF AcquireFailed, At, RefusedWith, Answer, sessionVars
<1>2. CASE WaitReady(p)
  <2>1. stack' = stack
    BY <1>2 DEF WaitReady
  <2>2. CASE \E status \in {"passed", "failed"} : StartupIs(p, status)
    BY <1>2, <2>1, <2>2, StartupStep DEF WaitReady, At
  <2>3. CASE att' = [att EXCEPT ![p].pc = "polling"]
    BY <1>2, <2>1, <2>3 DEF WaitReady, At
  <2> QED  BY <1>2, <2>2, <2>3 DEF WaitReady
<1>3. CASE Polling(p)
  <2>1. stack' = stack
    BY <1>3 DEF Polling
  <2>2. CASE \E status \in {"interrupted", "timed_out", "failed"} : StartupIs(p, status)
    BY <1>3, <2>1, <2>2, StartupStep DEF Polling, At
  <2>3. CASE att' = [att EXCEPT ![p].pc = "waiting"]
    BY <1>3, <2>1, <2>3 DEF Polling, At
  <2> QED  BY <1>3, <2>2, <2>3 DEF Polling
<1>4. CASE Baseline(p)
  <2>1. /\ att'[p].pc = "checking" /\ att'[p].baseline = stack[p].gen
        /\ att'[p].disturbed = att[p].disturbed /\ att'[p].check = att[p].check
        /\ att'[p].startup = att[p].startup /\ stack' = stack /\ att[p].pc = "ready"
    BY <1>4 DEF Baseline, At
  <2> QED  BY <2>1
<1>5. CASE RunCheck(p)
  BY <1>5 DEF RunCheck, At, sessionVars
<1>6. CASE CheckEnds(p)
  BY <1>6 DEF CheckEnds, At, sessionVars
<1>7. CASE CheckTimeout(p)
  BY <1>7 DEF CheckTimeout, At, sessionVars
<1>8. CASE MonitorRequired(p)
  BY <1>8 DEF MonitorRequired, At, sessionVars
<1>9. CASE FinishCheck(p)
  <2>1. PICK report \in {"matched", "mismatched", "invalid", "missing", "empty"},
             required \in BOOLEAN :
          LET lost == att[p].lost \/ Lost(stack[p], att[p].baseline)
              a == Environment(CheckRecord(att[p]), report, required)
          IN  att' = [att EXCEPT ![p] =
                [a EXCEPT !.pc = "cleanup", !.erred = @ \/ lost, !.clean = CleanCheck(a),
                          !.check = "over", !.late = FALSE, !.lost = FALSE,
                          !.baseline = 0, !.disturbed = FALSE]]
    BY <1>9 DEF FinishCheck
  <2> DEFINE lost == att[p].lost \/ Lost(stack[p], att[p].baseline)
             a == Environment(CheckRecord(att[p]), report, required)
  <2>2. /\ DOMAIN a = DOMAIN Idle
        /\ a.startup = att[p].startup /\ a.check = att[p].check /\ a.late = att[p].late
        /\ a.disturbed = att[p].disturbed
        /\ ~a.erred => /\ att[p].ctx # "cancelled" /\ ~att[p].late
                       /\ att[p].check \notin {"refused", "nonzero", "handed_off"}
    BY DEF Environment, CheckRecord
  <2>3. ~a.erred /\ ~lost => CleanCheck(a)
    BY <1>9, <2>2 DEF FinishCheck, At, Lost, CleanCheck
  <2> HIDE DEF a, lost
  <2>4. /\ att'[p].pc = "cleanup" /\ (att'[p].erred <=> a.erred \/ lost)
        /\ att'[p].clean = CleanCheck(a) /\ att'[p].baseline = 0 /\ ~att'[p].disturbed
    BY <2>1, <2>2 DEF a, lost
  <2>5. stack' = stack /\ stack[p].run \in {"running", "returned"}
    BY <1>9 DEF FinishCheck, At
  <2> QED  BY <2>3, <2>4, <2>5
<1>10. CASE CleanupReturned(p)
  <2>1. att[p].pc = "awaiting" /\ stack[p].run = "returned" /\ stack' = stack
    BY <1>10 DEF CleanupReturned, At, RunnerOf
  <2>2. /\ att'[p].pc = "ending" /\ att'[p].clean = att[p].clean
        /\ att'[p].baseline = att[p].baseline /\ att'[p].disturbed = att[p].disturbed
    BY <1>10 DEF CleanupReturned, CleanupIs, recordTeardown
  <2>3. ~att'[p].erred => ~att[p].erred /\ ~stack[p].problem
    BY <1>10 DEF CleanupReturned, CleanupIs, recordTeardown
  <2> QED  BY <2>1, <2>2, <2>3
<1>11. CASE CleanupDeadline(p)
  <2>1. /\ att'[p].pc = "ending" /\ att'[p].erred /\ att'[p].baseline = att[p].baseline
        /\ att'[p].disturbed = att[p].disturbed /\ stack' = stack /\ att[p].pc = "awaiting"
    BY <1>11 DEF CleanupDeadline, At, CleanupIs, recordTeardown
  <2> QED  BY <2>1
<1>12. CASE Leave(p)
  BY <1>12 DEF Leave, At, sessionVars
<1>13. CASE Interrupt(p)
  BY <1>13 DEF Interrupt, sessionVars
<1> QED  BY <1>1, <1>2, <1>3, <1>4, <1>5, <1>6, <1>7, <1>8, <1>9, <1>10, <1>11,
  <1>12, <1>13 DEF AttemptOnly

\* Before the verdict nothing is concluded, after it nothing is added.
LEMMA AttemptVerdict ==
  ASSUME RecordsOK, NEW p \in Supervisor, VerdictOf(p), AttemptOnly(p)
  PROVE  VerdictOf(p)'
<1> USE DEF RecordsOK, Start, Trying, Concluded, Working, Gone, Live, Instance,
  Idle, NoStack, VerdictOf, Receipt
<1>1. CASE AcquireFailed(p)
  BY <1>1 DEF AcquireFailed, At, RefusedWith, Answer, sessionVars
<1>2. CASE WaitReady(p)
  BY <1>2 DEF WaitReady, At, StartupIs, sessionVars
<1>3. CASE Polling(p)
  BY <1>3 DEF Polling, At, StartupIs, sessionVars
<1>4. CASE Baseline(p)
  BY <1>4 DEF Baseline, At, sessionVars
<1>5. CASE RunCheck(p)
  BY <1>5 DEF RunCheck, At, sessionVars
<1>6. CASE CheckEnds(p)
  BY <1>6 DEF CheckEnds, At, sessionVars
<1>7. CASE CheckTimeout(p)
  BY <1>7 DEF CheckTimeout, At, sessionVars
<1>8. CASE MonitorRequired(p)
  BY <1>8 DEF MonitorRequired, At, sessionVars
<1>9. CASE FinishCheck(p)
  BY <1>9 DEF FinishCheck, At, Environment, CheckRecord, sessionVars
<1>10. CASE CleanupReturned(p)
  BY <1>10 DEF CleanupReturned, At, CleanupIs, recordTeardown, sessionVars
<1>11. CASE CleanupDeadline(p)
  BY <1>11 DEF CleanupDeadline, At, CleanupIs, recordTeardown, sessionVars
<1>12. CASE Leave(p)
  BY <1>12 DEF Leave, At, sessionVars
<1>13. CASE Interrupt(p)
  BY <1>13 DEF Interrupt, sessionVars
<1> QED  BY <1>1, <1>2, <1>3, <1>4, <1>5, <1>6, <1>7, <1>8, <1>9, <1>10, <1>11,
  <1>12, <1>13 DEF AttemptOnly

-----------------------------------------------------------------------------
(* One supervisor: its stack, its plan and its receipt *)

\* A granted plan has the instance.
LEMMA HeldHasInstance ==
  ASSUME LeaseInv, NEW p \in Supervisor, plan[p].at \in {"acquiring", "held"}
  PROVE  lease[Instance(p)] = p /\ Instance(p) \in plan[p].leases
  BY InstanceIsLabel DEF LeaseInv, LeaseOf

\* The stack moves on below the attempt.
LEMMA StackStage ==
  ASSUME RecordsOK, NEW p \in Supervisor, StageOf(p), StackStep(p)
  PROVE  StageOf(p)'
<1> USE DEF RecordsOK, Start, Trying, Concluded, Working, Gone, Live, Idle,
  NoStack, StageOf
<1>1. CASE Cleanup(p)
  BY <1>1 DEF Cleanup, At, sessionVars
<1>2. CASE BecomesReady(p)
  BY <1>2 DEF BecomesReady, sessionVars
<1>3. CASE ServiceExits(p)
  BY <1>3 DEF ServiceExits, Disturbed, sessionVars
<1>4. CASE HealthChanges(p)
  BY <1>4 DEF HealthChanges, At, sessionVars
<1>5. CASE ServiceRestarts(p)
  BY <1>5 DEF ServiceRestarts, sessionVars
<1>6. CASE RunReturns(p)
  BY <1>6 DEF RunReturns, sessionVars
<1> QED  BY <1>1, <1>2, <1>3, <1>4, <1>5, <1>6 DEF StackStep

\* A runner that is stopped is still a runner until it returns.
LEMMA StackRunner ==
  ASSUME RecordsOK, NEW p \in Supervisor, StageOf(p), RunnerOf(p), LeaseInv,
    StackStep(p)
  PROVE  RunnerOf(p)'
<1> USE DEF RecordsOK, Start, Trying, Concluded, Working, Gone, Live, Idle,
  NoStack, RunnerOf, StageOf, Instance
<1>1. CASE Cleanup(p)
  <2>1. lease[Instance(p)] = p /\ plan[p].at = "held" /\ att[p].pc = "cleanup"
    BY <1>1, HeldHasInstance DEF Cleanup, At
  <2>2. UNCHANGED <<plan, session, lease>>
    BY <1>1 DEF Cleanup, sessionVars
  <2>3. CASE stack[p].run = "none"
    BY <1>1, <2>1, <2>2, <2>3 DEF Cleanup
  <2>4. CASE stack[p].run # "none"
    <3>1. att'[p].pc = "awaiting"
      BY <1>1, <2>4 DEF Cleanup
    <3>2. stack'[p].done => stack'[p].run = "returned"
      BY <1>1, <2>4 DEF Cleanup
    <3> QED  BY <2>1, <2>2, <3>1, <3>2
  <2> QED  BY <2>3, <2>4
<1>2. CASE BecomesReady(p)
  BY <1>2 DEF BecomesReady, sessionVars
<1>3. CASE ServiceExits(p)
  BY <1>3 DEF ServiceExits, Disturbed, sessionVars
<1>4. CASE HealthChanges(p)
  BY <1>4 DEF HealthChanges, At, sessionVars
<1>5. CASE ServiceRestarts(p)
  BY <1>5 DEF ServiceRestarts, sessionVars
<1>6. CASE RunReturns(p)
  BY <1>6 DEF RunReturns, sessionVars
<1> QED  BY <1>1, <1>2, <1>3, <1>4, <1>5, <1>6 DEF StackStep

\* A service that changes under a running check leaves a trace.
LEMMA StackCheck ==
  ASSUME RecordsOK, NEW p \in Supervisor, CheckOf(p), RunnerOf(p), StackStep(p)
  PROVE  CheckOf(p)'
<1> USE DEF RecordsOK, Start, Trying, Concluded, Working, Gone, Live, Idle,
  NoStack, CheckOf, CheckIs
<1>1. CASE Cleanup(p)
  <2>1. CASE stack[p].run = "none"
    <3>1. /\ att'[p].pc = "ending" /\ att'[p].erred = att[p].erred
          /\ att'[p].baseline = att[p].baseline /\ att'[p].disturbed = att[p].disturbed
          /\ stack' = stack /\ att[p].pc = "cleanup"
      BY <1>1, <2>1 DEF Cleanup, At
    <3> QED  BY <2>1, <3>1
  <2>2. CASE stack[p].run # "none"
    <3>1. /\ att'[p].pc = "awaiting" /\ att'[p].erred = att[p].erred /\ att'[p].clean = att[p].clean
          /\ att'[p].baseline = att[p].baseline /\ att'[p].disturbed = att[p].disturbed
          /\ att[p].pc = "cleanup"
      BY <1>1, <2>2 DEF Cleanup, At
    <3>2. stack'[p].run \in {"stopping", "returned"} /\ stack'[p].gen \in Nat
      BY <1>1, <2>2 DEF Cleanup, RunnerOf
    <3> QED  BY <3>1, <3>2
  <2> QED  BY <2>1, <2>2
<1>2. CASE BecomesReady(p)
  BY <1>2 DEF BecomesReady, sessionVars
<1>3. CASE ServiceExits(p)
  BY <1>3 DEF ServiceExits, Disturbed, sessionVars
<1>4. CASE HealthChanges(p)
  BY <1>4 DEF HealthChanges, At, sessionVars
<1>5. CASE ServiceRestarts(p)
  BY <1>5 DEF ServiceRestarts, sessionVars
<1>6. CASE RunReturns(p)
  BY <1>6 DEF RunReturns, sessionVars
<1> QED  BY <1>1, <1>2, <1>3, <1>4, <1>5, <1>6 DEF StackStep

\* The stack has no say in the verdict before the attempt is ending.
LEMMA StackVerdict ==
  ASSUME RecordsOK, NEW p \in Supervisor, VerdictOf(p), StackStep(p)
  PROVE  VerdictOf(p)'
<1> USE DEF RecordsOK, Start, Trying, Concluded, Working, Gone, Live, Idle,
  NoStack, VerdictOf, Receipt
<1>1. CASE Cleanup(p)
  BY <1>1 DEF Cleanup, At, sessionVars
<1>2. CASE BecomesReady(p)
  BY <1>2 DEF BecomesReady, sessionVars
<1>3. CASE ServiceExits(p)
  BY <1>3 DEF ServiceExits, Disturbed, sessionVars
<1>4. CASE HealthChanges(p)
  BY <1>4 DEF HealthChanges, At, sessionVars
<1>5. CASE ServiceRestarts(p)
  BY <1>5 DEF ServiceRestarts, sessionVars
<1>6. CASE RunReturns(p)
  BY <1>6 DEF RunReturns, sessionVars
<1> QED  BY <1>1, <1>2, <1>3, <1>4, <1>5, <1>6 DEF StackStep


\* The plan and the attempt when the attempt gets or gives up its plan.
LEMMA PlanPlaces ==
  ASSUME RecordsOK, PlansOK, NEW p \in Supervisor
  PROVE  /\ StartRunner(p) => /\ plan'[p].at = plan[p].at /\ plan'[p].leases = plan[p].leases
                              /\ att'[p].pc \in {"cleanup", "waiting"} /\ att[p].pc = "recorded"
         /\ Release(p) => /\ att[p].pc = "release"
                          /\ \/ /\ att[p].authority = "withdrawn" /\ att'[p].pc = "leaving"
                                /\ plan'[p].at = "closing" /\ plan'[p].leases = plan[p].leases
                             \/ att'[p].pc = "answered" /\ plan' = plan
         /\ Again(p) => plan'[p] = EmptyPlan /\ att'[p] = Idle
         /\ Exit(p) \/ Killed(p) => /\ plan'[p].at = "gone" /\ plan'[p].leases = {}
                                    /\ att'[p] = Idle /\ stack'[p] = NoStack
<1> USE DEF RecordsOK, PlansOK, EmptyPlan
<1>1. StartRunner(p) => /\ plan'[p].at = plan[p].at /\ plan'[p].leases = plan[p].leases
                        /\ att'[p].pc \in {"cleanup", "waiting"} /\ att[p].pc = "recorded"
  BY DEF StartRunner, At, Idle
<1>2. Release(p) => /\ att[p].pc = "release"
                    /\ \/ /\ att[p].authority = "withdrawn" /\ att'[p].pc = "leaving"
                          /\ plan'[p].at = "closing" /\ plan'[p].leases = plan[p].leases
                       \/ att'[p].pc = "answered" /\ plan' = plan
  BY DEF Release, At, MayClose, Idle
<1>3. Again(p) => plan'[p] = EmptyPlan /\ att'[p] = Idle
  BY DEF Again
<1>4. Exit(p) \/ Killed(p) => /\ plan'[p].at = "gone" /\ plan'[p].leases = {}
                              /\ att'[p] = Idle /\ stack'[p] = NoStack
  BY DEF Exit, Killed, SystemCloses
<1> QED  BY <1>1, <1>2, <1>3, <1>4

\* The runner is started, or the start failed before.
LEMMA Started ==
  ASSUME RecordsOK, NEW p \in Supervisor, StartRunner(p)
  PROVE  \/ /\ stack' = stack
            /\ att' = [att EXCEPT ![p].pc = "cleanup", ![p].startup = "failed",
                                  ![p].erred = TRUE]
         \/ /\ att' = [att EXCEPT ![p].pc = "waiting"]
            /\ stack'[p].run = "running" /\ stack'[p].gen = 1 /\ ~stack'[p].done
<1>1. CASE /\ att' = [att EXCEPT ![p].pc = "waiting"]
           /\ stack' = [stack EXCEPT ![p] =
                [NoStack EXCEPT !.run = "running", !.gen = 1, !.state = "running"]]
  <2>1. stack'[p] = [NoStack EXCEPT !.run = "running", !.gen = 1, !.state = "running"]
    BY <1>1 DEF RecordsOK
  <2>2. stack'[p].run = "running" /\ stack'[p].gen = 1 /\ ~stack'[p].done
    BY <2>1 DEF NoStack
  <2> QED  BY <1>1, <2>2
<1> QED  BY <1>1 DEF StartRunner

\* The plan follows the attempt.
LEMMA PlanStage ==
  ASSUME RecordsOK, NEW p \in Supervisor, StageOf(p), PlansOK, PlanStep(p)
  PROVE  StageOf(p)'
<1> USE DEF RecordsOK, Start, Trying, Concluded, Working, Gone, Live, Idle,
  NoStack, StageOf
<1>1. CASE Run(p)
  <2>1. CASE Acquire(p, {}) /\ att' = [att EXCEPT ![p].pc = "acquiring"]
    <3>1. plan'[p].at = "instance"
      BY <2>1, AcquireStart
    <3> QED  BY <2>1, <3>1
  <2>2. CASE RefusedWith(p) /\ plan' = plan
    BY <1>1, <2>2, RefusedStep DEF Run, At
  <2> QED  BY <1>1, <2>1, <2>2 DEF Run, sessionVars
<1>2. CASE ResolveCrashedRun(p)
  <2>1. plan[p].at = "held" /\ att[p].pc = "acquiring"
    BY <1>2 DEF ResolveCrashedRun, At
  <2>2. CASE plan' = plan /\ att' = [att EXCEPT ![p].pc = "acquired"]
    BY <2>1, <2>2
  <2>3. CASE Fails(p, "crashed_run") /\ att' = att
    BY <2>1, <2>3, FailsStep
  <2> QED  BY <1>2, <2>2, <2>3 DEF ResolveCrashedRun
<1>3. CASE StartRunner(p)
  BY <1>3, PlanPlaces
<1>4. CASE Release(p)
  BY <1>4, PlanPlaces
<1>5. CASE Again(p)
  BY <1>5, PlanPlaces DEF EmptyPlan
<1>6. CASE Exit(p)
  BY <1>6, PlanPlaces DEF EmptyPlan
<1>7. CASE Killed(p)
  BY <1>7, PlanPlaces DEF EmptyPlan
<1> QED  BY <1>1, <1>2, <1>3, <1>4, <1>5, <1>6, <1>7 DEF PlanStep

\* A runner is started under the instance, and outlives its attempt only with it.
LEMMA PlanRunner ==
  ASSUME RecordsOK, NEW p \in Supervisor, StageOf(p), RunnerOf(p), PlansOK,
    LeaseInv, PlanStep(p)
  PROVE  RunnerOf(p)'
<1> USE DEF RecordsOK, Start, Trying, Concluded, Working, Gone, Live, Idle,
  NoStack, RunnerOf, StageOf, Instance
<1>1. CASE Run(p)
  <2>1. att[p].pc = "idle" /\ stack' = stack /\ session' = session /\ lease' = lease
    BY <1>1 DEF Run, At, Acquire, sessionVars
  <2>2. CASE Acquire(p, {}) /\ att' = [att EXCEPT ![p].pc = "acquiring"]
    <3>1. plan'[p].leases = {}
      BY <2>2, AcquireStart
    <3> QED  BY <2>1, <2>2, <3>1
  <2>3. CASE RefusedWith(p) /\ plan' = plan
    BY <2>1, <2>3, RefusedStep
  <2> QED  BY <1>1, <2>2, <2>3 DEF Run, sessionVars
<1>2. CASE ResolveCrashedRun(p)
  <2>1. /\ att[p].pc = "acquiring" /\ Instance(p) \in plan[p].leases
        /\ stack' = stack /\ session' = session /\ lease' = lease
    BY <1>2, HeldHasInstance DEF ResolveCrashedRun, At
  <2>2. ~Live(p)
    BY <2>1
  <2>3. att'[p].pc \in {"acquiring", "acquired"}
    BY <1>2, <2>1 DEF ResolveCrashedRun
  <2> QED  BY <2>1, <2>2, <2>3
<1>3. CASE StartRunner(p)
  <2>1. /\ att[p].pc = "recorded" /\ att'[p].pc \in {"cleanup", "waiting"} /\ plan'[p].at = "held"
        /\ lease' = lease /\ session' = session
    BY <1>3, PlanPlaces DEF StartRunner
  <2>2. lease[Instance(p)] = p /\ Instance(p) \in plan[p].leases
    BY <2>1, HeldHasInstance
  <2>3. stack' = stack \/ ~stack'[p].done
    BY <1>3, Started
  <2> QED  BY <2>1, <2>2, <2>3
<1>4. CASE Release(p)
  <2>1. UNCHANGED <<stack, session, lease>>
    BY <1>4 DEF Release
  <2> QED  BY <1>4, <2>1, PlanPlaces
<1>5. CASE Again(p)
  <2>1. UNCHANGED <<stack, session, lease>>
    BY <1>5 DEF Again
  <2> QED  BY <1>5, <2>1, PlanPlaces DEF EmptyPlan
<1>6. CASE Exit(p)
  BY <1>6, PlanPlaces
<1>7. CASE Killed(p)
  BY <1>7, PlanPlaces
<1> QED  BY <1>1, <1>2, <1>3, <1>4, <1>5, <1>6, <1>7 DEF PlanStep

\* A plan is acquired before the check, and let go after it.
LEMMA PlanCheck ==
  ASSUME RecordsOK, NEW p \in Supervisor, CheckOf(p), RunnerOf(p), PlansOK,
    PlanStep(p)
  PROVE  CheckOf(p)'
<1> USE DEF RecordsOK, Start, Trying, Concluded, Working, Gone, Live, Idle,
  NoStack, CheckOf, CheckIs
<1>1. CASE Run(p)
  <2>1. stack' = stack /\ att[p].pc = "idle"
    BY <1>1 DEF Run, At
  <2>2. CASE att' = [att EXCEPT ![p].pc = "acquiring"]
    BY <2>1, <2>2
  <2>3. CASE RefusedWith(p)
    BY <2>1, <2>3, RefusedStep
  <2> QED  BY <1>1, <2>2, <2>3 DEF Run
<1>2. CASE ResolveCrashedRun(p)
  BY <1>2 DEF ResolveCrashedRun, At, Fails
<1>3. CASE StartRunner(p)
  <2>1. att[p].pc = "recorded"
    BY <1>3 DEF StartRunner, At
  <2>2. CASE /\ stack' = stack
             /\ att' = [att EXCEPT ![p].pc = "cleanup", ![p].startup = "failed",
                                   ![p].erred = TRUE]
    BY <2>1, <2>2
  <2>3. CASE /\ att' = [att EXCEPT ![p].pc = "waiting"]
             /\ stack'[p].run = "running" /\ stack'[p].gen = 1
    BY <2>1, <2>3
  <2> QED  BY <1>3, <2>2, <2>3, Started
<1>4. CASE Release(p)
  BY <1>4 DEF Release, At
<1>5. CASE Again(p)
  BY <1>5, PlanPlaces DEF Again
<1>6. CASE Exit(p)
  BY <1>6, PlanPlaces
<1>7. CASE Killed(p)
  BY <1>7, PlanPlaces
<1> QED  BY <1>1, <1>2, <1>3, <1>4, <1>5, <1>6, <1>7 DEF PlanStep

\* An attempt without a receipt has no verdict but a refusal.
LEMMA PlanVerdict ==
  ASSUME RecordsOK, NEW p \in Supervisor, VerdictOf(p), PlansOK, PlanStep(p)
  PROVE  VerdictOf(p)'
<1> USE DEF RecordsOK, Start, Trying, Concluded, Working, Gone, Live, Idle,
  NoStack, VerdictOf, Receipt
<1>1. CASE Run(p)
  <2>1. receipts' = receipts /\ begun' = begun /\ att[p].pc = "idle"
    BY <1>1 DEF Run, At
  <2>2. CASE att' = [att EXCEPT ![p].pc = "acquiring"]
    BY <2>1, <2>2
  <2>3. CASE RefusedWith(p)
    BY <2>1, <2>3, RefusedStep
  <2> QED  BY <1>1, <2>2, <2>3 DEF Run
<1>2. CASE ResolveCrashedRun(p)
  BY <1>2 DEF ResolveCrashedRun, At, Fails
<1>3. CASE StartRunner(p)
  BY <1>3 DEF StartRunner, At
<1>4. CASE Release(p)
  BY <1>4 DEF Release, At
<1>5. CASE Again(p)
  BY <1>5, PlanPlaces DEF Again
<1>6. CASE Exit(p)
  BY <1>6, PlanPlaces DEF Exit
<1>7. CASE Killed(p)
  BY <1>7, PlanPlaces DEF Killed
<1> QED  BY <1>1, <1>2, <1>3, <1>4, <1>5, <1>6, <1>7 DEF PlanStep

-----------------------------------------------------------------------------
(* One supervisor: the receipt and the verdict *)

\* finishVerdict says passed only where there was no error.
LEMMA VerdictFields ==
  ASSUME NEW a, DOMAIN a = DOMAIN Idle
  PROVE  /\ DOMAIN Verdict(a) = DOMAIN Idle
         /\ Verdict(a).id = a.id /\ Verdict(a).authority = a.authority
         /\ Verdict(a).persisted = a.persisted /\ Verdict(a).clean = a.clean
         /\ Verdict(a).status = "passed" => ~a.erred
         /\ <<Verdict(a).status, Verdict(a).exit>> \in
              {<<"passed", 0>>, <<"failed", 1>>, <<"interrupted", 130>>}
<1>1. CASE a.interrupt
  BY <1>1 DEF Verdict, Idle
<1>2. CASE ~a.interrupt /\ a.erred
  BY <1>2 DEF Verdict, Idle
<1>3. CASE ~a.interrupt /\ ~a.erred
  BY <1>3 DEF Verdict, Idle
<1> QED  BY <1>1, <1>2, <1>3

\* What an answer keeps of its attempt.
LEMMA AnswerFields ==
  ASSUME NEW a, NEW pc
  PROVE  /\ DOMAIN Answer(a, pc) = DOMAIN Idle
         /\ Answer(a, pc).pc = pc /\ Answer(a, pc).id = a.id
         /\ Answer(a, pc).authority = a.authority /\ Answer(a, pc).persisted = a.persisted
         /\ Answer(a, pc).status = a.status /\ Answer(a, pc).exit = a.exit
         /\ ~Answer(a, pc).disturbed /\ Answer(a, pc).baseline = 0
         /\ Answer(a, pc).check = "not_run"
  BY DEF Answer, Idle

\* The receipt that is written, or not, with the answer.
ActiveWritten(p, id) ==
  /\ att'[p].pc = "recorded" /\ att'[p].id = id
  /\ \A f \in DOMAIN Idle \ {"pc", "id", "authority"} : att'[p][f] = att[p][f]
  /\ receipts' = WriteReceipt(receipts, id, Receipt(p, att[p], "active"))
  /\ begun' = WriteReceipt(begun, id, [by |-> p, earned |-> FALSE, terminal |-> FALSE])
  /\ plan' = plan

TerminalWritten(p) ==
  /\ att'[p].pc = "prune" /\ att'[p].persisted
  /\ receipts' = WriteReceipt(receipts, att[p].id, Receipt(p, att'[p], "completed"))
  /\ begun' = [begun EXCEPT ![att[p].id].terminal = TRUE,
                            ![att[p].id].earned = att[p].clean /\ stack[p].run = "returned"
                                                    /\ ~stack[p].problem]
  /\ att'[p].status = "passed" => ~att[p].erred

\* The record of a new attempt, or the end of one that could not be recorded.
LEMMA WriteActiveStep ==
  ASSUME RecordsOK, PlansOK, NEW p \in Supervisor, WriteActive(p)
  PROVE  /\ att[p].pc = "acquired" /\ stack' = stack /\ lease' = lease /\ session' = session
         /\ \/ \E id \in AttemptID[p] \ DOMAIN begun : ActiveWritten(p, id)
            \/ /\ att'[p].pc = "leaving" /\ att'[p].status # "passed"
               /\ ~att'[p].disturbed /\ att'[p].baseline = 0
               /\ plan'[p].at = "closing" /\ plan'[p].leases = plan[p].leases
               /\ UNCHANGED <<receipts, begun>>
<1>1. att[p].pc = "acquired" /\ stack' = stack /\ lease' = lease /\ session' = session
  BY DEF WriteActive, At
<1>2. ASSUME NEW id \in AttemptID[p] \ DOMAIN begun,
             att' = [att EXCEPT ![p].pc = "recorded", ![p].id = id, ![p].authority = "held"]
      PROVE  /\ att'[p].pc = "recorded" /\ att'[p].id = id
             /\ \A f \in DOMAIN Idle \ {"pc", "id", "authority"} : att'[p][f] = att[p][f]
  BY <1>2 DEF RecordsOK, Idle
<1>3. CASE /\ att' = [att EXCEPT ![p] = Answer(Verdict([@ EXCEPT !.erred = TRUE]), "leaving")]
           /\ plan' = [plan EXCEPT ![p].at = "closing"]
           /\ UNCHANGED <<receipts, begun>>
  <2> DEFINE a == [att[p] EXCEPT !.erred = TRUE]
  <2>1. DOMAIN a = DOMAIN Idle /\ a.erred
    BY DEF RecordsOK, Idle
  <2>2. att'[p] = Answer(Verdict(a), "leaving")
    BY <1>3 DEF RecordsOK
  <2>3. plan'[p].at = "closing" /\ plan'[p].leases = plan[p].leases
    BY <1>3 DEF PlansOK, EmptyPlan
  <2> HIDE DEF a
  <2>4. /\ att'[p].pc = "leaving" /\ att'[p].status = Verdict(a).status
        /\ ~att'[p].disturbed /\ att'[p].baseline = 0
    BY <2>2, AnswerFields
  <2>5. Verdict(a).status # "passed"
    BY <2>1, VerdictFields
  <2> QED  BY <1>1, <1>3, <2>3, <2>4, <2>5
<1> QED  BY <1>1, <1>2, <1>3 DEF WriteActive, ActiveWritten

\* The verdict, and the terminal receipt or the failure to write it.
LEMMA ConcludeStep ==
  ASSUME RecordsOK, NEW p \in Supervisor, Conclude(p)
  PROVE  /\ att[p].pc = "ending" /\ UNCHANGED <<plan, lease, session>>
         /\ att'[p].id = att[p].id /\ att'[p].authority = att[p].authority
         /\ ~att'[p].disturbed /\ att'[p].baseline = 0
         /\ <<att'[p].status, att'[p].exit>> \in
              {<<"passed", 0>>, <<"failed", 1>>, <<"interrupted", 130>>}
         /\ stack'[p] = stack[p] \/ stack'[p] = NoStack
         /\ \/ TerminalWritten(p)
            \/ /\ att'[p].pc = "release" /\ ~att'[p].persisted /\ att'[p].status # "passed"
               /\ UNCHANGED <<receipts, begun>>
<1>1. PICK unavailable \in BOOLEAN, fails \in BOOLEAN :
       LET ended == collectEvidence(att[p], stack[p], unavailable)
           a == Verdict([ended EXCEPT !.erred = @ \/ fails, !.persisted = ~fails])
       IN  /\ att' = [att EXCEPT ![p] = Answer(a, IF fails THEN "release" ELSE "prune")]
           /\ IF fails
              THEN UNCHANGED <<receipts, begun>>
              ELSE persistTerminal(p, a)
  BY DEF Conclude
<1> DEFINE ended == collectEvidence(att[p], stack[p], unavailable)
           last == [ended EXCEPT !.erred = ended.erred \/ fails, !.persisted = ~fails]
           a == Verdict(last)
<1>2. /\ DOMAIN last = DOMAIN Idle /\ (last.persisted <=> ~fails)
      /\ last.id = att[p].id /\ last.authority = att[p].authority /\ last.clean = att[p].clean
  BY DEF RecordsOK, collectEvidence, Idle
<1>3. ~last.erred => ~att[p].erred /\ ~fails
  BY DEF RecordsOK, collectEvidence, Idle
<1>4. att'[p] = Answer(a, IF fails THEN "release" ELSE "prune")
  BY <1>1 DEF RecordsOK
<1>5. IF fails THEN UNCHANGED <<receipts, begun>> ELSE persistTerminal(p, a)
  BY <1>1
<1> HIDE DEF last
<1>6. /\ a.id = att[p].id /\ a.authority = att[p].authority /\ (a.persisted <=> ~fails)
      /\ a.clean = att[p].clean
      /\ a.status = "passed" => ~att[p].erred /\ ~fails
      /\ <<a.status, a.exit>> \in {<<"passed", 0>>, <<"failed", 1>>, <<"interrupted", 130>>}
  BY <1>2, <1>3, VerdictFields
<1> HIDE DEF a
<1>7. /\ att'[p].pc = IF fails THEN "release" ELSE "prune"
      /\ att'[p].id = a.id /\ att'[p].authority = a.authority
      /\ att'[p].persisted = a.persisted
      /\ att'[p].status = a.status /\ att'[p].exit = a.exit
      /\ ~att'[p].disturbed /\ att'[p].baseline = 0
  BY <1>4, AnswerFields
<1>8. att[p].pc = "ending" /\ UNCHANGED <<plan, lease, session>>
  BY DEF Conclude, At, sessionVars
<1>9. stack'[p] = stack[p] \/ stack'[p] = NoStack
  BY DEF Conclude, RecordsOK
<1>10. CASE fails
  BY <1>5, <1>6, <1>7, <1>8, <1>9, <1>10
<1>11. CASE ~fails
  <2>1. Receipt(p, a, "completed") = Receipt(p, att'[p], "completed")
    BY <1>7 DEF Receipt
  <2>2. persistTerminal(p, a) /\ a.id = att[p].id
    BY <1>5, <1>6, <1>11
  <2>3. receipts' = WriteReceipt(receipts, att[p].id, Receipt(p, att'[p], "completed"))
    BY <2>1, <2>2 DEF persistTerminal
  <2>4. begun' = [begun EXCEPT ![a.id].terminal = TRUE,
                               ![a.id].earned = a.clean /\ stack[p].run = "returned"
                                                  /\ ~stack[p].problem]
    BY <2>2 DEF persistTerminal
  <2>5. TerminalWritten(p)
    BY <1>6, <1>7, <1>11, <2>2, <2>3, <2>4 DEF TerminalWritten
  <2> QED  BY <1>6, <1>7, <1>8, <1>9, <2>5
<1> QED  BY <1>10, <1>11

\* Prune removes terminal receipts, and never the one just written.
LEMMA PruneStep ==
  ASSUME RecordsOK, NEW p \in Supervisor, Prune(p)
  PROVE  /\ att[p].pc = "prune" /\ att'[p].pc = "release"
         /\ \A f \in DOMAIN Idle \ {"pc"} : att'[p][f] = att[p][f]
         /\ UNCHANGED <<plan, lease, session, stack, begun>>
         /\ DOMAIN receipts' \subseteq DOMAIN receipts
         /\ \A id \in DOMAIN receipts' : receipts'[id] = receipts[id]
         /\ \A id \in DOMAIN receipts :
              receipts[id].state # "completed" \/ id = att[p].id => id \in DOMAIN receipts'
<1>1. /\ att[p].pc = "prune" /\ att'[p].pc = "release"
      /\ \A f \in DOMAIN Idle \ {"pc"} : att'[p][f] = att[p][f]
  BY DEF Prune, At, RecordsOK, Idle
<1>2. UNCHANGED <<plan, lease, session, stack, begun>>
  BY DEF Prune, sessionVars
<1>3. receipts' = [id \in DOMAIN receipts \ Pruned(att[p].id) |-> receipts[id]]
  BY DEF Prune
<1>4. \A id \in Pruned(att[p].id) : receipts[id].state = "completed" /\ id # att[p].id
  BY DEF Pruned
<1> QED  BY <1>1, <1>2, <1>3, <1>4

\* Concluding and pruning happen under the granted plan, and do not touch it.
LEMMA ReceiptStage ==
  ASSUME RecordsOK, PlansOK, NEW p \in Supervisor, StageOf(p), ReceiptStep(p)
  PROVE  StageOf(p)'
<1> USE DEF StageOf, Gone, Start, Trying, Concluded, Working
<1>1. CASE WriteActive(p)
  BY <1>1, WriteActiveStep DEF ActiveWritten
<1>2. CASE Conclude(p)
  BY <1>2, ConcludeStep DEF TerminalWritten
<1>3. CASE Prune(p)
  BY <1>3, PruneStep
<1> QED  BY <1>1, <1>2, <1>3 DEF ReceiptStep

\* An attempt is recorded, or refused, before there is a runner under its plan.
LEMMA ReceiptRunner ==
  ASSUME RecordsOK, PlansOK, LeaseInv, NEW p \in Supervisor, StageOf(p), RunnerOf(p), ReceiptStep(p)
  PROVE  RunnerOf(p)'
<1> USE DEF RunnerOf, StageOf, Gone, Live, Instance, Start, Trying, Concluded, Working
<1>1. CASE WriteActive(p)
  <2>1. att[p].pc = "acquired" /\ plan[p].at = "held"
    BY <1>1, WriteActiveStep
  <2>2. ~Live(p)
    BY <2>1, HeldHasInstance
  <2> QED  BY <1>1, <2>2, WriteActiveStep DEF ActiveWritten
<1>2. CASE Conclude(p)
  <2>1. /\ att[p].pc = "ending" /\ att'[p].pc \in {"prune", "release"}
        /\ att'[p].authority = att[p].authority /\ UNCHANGED <<plan, lease, session>>
        /\ stack'[p] = stack[p] \/ stack'[p] = NoStack
    BY <1>2, ConcludeStep DEF TerminalWritten
  <2>2. CASE stack'[p] = stack[p]
    BY <2>1, <2>2
  <2>3. CASE stack'[p] = NoStack
    BY <2>1, <2>3 DEF NoStack
  <2> QED  BY <2>1, <2>2, <2>3
<1>3. CASE Prune(p)
  <2>1. att'[p].authority = att[p].authority
    BY <1>3, PruneStep DEF Idle
  <2> QED  BY <1>3, <2>1, PruneStep
<1> QED  BY <1>1, <1>2, <1>3 DEF ReceiptStep

\* The check is before or over.
LEMMA ReceiptCheck ==
  ASSUME RecordsOK, PlansOK, NEW p \in Supervisor, CheckOf(p), ReceiptStep(p)
  PROVE  CheckOf(p)'
<1> USE DEF CheckOf, CheckIs, Start
<1>1. CASE WriteActive(p)
  <2>1. ASSUME NEW id, ActiveWritten(p, id), stack' = stack, att[p].pc = "acquired"
        PROVE  CheckOf(p)'
    <3>1. /\ att'[p].pc = "recorded" /\ att'[p].disturbed = att[p].disturbed
          /\ att'[p].check = att[p].check /\ att'[p].baseline = att[p].baseline
      BY <2>1 DEF ActiveWritten, Idle
    <3> QED  BY <2>1, <3>1
  <2>2. CASE /\ stack' = stack /\ att'[p].pc = "leaving"
             /\ ~att'[p].disturbed /\ att'[p].baseline = 0
    BY <2>2
  <2> QED  BY <1>1, <2>1, <2>2, WriteActiveStep
<1>2. CASE Conclude(p)
  <2>1. stack'[p].gen \in Nat
    BY <1>2, ConcludeStep DEF NoStack
  <2>2. /\ att'[p].pc \in {"prune", "release"} /\ ~att'[p].disturbed /\ att'[p].baseline = 0
    BY <1>2, ConcludeStep DEF TerminalWritten
  <2> QED  BY <2>1, <2>2
<1>3. CASE Prune(p)
  <2>1. att'[p].disturbed = att[p].disturbed /\ att'[p].baseline = att[p].baseline
    BY <1>3, PruneStep DEF Idle
  <2> QED  BY <1>3, <2>1, PruneStep
<1> QED  BY <1>1, <1>2, <1>3 DEF ReceiptStep

\* The history after a terminal receipt.
LEMMA Terminated ==
  ASSUME ReceiptInv, NEW p \in Supervisor, TerminalWritten(p), att[p].id \in DOMAIN begun
  PROVE  /\ DOMAIN begun' = DOMAIN begun
         /\ \A x \in DOMAIN begun \ {att[p].id} : begun'[x] = begun[x]
         /\ DOMAIN begun'[att[p].id] = {"by", "earned", "terminal"}
         /\ begun'[att[p].id].by = begun[att[p].id].by /\ begun'[att[p].id].terminal
         /\ begun'[att[p].id].earned <=> att[p].clean /\ stack[p].run = "returned"
                                           /\ ~stack[p].problem
<1>1. DOMAIN begun[att[p].id] = {"by", "earned", "terminal"}
  BY DEF ReceiptInv
<1> QED  BY <1>1 DEF TerminalWritten

\* The verdict is earned when it is passed, and on disk as answered.
LEMMA ReceiptVerdict ==
  ASSUME RecordsOK, PlansOK, ReceiptInv, NEW p \in Supervisor, CheckOf(p), VerdictOf(p),
         ReceiptStep(p)
  PROVE  VerdictOf(p)'
<1> USE DEF VerdictOf, Start, Trying, Concluded
<1>1. CASE WriteActive(p)
  <2>1. ASSUME NEW id, ActiveWritten(p, id)
        PROVE  VerdictOf(p)'
    <3>1. id \in DOMAIN begun' /\ begun'[id] = [by |-> p, earned |-> FALSE, terminal |-> FALSE]
      BY <2>1 DEF ActiveWritten, WriteReceipt
    <3>2. id \in DOMAIN begun' /\ begun'[id].by = p /\ ~begun'[id].terminal
      BY <3>1
    <3> QED  BY <2>1, <3>2 DEF ActiveWritten
  <2>2. CASE att'[p].pc = "leaving" /\ att'[p].status # "passed"
    BY <2>2
  <2> QED  BY <1>1, <2>1, <2>2, WriteActiveStep
<1>2. CASE Conclude(p)
  <2>1. /\ att[p].pc = "ending" /\ att'[p].id = att[p].id
        /\ att[p].id \in DOMAIN begun /\ begun[att[p].id].by = p
    BY <1>2, ConcludeStep
  <2>2. CASE TerminalWritten(p)
    <3>1. /\ att[p].id \in DOMAIN begun' /\ begun'[att[p].id].by = p
          /\ begun'[att[p].id].terminal
      BY <2>1, <2>2, Terminated
    <3>2. att'[p].status = "passed" => begun'[att[p].id].earned
      BY <2>1, <2>2, Terminated DEF CheckOf, CheckIs, TerminalWritten
    <3>3. /\ att[p].id \in DOMAIN receipts'
          /\ receipts'[att[p].id] = Receipt(p, att'[p], "completed")
      BY <2>2 DEF TerminalWritten, WriteReceipt
    <3> QED  BY <2>1, <2>2, <3>1, <3>2, <3>3 DEF TerminalWritten
  <2>3. CASE att'[p].pc = "release" /\ ~att'[p].persisted /\ att'[p].status # "passed"
    BY <2>3
  <2> QED  BY <1>2, <2>2, <2>3, ConcludeStep
<1>3. CASE Prune(p)
  <2>1. /\ att'[p].id = att[p].id /\ att'[p].status = att[p].status
        /\ att'[p].exit = att[p].exit /\ att'[p].persisted = att[p].persisted
    BY <1>3, PruneStep DEF Idle
  <2>2. /\ att[p].pc = "prune" /\ att'[p].pc = "release" /\ begun' = begun
        /\ att[p].id \in DOMAIN receipts =>
             att[p].id \in DOMAIN receipts' /\ receipts'[att[p].id] = receipts[att[p].id]
    BY <1>3, PruneStep
  <2>3. Receipt(p, att'[p], "completed") = Receipt(p, att[p], "completed")
    BY <2>1 DEF Receipt
  <2> QED  BY <2>1, <2>2, <2>3
<1> QED  BY <1>1, <1>2, <1>3 DEF ReceiptStep

-----------------------------------------------------------------------------
(* The receipts *)

\* What is written can be read back, and only a verdict replaces or prunes.
LEMMA ReceiptNext ==
  ASSUME RecordsOK, PlansOK, ReceiptInv, NEW p \in Supervisor, CheckOf(p), VerdictOf(p),
         ReceiptStep(p)
  PROVE  ReceiptInv'
<1> USE DEF Start, Trying, Concluded
<1>1. CASE WriteActive(p)
  <2>1. ASSUME NEW id, id \notin DOMAIN begun, ActiveWritten(p, id), att[p].pc = "acquired"
        PROVE  ReceiptInv'
    <3> DEFINE r == Receipt(p, att[p], "active")
               b == [by |-> p, earned |-> FALSE, terminal |-> FALSE]
    <3>1. /\ recordedVerdict(r) /\ r.owner = p /\ r.status # "passed" /\ r.state = "active"
          /\ ~b.terminal /\ DOMAIN b = {"by", "earned", "terminal"}
      BY <2>1 DEF VerdictOf, recordedVerdict, Receipt
    <3>2. /\ DOMAIN receipts' = DOMAIN receipts \cup {id} /\ receipts'[id] = r
          /\ \A x \in DOMAIN receipts \ {id} : receipts'[x] = receipts[x]
          /\ DOMAIN begun' = DOMAIN begun \cup {id} /\ begun'[id] = b
          /\ \A x \in DOMAIN begun \ {id} : begun'[x] = begun[x]
      BY <2>1 DEF ActiveWritten, WriteReceipt
    <3>3. id \notin DOMAIN receipts
      BY <2>1 DEF ReceiptInv
    <3> HIDE DEF r, b
    <3> QED  BY <2>1, <3>1, <3>2, <3>3 DEF ReceiptInv, recordedVerdict
  <2>2. CASE UNCHANGED <<receipts, begun>>
    BY <2>2 DEF ReceiptInv, recordedVerdict
  <2> QED  BY <1>1, <2>1, <2>2, WriteActiveStep
<1>2. CASE Conclude(p)
  <2>1. /\ att[p].pc = "ending" /\ att'[p].id = att[p].id
        /\ att[p].id \in DOMAIN begun
        /\ <<att'[p].status, att'[p].exit>> \in
             {<<"passed", 0>>, <<"failed", 1>>, <<"interrupted", 130>>}
    BY <1>2, ConcludeStep DEF VerdictOf
  <2>2. CASE TerminalWritten(p)
    <3> DEFINE r == Receipt(p, att'[p], "completed")
               id == att[p].id
    <3>1. recordedVerdict(r) /\ r.owner = p
      BY <2>1 DEF recordedVerdict, Receipt
    <3>2. /\ DOMAIN receipts' = DOMAIN receipts \cup {id} /\ receipts'[id] = r
          /\ \A x \in DOMAIN receipts \ {id} : receipts'[x] = receipts[x]
      BY <2>2 DEF TerminalWritten, WriteReceipt
    <3>3. /\ DOMAIN begun' = DOMAIN begun /\ begun'[id].terminal
          /\ \A x \in DOMAIN begun \ {id} : begun'[x] = begun[x]
          /\ DOMAIN begun'[id] = {"by", "earned", "terminal"}
      BY <2>1, <2>2, Terminated
    <3>4. r.status = "passed" => begun'[id].earned
      BY <2>1, <2>2, Terminated DEF CheckOf, CheckIs, TerminalWritten, Receipt
    <3> HIDE DEF r, id
    <3> QED  BY <2>1, <3>1, <3>2, <3>3, <3>4 DEF ReceiptInv, recordedVerdict, id
  <2>3. CASE UNCHANGED <<receipts, begun>>
    BY <2>3 DEF ReceiptInv, recordedVerdict
  <2> QED  BY <1>2, <2>2, <2>3, ConcludeStep
<1>3. CASE Prune(p)
  <2>1. \A id \in DOMAIN receipts : receipts[id].state # "completed" => id \in DOMAIN receipts'
    BY <1>3, PruneStep
  <2>2. /\ DOMAIN receipts' \subseteq DOMAIN receipts /\ begun' = begun
        /\ \A id \in DOMAIN receipts' : receipts'[id] = receipts[id]
    BY <1>3, PruneStep
  <2> QED  BY <2>1, <2>2 DEF ReceiptInv, recordedVerdict
<1> QED  BY <1>1, <1>2, <1>3 DEF ReceiptStep

-----------------------------------------------------------------------------
(* The others *)

\* One supervisor at a time is granted the session.
LEMMA OneGrant ==
  ASSUME LeaseInv, NEW p \in Supervisor, NEW q \in Supervisor,
         plan[p].at = "held", plan[q].at = "held"
  PROVE  p = q
  BY HeldHasInstance, InstanceIsLabel

\* A verdict is not disturbed by another supervisor: ids are not given twice,
\* and nobody prunes while somebody else holds the session.
LEMMA OtherVerdicts ==
  ASSUME RecordsOK, PlansOK, LeaseInv, SupervisorInv, ReceiptInv,
         NEW p \in Supervisor, NEW q \in Supervisor \ {p},
         att'[q] = att[q], ReceiptStep(p)
  PROVE  VerdictOf(q)'
<1> USE DEF SupervisorInv, VerdictOf, Start, Trying, Concluded
<1>0. /\ VerdictOf(p) /\ VerdictOf(q) /\ StageOf(p) /\ StageOf(q)
  OBVIOUS
<1>1. CASE WriteActive(p)
  <2>1. ASSUME NEW id, id \notin DOMAIN begun, ActiveWritten(p, id)
        PROVE  VerdictOf(q)'
    <3>1. /\ \A x \in DOMAIN begun : x \in DOMAIN begun' /\ begun'[x] = begun[x]
          /\ \A x \in DOMAIN receipts \cap DOMAIN begun :
               x \in DOMAIN receipts' /\ receipts'[x] = receipts[x]
      BY <2>1 DEF ActiveWritten, WriteReceipt
    <3> QED  BY <1>0, <3>1
  <2>2. CASE UNCHANGED <<receipts, begun>>
    BY <1>0, <2>2
  <2> QED  BY <1>1, <2>1, <2>2, WriteActiveStep
<1>2. CASE Conclude(p)
  <2>1. att[p].id \in DOMAIN begun /\ begun[att[p].id].by = p
    BY <1>0, <1>2, ConcludeStep
  <2>2. CASE TerminalWritten(p)
    <3>1. DOMAIN begun' = DOMAIN begun /\ \A x \in DOMAIN begun \ {att[p].id} : begun'[x] = begun[x]
      BY <2>1, <2>2, Terminated
    <3>2. \A x \in DOMAIN receipts \ {att[p].id} :
            x \in DOMAIN receipts' /\ receipts'[x] = receipts[x]
      BY <2>2 DEF TerminalWritten, WriteReceipt
    <3> QED  BY <1>0, <2>1, <3>1, <3>2
  <2>3. CASE UNCHANGED <<receipts, begun>>
    BY <1>0, <2>3
  <2> QED  BY <1>2, <2>2, <2>3, ConcludeStep
<1>3. CASE Prune(p)
  <2>1. att[p].pc = "prune" /\ begun' = begun
    BY <1>3, PruneStep
  <2>2. att[q].pc \notin Working
    BY <1>0, <2>1, OneGrant DEF StageOf, Working
  <2> QED  BY <1>0, <2>1, <2>2 DEF Working
<1> QED  BY <1>1, <1>2, <1>3 DEF ReceiptStep

\* A step of p: its own invariants, and what it leaves the others.
LEMMA SupervisorStep ==
  ASSUME SupervisorInv, LeaseInv, NEW p \in Supervisor,
         Others(p), LeasesKept(p), session' = session,
         StageOf(p)', RunnerOf(p)', CheckOf(p)', VerdictOf(p)',
         \A q \in Supervisor \ {p} : VerdictOf(q)'
  PROVE  SupervisorInv'
<1>1. ASSUME NEW q \in Supervisor \ {p}
      PROVE  StageOf(q)' /\ RunnerOf(q)' /\ CheckOf(q)'
  <2>1. /\ att'[q] = att[q] /\ stack'[q] = stack[q] /\ plan'[q] = plan[q]
        /\ Instance(q)' = Instance(q) /\ Instance(q) \in Label
    BY <1>1, InstanceIsLabel DEF Others
  <2>2. lease[Instance(q)] = q => lease'[Instance(q)] = q
    BY <1>1, <2>1 DEF LeasesKept
  <2>3. StageOf(q)'
    BY <1>1, <2>1 DEF SupervisorInv, StageOf, Gone
  <2>4. RunnerOf(q)'
    BY <1>1, <2>1, <2>2 DEF SupervisorInv, RunnerOf, Live
  <2>5. CheckOf(q)'
    BY <1>1, <2>1 DEF SupervisorInv, CheckOf
  <2> QED  BY <2>3, <2>4, <2>5
<1> QED  BY <1>1 DEF SupervisorInv

\* The attempt of a supervisor that acquires or closes waits.
LEMMA AcquireOwn ==
  ASSUME LeaseInv, PlansOK, NEW p \in Supervisor, StageOf(p), RunnerOf(p),
         AcquireStep(p), UNCHANGED attemptVars
  PROVE  StageOf(p)' /\ RunnerOf(p)'
<1>1. /\ session' = session /\ Instance(p)' = Instance(p) /\ Instance(p) \in Label
      /\ att' = att /\ stack' = stack
  BY AcquireMoves, InstanceIsLabel DEF attemptVars
<1>2. Nobody \notin Supervisor /\ plan[p].at = "acquiring" => Instance(p) \in plan[p].leases
  BY SessionAssumption, HeldHasInstance DEF Nobody
<1>3. ASSUME NEW x, Takes(p, x) PROVE StageOf(p)' /\ RunnerOf(p)'
  <2>1. ~Live(p)
    BY <1>2, <1>3, SessionAssumption DEF Takes, RunnerOf, Nobody
  <2> QED  BY <1>1, <1>3, <2>1 DEF Takes, StageOf, RunnerOf, Gone, Live, Working, Trying
<1>4. CASE Stays(p)
  BY <1>1, <1>4 DEF Stays, StageOf, RunnerOf, Gone, Live, Working, Trying
<1>5. CASE Frees(p)
  BY <1>1, <1>5 DEF Frees, StageOf, RunnerOf, Gone, Live, Working, Trying
<1> QED  BY <1>3, <1>4, <1>5, AcquireMoves

\* Only a supervisor that is there acts.
LEMMA GoneStays ==
  ASSUME PlansOK, NEW p \in Supervisor, Gone(p)
  PROVE  ~AcquireStep(p) /\ ~PlanStep(p) /\ ~ReceiptStep(p)
<1>1. ~AcquireStep(p)
  BY AcquireMoves DEF Takes, Stays, Frees, Gone
<1>2. ~PlanStep(p)
  BY DEF PlanStep, Run, ResolveCrashedRun, StartRunner, Release, Again, Exit, Killed, At
<1>3. ~ReceiptStep(p)
  BY DEF ReceiptStep, WriteActive, Conclude, Prune, At
<1> QED  BY <1>1, <1>2, <1>3

\* The attempts command asks for the lease of an owner that it has seen gone.
LEMMA LookNext ==
  ASSUME LookInv, ReceiptInv, LookStep, plan' = plan
  PROVE  LookInv'
<1> USE DEF LookInv, Gone
<1>1. CASE LoadAttempt
  BY <1>1 DEF LoadAttempt, ListReceipts, ReceiptInv
<1>2. CASE OwnerAlive
  BY <1>2 DEF OwnerAlive, Looking
<1>3. CASE LeaseHeld
  BY <1>3 DEF LeaseHeld, Looking
<1>4. CASE LookEnds
  BY <1>4 DEF LookEnds, Looking
<1> QED  BY <1>1, <1>2, <1>3, <1>4 DEF LookStep

\* It is left alone by the supervisors.
LEMMA LookKept ==
  ASSUME LookInv, PlansOK, NEW p \in Supervisor, look' = look,
         \A q \in Supervisor \ {p} : plan'[q] = plan[q],
         plan'[p] = plan[p] \/ ~Gone(p)
  PROVE  LookInv'
  BY DEF LookInv, Gone

-----------------------------------------------------------------------------
(* Theorems *)

\* The invariant holds when supervisors are about to make their attempts.
LEMMA InitIndInv ==
  ASSUME NEW confs, VerifyInit(confs)
  PROVE  IndInv
<1> USE DEF VerifyInit, SessionInit, AttemptInit
<1>1. RecordsOK
  BY DEF RecordsOK
<1>2. LeaseInv
  BY DEF LeaseInv, LeaseOf, EmptyPlan
<1>3. ASSUME NEW p \in Supervisor
      PROVE  StageOf(p) /\ RunnerOf(p) /\ CheckOf(p) /\ VerdictOf(p)
  <2>1. plan[p] = EmptyPlan /\ att[p] = Idle /\ stack[p] = NoStack
    BY <1>3
  <2>2. StageOf(p) /\ RunnerOf(p)
    BY <2>1 DEF EmptyPlan, Idle, NoStack, StageOf, RunnerOf, Gone, Live, Working, Trying
  <2>3. CheckOf(p)
    BY <2>1 DEF Idle, NoStack, CheckOf, CheckIs
  <2>4. VerdictOf(p)
    BY <2>1 DEF Idle, VerdictOf, Trying, Concluded
  <2> QED  BY <2>2, <2>3, <2>4
<1>4. ReceiptInv
  BY DEF ReceiptInv
<1>5. LookInv
  BY DEF LookInv, Looking
<1> QED  BY <1>1, <1>2, <1>3, <1>4, <1>5 DEF IndInv, SupervisorInv

\* Every step preserves it.
LEMMA NextIndInv ==
  ASSUME IndInv, [VerifyNext]_verifyVars
  PROVE  IndInv'
<1>1. /\ RecordsOK /\ LeaseInv /\ SupervisorInv /\ ReceiptInv /\ LookInv
      /\ DOMAIN plan = Supervisor /\ PlansOK
  BY DEF IndInv, LeaseInv, LeaseOf, PlansOK
<1>2. ASSUME NEW p \in Supervisor, AcquireStep(p), UNCHANGED attemptVars PROVE IndInv'
  <2>1. UNCHANGED <<att, stack, receipts, begun, look>>
    BY <1>2 DEF attemptVars
  <2>2. PlanOnly(p) /\ session' = session
    BY <1>1, <1>2, AcquireMoves
  <2>3. RecordsOK' /\ ReceiptInv'
    BY <1>1, <2>1 DEF RecordsOK, ReceiptInv, recordedVerdict
  <2>4. LeaseInv' /\ LeasesKept(p)
    BY <1>1, <1>2, AcquireLeases
  <2>5. StageOf(p)' /\ RunnerOf(p)'
    BY <1>1, <1>2, AcquireOwn DEF SupervisorInv
  <2>6. CheckOf(p)' /\ \A q \in Supervisor : VerdictOf(q)'
    BY <1>1, <2>1 DEF SupervisorInv, CheckOf, VerdictOf
  <2>7. SupervisorInv'
    BY <1>1, <2>1, <2>2, <2>4, <2>5, <2>6, SupervisorStep DEF Others, PlanOnly
  <2>8. LookInv'
    BY <1>1, <1>2, <2>1, <2>2, GoneStays, LookKept DEF PlanOnly
  <2> QED  BY <2>3, <2>4, <2>7, <2>8 DEF IndInv
<1>3. ASSUME NEW p \in Supervisor, AttemptOnly(p) \/ StackStep(p) PROVE IndInv'
  <2>1. RecordsOK' /\ Others(p) /\ UNCHANGED <<sessionVars, receipts, begun, look>>
    BY <1>1, <1>3, AttemptFrame, StackFrame
  <2>2. UNCHANGED <<session, plan, lease>>
    BY <2>1 DEF sessionVars
  <2>3. LeaseInv' /\ LeasesKept(p) /\ ReceiptInv'
    BY <1>1, <2>1, <2>2 DEF LeaseInv, LeaseOf, Instance, LeasesKept, ReceiptInv, recordedVerdict
  <2>4. StageOf(p)' /\ RunnerOf(p)' /\ CheckOf(p)' /\ VerdictOf(p)'
    BY <1>1, <1>3, AttemptStage, AttemptRunner, AttemptCheck, AttemptVerdict,
       StackStage, StackRunner, StackCheck, StackVerdict DEF SupervisorInv
  <2>5. \A q \in Supervisor \ {p} : VerdictOf(q)'
    BY <1>1, <2>1 DEF SupervisorInv, VerdictOf, Others
  <2>6. SupervisorInv'
    BY <1>1, <2>1, <2>2, <2>3, <2>4, <2>5, SupervisorStep
  <2>7. LookInv'
    BY <1>1, <2>1, <2>2 DEF LookInv, Gone
  <2> QED  BY <2>1, <2>3, <2>6, <2>7 DEF IndInv
<1>4. ASSUME NEW p \in Supervisor, PlanStep(p) PROVE IndInv'
  <2>1. RecordsOK' /\ Others(p) /\ UNCHANGED <<session, receipts, begun, look>>
    BY <1>1, <1>4, PlanFrame
  <2>2. LeaseInv' /\ LeasesKept(p)
    BY <1>1, <1>4, <2>1, PlanMoves, AttemptLeases DEF Others
  <2>3. StageOf(p)' /\ RunnerOf(p)' /\ CheckOf(p)' /\ VerdictOf(p)'
    BY <1>1, <1>4, PlanStage, PlanRunner, PlanCheck, PlanVerdict DEF SupervisorInv
  <2>4. \A q \in Supervisor \ {p} : VerdictOf(q)'
    BY <1>1, <2>1 DEF SupervisorInv, VerdictOf, Others
  <2>5. SupervisorInv'
    BY <1>1, <2>1, <2>2, <2>3, <2>4, SupervisorStep
  <2>6. LookInv' /\ ReceiptInv'
    BY <1>1, <1>4, <2>1, GoneStays, LookKept DEF Others, ReceiptInv, recordedVerdict
  <2> QED  BY <2>1, <2>2, <2>5, <2>6 DEF IndInv
<1>5. ASSUME NEW p \in Supervisor, ReceiptStep(p) PROVE IndInv'
  <2>1. RecordsOK' /\ Others(p) /\ UNCHANGED <<session, lease, look>>
    BY <1>1, <1>5, ReceiptFrame
  <2>2. LeaseInv' /\ LeasesKept(p)
    BY <1>1, <1>5, <2>1, ReceiptMoves, AttemptLeases DEF Others
  <2>3. StageOf(p)' /\ RunnerOf(p)' /\ CheckOf(p)' /\ VerdictOf(p)'
    BY <1>1, <1>5, ReceiptStage, ReceiptRunner, ReceiptCheck, ReceiptVerdict DEF SupervisorInv
  <2>4. \A q \in Supervisor \ {p} : VerdictOf(q)'
    BY <1>1, <1>5, <2>1, OtherVerdicts DEF Others
  <2>5. SupervisorInv'
    BY <1>1, <2>1, <2>2, <2>3, <2>4, SupervisorStep
  <2>6. LookInv' /\ ReceiptInv'
    BY <1>1, <1>5, <2>1, GoneStays, LookKept, ReceiptNext DEF Others, SupervisorInv
  <2> QED  BY <2>1, <2>2, <2>5, <2>6 DEF IndInv
<1>6. CASE LookStep
  <2>1. /\ LeaseInv' /\ UNCHANGED <<plan, session, att, stack, receipts, begun>>
        /\ \A q \in Supervisor, x \in Label : lease[x] = q => lease'[x] = q
    BY <1>1, <1>6, LookLeases
  <2>2. RecordsOK' /\ ReceiptInv' /\ LookInv'
    BY <1>1, <1>6, <2>1, LookNext DEF RecordsOK, ReceiptInv, recordedVerdict
  <2>3. ASSUME NEW q \in Supervisor PROVE RunnerOf(q)'
    <3>1. Instance(q)' = Instance(q) /\ Instance(q) \in Label /\ RunnerOf(q)
      BY <1>1, <2>1, InstanceIsLabel DEF SupervisorInv
    <3> QED  BY <2>1, <2>3, <3>1 DEF RunnerOf, Live
  <2>4. SupervisorInv'
    BY <1>1, <2>1, <2>3 DEF SupervisorInv, StageOf, CheckOf, VerdictOf, Gone
  <2> QED  BY <2>1, <2>2, <2>4 DEF IndInv
<1>7. CASE UNCHANGED verifyVars
  <2>1. UNCHANGED <<session, plan, lease, att, stack, receipts, begun, look>>
    BY <1>7 DEF verifyVars, sessionVars, attemptVars
  <2>2. RecordsOK' /\ ReceiptInv' /\ LookInv'
    BY <1>1, <2>1 DEF RecordsOK, ReceiptInv, recordedVerdict, LookInv, Gone
  <2>3. LeaseInv'
    BY <1>1, <2>1 DEF LeaseInv, LeaseOf, Instance
  <2>4. SupervisorInv'
    BY <1>1, <2>1 DEF SupervisorInv, StageOf, RunnerOf, CheckOf, VerdictOf, Gone, Live, Instance
  <2> QED  BY <2>2, <2>3, <2>4 DEF IndInv
<1> QED  BY <1>2, <1>3, <1>4, <1>5, <1>6, <1>7, Kinds

\* The invariant holds throughout, whatever the configurations and however
\* many attempts are made.
THEOREM Inductive ==
  ASSUME NEW confs
  PROVE  VerifySpec(confs) => []IndInv
<1>1. VerifyInit(confs) => IndInv
  BY InitIndInv
<1>2. IndInv /\ [VerifyNext]_verifyVars => IndInv'
  BY NextIndInv
<1> QED  BY <1>1, <1>2, PTL DEF VerifySpec

\* OneOwner: a runner that may still signal belongs to the supervisor that
\* holds the session, also after a cleanup that timed out and under the next
\* attempt of the same process, so no two runners work on one session.
THEOREM RunnersHoldTheSession ==
  ASSUME NEW confs
  PROVE  VerifySpec(confs) => []OneOwner
<1>1. IndInv => OneOwner
  BY DEF IndInv, SupervisorInv, RunnerOf, OneOwner, Instance
<1> QED  BY <1>1, Inductive, PTL

\* PassedIsEarned: who is told passed has a clean check of one and the same
\* service behind it, a runner that returned with every process gone, and a
\* verdict on disk.
THEOREM VerdictsAreEarned ==
  ASSUME NEW confs
  PROVE  VerifySpec(confs) => []PassedIsEarned
<1>1. IndInv => PassedIsEarned
  BY DEF IndInv, SupervisorInv, VerdictOf, Concluded, ReceiptInv, PassedIsEarned
<1> QED  BY <1>1, Inductive, PTL

\* ReceiptsHonest: no receipt is passed over by its readers, an attempt without
\* a verdict keeps its active receipt whatever is pruned, and a verdict stays
\* on disk as answered while the session is held.
THEOREM ReceiptsTellTheTruth ==
  ASSUME NEW confs
  PROVE  VerifySpec(confs) => []ReceiptsHonest
<1>1. ASSUME IndInv PROVE ReceiptsHonest
  <2>1. ListReceipts = DOMAIN receipts
    BY <1>1 DEF IndInv, ReceiptInv, ListReceipts, ReadReceipt
  <2>2. \A id \in DOMAIN begun : ~begun[id].terminal =>
          id \in DOMAIN receipts /\ receipts[id].state = "active"
    BY <1>1 DEF IndInv, ReceiptInv
  <2>3. ASSUME NEW p \in Supervisor, At(p, "release"), att[p].persisted
        PROVE  /\ att[p].id \in DOMAIN receipts
               /\ receipts[att[p].id] = Receipt(p, att[p], "completed")
    BY <1>1, <2>3 DEF IndInv, SupervisorInv, VerdictOf, At
  <2> QED  BY <2>1, <2>2, <2>3 DEF ReceiptsHonest
<1> QED  BY <1>1, Inductive, PTL

-----------------------------------------------------------------------------
(* Comparison: the inductive invariant                                     *)

Made == {[run |-> r, result |-> ResultOf(r)] : r \in Runs}

Count(side) == Len(made[side])
Done        == Count("baseline") + Count("candidate")

\* A run that ends the comparison early.
Stops(run) == Interrupts(run) \/ run.refused
Stopped    == \E side \in Sides : \E i \in DOMAIN made[side] : Stops(made[side][i].run)

MadeOK == made \in [Sides -> Seq(Made)] /\ left \in Nat

\* The sides take turns: with an even number of attempts they have made as
\* many, and otherwise the one that is not due is one ahead.
TurnInv ==
  IF Done % 2 = 0 THEN Count("baseline") = Count("candidate")
  ELSE IF Turn = "baseline" THEN Count("candidate") = Count("baseline") + 1
  ELSE Count("baseline") = Count("candidate") + 1

\* Unless a run ended it, all attempts are made.
CountInv == Stopped \/ \E n \in Repeats : left + Done = 2 * n

\* The verdict is drawn once, from all that was made.
VerdictInv == verdict = Pending \/ (left = 0 /\ verdict = Judgement)

ComparisonInv == MadeOK /\ TurnInv /\ CountInv /\ VerdictInv

-----------------------------------------------------------------------------
(* What a result says of the run                                           *)

Cut(run) == run.large \/ Len(Recorded(run.stdout)) > Cap \/ Len(Recorded(run.stderr)) > Cap

\* All of a sequence is the sequence.
LEMMA WholeSequence ==
  ASSUME NEW S, NEW s \in Seq(S)
  PROVE  SubSeq(s, 1, Len(s)) = s
OBVIOUS

\* What is recorded of a stream is a stream.
LEMMA RecordedIsStream ==
  ASSUME NEW s \in Seq(Nat)
  PROVE  Recorded(s) \in Seq(Nat)
<1> DEFINE lines == [i \in DOMAIN s |-> IF s[i] = ReturnNewline THEN Newline ELSE s[i]]
<1>1. DOMAIN s = 1 .. Len(s) /\ Len(s) \in Nat /\ \A i \in DOMAIN s : s[i] \in Nat
  OBVIOUS
<1>2. Newline \in Nat
  BY DEF Newline
<1>3. lines \in Seq(Nat)
  BY <1>1, <1>2
<1> HIDE DEF lines
<1>4. Append(lines, Newline) \in Seq(Nat)
  BY <1>2, <1>3
<1> QED
  BY <1>3, <1>4 DEF Recorded, lines

\* A result has the verdict of the run, and what was kept of its output.
LEMMA ResultFields ==
  ASSUME NEW r
  PROVE  LET e == ResultOf(r)
         IN /\ e.status = AttemptStatus(r) /\ e.check = CheckStatus(r) /\ e.code = r.code
            /\ e.stdout = IF r.large THEN <<>> ELSE Captured(r.stdout)
            /\ e.stderr = IF r.large THEN <<>> ELSE Captured(r.stderr)
            /\ e.truncated = Cut(r)
            /\ e["status"] = e.status /\ e["check"] = e.check /\ e["code"] = e.code
            /\ e["stdout"] = e.stdout /\ e["stderr"] = e.stderr
BY DEF ResultOf, Cut

\* A result that was not cut is the outcome.
LEMMA UncutIsWhole ==
  ASSUME NEW r \in Runs, ~Cut(r)
  PROVE  Key(ResultOf(r)) = Outcome(r)
<1>1. r.stdout \in Seq(Nat) /\ r.stderr \in Seq(Nat) /\ r.large \in BOOLEAN /\ Cap \in Nat
  BY CompareAssumption
<1>2. ASSUME NEW s \in Seq(Nat), ~(Len(Recorded(s)) > Cap) PROVE Captured(s) = Recorded(s)
  <2>1. Recorded(s) \in Seq(Nat)
    BY RecordedIsStream
  <2>2. (IF Len(Recorded(s)) < Cap THEN Len(Recorded(s)) ELSE Cap) = Len(Recorded(s))
    BY <1>1, <1>2, <2>1
  <2> QED
    BY <2>1, <2>2, WholeSequence DEF Captured
<1>3. /\ Captured(r.stdout) = Recorded(r.stdout) /\ Captured(r.stderr) = Recorded(r.stderr)
      /\ ~r.large
  BY <1>1, <1>2 DEF Cut
<1> QED
  BY <1>3, ResultFields DEF Key, Outcome

\* Captures that prove a difference are of streams recorded differently: one
\* record has one capture, and what the size limit emptied proves nothing.
LEMMA StreamsDiffer ==
  ASSUME NEW x, NEW y, x.large \in BOOLEAN, y.large \in BOOLEAN,
         NEW s \in Seq(Nat), NEW t, Recorded(s) = Recorded(t),
         captureDiffers(IF x.large THEN <<>> ELSE Captured(s),
                        IF y.large THEN <<>> ELSE Captured(t), Cut(x) \/ Cut(y))
  PROVE  FALSE
<1>1. Captured(s) \in Seq(Nat) /\ Len(Captured(s)) \in Nat
  BY RecordedIsStream, CompareAssumption DEF Captured
<1>2. Captured(t) = Captured(s)
  BY DEF Captured
<1>3. CASE x.large <=> y.large
  BY <1>2, <1>3 DEF captureDiffers
<1>4. CASE ~(x.large <=> y.large)
  <2>1. Cut(x) \/ Cut(y)
    BY <1>4 DEF Cut
  <2>2. SubSeq(<<>>, 1, 0) = SubSeq(Captured(s), 1, 0) /\ Len(<<>>) = 0
    BY <1>1
  <2> QED
    BY <1>1, <1>2, <1>4, <2>1, <2>2 DEF captureDiffers
<1> QED
  BY <1>3, <1>4

\* A field of two results that provably differs differed between the runs.
LEMMA ProvenIsReal ==
  ASSUME NEW x \in Runs, NEW y \in Runs
  PROVE  /\ FieldDiffers("status", ResultOf(x), ResultOf(y)) => AttemptStatus(x) # AttemptStatus(y)
         /\ FieldDiffers("check", ResultOf(x), ResultOf(y)) => CheckStatus(x) # CheckStatus(y)
         /\ FieldDiffers("code", ResultOf(x), ResultOf(y)) => x.code # y.code
         /\ FieldDiffers("stdout", ResultOf(x), ResultOf(y)) =>
              Recorded(x.stdout) # Recorded(y.stdout)
         /\ FieldDiffers("stderr", ResultOf(x), ResultOf(y)) =>
              Recorded(x.stderr) # Recorded(y.stderr)
<1>1. /\ {x.stdout, x.stderr} \subseteq Seq(Nat) /\ x.large \in BOOLEAN
      /\ {y.stdout, y.stderr} \subseteq Seq(Nat) /\ y.large \in BOOLEAN
  BY CompareAssumption
<1>2. /\ FieldDiffers("status", ResultOf(x), ResultOf(y)) => AttemptStatus(x) # AttemptStatus(y)
      /\ FieldDiffers("check", ResultOf(x), ResultOf(y)) => CheckStatus(x) # CheckStatus(y)
      /\ FieldDiffers("code", ResultOf(x), ResultOf(y)) => x.code # y.code
  BY ResultFields DEF FieldDiffers
<1>3. ASSUME FieldDiffers("stdout", ResultOf(x), ResultOf(y)),
             Recorded(x.stdout) = Recorded(y.stdout)
      PROVE  FALSE
  <2>1. captureDiffers(IF x.large THEN <<>> ELSE Captured(x.stdout),
                       IF y.large THEN <<>> ELSE Captured(y.stdout), Cut(x) \/ Cut(y))
    BY <1>3, ResultFields DEF FieldDiffers
  <2> QED
    BY <1>1, <1>3, <2>1, StreamsDiffer
<1>4. ASSUME FieldDiffers("stderr", ResultOf(x), ResultOf(y)),
             Recorded(x.stderr) = Recorded(y.stderr)
      PROVE  FALSE
  <2>1. captureDiffers(IF x.large THEN <<>> ELSE Captured(x.stderr),
                       IF y.large THEN <<>> ELSE Captured(y.stderr), Cut(x) \/ Cut(y))
    BY <1>4, ResultFields DEF FieldDiffers
  <2> QED
    BY <1>1, <1>4, <2>1, StreamsDiffer
<1> QED
  BY <1>2, <1>3, <1>4

-----------------------------------------------------------------------------
(* The judgement                                                           *)

\* The runs of a side and its results.
LEMMA RunsAndResults ==
  ASSUME MadeOK, NEW side \in Sides
  PROVE  /\ Happened(side) \subseteq Runs
         /\ Results(side) = {ResultOf(r) : r \in Happened(side)}
         /\ Happened(side) = {} <=> made[side] = <<>>
         /\ \A i \in DOMAIN made[side] : /\ made[side][i].run \in Happened(side)
                                         /\ made[side][i].result = ResultOf(made[side][i].run)
<1>1. made[side] \in Seq(Made)
  BY DEF MadeOK
<1>2. ASSUME NEW i \in DOMAIN made[side]
      PROVE  /\ made[side][i].run \in Runs
             /\ made[side][i].result = ResultOf(made[side][i].run)
  <2>1. made[side][i] \in Made
    BY <1>1, <1>2
  <2> QED
    BY <2>1 DEF Made
<1>3. Happened(side) = {} <=> made[side] = <<>>
  <2>1. made[side] = <<>> <=> DOMAIN made[side] = {}
    <3>1. DOMAIN made[side] = 1 .. Len(made[side]) /\ Len(made[side]) \in Nat
      BY <1>1
    <3>2. made[side] # <<>> => Len(made[side]) >= 1
      BY <1>1
    <3>3. made[side] = <<>> => Len(made[side]) = 0
      OBVIOUS
    <3> QED
      BY <3>1, <3>2, <3>3
  <2>2. ASSUME NEW i \in DOMAIN made[side] PROVE Happened(side) # {}
    BY <2>2 DEF Happened
  <2>3. ASSUME NEW r \in Happened(side) PROVE DOMAIN made[side] # {}
    BY <2>3 DEF Happened
  <2> QED
    BY <2>1, <2>2, <2>3
<1> QED
  BY <1>2, <1>3 DEF Happened, Results

B == Happened("baseline")
K == Happened("candidate")

\* A field that differs between every two results differs between every two
\* runs.
LEMMA ProvenHolds ==
  ASSUME MadeOK, provenDifference
  PROVE  \E i \in 1 .. 5 : \A x \in B, y \in K : Outcome(x)[i] # Outcome(y)[i]
<1>1. PICK field \in {"status", "check", "code", "stdout", "stderr"} :
        \A b \in Results("baseline"), k \in Results("candidate") : FieldDiffers(field, b, k)
  BY DEF provenDifference
<1>2. /\ B \subseteq Runs /\ K \subseteq Runs
      /\ \A x \in B, y \in K : FieldDiffers(field, ResultOf(x), ResultOf(y))
  BY <1>1, RunsAndResults DEF B, K, Sides
<1>3. \A r : /\ Outcome(r)[1] = AttemptStatus(r) /\ Outcome(r)[2] = CheckStatus(r)
             /\ Outcome(r)[3] = r.code
             /\ Outcome(r)[4] = Recorded(r.stdout) /\ Outcome(r)[5] = Recorded(r.stderr)
  BY DEF Outcome
<1>4. CASE field = "status"
  <2>1. \A x \in B, y \in K : Outcome(x)[1] # Outcome(y)[1]
    BY <1>2, <1>3, <1>4, ProvenIsReal
  <2> QED  BY <2>1
<1>5. CASE field = "check"
  <2>1. \A x \in B, y \in K : Outcome(x)[2] # Outcome(y)[2]
    BY <1>2, <1>3, <1>5, ProvenIsReal
  <2> QED  BY <2>1
<1>6. CASE field = "code"
  <2>1. \A x \in B, y \in K : Outcome(x)[3] # Outcome(y)[3]
    BY <1>2, <1>3, <1>6, ProvenIsReal
  <2> QED  BY <2>1
<1>7. CASE field = "stdout"
  <2>1. \A x \in B, y \in K : Outcome(x)[4] # Outcome(y)[4]
    BY <1>2, <1>3, <1>7, ProvenIsReal
  <2> QED  BY <2>1
<1>8. CASE field = "stderr"
  <2>1. \A x \in B, y \in K : Outcome(x)[5] # Outcome(y)[5]
    BY <1>2, <1>3, <1>8, ProvenIsReal
  <2> QED  BY <2>1
<1> QED
  BY <1>1, <1>4, <1>5, <1>6, <1>7, <1>8

\* Where nothing was cut and the sides agree with themselves, the runs of a
\* side have one outcome.
LEMMA OneOutcome ==
  ASSUME MadeOK, NEW side \in Sides, Consistent(side), \A r \in Happened(side) : ~Cut(r)
  PROVE  \A x \in Happened(side) : Outcome(x) = Key(made[side][1].result)
<1>1. SUFFICES ASSUME NEW x \in Happened(side) PROVE Outcome(x) = Key(made[side][1].result)
  OBVIOUS
<1>2. PICK i \in DOMAIN made[side] : x = made[side][i].run
  BY DEF Happened
<1>3. Key(made[side][i].result) = Key(made[side][1].result)
  BY <1>2 DEF Consistent
<1>4. made[side][i].result = ResultOf(x) /\ x \in Runs
  BY <1>2, RunsAndResults
<1> QED
  BY <1>3, <1>4, UncutIsWhole

\* judge, of sides that made as many attempts.
LEMMA JudgeHolds ==
  ASSUME MadeOK, made["baseline"] # <<>>, Count("baseline") = Count("candidate")
  PROVE  /\ judge = "false" => \E i \in 1 .. 5 : \A x \in B, y \in K : Outcome(x)[i] # Outcome(y)[i]
         /\ judge = "true" => \A x, y \in B \cup K : Outcome(x) = Outcome(y)
         /\ judge = "null" => \/ \E x \in B \cup K : Cut(x)
                              \/ \E side \in Sides : \E x, y \in Happened(side) :
                                   Outcome(x) # Outcome(y)
<1> DEFINE truncated == \E side \in Sides : \E r \in Results(side) : r.truncated
           b == Key(made["baseline"][1].result)
           k == Key(made["candidate"][1].result)
<1>1. /\ made["baseline"] \in Seq(Made) /\ made["candidate"] \in Seq(Made)
      /\ Sides = {"baseline", "candidate"}
  BY DEF MadeOK, Sides
<1>2. /\ DOMAIN made["baseline"] = DOMAIN made["candidate"] /\ 1 \in DOMAIN made["baseline"]
  BY <1>1 DEF Count
<1>3. truncated <=> \E x \in B \cup K : Cut(x)
  <2>1. /\ Results("baseline") = {ResultOf(r) : r \in B}
        /\ Results("candidate") = {ResultOf(r) : r \in K}
    BY <1>1, RunsAndResults DEF B, K
  <2>2. truncated <=> \E r \in Results("baseline") \cup Results("candidate") : r.truncated
    BY <1>1
  <2>3. \A r : ResultOf(r).truncated = Cut(r)
    BY ResultFields
  <2> HIDE DEF truncated
  <2> QED
    BY <2>1, <2>2, <2>3
<1>4. judge = IF provenDifference THEN "false"
              ELSE IF truncated \/ \E side \in Sides : ~Consistent(side) THEN "null"
              ELSE IF Differences THEN "false" ELSE "true"
  BY DEF judge
<1> HIDE DEF truncated
<1>5. CASE provenDifference
  BY <1>4, <1>5, ProvenHolds
<1>6. CASE ~provenDifference /\ truncated
  BY <1>3, <1>4, <1>6
<1>7. CASE ~provenDifference /\ ~truncated /\ \E side \in Sides : ~Consistent(side)
  <2>1. PICK side \in Sides : ~Consistent(side)
    BY <1>7
  <2>2. PICK i \in DOMAIN made[side] :
          Key(made[side][i].result) # Key(made[side][1].result)
    BY <2>1 DEF Consistent
  <2> DEFINE x == made[side][i].run
             y == made[side][1].run
  <2>3. /\ x \in Happened(side) /\ y \in Happened(side) /\ Happened(side) \subseteq Runs
        /\ made[side][i].result = ResultOf(x) /\ made[side][1].result = ResultOf(y)
    BY <1>1, <1>2, <2>2, RunsAndResults
  <2>4. ~Cut(x) /\ ~Cut(y)
    BY <1>1, <1>3, <1>7, <2>3 DEF B, K
  <2> HIDE DEF x, y
  <2>5. Outcome(x) # Outcome(y)
    BY <2>2, <2>3, <2>4, UncutIsWhole
  <2> QED
    BY <1>4, <1>7, <2>3, <2>5
<1>8. CASE ~provenDifference /\ ~truncated /\ \A side \in Sides : Consistent(side)
  <2>1. (\A x \in B : Outcome(x) = b) /\ (\A y \in K : Outcome(y) = k)
    BY <1>1, <1>3, <1>8, OneOutcome DEF B, K
  <2>2. CASE ~Differences
    <3>1. b = k
      BY <1>2, <2>2 DEF Differences
    <3> QED
      BY <1>4, <1>8, <2>1, <2>2, <3>1
  <2>3. CASE Differences
    <3>1. PICK i \in DOMAIN made["baseline"] :
            Key(made["baseline"][i].result) # Key(made["candidate"][i].result)
      BY <2>3 DEF Differences
    <3>2. b # k
      BY <1>1, <1>2, <1>8, <3>1 DEF Consistent
    <3>3. made["baseline"][1].run \in B /\ made["candidate"][1].run \in K
      BY <1>1, <1>2, RunsAndResults DEF B, K
    <3>4. PICK j \in 1 .. 5 : b[j] # k[j]
      BY <3>2 DEF Key
    <3> QED
      BY <1>4, <1>8, <2>1, <2>3, <3>4
  <2> QED
    BY <2>2, <2>3
<1> QED
  BY <1>5, <1>6, <1>7, <1>8

-----------------------------------------------------------------------------
(* Steps                                                                   *)

\* An attempt more is the first of a pair, or makes one.
LEMMA Halves ==
  ASSUME NEW d \in Nat
  PROVE  /\ d % 2 = 0 => (d + 1) % 2 = 1 /\ (d + 1) \div 2 = d \div 2
         /\ d % 2 # 0 => (d + 1) % 2 = 0
OBVIOUS

\* A comparison that has not begun has made nothing on either side.
LEMMA ComparisonStart == CompareInit => ComparisonInv
<1>1. SUFFICES ASSUME CompareInit PROVE ComparisonInv
  OBVIOUS
<1>2. /\ made["baseline"] = <<>> /\ made["candidate"] = <<>> /\ verdict = Pending
      /\ made \in [Sides -> Seq(Made)]
  BY <1>1 DEF CompareInit, Sides
<1>3. PICK n \in Repeats : left = 2 * n
  BY <1>1 DEF CompareInit
<1>4. n \in Nat
  BY <1>3, CompareAssumption
<1>5. Done = 0 /\ Count("baseline") = 0 /\ Count("candidate") = 0
  BY <1>2 DEF Done, Count
<1> QED
  BY <1>2, <1>3, <1>4, <1>5 DEF ComparisonInv, MadeOK, TurnInv, CountInv, VerdictInv

\* One more attempt, by the side whose turn it is.
LEMMA RunsKeepComparison ==
  ASSUME ComparisonInv, CompareRuns
  PROVE  ComparisonInv'
<1>1. PICK run \in Runs :
        /\ left > 0 /\ verdict' = verdict
        /\ made' = [made EXCEPT ![Turn] = Append(@, [run |-> run, result |-> ResultOf(run)])]
        /\ left' = IF Interrupts(run) \/ run.refused THEN 0 ELSE left - 1
  BY DEF CompareRuns
<1> DEFINE e == [run |-> run, result |-> ResultOf(run)]
<1>2. e \in Made /\ e.run = run
  BY DEF Made
<1> HIDE DEF e
<1>3. Turn \in Sides /\ Sides = {"baseline", "candidate"} /\ made \in [Sides -> Seq(Made)]
  BY DEF Turn, Sides, ComparisonInv, MadeOK
<1>4. MadeOK'
  <2>1. made' \in [Sides -> Seq(Made)]
    BY <1>1, <1>2, <1>3 DEF e
  <2>2. left' \in Nat
    BY <1>1 DEF ComparisonInv, MadeOK
  <2> QED
    BY <2>1, <2>2 DEF MadeOK
<1>5. /\ \A side \in Sides : Count(side) \in Nat
      /\ Turn = "baseline" => /\ Count("baseline")' = Count("baseline") + 1
                              /\ Count("candidate")' = Count("candidate")
      /\ Turn = "candidate" => /\ Count("candidate")' = Count("candidate") + 1
                               /\ Count("baseline")' = Count("baseline")
  BY <1>1, <1>3 DEF Count
<1>6. Done' = Done + 1 /\ Done \in Nat
  BY <1>3, <1>5 DEF Done
<1>7. /\ Turn = IF (Done % 2 = 0) # ((Done \div 2) % 2 = 1) THEN "baseline" ELSE "candidate"
      /\ Turn' = IF (Done' % 2 = 0) # ((Done' \div 2) % 2 = 1) THEN "baseline" ELSE "candidate"
  BY DEF Turn, Done, Count
<1>8. TurnInv'
  <2>1. CASE Done % 2 = 0
    <3>1. Done' % 2 = 1 /\ Done' \div 2 = Done \div 2
      BY <1>6, <2>1, Halves
    <3>2. CASE (Done \div 2) % 2 = 1
      <4>1. Turn = "candidate" /\ Turn' = "baseline"
        BY <1>7, <2>1, <3>1, <3>2
      <4> QED
        BY <1>5, <2>1, <3>1, <4>1 DEF ComparisonInv, TurnInv
    <3>3. CASE (Done \div 2) % 2 # 1
      <4>1. Turn = "baseline" /\ Turn' = "candidate"
        BY <1>7, <2>1, <3>1, <3>3
      <4> QED
        BY <1>5, <2>1, <3>1, <4>1 DEF ComparisonInv, TurnInv
    <3> QED
      BY <3>2, <3>3
  <2>2. CASE Done % 2 # 0
    <3>1. Done' % 2 = 0
      BY <1>6, <2>2, Halves
    <3> QED
      BY <1>3, <1>5, <2>2, <3>1 DEF ComparisonInv, TurnInv
  <2> QED
    BY <2>1, <2>2
<1>9. CountInv'
  <2>1. \A side \in Sides : \A i \in DOMAIN made[side] :
          i \in DOMAIN made'[side] /\ made'[side][i] = made[side][i]
    BY <1>1, <1>3
  <2>2. Stopped => Stopped'
    BY <2>1 DEF Stopped
  <2>3. CASE Stops(run)
    <3>1. /\ Len(made[Turn]) + 1 \in DOMAIN made'[Turn]
          /\ made'[Turn][Len(made[Turn]) + 1] = e
      BY <1>1, <1>3 DEF e
    <3>2. Stopped'
      BY <1>2, <1>3, <2>3, <3>1 DEF Stopped
    <3> QED
      BY <3>2 DEF CountInv
  <2>4. CASE ~Stops(run) /\ ~Stopped
    <3>1. PICK n \in Repeats : left + Done = 2 * n
      BY <2>4 DEF ComparisonInv, CountInv
    <3>2. left' + Done' = 2 * n
      BY <1>1, <1>6, <2>4, <3>1 DEF Stops, ComparisonInv, MadeOK
    <3> QED
      BY <3>2 DEF CountInv
  <2> QED
    BY <2>2, <2>3, <2>4 DEF CountInv
<1>10. VerdictInv'
  BY <1>1 DEF ComparisonInv, VerdictInv
<1> QED
  BY <1>4, <1>8, <1>9, <1>10 DEF ComparisonInv

\* Where nothing that was made changes, the rest stays.
LEMMA SameMade ==
  ASSUME ComparisonInv, UNCHANGED <<left, made>>
  PROVE  MadeOK' /\ TurnInv' /\ CountInv' /\ Judgement' = Judgement
<1>1. MadeOK' /\ TurnInv' /\ CountInv'
  BY DEF ComparisonInv, MadeOK, TurnInv, CountInv, Stopped, Done, Count, Turn
<1>2. \A side \in Sides : Results(side)' = Results(side) /\ Consistent(side)' = Consistent(side)
  BY DEF Results, Consistent
<1>3. provenDifference' = provenDifference /\ Differences' = Differences
  BY <1>2 DEF provenDifference, Differences, Results
<1>4. judge' = judge
  BY <1>2, <1>3 DEF judge
<1>5. Attempts' = Attempts
  BY DEF Attempts, Sides
<1>6. Judgement' = Judgement
  BY <1>4, <1>5 DEF Judgement
<1> QED
  BY <1>1, <1>6

\* Every attempt and the judgement keep the sides in turn and the count.
LEMMA ComparisonStep == ComparisonInv /\ [CompareNext]_compareVars => ComparisonInv'
<1>1. SUFFICES ASSUME ComparisonInv, [CompareNext]_compareVars PROVE ComparisonInv'
  OBVIOUS
<1>2. CASE CompareRuns
  BY <1>1, <1>2, RunsKeepComparison
<1>3. CASE CompareJudges
  <2>1. MadeOK' /\ TurnInv' /\ CountInv' /\ Judgement' = Judgement
    BY <1>1, <1>3, SameMade DEF CompareJudges
  <2>2. VerdictInv'
    BY <1>3, <2>1 DEF CompareJudges, VerdictInv
  <2> QED
    BY <2>1, <2>2 DEF ComparisonInv
<1>4. CASE UNCHANGED compareVars
  <2>1. MadeOK' /\ TurnInv' /\ CountInv' /\ Judgement' = Judgement
    BY <1>1, <1>4, SameMade DEF compareVars
  <2>2. VerdictInv'
    BY <1>1, <1>4, <2>1 DEF compareVars, ComparisonInv, VerdictInv
  <2> QED
    BY <2>1, <2>2 DEF ComparisonInv
<1> QED
  BY <1>1, <1>2, <1>3, <1>4 DEF CompareNext

-----------------------------------------------------------------------------
(* The theorem                                                             *)

\* Only a comparison that ran to its end is judged.
LEMMA ComparedWhole ==
  ASSUME ComparisonInv, left = 0, Judgement.status = "comparable"
  PROVE  /\ made["baseline"] # <<>> /\ Count("baseline") = Count("candidate")
         /\ Judgement.equal = judge
<1>1. /\ \A e \in Attempts : ~Interrupts(e.run) /\ ~e.run.refused
      /\ Judgement = [status |-> "comparable", equal |-> judge]
  BY DEF Judgement
<1>2. MadeOK /\ Sides = {"baseline", "candidate"}
  BY DEF ComparisonInv, Sides
<1>3. ~Stopped
  <2>1. \A side \in Sides : \A i \in DOMAIN made[side] : made[side][i] \in Attempts
    BY DEF Attempts
  <2> QED
    BY <1>1, <2>1 DEF Stopped, Stops
<1>4. PICK n \in Repeats : left + Done = 2 * n
  BY <1>3 DEF ComparisonInv, CountInv
<1>5. n \in Nat /\ n # 0
  BY <1>4, CompareAssumption
<1>6. Count("baseline") \in Nat /\ Count("candidate") \in Nat
  BY <1>2 DEF MadeOK, Count
<1>7. Done = 2 * n /\ Done % 2 = 0
  BY <1>4, <1>5, <1>6 DEF Done
<1>8. Count("baseline") = Count("candidate")
  BY <1>7 DEF ComparisonInv, TurnInv
<1>9. Count("baseline") = n
  BY <1>5, <1>6, <1>7, <1>8 DEF Done
<1>10. made["baseline"] # <<>>
  BY <1>2, <1>5, <1>9 DEF MadeOK, Count
<1> QED
  BY <1>1, <1>8, <1>10

\* The verdict of compare is true of what the checks did: a part of an output
\* proves a difference only where both parts were kept, complete outputs are
\* compared whole, and only a comparison that ran to its end is judged, in
\* which both sides had the same number of turns.
THEOREM VerdictIsAboutTheRuns == CompareSpec => []CompareHonest
<1>1. ASSUME ComparisonInv PROVE CompareHonest
  <2>1. CASE verdict = Pending
    BY <2>1 DEF CompareHonest, Pending
  <2>2. CASE left = 0 /\ verdict = Judgement
    <3>1. CASE Judgement.status = "comparable"
      <4>1. /\ made["baseline"] # <<>> /\ Count("baseline") = Count("candidate")
            /\ verdict.equal = judge
        BY <1>1, <2>2, <3>1, ComparedWhole
      <4>2. MadeOK /\ "baseline" \in Sides
        BY <1>1 DEF ComparisonInv, Sides
      <4>3. B # {}
        BY <4>1, <4>2, RunsAndResults DEF B
      <4>4. verdict = [status |-> "comparable", equal |-> "null"] => judge = "null"
        BY <4>1
      <4> QED
        BY <4>1, <4>2, <4>3, <4>4, JudgeHolds DEF CompareHonest, B, K, Cut, Count
    <3>2. CASE Judgement.status # "comparable"
      <4>1. verdict.equal = "null" /\ verdict.status # "comparable"
        BY <2>2, <3>2 DEF Judgement
      <4> QED
        BY <4>1 DEF CompareHonest
    <3> QED
      BY <3>1, <3>2
  <2> QED
    BY <1>1, <2>1, <2>2 DEF ComparisonInv, VerdictInv
<1> QED
  BY <1>1, ComparisonStart, ComparisonStep, PTL DEF CompareSpec

=============================================================================
