------------------------------ MODULE Attempt -------------------------------
(***************************************************************************)
(* Verification attempts on one session: verify, and compare, which makes  *)
(* several attempts in one process.  An attempt acquires the session, says *)
(* in a receipt that it is active, starts the stack, waits until it is     *)
(* ready, runs the check while a monitor watches the services, cleans up   *)
(* on a budget of its own, and replaces the receipt by its verdict.        *)
(* Interruptions, timeouts, services that restart, failing writes and the  *)
(* death of the process come at any point, and the attempts command reads  *)
(* the receipts meanwhile.                                                 *)
(* Sources: internal/verify/operation.go, receipt.go, result.go,           *)
(* internal/runner/check.go, cmd/proc-compose/attempts.go, verify.go.      *)
(*                                                                         *)
(* The stack is one service; what the runner does inside is modelled in    *)
(* Lifecycle, ProcessGroup and Control.  Deadlines are choices: a timer    *)
(* may fire at any point of a wait.                                        *)
(***************************************************************************)
EXTENDS Session

CONSTANTS
  AttemptID,   \* the ids each supervisor may draw, numbers ordered as ids are
  Retained,    \* RetainedTerminalReceipts
  MaxGen       \* launches of the service

ASSUME AttemptAssumption ==
  AttemptID \in [Supervisor -> SUBSET Nat] /\ {Retained, MaxGen} \subseteq Nat \ {0}

VARIABLES
  repeat,     \* the attempts each supervisor makes, one after the other
  att,        \* the attempt of each supervisor
  stack,      \* the runner and the service it started
  receipts,   \* the attempts directory: a receipt per attempt id
  pidFile,    \* the supervisor the session's PID file names
  look,       \* the attempts command
  begun       \* history: who made each attempt, and what became of it

attemptVars == <<repeat, att, stack, receipts, pidFile, look, begun>>

Idle ==
  [pc |-> "idle", id |-> 0, interrupt |-> FALSE, ctx |-> "open", erred |-> FALSE,
   startup |-> "not_run", baseline |-> 0, lost |-> FALSE, check |-> "not_run",
   late |-> FALSE, clean |-> FALSE, authority |-> "none", status |-> "not_run", exit |-> 0,
   persisted |-> FALSE, disturbed |-> FALSE]

NoStack == [run |-> "none", done |-> FALSE, problem |-> FALSE, teardown |-> FALSE,
            gen |-> 0, state |-> "none", ready |-> FALSE, unhealthy |-> FALSE]

Looking == [pc |-> "idle", id |-> 0, owner |-> Nobody]

NotLooking == [Looking EXCEPT !.pc = "off"]

Live(p) == stack[p].run \in {"running", "stopping"}
Gone(p) == plan[p].at = "gone"
At(p, pc) == att[p].pc = pc /\ ~Gone(p)

-----------------------------------------------------------------------------
(* Validation and acquisition: nothing is recorded.                        *)

\* What is left of an attempt that has its verdict.
Answer(a, pc) ==
  [Idle EXCEPT !.pc = pc, !.id = a.id, !.ctx = a.ctx, !.authority = a.authority,
               !.status = a.status, !.exit = a.exit, !.persisted = a.persisted]

\* failPreAcquisition
RefusedWith(p) ==
  att' = [att EXCEPT ![p] = Answer([@ EXCEPT !.status = "failed", !.exit = 2], "answered")]

HasService(c) ==
  \E n \in SelectedNames(c, {}) : EffectiveMode(c.procs[n]) # "task"

Run(p) ==
  /\ At(p, "idle") /\ repeat[p] > 0
  /\ IF conf[p].ok /\ HasService(conf[p])
     THEN /\ Acquire(p, {})
          /\ att' = [att EXCEPT ![p].pc = "acquiring"]
     ELSE /\ RefusedWith(p)
          /\ UNCHANGED sessionVars
  /\ UNCHANGED <<stack, receipts, pidFile, repeat, look, begun>>

AcquireFailed(p) ==
  /\ At(p, "acquiring") /\ plan[p].at = "over"
  /\ RefusedWith(p)
  /\ UNCHANGED <<sessionVars, stack, receipts, pidFile, repeat, look, begun>>

\* Under the lease: the record of a run that crashed is resolved, or it keeps
\* the attempt out.
ResolveCrashedRun(p) ==
  /\ At(p, "acquiring") /\ plan[p].at = "held"
  /\ \/ /\ att' = [att EXCEPT ![p].pc = "acquired"]
        /\ pidFile' = Nobody
        /\ UNCHANGED plan
     \/ /\ pidFile # Nobody
        /\ Fails(p, "crashed_run")
        /\ UNCHANGED <<att, pidFile>>
  /\ UNCHANGED <<conf, session, lease, bound, outside, stack, receipts, repeat, look, begun>>

-----------------------------------------------------------------------------
(* The attempt *)

\* finishVerdict
Verdict(a) ==
  CASE a.interrupt                  -> [a EXCEPT !.status = "interrupted", !.exit = 130]
    [] ~a.interrupt /\ a.erred      -> [a EXCEPT !.status = "failed", !.exit = 1]
    [] ~a.interrupt /\ ~a.erred     -> [a EXCEPT !.status = "passed", !.exit = 0]

Receipt(p, a, state) == [state |-> state, status |-> a.status, exit |-> a.exit, owner |-> p]

\* The file of an attempt id is created or replaced.
WriteReceipt(files, id, r) ==
  [x \in DOMAIN files \cup {id} |-> IF x = id THEN r ELSE files[x]]

\* The states, statuses and exit codes that a receipt can record together.
recordedVerdict(r) ==
  \/ r.state = "active" /\ r.status \in {"not_run", "failed"} /\ r.exit = 0
  \/ r.state = "completed" /\ <<r.status, r.exit>> \in
       {<<"passed", 0>>, <<"failed", 1>>, <<"interrupted", 130>>}

\* A file that is no receipt is passed over by every reader.
ReadReceipt(id) == id \in DOMAIN receipts /\ recordedVerdict(receipts[id])

ListReceipts == {id \in DOMAIN receipts : ReadReceipt(id)}

WriteActive(p) ==
  /\ At(p, "acquired")
  /\ \/ \E id \in AttemptID[p] \ DOMAIN begun :
          /\ att' = [att EXCEPT ![p].pc = "recorded", ![p].id = id, ![p].authority = "held"]
          /\ receipts' = WriteReceipt(receipts, id, Receipt(p, att[p], "active"))
          /\ begun' = WriteReceipt(begun, id, [by |-> p, earned |-> FALSE, terminal |-> FALSE])
          /\ UNCHANGED plan
     \/ /\ att' = [att EXCEPT ![p] =
             Answer(Verdict([@ EXCEPT !.erred = TRUE]), "leaving")]
        /\ plan' = [plan EXCEPT ![p].at = "closing"]
        /\ UNCHANGED <<receipts, begun>>
  /\ UNCHANGED <<conf, session, lease, bound, outside, stack, pidFile, repeat, look>>

\* startAndCheck up to the start of the runner, which lets go of the ports of
\* the process it starts.
StartRunner(p) ==
  /\ At(p, "recorded")
  /\ \/ /\ att' = [att EXCEPT ![p].pc = "cleanup", ![p].startup = "failed",
                              ![p].erred = TRUE]
        /\ UNCHANGED <<plan, bound, stack, pidFile>>
     \/ /\ att' = [att EXCEPT ![p].pc = "waiting"]
        /\ stack' = [stack EXCEPT ![p] =
             [NoStack EXCEPT !.run = "running", !.gen = 1, !.state = "running"]]
        /\ pidFile' = p
        /\ plan' = [plan EXCEPT ![p].launched = plan[p].names, ![p].held = {}]
        /\ bound' = [x \in PortNumber |-> IF x \in plan[p].held THEN Free ELSE bound[x]]
  /\ UNCHANGED <<conf, session, lease, outside, receipts, repeat, look, begun>>

\* waitReady ends: with a verdict on the startup.
StartupIs(p, status) ==
  att' = [att EXCEPT ![p].pc = IF status = "passed" THEN "ready" ELSE "cleanup",
                     ![p].startup = status,
                     ![p].interrupt = status = "interrupted",
                     ![p].erred = status # "passed"]

WaitReady(p) ==
  /\ At(p, "waiting")
  /\ CASE stack[p].state \in {"failed", "exited", "restarting"} ->
            StartupIs(p, "failed")
       [] stack[p].state = "running" /\ stack[p].ready ->
            StartupIs(p, "passed")
       [] OTHER -> att' = [att EXCEPT ![p].pc = "polling"]
  /\ UNCHANGED <<sessionVars, stack, receipts, pidFile, repeat, look, begun>>

\* The select between two snapshots.  The end of Run is put back into runDone
\* for the cleanup, which waits for it too.
Polling(p) ==
  /\ At(p, "polling")
  /\ \/ att' = [att EXCEPT ![p].pc = "waiting"]
     \/ att[p].ctx = "cancelled" /\ StartupIs(p, "interrupted")
     \/ StartupIs(p, "timed_out")
     \/ stack[p].done /\ StartupIs(p, "failed")
  /\ UNCHANGED <<sessionVars, stack, receipts, pidFile, repeat, look, begun>>

\* The generations the monitor compares with, taken after the wait.
Baseline(p) ==
  /\ At(p, "ready")
  /\ att' = [att EXCEPT ![p].pc = "checking", ![p].baseline = stack[p].gen]
  /\ UNCHANGED <<sessionVars, stack, receipts, pidFile, repeat, look, begun>>

\* RunCheck: a check is admitted while the stack runs; its command may not
\* start.
RunCheck(p) ==
  /\ At(p, "checking") /\ att[p].check = "not_run"
  /\ \E start \in {"refused", "canceled", "running"} :
       /\ start # "refused" => stack[p].run = "running"
       /\ start = "canceled" <=> stack[p].run = "running" /\ att[p].ctx = "cancelled"
       /\ start = "running" => ~att[p].late
       /\ att' = [att EXCEPT ![p].check = start]
  /\ UNCHANGED <<sessionVars, stack, receipts, pidFile, repeat, look, begun>>

CheckEnds(p) ==
  /\ At(p, "checking") /\ att[p].check = "running"
  /\ \E end \in {"zero", "nonzero", "handed_off"} :
       /\ end = "handed_off" => att[p].ctx = "cancelled" \/ att[p].late \/ stack[p].run # "running"
       /\ att' = [att EXCEPT ![p].check = end]
  /\ UNCHANGED <<sessionVars, stack, receipts, pidFile, repeat, look, begun>>

CheckTimeout(p) ==
  /\ At(p, "checking") /\ ~att[p].late
  /\ att' = [att EXCEPT ![p].late = TRUE]
  /\ UNCHANGED <<sessionVars, stack, receipts, pidFile, repeat, look, begun>>

\* A service that runs counts as the one that ran.
NotRunning(s, baseline) == s.state # "running" \/ s.unhealthy

\* What the monitor counts as the loss of a service.
Lost(s, baseline) == s.state # "running" \/ s.gen # baseline \/ s.unhealthy

MonitorRequired(p) ==
  /\ At(p, "checking") /\ Lost(stack[p], att[p].baseline) /\ ~att[p].lost
  /\ att' = [att EXCEPT ![p].lost = TRUE]
  /\ UNCHANGED <<sessionVars, stack, receipts, pidFile, repeat, look, begun>>

\* recordCheck: only a check that exited 0, before its deadline and before an
\* interruption, leaves no error behind.
CheckRecord(a) ==
  [a EXCEPT !.interrupt = a.ctx = "cancelled",
            !.erred = \/ a.ctx = "cancelled"
                      \/ a.late
                      \/ a.check \in {"refused", "nonzero", "handed_off"}]

\* recordEnvironment: the report of a check that started.
Environment(a, report, required) ==
  LET bad == \/ report \in {"mismatched", "invalid"}
             \/ report \in {"missing", "empty"} /\ required
  IN  IF a.check \in {"refused", "canceled"} THEN a
      ELSE [a EXCEPT !.erred = @ \/ bad]

\* History: the check exited 0 in time, and the service was the same all along.
CleanCheck(a) == a.startup = "passed" /\ a.check = "zero" /\ ~a.late /\ ~a.disturbed

FinishCheck(p) ==
  /\ At(p, "checking")
  /\ att[p].check \notin {"not_run", "running"}
  /\ \E report \in {"matched", "mismatched", "invalid", "missing", "empty"}, required \in BOOLEAN :
       LET lost == att[p].lost \/ Lost(stack[p], att[p].baseline)
           a == Environment(CheckRecord(att[p]), report, required)
       IN  att' = [att EXCEPT ![p] =
             [a EXCEPT !.pc = "cleanup", !.erred = @ \/ lost, !.clean = CleanCheck(a),
                       !.check = "over", !.late = FALSE, !.lost = FALSE,
                       !.baseline = 0, !.disturbed = FALSE]]
  /\ UNCHANGED <<sessionVars, stack, receipts, pidFile, repeat, look, begun>>

-----------------------------------------------------------------------------
(* Cleanup and verdict *)

Cleanup(p) ==
  /\ At(p, "cleanup")
  /\ IF stack[p].run = "none"
     THEN /\ att' = [att EXCEPT ![p].pc = "ending", ![p].authority = "withdrawn"]
          /\ UNCHANGED stack
     ELSE /\ att' = [att EXCEPT ![p].pc = "awaiting"]
          /\ stack' = [stack EXCEPT ![p] = IF @.done THEN @ ELSE [NoStack EXCEPT !.run = "stopping"]]
  /\ UNCHANGED <<sessionVars, receipts, pidFile, repeat, look, begun>>

\* A teardown process that did not pass, among those that ended so far.
recordTeardown(a, s) == [a EXCEPT !.erred = @ \/ s.teardown]

\* Anything but a return with every process gone is an error; signals are still
\* possible before the return.
CleanupIs(a, s, returned) ==
  recordTeardown([a EXCEPT !.pc = "ending",
                           !.authority = IF returned THEN "withdrawn" ELSE "unknown",
                           !.erred = @ \/ ~returned \/ s.problem], s)

CleanupReturned(p) ==
  /\ At(p, "awaiting") /\ stack[p].done
  /\ att' = [att EXCEPT ![p] = CleanupIs(@, stack[p], TRUE)]
  /\ pidFile' = IF pidFile = p THEN Nobody ELSE pidFile
  /\ UNCHANGED <<sessionVars, stack, receipts, repeat, look, begun>>

CleanupDeadline(p) ==
  /\ At(p, "awaiting")
  /\ att' = [att EXCEPT ![p] = CleanupIs(@, stack[p], FALSE)]
  /\ UNCHANGED <<sessionVars, stack, receipts, pidFile, repeat, look, begun>>

\* The journal of a run that was started may be unavailable.
collectEvidence(a, s, unavailable) ==
  [a EXCEPT !.erred = @ \/ (unavailable /\ s.run # "none")]

persistTerminal(p, a) ==
  /\ receipts' = WriteReceipt(receipts, a.id, Receipt(p, a, "completed"))
  /\ begun' = [begun EXCEPT ![a.id].terminal = TRUE,
                            ![a.id].earned = a.clean /\ stack[p].run = "returned"
                                               /\ ~stack[p].problem]

\* The evidence, the verdict, and the terminal receipt; when it cannot be
\* written the verdict is made again.
Conclude(p) ==
  /\ At(p, "ending")
  /\ \E unavailable, fails \in BOOLEAN :
       LET ended == collectEvidence(att[p], stack[p], unavailable)
           a == Verdict([ended EXCEPT !.erred = @ \/ fails, !.persisted = ~fails])
       IN  /\ att' = [att EXCEPT ![p] = Answer(a, IF fails THEN "release" ELSE "prune")]
           /\ IF fails
              THEN UNCHANGED <<receipts, begun>>
              ELSE persistTerminal(p, a)
  /\ stack' = [stack EXCEPT ![p] = IF @.done THEN NoStack ELSE @]
  /\ UNCHANGED <<sessionVars, pidFile, repeat, look>>

\* The newest receipts stay, whichever was written last.
NewestStay(keep) ==
  LET terminal == {id \in ListReceipts : receipts[id].state = "completed"}
  IN  {id \in terminal : Cardinality({x \in terminal : x >= id}) > Retained}

\* The terminal receipts beyond the newest Retained ones, but for the one
\* just written: its id need not be the newest when the clock was set back.
Pruned(keep) ==
  LET terminal == {id \in ListReceipts : receipts[id].state = "completed"}
  IN  {id \in terminal : Cardinality({x \in terminal : x >= id}) > Retained} \ {keep}

Prune(p) ==
  /\ At(p, "prune")
  /\ receipts' = [id \in DOMAIN receipts \ Pruned(att[p].id) |-> receipts[id]]
  /\ att' = [att EXCEPT ![p].pc = "release"]
  /\ UNCHANGED <<sessionVars, stack, pidFile, repeat, look, begun>>

\* The attempt is over, so the session is free.
AlwaysClose(a) == TRUE

\* The leases go only when no signal is possible any more.
MayClose(a) == a.authority = "withdrawn"

Release(p) ==
  /\ At(p, "release")
  /\ att' = [att EXCEPT ![p].pc = IF MayClose(att[p]) THEN "leaving" ELSE "answered"]
  /\ IF MayClose(att[p])
     THEN plan' = [plan EXCEPT ![p].at = "closing"]
     ELSE UNCHANGED plan
  /\ UNCHANGED <<conf, session, lease, bound, outside, stack, receipts, pidFile, repeat, look, begun>>

Leave(p) ==
  /\ At(p, "leaving") /\ plan[p].at = "over"
  /\ att' = [att EXCEPT ![p].pc = "answered"]
  /\ UNCHANGED <<sessionVars, stack, receipts, pidFile, repeat, look, begun>>

\* Compare goes on with the next repetition, unless it was interrupted or the
\* attempt was refused before it acquired anything.
Again(p) ==
  /\ At(p, "answered")
  /\ repeat[p] > 1
  /\ att[p].status # "interrupted" /\ att[p].ctx = "open" /\ att[p].exit # 2
  /\ repeat' = [repeat EXCEPT ![p] = @ - 1]
  /\ att' = [att EXCEPT ![p] = Idle]
  /\ plan' = [plan EXCEPT ![p] = EmptyPlan]
  /\ UNCHANGED <<conf, session, lease, bound, outside, stack, receipts, pidFile, look, begun>>

\* The process exits; its leases go with it.
Exit(p) ==
  /\ At(p, "answered")
  /\ SystemCloses(p)
  /\ stack' = [stack EXCEPT ![p] = NoStack]
  /\ att' = [att EXCEPT ![p] = Idle]
  /\ UNCHANGED <<conf, session, outside, receipts, pidFile, repeat, look, begun>>

\* The supervisor is killed: its runner is gone, its stack is an orphan.
Killed(p) ==
  /\ att[p].pc \notin {"idle", "answered"} /\ ~Gone(p)
  /\ SystemCloses(p)
  /\ stack' = [stack EXCEPT ![p] = NoStack]
  /\ att' = [att EXCEPT ![p] = Idle]
  /\ UNCHANGED <<conf, session, outside, receipts, pidFile, repeat, look, begun>>

\* A signal; the context is looked at from the first wait on.
Interrupt(p) ==
  /\ att[p].pc \notin {"idle", "acquiring", "acquired", "recorded", "answered"}
  /\ ~Gone(p) /\ att[p].ctx = "open"
  /\ att' = [att EXCEPT ![p].ctx = "cancelled"]
  /\ UNCHANGED <<sessionVars, stack, receipts, pidFile, repeat, look, begun>>

-----------------------------------------------------------------------------
(* The stack *)

\* A change of the service while its generation is being watched.
Disturbed(p) ==
  IF att[p].pc = "checking" /\ att[p].check \in {"not_run", "running"}
  THEN [att EXCEPT ![p].disturbed = TRUE] ELSE att

BecomesReady(p) ==
  /\ stack[p].run = "running" /\ stack[p].state = "running" /\ ~stack[p].ready
  /\ stack' = [stack EXCEPT ![p].ready = TRUE]
  /\ UNCHANGED <<sessionVars, att, receipts, pidFile, repeat, look, begun>>

ServiceExits(p) ==
  /\ stack[p].run = "running" /\ stack[p].state = "running"
  /\ \E next \in {"failed", "restarting"} :
       stack' = [stack EXCEPT ![p].state = next, ![p].ready = FALSE, ![p].unhealthy = FALSE]
  /\ att' = Disturbed(p)
  /\ UNCHANGED <<sessionVars, receipts, pidFile, repeat, look, begun>>

\* health_when changes its mind, while somebody looks.
HealthChanges(p) ==
  /\ At(p, "checking")
  /\ stack[p].run = "running" /\ stack[p].state = "running" /\ stack[p].ready
  /\ stack' = [stack EXCEPT ![p].unhealthy = ~@]
  /\ UNCHANGED <<sessionVars, att, receipts, pidFile, repeat, look, begun>>

ServiceRestarts(p) ==
  /\ stack[p].run = "running" /\ stack[p].state = "restarting" /\ stack[p].gen < MaxGen
  /\ stack' = [stack EXCEPT ![p].state = "running", ![p].gen = @ + 1]
  /\ UNCHANGED <<sessionVars, att, receipts, pidFile, repeat, look, begun>>

\* Run returns when it was cancelled, or the whole stack failed and no check
\* is left; its verdict may name problems and a failed teardown.
RunReturns(p) ==
  /\ \/ stack[p].run = "stopping"
     \/ /\ stack[p].run = "running" /\ stack[p].state = "failed"
        /\ att[p].check # "running"
  /\ \E problem, teardown \in BOOLEAN :
       stack' = [stack EXCEPT ![p] =
         [NoStack EXCEPT !.run = "returned", !.done = TRUE, !.state = "exited",
                         !.problem = problem, !.teardown = teardown]]
  /\ UNCHANGED <<sessionVars, att, receipts, pidFile, repeat, look, begun>>

-----------------------------------------------------------------------------
(* The attempts command *)

LoadAttempt ==
  /\ look.pc = "idle"
  /\ \E id \in ListReceipts :
       /\ receipts[id].state = "active"
       /\ look' = [pc |-> "owner", id |-> id, owner |-> receipts[id].owner]
  /\ UNCHANGED <<sessionVars, repeat, att, stack, receipts, pidFile, begun>>

\* An owner that is alive makes the attempt active, or indeterminate.  Its
\* number may be another program's by now; the PID file also records when the
\* owner was started.
OwnerAlive ==
  /\ look.pc = "owner"
  /\ \/ look' = Looking
     \/ Gone(look.owner) /\ look' = [look EXCEPT !.pc = "lease"]
  /\ UNCHANGED <<sessionVars, repeat, att, stack, receipts, pidFile, begun>>

\* The lease is consulted when the owner is gone; a lease that was free makes
\* the attempt abandoned.
LeaseHeld ==
  /\ look.pc = "lease"
  /\ \/ /\ lease[InstanceLease(session[look.owner])] # Nobody
        /\ look' = Looking
        /\ UNCHANGED sessionVars
     \/ /\ InstanceHeld(session[look.owner])
        /\ look' = [look EXCEPT !.pc = "abandoned"]
  /\ UNCHANGED <<repeat, att, stack, receipts, pidFile, begun>>

LookEnds ==
  /\ look.pc = "abandoned"
  /\ InspectionEnds(session[look.owner])
  /\ look' = Looking
  /\ UNCHANGED <<repeat, att, stack, receipts, pidFile, begun>>

-----------------------------------------------------------------------------
AttemptInit(repeats, looks) ==
  /\ repeat \in repeats
  /\ att = [p \in Supervisor |-> Idle]
  /\ stack = [p \in Supervisor |-> NoStack]
  /\ receipts = <<>>
  /\ pidFile = Nobody
  /\ look \in looks
  /\ begun = <<>>

\* Supervisor p died in attempt id, and the attempts command is about to look.
AttemptLost(repeats, p, id) ==
  /\ repeat \in repeats
  /\ att = [x \in Supervisor |-> Idle]
  /\ stack = [x \in Supervisor |-> NoStack]
  /\ receipts = (id :> Receipt(p, Idle, "active"))
  /\ pidFile = p
  /\ look = Looking
  /\ begun = (id :> [by |-> p, earned |-> FALSE, terminal |-> FALSE])

AttemptNext ==
  \/ \E p \in Supervisor :
       \/ Run(p) \/ AcquireFailed(p) \/ ResolveCrashedRun(p) \/ WriteActive(p)
       \/ StartRunner(p) \/ WaitReady(p) \/ Polling(p) \/ Baseline(p) \/ RunCheck(p) \/ CheckEnds(p)
       \/ CheckTimeout(p) \/ MonitorRequired(p) \/ FinishCheck(p) \/ Cleanup(p)
       \/ CleanupReturned(p) \/ CleanupDeadline(p) \/ Conclude(p) \/ Prune(p)
       \/ Release(p) \/ Leave(p) \/ Again(p) \/ Exit(p) \/ Killed(p) \/ Interrupt(p)
       \/ BecomesReady(p) \/ ServiceExits(p) \/ HealthChanges(p) \/ ServiceRestarts(p) \/ RunReturns(p)
  \/ LoadAttempt \/ OwnerAlive \/ LeaseHeld \/ LookEnds

\* Attempts on one session, from configurations confs.
verifyVars == <<sessionVars, attemptVars>>

VerifyInit(confs) ==
  /\ SessionInit(confs, {[p \in Supervisor |-> s] : s \in SessionName})
  /\ AttemptInit([Supervisor -> Nat], {Looking})

VerifyNext ==
  \/ \E p \in Supervisor : AcquireStep(p) /\ UNCHANGED attemptVars
  \/ AttemptNext

VerifySpec(confs) == VerifyInit(confs) /\ [][VerifyNext]_verifyVars

-----------------------------------------------------------------------------
(* Properties *)

\* A verdict of passed was earned: the service became ready, the check exited
\* 0 in time, the service that ran when the check began is the one that ran
\* when it ended, the runner returned with every process gone, and the verdict
\* is on disk (waitReady, monitorRequired, recordCheck, cleanup, finishVerdict,
\* persistTerminal).
PassedIsEarned ==
  /\ \A p \in Supervisor :
       att[p].pc \in {"release", "leaving", "answered"} /\ att[p].status = "passed" =>
         att[p].persisted /\ begun[att[p].id].earned
  /\ \A id \in DOMAIN receipts : receipts[id].status = "passed" => begun[id].earned

\* A runner that may still signal processes belongs to the supervisor that
\* holds the session: whatever the cleanup ran into, the leases are not given
\* up before, so no two runners ever work on one session (run, cleanup).
OneOwner ==
  \A p \in Supervisor : Live(p) => lease[InstanceLease(session[p])] = p

\* Receipts tell the truth: none that was written is passed over by its
\* readers, an attempt without a verdict keeps its active receipt whatever is
\* pruned, and the receipt of a verdict is on disk as answered until the
\* session is let go (ReadReceipt, Prune, persistTerminal).
ReceiptsHonest ==
  /\ ListReceipts = DOMAIN receipts
  /\ \A id \in DOMAIN begun : ~begun[id].terminal =>
       id \in DOMAIN receipts /\ receipts[id].state = "active"
  /\ \A p \in Supervisor : At(p, "release") /\ att[p].persisted =>
       /\ att[p].id \in DOMAIN receipts
       /\ receipts[att[p].id] = Receipt(p, att[p], "completed")
=============================================================================
