------------------------------ MODULE Lifecycle ------------------------------
(***************************************************************************)
(* The process lifecycle of internal/runner: one worker goroutine per      *)
(* process (Run's loop around runProcess and runTaskProcess), the restart  *)
(* watcher, readiness prober and health monitor an incarnation starts, the *)
(* restart and shutdown commands, the signal, the admission watcher and    *)
(* the cleanup handoff.                                                    *)
(*                                                                         *)
(* Every mutex-protected section that another goroutine can tell apart is  *)
(* one action.  What happens to the process group between the start and    *)
(* the end of exec is modelled in ProcessGroup; here exec ends with one of *)
(* the results in Result.  No one-shot check runs (activeChecks = 0).      *)
(***************************************************************************)
EXTENDS Integers, Sequences

CONSTANTS
  Proc,           \* the selected processes
  DependsOn,      \* DependsOn[p]: the sequence p waits for, in order
  Mode,           \* Mode[p]: "service" or "task"
  Restart,        \* Restart[p]: "never", "on-failure" or "always"
  MaxRestarts,    \* MaxRestarts[p]: 0 is unlimited
  ReadyWhen,      \* ReadyWhen[p]: "none", "poll" (http, tcp, cmd) or "log"
  HealthRestart,  \* the services whose failing health check restarts them
  Faulty,         \* the processes that can fail on their own
  HasIPC,         \* the runner serves commands (a daemon)
  HasHandoff,     \* a cleanup handoff budget is set
  MaxRequests     \* bound on the restart requests that are accepted

ASSUME LifecycleAssumption ==
  /\ DependsOn \in [Proc -> Seq(Proc)]
  /\ Mode \in [Proc -> {"service", "task"}]
  /\ Restart \in [Proc -> {"never", "on-failure", "always"}]
  /\ MaxRestarts \in [Proc -> Nat]
  /\ ReadyWhen \in [Proc -> {"none", "poll", "log"}]
  /\ HasIPC \in BOOLEAN /\ HasHandoff \in BOOLEAN
  /\ MaxRequests \in Nat

VARIABLES
  \* procState, one function per field
  state, generation, restarts, active, outcome, disposition, probeFailed,
  restartCh,
  \* the worker: its place, the dependency it waits for, the cycle it holds
  \* (0: none yet) and how the last exec ended
  pc, dep, held, res,
  \* the incarnation: its context, its watcher, prober and monitor, and the
  \* watchers of earlier incarnations that are still at their select
  procCancelled, watcher, stale, prober, monitor,
  \* the run
  runCancelled, stopping, shutting, sealing, handoff, ended,
  \* history: accepted requests, the generation each promised, and the
  \* generation whose readiness settled the current cycle
  requests, promised, readyGen

procVars == <<state, generation, restarts, active, outcome, disposition,
              probeFailed, restartCh>>
workVars == <<pc, dep, held, res>>
incVars  == <<procCancelled, watcher, stale, prober, monitor>>
runVars  == <<runCancelled, stopping, shutting, sealing, handoff, ended>>
histVars == <<requests, promised, readyGen>>
vars     == <<procVars, workVars, incVars, runVars, histVars>>

States   == {"starting", "running", "restarting", "exited", "completed", "failed"}
Outcome  == {"unset", "satisfied", "terminal", "again", "stopped"}
Result   == {"none", "ok", "err", "canceled", "unconfirmed", "handoff"}
Cycles   == Seq(Outcome) \ {<<>>}
Place    == {"wait", "begin", "launch", "started", "onstart", "up", "ended",
             "backoff", "failfast", "returned", "idle", "done"}

-----------------------------------------------------------------------------
(* Readiness cycles.  outcome[p] lists every cycle of p; the last one is   *)
(* the current readyCycle.                                                 *)

currentOutcome(p) == outcome[p][Len(outcome[p])]

\* Mutant of settleLocked: the last verdict wins.
SettleOverwrites(cycles, o) == [cycles EXCEPT ![Len(cycles)] = o]

\* settleLocked: a published outcome is never overwritten.
settleLocked(cycles, o) ==
  IF cycles[Len(cycles)] = "unset"
  THEN [cycles EXCEPT ![Len(cycles)] = o]
  ELSE cycles

\* resetReady: whoever holds the old cycle is woken with "again".
resetReady(cycles) == Append(settleLocked(cycles, "again"), "unset")

\* currentlyReady: what status, /ready and the event stream advertise.
currentlyReady(p) == currentOutcome(p) = "satisfied"
                     /\ state[p] \in {"running", "completed"}

\* The incarnation's context: procCtx for a service, the run's for a task.
CtxDone(p) == runCancelled \/ (Mode[p] = "service" /\ procCancelled[p])

\* The guard of markReadyFor.  The prober is joined before the next
\* generation starts, so its generation is always the current one.
CanMarkReady(p) == /\ currentOutcome(p) = "unset"
                   /\ ~probeFailed[p]
                   /\ ~CtxDone(p)

\* markReadyFor(procCtx, gen, true): latch, or do nothing.
markReadyFor(p) ==
  IF CanMarkReady(p)
  THEN /\ outcome' = [outcome EXCEPT ![p] = settleLocked(@, "satisfied")]
       /\ readyGen' = [readyGen EXCEPT ![p] = generation[p]]
  ELSE UNCHANGED <<outcome, readyGen>>

-----------------------------------------------------------------------------
(* Ways a lifecycle ends; each is one critical section of procState.       *)

EndWith(p, s, verdict) ==
  /\ state' = [state EXCEPT ![p] = s]
  /\ disposition' = [disposition EXCEPT ![p] = verdict]
  /\ outcome' = [outcome EXCEPT ![p] = settleLocked(@, verdict)]

\* Mutant of endProcess: the state is set, nobody is told.
EndsUnsettled(p) ==
  /\ state' = [state EXCEPT ![p] = "exited"]
  /\ disposition' = [disposition EXCEPT ![p] = "terminal"]
  /\ UNCHANGED outcome

\* Mutant of failProcess: the same.
FailsUnsettled(p) ==
  /\ state' = [state EXCEPT ![p] = "failed"]
  /\ disposition' = [disposition EXCEPT ![p] = "terminal"]
  /\ UNCHANGED outcome

failProcess(p) == EndWith(p, "failed", "terminal")
endProcess(p)  == EndWith(p, "exited", "terminal")
stopProcess(p) == EndWith(p, "exited", "stopped")

\* Mutant of Renew: the restart counts but keeps the old cycle.
RenewKeepsCycle(p, s) ==
  /\ restarts' = [restarts EXCEPT ![p] = @ + 1]
  /\ state' = [state EXCEPT ![p] = s]
  /\ UNCHANGED <<outcome, disposition>>

\* Every restart renews the cycle and counts, whoever asked for it.
Renew(p, s) ==
  /\ outcome' = [outcome EXCEPT ![p] = resetReady(@)]
  /\ disposition' = [disposition EXCEPT ![p] = "unset"]
  /\ restarts' = [restarts EXCEPT ![p] = @ + 1]
  /\ state' = [state EXCEPT ![p] = s]

\* The worker moves on; the result of the last exec is of no further use.
Goto(p, place) == /\ pc' = [pc EXCEPT ![p] = place]
                  /\ res' = [res EXCEPT ![p] = "none"]

-----------------------------------------------------------------------------
(* waitForDependency                                                       *)

\* Mutant of AfterDeps: one dependency too many.
AfterDepsOffByOne(p, i) == IF i > Len(DependsOn[p]) + 1 THEN "begin" ELSE "wait"

AfterDeps(p, i) == IF i > Len(DependsOn[p]) THEN "begin" ELSE "wait"

Waiting(p) == pc[p] = "wait"
Dep(p)     == DependsOn[p][dep[p]]
Holds(p)   == Waiting(p) /\ held[p] > 0
Verdict(p) == outcome[Dep(p)][held[p]]

\* runProcess returns from the wait: its loop variables go with it.
EndWait(p) == /\ dep' = [dep EXCEPT ![p] = 1]
              /\ held' = [held EXCEPT ![p] = 0]

\* cycle := depSt.currentReadyCycle()
HoldCycle(p) ==
  /\ Waiting(p) /\ held[p] = 0
  /\ held' = [held EXCEPT ![p] = Len(outcome[Dep(p)])]
  /\ UNCHANGED <<procVars, pc, dep, res, incVars, runVars, histVars>>

\* Mutant of DepSatisfied: a renewed cycle counts as ready.
DepAgainPasses(p) ==
  /\ Holds(p) /\ Verdict(p) \in {"satisfied", "again"}
  /\ dep' = [dep EXCEPT ![p] = @ + 1]
  /\ held' = [held EXCEPT ![p] = 0]
  /\ Goto(p, AfterDeps(p, dep[p] + 1))
  /\ UNCHANGED <<procVars, incVars, runVars, histVars>>

DepSatisfied(p) ==
  /\ Holds(p) /\ Verdict(p) = "satisfied"
  /\ dep' = [dep EXCEPT ![p] = @ + 1]
  /\ held' = [held EXCEPT ![p] = 0]
  /\ Goto(p, AfterDeps(p, dep[p] + 1))
  /\ UNCHANGED <<procVars, incVars, runVars, histVars>>

\* The verdict of the cycle, or on cancellation the dependency's disposition.
DepTerminal(p) ==
  /\ Holds(p)
  /\ Verdict(p) = "terminal" \/ (runCancelled /\ disposition[Dep(p)] = "terminal")
  /\ failProcess(p)
  /\ Goto(p, "returned")
  /\ EndWait(p)
  /\ UNCHANGED <<generation, restarts, active, probeFailed, restartCh,
                 incVars, runVars, histVars>>

\* "again" on what is still the current cycle means no verdict will come.
DepStopped(p) ==
  /\ Holds(p)
  /\ \/ Verdict(p) = "stopped"
     \/ Verdict(p) = "again" /\ held[p] = Len(outcome[Dep(p)])
     \/ runCancelled /\ disposition[Dep(p)] # "terminal"
  /\ stopProcess(p)
  /\ Goto(p, "returned")
  /\ EndWait(p)
  /\ UNCHANGED <<generation, restarts, active, probeFailed, restartCh,
                 incVars, runVars, histVars>>

DepAgain(p) ==
  /\ Holds(p) /\ Verdict(p) = "again" /\ held[p] < Len(outcome[Dep(p)])
  /\ held' = [held EXCEPT ![p] = 0]
  /\ UNCHANGED <<procVars, pc, dep, res, incVars, runVars, histVars>>

\* The handoff releases the wait; the worker returns without a verdict.
DepQuiesced(p) ==
  /\ Holds(p) /\ handoff
  /\ Goto(p, "done")
  /\ EndWait(p)
  /\ UNCHANGED <<procVars, incVars, runVars, histVars>>

-----------------------------------------------------------------------------
(* One incarnation: runProcess's loop body, runTaskProcess, exec           *)

\* A new incarnation.  A service arms its restart watcher here; the watcher
\* of the previous one may still be at its select, because nothing joins it.
Begin(p) ==
  /\ pc[p] = "begin"
  /\ state' = [state EXCEPT ![p] = "starting"]
  /\ generation' = [generation EXCEPT ![p] = @ + 1]
  /\ IF Mode[p] = "service"
     THEN /\ probeFailed' = [probeFailed EXCEPT ![p] = FALSE]
          /\ disposition' = [disposition EXCEPT ![p] = "unset"]
          /\ procCancelled' = [procCancelled EXCEPT ![p] = FALSE]
          /\ stale' = [stale EXCEPT ![p] = IF watcher[p] = "armed" THEN @ + 1 ELSE @]
          /\ watcher' = [watcher EXCEPT ![p] = "armed"]
          /\ prober' = [prober EXCEPT ![p] = IF ReadyWhen[p] = "log" THEN "on" ELSE "off"]
          /\ monitor' = [monitor EXCEPT ![p] = IF p \in HealthRestart THEN "on" ELSE "off"]
     ELSE UNCHANGED <<probeFailed, disposition, incVars>>
  /\ Goto(p, "launch")
  /\ UNCHANGED <<restarts, active, outcome, restartCh, dep, held,
                 runVars, histVars>>

\* exec returns r; runProcess then calls procCancel.
Ended(p, r) ==
  /\ res' = [res EXCEPT ![p] = r]
  /\ procCancelled' = [procCancelled EXCEPT ![p] = TRUE]
  /\ pc' = [pc EXCEPT ![p] = "ended"]
  /\ UNCHANGED <<procVars, dep, held, watcher, stale, prober, monitor,
                 runVars, histVars>>

\* Admission, checked under lifecycleMu together with the start.
AdmissionRefused(p) == stopping \/ CtxDone(p)

Refuse(p) ==
  /\ pc[p] = "launch" /\ AdmissionRefused(p)
  /\ Ended(p, "canceled")

\* The launch cannot be recorded or started.
StartFails(p) ==
  /\ pc[p] = "launch" /\ ~AdmissionRefused(p) /\ p \in Faulty
  /\ Ended(p, "err")

Start(p) ==
  /\ pc[p] = "launch" /\ ~AdmissionRefused(p)
  /\ Goto(p, "started")
  /\ UNCHANGED <<procVars, dep, held, incVars, runVars, histVars>>

\* The group cannot be tracked: the command is killed and reaped, and the
\* handoff can end that wait.
TrackFails(p) ==
  /\ pc[p] = "started" /\ p \in Faulty
  /\ \E r \in {"err"} \cup (IF handoff THEN {"handoff"} ELSE {}) : Ended(p, r)

SetRunning(p) ==
  /\ pc[p] = "started"
  /\ state' = [state EXCEPT ![p] = "running"]
  /\ Goto(p, "onstart")
  /\ UNCHANGED <<generation, restarts, active, outcome, disposition,
                 probeFailed, restartCh, dep, held, incVars, runVars,
                 histVars>>

\* Once the terminal sweep took the registry, exec reports the handoff.
Settled(r) == IF HasHandoff /\ sealing THEN "handoff" ELSE r

\* The leader's exit cannot be observed: the launch is ended here.
Unobserved(p) ==
  /\ pc[p] = "onstart" /\ p \in Faulty
  /\ \E r \in {"err", "unconfirmed"} : Ended(p, Settled(r))

OnStart(p) ==
  /\ pc[p] = "onstart"
  /\ IF Mode[p] = "service" /\ ReadyWhen[p] = "none"
     THEN markReadyFor(p)
     ELSE UNCHANGED <<outcome, readyGen>>
  /\ prober' = IF Mode[p] = "service" /\ ReadyWhen[p] = "poll"
               THEN [prober EXCEPT ![p] = "on"] ELSE prober
  /\ Goto(p, "up")
  /\ UNCHANGED <<state, generation, restarts, active, disposition, probeFailed,
                 restartCh, dep, held, procCancelled, watcher, stale,
                 monitor, runVars, requests, promised>>

\* The command exits on its own.
ExitAlone(p) ==
  /\ pc[p] = "up"
  /\ \E r \in {"ok"} \cup (IF p \in Faulty THEN {"err"} ELSE {}) :
        Ended(p, Settled(r))

\* The incarnation is cancelled.  A command that exits 0 on SIGTERM can be
\* reaped as a clean exit, so either result is possible.
ExitCancelled(p) ==
  /\ pc[p] = "up" /\ CtxDone(p)
  /\ \E r \in {"ok", "err"} : Ended(p, Settled(r))

ExitHandoff(p) ==
  /\ pc[p] = "up" /\ handoff
  /\ Ended(p, "handoff")

-----------------------------------------------------------------------------
(* What becomes of an incarnation.  probes.Wait joins the prober and the   *)
(* monitor first; the restart watcher is not joined.                       *)

Joined(p) == pc[p] = "ended" /\ prober[p] = "off" /\ monitor[p] = "off"

DecideQuiesced(p) ==
  /\ Joined(p) /\ res[p] = "handoff"
  /\ Goto(p, "done")
  /\ UNCHANGED <<procVars, dep, held, incVars, runVars, histVars>>

\* A service looks at the run's context and at stopping, a task only at the
\* context.
Stopped(p) == runCancelled \/ (Mode[p] = "service" /\ stopping)

DecideStop(p) ==
  /\ Joined(p) /\ res[p] # "handoff" /\ Stopped(p)
  /\ stopProcess(p)
  /\ Goto(p, "returned")
  /\ UNCHANGED <<generation, restarts, active, probeFailed, restartCh,
                 dep, held, incVars, runVars, histVars>>

Decidable(p) == Joined(p) /\ res[p] # "handoff" /\ ~Stopped(p)

\* restartTriggered is closed: a requested restart, whatever the exit was.
DecideRequested(p) ==
  /\ Decidable(p) /\ Mode[p] = "service" /\ watcher[p] = "fired"
  /\ Renew(p, "restarting")
  /\ Goto(p, "begin")
  /\ UNCHANGED <<generation, active, probeFailed, restartCh, dep, held,
                 incVars, runVars, histVars>>

\* A natural end of a service, and whether its exit counts as a failure.
Natural(p) == Decidable(p) /\ Mode[p] = "service" /\ watcher[p] # "fired"
Failing(p) == res[p] # "ok" \/ probeFailed[p]
Retry(p)   == IF Failing(p)
              THEN Restart[p] # "never" /\ res[p] # "unconfirmed"
              ELSE Restart[p] = "always"
\* Mutant of Exhausted: the restart about to happen is not counted.
ExhaustedLate(p) == MaxRestarts[p] > 0 /\ restarts[p] > MaxRestarts[p]

Exhausted(p) == MaxRestarts[p] > 0 /\ restarts[p] + 1 > MaxRestarts[p]

DecideEnd(p) ==
  /\ Natural(p) /\ ~Failing(p) /\ ~Retry(p)
  /\ endProcess(p)
  /\ Goto(p, "returned")
  /\ UNCHANGED <<generation, restarts, active, probeFailed, restartCh,
                 dep, held, incVars, runVars, histVars>>

\* No restart after this failure, or giveUp.
DecideFail(p) ==
  /\ Natural(p)
  /\ (Failing(p) /\ ~Retry(p)) \/ (Retry(p) /\ Exhausted(p))
  /\ failProcess(p)
  /\ Goto(p, "returned")
  /\ UNCHANGED <<generation, restarts, active, probeFailed, restartCh,
                 dep, held, incVars, runVars, histVars>>

DecideRetry(p) ==
  /\ Natural(p) /\ Retry(p) /\ ~Exhausted(p)
  /\ Renew(p, "restarting")
  /\ Goto(p, "backoff")
  /\ UNCHANGED <<generation, active, probeFailed, restartCh, dep, held,
                 incVars, runVars, histVars>>

TaskCompleted(p) ==
  /\ Decidable(p) /\ Mode[p] = "task" /\ res[p] = "ok"
  /\ state' = [state EXCEPT ![p] = "completed"]
  /\ outcome' = [outcome EXCEPT ![p] = settleLocked(@, "satisfied")]
  /\ readyGen' = [readyGen EXCEPT ![p] = generation[p]]
  /\ Goto(p, "returned")
  /\ UNCHANGED <<generation, restarts, active, disposition, probeFailed,
                 restartCh, dep, held, incVars, runVars, requests, promised>>

TaskFailed(p) ==
  /\ Decidable(p) /\ Mode[p] = "task" /\ res[p] # "ok"
  /\ failProcess(p)
  /\ Goto(p, "failfast")
  /\ UNCHANGED <<generation, restarts, active, probeFailed, restartCh,
                 dep, held, incVars, runVars, histVars>>

\* waitBeforeRestart
BackoffStop(p) ==
  /\ pc[p] = "backoff" /\ runCancelled
  /\ stopProcess(p)
  /\ Goto(p, "returned")
  /\ UNCHANGED <<generation, restarts, active, probeFailed, restartCh,
                 dep, held, incVars, runVars, histVars>>

BackoffSkip(p) ==
  /\ pc[p] = "backoff" /\ restartCh[p]
  /\ restartCh' = [restartCh EXCEPT ![p] = FALSE]
  /\ Goto(p, "begin")
  /\ UNCHANGED <<state, generation, restarts, active, outcome, disposition,
                 probeFailed, dep, held, incVars, runVars, histVars>>

BackoffTimer(p) ==
  /\ pc[p] = "backoff"
  /\ Goto(p, "begin")
  /\ UNCHANGED <<procVars, dep, held, incVars, runVars, histVars>>

-----------------------------------------------------------------------------
(* Run's loop around runProcess                                            *)

FailFast(p) ==
  /\ pc[p] = "failfast"
  /\ runCancelled' = TRUE
  /\ Goto(p, "returned")
  /\ UNCHANGED <<procVars, dep, held, incVars, stopping, shutting,
                 sealing, handoff, ended, histVars>>

\* Mutants of SettleWorker: a pending request is overlooked, or the idle stack
\* closes admission without cancelling the run.
SettleForgetsRequest(p) ==
  /\ pc[p] = "returned"
  /\ active' = [active EXCEPT ![p] = FALSE]
  /\ LET idleStack == HasIPC /\ \A q \in Proc : ~active'[q]
     IN /\ stopping' = (stopping \/ idleStack)
        /\ runCancelled' = (runCancelled \/ idleStack)
  /\ Goto(p, IF ~HasIPC \/ Mode[p] = "task" \/ runCancelled' THEN "done" ELSE "idle")
  /\ UNCHANGED <<state, generation, restarts, outcome, disposition, probeFailed,
                 restartCh, dep, held, incVars, shutting, sealing,
                 handoff, ended, histVars>>

SettleOnlyCloses(p) ==
  /\ pc[p] = "returned"
  /\ active' = [active EXCEPT ![p] = restartCh[p] /\ ~runCancelled]
  /\ stopping' = (stopping \/ (HasIPC /\ \A q \in Proc : ~active'[q]))
  /\ Goto(p, IF ~HasIPC \/ Mode[p] = "task" \/ runCancelled THEN "done" ELSE "idle")
  /\ UNCHANGED <<state, generation, restarts, outcome, disposition, probeFailed,
                 restartCh, dep, held, incVars, runCancelled, shutting, sealing,
                 handoff, ended, histVars>>

\* Under lifecycleMu: a pending request keeps the process active, and the
\* last active process to settle stops a stack that serves commands.
SettleWorker(p) ==
  /\ pc[p] = "returned"
  /\ active' = [active EXCEPT ![p] = restartCh[p] /\ ~runCancelled]
  /\ LET idleStack == HasIPC /\ \A q \in Proc : ~active'[q]
     IN /\ stopping' = (stopping \/ idleStack)
        /\ runCancelled' = (runCancelled \/ idleStack)
  /\ Goto(p, IF ~HasIPC \/ Mode[p] = "task" \/ runCancelled' THEN "done" ELSE "idle")
  /\ UNCHANGED <<state, generation, restarts, outcome, disposition, probeFailed,
                 restartCh, dep, held, incVars, shutting, sealing,
                 handoff, ended, histVars>>

\* Mutant of IdleStop: the idle worker waits for the handoff instead.
IdleWaitsForHandoff(p) ==
  /\ pc[p] = "idle" /\ handoff
  /\ Goto(p, "done")
  /\ UNCHANGED <<procVars, dep, held, incVars, runVars, histVars>>

IdleStop(p) ==
  /\ pc[p] = "idle" /\ runCancelled
  /\ Goto(p, "done")
  /\ UNCHANGED <<procVars, dep, held, incVars, runVars, histVars>>

\* A terminal service is restarted: the whole runProcess runs again, its
\* dependency waits included.
IdleRestart(p) ==
  /\ pc[p] = "idle" /\ restartCh[p]
  /\ restartCh' = [restartCh EXCEPT ![p] = FALSE]
  /\ active' = [active EXCEPT ![p] = TRUE]
  /\ Renew(p, state[p])
  /\ EndWait(p)
  /\ Goto(p, AfterDeps(p, 1))
  /\ UNCHANGED <<generation, probeFailed, incVars, runVars, histVars>>

-----------------------------------------------------------------------------
(* The goroutines of an incarnation                                        *)

\* The watcher's select may take the request although its context is done.
WatcherTake(p) ==
  /\ watcher[p] = "armed" /\ restartCh[p]
  /\ restartCh' = [restartCh EXCEPT ![p] = FALSE]
  /\ watcher' = [watcher EXCEPT ![p] = "took"]
  /\ UNCHANGED <<state, generation, restarts, active, outcome, disposition,
                 probeFailed, workVars, procCancelled, stale, prober, monitor,
                 runVars, histVars>>

\* close(restartTriggered); procCancel()
WatcherFire(p) ==
  /\ watcher[p] = "took"
  /\ watcher' = [watcher EXCEPT ![p] = "fired"]
  /\ procCancelled' = [procCancelled EXCEPT ![p] = TRUE]
  /\ UNCHANGED <<procVars, workVars, stale, prober, monitor, runVars, histVars>>

WatcherExit(p) ==
  /\ watcher[p] = "armed" /\ CtxDone(p)
  /\ watcher' = [watcher EXCEPT ![p] = "none"]
  /\ UNCHANGED <<procVars, workVars, procCancelled, stale, prober, monitor,
                 runVars, histVars>>

\* The watcher of an earlier incarnation: takes a request that is not its
\* own, or leaves.
StaleTake(p) ==
  /\ stale[p] > 0 /\ restartCh[p]
  /\ restartCh' = [restartCh EXCEPT ![p] = FALSE]
  /\ stale' = [stale EXCEPT ![p] = @ - 1]
  /\ UNCHANGED <<state, generation, restarts, active, outcome, disposition,
                 probeFailed, workVars, procCancelled, watcher, prober, monitor,
                 runVars, histVars>>

StaleExit(p) ==
  /\ stale[p] > 0
  /\ stale' = [stale EXCEPT ![p] = @ - 1]
  /\ UNCHANGED <<procVars, workVars, procCancelled, watcher, prober, monitor,
                 runVars, histVars>>

\* handleProbeResult with a passing http, tcp or cmd probe
ProbePass(p) ==
  /\ prober[p] = "on" /\ ReadyWhen[p] = "poll"
  /\ markReadyFor(p)
  /\ prober' = [prober EXCEPT ![p] = "off"]
  /\ UNCHANGED <<state, generation, restarts, active, disposition, probeFailed,
                 restartCh, workVars, procCancelled, watcher, stale, monitor,
                 runVars, requests, promised>>

\* onLine: the output matches ready_when.log
LogMatch(p) ==
  /\ pc[p] = "up" /\ Mode[p] = "service" /\ ReadyWhen[p] = "log"
  /\ CanMarkReady(p)
  /\ markReadyFor(p)
  /\ UNCHANGED <<state, generation, restarts, active, disposition, probeFailed,
                 restartCh, workVars, incVars, runVars, requests, promised>>

\* ready_timeout runs out: failReadinessFor refuses once the incarnation is
\* ready or cancelled.
ProbeTimeout(p) ==
  /\ prober[p] = "on"
  /\ IF CtxDone(p) \/ currentOutcome(p) = "satisfied"
     THEN /\ prober' = [prober EXCEPT ![p] = "off"]
          /\ UNCHANGED probeFailed
     ELSE /\ prober' = [prober EXCEPT ![p] = "failed"]
          /\ probeFailed' = [probeFailed EXCEPT ![p] = TRUE]
  /\ UNCHANGED <<state, generation, restarts, active, outcome, disposition,
                 restartCh, workVars, procCancelled, watcher, stale, monitor,
                 runVars, histVars>>

\* The procCancel that follows a recorded readiness failure
ProberCancel(p) ==
  /\ prober[p] = "failed"
  /\ prober' = [prober EXCEPT ![p] = "off"]
  /\ procCancelled' = [procCancelled EXCEPT ![p] = TRUE]
  /\ UNCHANGED <<procVars, workVars, watcher, stale, monitor, runVars, histVars>>

\* recordHealth's unhealthy transition with restart set
HealthFail(p) ==
  /\ monitor[p] = "on" /\ state[p] = "running" /\ ~CtxDone(p)
  /\ monitor' = [monitor EXCEPT ![p] = "failed"]
  /\ probeFailed' = [probeFailed EXCEPT ![p] = TRUE]
  /\ UNCHANGED <<state, generation, restarts, active, outcome, disposition,
                 restartCh, workVars, procCancelled, watcher, stale, prober,
                 runVars, histVars>>

MonitorCancel(p) ==
  /\ monitor[p] = "failed" \/ (monitor[p] = "on" /\ CtxDone(p))
  /\ monitor' = [monitor EXCEPT ![p] = "off"]
  /\ procCancelled' = [procCancelled EXCEPT ![p] = TRUE]
  /\ UNCHANGED <<procVars, workVars, watcher, stale, prober, runVars, histVars>>

-----------------------------------------------------------------------------
(* Commands, the signal, and Run's own steps                               *)

\* requestRestart: refused once admission is closed; coalesces with a
\* request that is still pending.
RequestRestart(p) ==
  /\ HasIPC /\ Mode[p] = "service" /\ ~ended
  /\ requests < MaxRequests
  /\ ~stopping /\ ~runCancelled
  /\ active' = [active EXCEPT ![p] = TRUE]
  /\ restartCh' = [restartCh EXCEPT ![p] = TRUE]
  /\ requests' = requests + 1
  /\ promised' = [promised EXCEPT ![p] = generation[p] + 1]
  /\ UNCHANGED <<state, generation, restarts, outcome, disposition, probeFailed,
                 workVars, incVars, runVars, readyGen>>

\* Shutdown: closeAdmission, and later cancel().  A shutdown or a signal that
\* finds the run already stopping changes nothing more.
ShutdownClose ==
  /\ HasIPC /\ ~stopping /\ ~runCancelled /\ ~ended
  /\ shutting' = TRUE /\ stopping' = TRUE
  /\ UNCHANGED <<procVars, workVars, incVars, runCancelled, sealing, handoff,
                 ended, histVars>>

ShutdownCancel ==
  /\ shutting
  /\ shutting' = FALSE /\ runCancelled' = TRUE
  /\ UNCHANGED <<procVars, workVars, incVars, stopping, sealing, handoff, ended,
                 histVars>>

Signal ==
  /\ ~runCancelled
  /\ runCancelled' = TRUE
  /\ UNCHANGED <<procVars, workVars, incVars, stopping, shutting, sealing,
                 handoff, ended, histVars>>

\* beginRun's watcher
AdmissionWatcher ==
  /\ runCancelled /\ ~stopping
  /\ stopping' = TRUE
  /\ UNCHANGED <<procVars, workVars, incVars, runCancelled, shutting,
                 sealing, handoff, ended, histVars>>

AllDone == \A p \in Proc : pc[p] = "done"

\* The handoff timer: seal every group, then release the workers.
HandoffSweep ==
  /\ HasHandoff /\ runCancelled /\ ~sealing /\ ~ended
  /\ sealing' = TRUE /\ stopping' = TRUE
  /\ UNCHANGED <<procVars, workVars, incVars, runCancelled, shutting,
                 handoff, ended, histVars>>

HandoffClose ==
  /\ sealing /\ ~handoff
  /\ handoff' = TRUE
  /\ UNCHANGED <<procVars, workVars, incVars, runCancelled, stopping,
                 shutting, sealing, ended, histVars>>

RunEnds ==
  /\ AllDone /\ (sealing => handoff) /\ ~ended
  /\ ended' = TRUE /\ runCancelled' = TRUE /\ stopping' = TRUE
  /\ UNCHANGED <<procVars, workVars, incVars, shutting, sealing, handoff,
                 histVars>>

Finished == ended /\ UNCHANGED vars

-----------------------------------------------------------------------------
Init ==
  /\ state = [p \in Proc |-> "starting"]
  /\ generation = [p \in Proc |-> 0]
  /\ restarts = [p \in Proc |-> 0]
  /\ active = [p \in Proc |-> TRUE]
  /\ outcome = [p \in Proc |-> <<"unset">>]
  /\ disposition = [p \in Proc |-> "unset"]
  /\ probeFailed = [p \in Proc |-> FALSE]
  /\ restartCh = [p \in Proc |-> FALSE]
  /\ pc = [p \in Proc |-> AfterDeps(p, 1)]
  /\ dep = [p \in Proc |-> 1]
  /\ held = [p \in Proc |-> 0]
  /\ res = [p \in Proc |-> "none"]
  /\ procCancelled = [p \in Proc |-> FALSE]
  /\ watcher = [p \in Proc |-> "none"]
  /\ stale = [p \in Proc |-> 0]
  /\ prober = [p \in Proc |-> "off"]
  /\ monitor = [p \in Proc |-> "off"]
  /\ runCancelled = FALSE /\ stopping = FALSE /\ shutting = FALSE
  /\ sealing = FALSE /\ handoff = FALSE /\ ended = FALSE
  /\ requests = 0
  /\ promised = [p \in Proc |-> 0]
  /\ readyGen = [p \in Proc |-> 0]

WaitStep(p) ==
  \/ HoldCycle(p) \/ DepSatisfied(p) \/ DepTerminal(p) \/ DepStopped(p)
  \/ DepAgain(p) \/ DepQuiesced(p)

LaunchStep(p) ==
  \/ Begin(p) \/ Refuse(p) \/ StartFails(p) \/ Start(p) \/ TrackFails(p)
  \/ SetRunning(p) \/ Unobserved(p) \/ OnStart(p)

DecideStep(p) ==
  \/ DecideQuiesced(p) \/ DecideStop(p) \/ DecideRequested(p) \/ DecideEnd(p)
  \/ DecideFail(p) \/ DecideRetry(p) \/ TaskCompleted(p) \/ TaskFailed(p)

BackoffStep(p) == BackoffStop(p) \/ BackoffSkip(p) \/ BackoffTimer(p)

LoopStep(p) ==
  \/ FailFast(p) \/ SettleWorker(p) \/ IdleStop(p) \/ IdleRestart(p)

WatcherStep(p) == WatcherTake(p) \/ WatcherFire(p) \/ WatcherExit(p)
StaleStep(p)   == StaleTake(p) \/ StaleExit(p)

ProbeStep(p) ==
  \/ ProbePass(p) \/ LogMatch(p) \/ ProbeTimeout(p) \/ ProberCancel(p)

\* What the worker of p does on its own, without waiting for a command that
\* may never exit.
WorkerStep(p) ==
  \/ WaitStep(p) \/ LaunchStep(p) \/ DecideStep(p) \/ BackoffStep(p)
  \/ LoopStep(p) \/ ExitCancelled(p) \/ ExitHandoff(p)

ProcStep(p) ==
  \/ WorkerStep(p) \/ ExitAlone(p) \/ WatcherStep(p) \/ StaleStep(p)
  \/ ProbeStep(p) \/ HealthFail(p) \/ MonitorCancel(p) \/ RequestRestart(p)

RunStep ==
  \/ ShutdownClose \/ ShutdownCancel \/ Signal \/ AdmissionWatcher
  \/ HandoffSweep \/ HandoffClose \/ RunEnds

Next == (\E p \in Proc : ProcStep(p)) \/ RunStep \/ Finished

Spec == Init /\ [][Next]_vars

\* Go schedules every runnable goroutine: workers, watchers, probers (whose
\* timeout is a timer), monitors and Run itself.  Nothing is assumed of a
\* command's own exit, of requests, of shutdown or of the signal.
Fairness ==
  /\ \A p \in Proc : /\ WF_vars(WorkerStep(p))
                     /\ WF_vars(WatcherStep(p))
                     /\ WF_vars(StaleStep(p))
                     /\ WF_vars(ProbeStep(p))
                     /\ WF_vars(MonitorCancel(p))
  /\ WF_vars(ShutdownCancel)
  /\ WF_vars(AdmissionWatcher)
  /\ WF_vars(HandoffClose \/ RunEnds)

FairSpec == Spec /\ Fairness

-----------------------------------------------------------------------------
(* Properties                                                              *)

ProcTypeOK ==
  /\ state \in [Proc -> States]
  /\ generation \in [Proc -> Nat]
  /\ restarts \in [Proc -> Nat]
  /\ active \in [Proc -> BOOLEAN]
  /\ outcome \in [Proc -> Cycles]
  /\ disposition \in [Proc -> {"unset", "terminal", "stopped"}]
  /\ probeFailed \in [Proc -> BOOLEAN]
  /\ restartCh \in [Proc -> BOOLEAN]

WorkTypeOK ==
  /\ pc \in [Proc -> Place]
  /\ dep \in [Proc -> Nat \ {0}]
  /\ held \in [Proc -> Nat]
  /\ res \in [Proc -> Result]
  /\ \A p \in Proc : pc[p] = "wait" => dep[p] <= Len(DependsOn[p])

IncTypeOK ==
  /\ procCancelled \in [Proc -> BOOLEAN]
  /\ watcher \in [Proc -> {"none", "armed", "took", "fired"}]
  /\ stale \in [Proc -> Nat]
  /\ prober \in [Proc -> {"off", "on", "failed"}]
  /\ monitor \in [Proc -> {"off", "on", "failed"}]

RunTypeOK ==
  /\ runCancelled \in BOOLEAN /\ stopping \in BOOLEAN /\ shutting \in BOOLEAN
  /\ sealing \in BOOLEAN /\ handoff \in BOOLEAN /\ ended \in BOOLEAN

HistTypeOK ==
  /\ requests \in Nat
  /\ promised \in [Proc -> Nat]
  /\ readyGen \in [Proc -> Nat]

\* Every variable has its type, and a worker that waits for a dependency has
\* one to wait for: the fields of procState, the places of the workers, the
\* goroutines of the incarnations and the flags of the run.
TypeOK == ProcTypeOK /\ WorkTypeOK /\ IncTypeOK /\ RunTypeOK /\ HistTypeOK

EverReady(p) == \E i \in 1..Len(outcome[p]) : outcome[p][i] = "satisfied"

\* Ordered startup: a process has an incarnation only if each of its
\* dependencies published a ready verdict in one of its cycles.  Neither a
\* restart of the dependency, nor a failure, nor a shutdown racing the wait
\* lets a dependent start without that verdict (waitForDependency).
DependencyOrder ==
  \A p \in Proc : generation[p] > 0 =>
    \A i \in 1..Len(DependsOn[p]) : EverReady(DependsOn[p][i])

\* A published verdict is final: no step changes a settled cycle or takes a
\* cycle away (settleLocked, latchReady, resetReady).
VerdictsFinal ==
  [][\A p \in Proc : /\ Len(outcome'[p]) >= Len(outcome[p])
                     /\ \A i \in 1..Len(outcome[p]) :
                          outcome[p][i] # "unset" => outcome'[p][i] = outcome[p][i]]_vars

\* Nobody is stranded: when runProcess has returned, the current cycle is
\* settled, so a dependent that holds it, or takes it now, is released.  Only
\* the cleanup handoff ends a worker without a verdict.
Over(p) == \/ pc[p] \in {"failfast", "returned", "idle"}
           \/ pc[p] = "done" /\ ~sealing
EndedIsSettled == \A p \in Proc : Over(p) => currentOutcome(p) # "unset"

\* The reverse: "the lifecycle is over" is never published for a process
\* whose worker still has an incarnation to run, so a dependency that is
\* being restarted does not fail its dependents.
OverIsOver ==
  \A p \in Proc :
    currentOutcome(p) \in {"terminal", "stopped"} \/ disposition[p] # "unset"
      => pc[p] \in {"failfast", "returned", "idle", "done"}

\* Readiness that is advertised was earned by the current incarnation, never
\* by the one a restart replaced (resetReady, markReadyFor).
ReadyIsCurrent ==
  \A p \in Proc : currentlyReady(p) => readyGen[p] = generation[p]

\* A restart request that waits in restartCh keeps the stack alive: its
\* process is active, or the run is already stopping (requestRestartLocked
\* against the stop of an idle stack in Run's loop).
PendingKeepsAlive ==
  \A p \in Proc : restartCh[p] => active[p] \/ runCancelled

\* max_restarts bounds what the policy does on its own: beyond it there are
\* only restarts that somebody asked for.
RestartsBounded ==
  \A p \in Proc : MaxRestarts[p] > 0 => restarts[p] <= MaxRestarts[p] + requests

\* No policy restarts a process without end: every process that restarts at
\* all has a max_restarts, which is not the default.
LimitedRestarts == \A p \in Proc : Restart[p] = "never" \/ MaxRestarts[p] > 0

\* Where every restart policy is limited, a dependent leaves its wait: the
\* dependency's readiness, its end, its last restart or the shutdown releases
\* it. Without a limit a dependency that is never ready and restarts for ever
\* keeps its dependents waiting, as docs/configuration.md says.
WaitersReleased ==
  \A p \in {q \in Proc : DependsOn[q] # <<>> /\ LimitedRestarts} : Waiting(p) ~> ~Waiting(p)

\* A cancelled run ends: every worker leaves its wait, backoff, incarnation or
\* idle select, and Run returns.
CancelEndsRun == runCancelled ~> ended

\* A stack that serves commands and has no active process stops itself.
IdleStackStops == (HasIPC /\ \A p \in Proc : ~active[p]) ~> ended

\* An acknowledged restart happens: the promised generation is reached unless
\* the run is cancelled first.
AcknowledgedRestart ==
  \A p \in Proc : promised[p] > generation[p]
                   ~> (generation[p] >= promised[p] \/ runCancelled)

\* Stopping a stack whose processes never fail on their own fails nobody.
StopFailsNobody == Faulty = {} => \A p \in Proc : state[p] # "failed"

-----------------------------------------------------------------------------
(* The inductive invariant behind the safety properties                    *)

\* The first n dependencies of p have been ready.
DepsReady(p, n) == \A i \in 1..n : EverReady(DependsOn[p][i])

\* The places between the dependency waits and the end of runProcess.
Inside == {"begin", "launch", "started", "onstart", "up", "ended", "backoff"}

\* A worker has passed a dependency only by its ready verdict.
DepInvAt(p) ==
  /\ Waiting(p) => DepsReady(p, dep[p] - 1) /\ held[p] <= Len(outcome[Dep(p)])
  /\ pc[p] \in Inside \/ generation[p] > 0 => DepsReady(p, Len(DependsOn[p]))
DepInv == \A p \in Proc : DepInvAt(p)

\* Workers are released to the handoff only after the sweep.
HandoffInv == handoff => sealing

\* The rest, process by process: a result "handoff" also follows the sweep; an
\* incarnation starts on a fresh cycle; a polling prober lives only while its
\* incarnation does; a ready cycle is the current generation's; a worker that
\* is over has settled its cycle, and only such a worker has published an end.
LifeAt(p) ==
  /\ res[p] = "handoff" => sealing
  /\ pc[p] \in {"wait", "begin", "launch", "started", "onstart", "backoff"}
       => currentOutcome(p) = "unset"
  /\ ReadyWhen[p] = "poll" /\ prober[p] # "off" => pc[p] \in {"up", "ended"}
  /\ currentOutcome(p) = "satisfied" => readyGen[p] = generation[p]
  /\ Over(p) => currentOutcome(p) # "unset"
  /\ currentOutcome(p) \in {"terminal", "stopped"} \/ disposition[p] # "unset"
       => pc[p] \in {"failfast", "returned", "idle", "done"}
LifeInv == \A p \in Proc : LifeAt(p)

IndInv == TypeOK /\ DepInv /\ HandoffInv /\ LifeInv
=============================================================================
