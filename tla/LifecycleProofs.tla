--------------------------- MODULE LifecycleProofs ---------------------------
(***************************************************************************)
(* Proofs about Lifecycle, for every set of processes, every dependency    *)
(* graph and every policy.                                                 *)
(***************************************************************************)
EXTENDS Lifecycle, TLAPS

\* Settling keeps the cycles, changes at most an unset last one and leaves it
\* settled (settleLocked).
LEMMA SettleFacts ==
  ASSUME NEW c \in Cycles, NEW o \in Outcome \ {"unset"}
  PROVE  /\ settleLocked(c, o) \in Cycles
         /\ Len(settleLocked(c, o)) = Len(c)
         /\ \A i \in 1..Len(c) : c[i] # "unset" => settleLocked(c, o)[i] = c[i]
         /\ settleLocked(c, o)[Len(c)] # "unset"
         /\ c[Len(c)] = "unset" => settleLocked(c, o)[Len(c)] = o
         /\ c[Len(c)] # "unset" => settleLocked(c, o) = c
  BY DEF Cycles, settleLocked, Outcome

\* Renewing appends one unset cycle after settling the last (resetReady).
LEMMA ResetFacts ==
  ASSUME NEW c \in Cycles
  PROVE  /\ resetReady(c) \in Cycles
         /\ Len(resetReady(c)) = Len(c) + 1
         /\ \A i \in 1..Len(c) : c[i] # "unset" => resetReady(c)[i] = c[i]
         /\ resetReady(c)[Len(resetReady(c))] = "unset"
<1> DEFINE d == settleLocked(c, "again")
<1>1. /\ d \in Cycles /\ Len(d) = Len(c)
      /\ \A i \in 1..Len(c) : c[i] # "unset" => d[i] = c[i]
  BY SettleFacts DEF Outcome
<1> HIDE DEF d
<1>2. resetReady(c) = Append(d, "unset")
  BY DEF d, resetReady
<1> QED  BY <1>1, <1>2 DEF Cycles, Outcome

\* The facts about values that the type proofs share.
LEMMA TypeFacts ==
  ASSUME TypeOK
  PROVE  /\ \A c \in Cycles : resetReady(c) \in Cycles /\ Len(c) \in Nat
         /\ \A c \in Cycles, o \in {"satisfied", "terminal", "stopped"} :
              settleLocked(c, o) \in Cycles
         /\ \A p \in Proc : Waiting(p) => Dep(p) \in Proc
<1>1. \A c \in Cycles : resetReady(c) \in Cycles /\ Len(c) \in Nat
  BY ResetFacts DEF Cycles
<1>2. \A c \in Cycles, o \in {"satisfied", "terminal", "stopped"} :
         settleLocked(c, o) \in Cycles
  BY SettleFacts DEF Outcome
<1>3. \A p \in Proc : Waiting(p) => Dep(p) \in Proc
  BY LifecycleAssumption DEF TypeOK, WorkTypeOK, Waiting, Dep
<1> QED  BY <1>1, <1>2, <1>3

\* A step of a process keeps ProcTypeOK.
LEMMA ProcTypeOKStep ==
  ASSUME TypeOK, NEW p \in Proc, ProcStep(p)
  PROVE  ProcTypeOK'
<1> USE TypeFacts DEF TypeOK, ProcTypeOK
<1>1. CASE WaitStep(p)
  <2>1. CASE HoldCycle(p)
    BY <2>1 DEF HoldCycle, Waiting, Holds, procVars, States
  <2>2. CASE DepSatisfied(p)
    BY <2>2 DEF DepSatisfied, Goto, AfterDeps, Waiting, Holds, procVars,
      States
  <2>3. CASE DepTerminal(p)
    BY <2>3 DEF DepTerminal, failProcess, Goto, EndWait, EndWith, Waiting,
      Holds, procVars, States
  <2>4. CASE DepStopped(p)
    BY <2>4 DEF DepStopped, stopProcess, Goto, EndWait, EndWith, Waiting,
      Holds, procVars, States
  <2>5. CASE DepAgain(p)
    BY <2>5 DEF DepAgain, Waiting, Holds, procVars, States
  <2>6. CASE DepQuiesced(p)
    BY <2>6 DEF DepQuiesced, Goto, EndWait, Waiting, Holds, procVars, States
  <2> QED  BY <1>1, <2>1, <2>2, <2>3, <2>4, <2>5, <2>6 DEF WaitStep
<1>2. CASE LaunchStep(p)
  <2>1. CASE Begin(p)
    <3>1. /\ state' \in [Proc -> States]
          /\ generation' \in [Proc -> Nat]
      BY <2>1 DEF Begin, States
    <3>2. /\ probeFailed' \in [Proc -> BOOLEAN]
          /\ disposition' \in [Proc -> {"unset", "terminal", "stopped"}]
      BY <2>1 DEF Begin
    <3>3. UNCHANGED <<restarts, active, outcome, restartCh>>
      BY <2>1 DEF Begin
    <3> QED  BY <3>1, <3>2, <3>3
  <2>2. CASE Refuse(p)
    BY <2>2 DEF Refuse, Ended, procVars, States
  <2>3. CASE StartFails(p)
    BY <2>3 DEF StartFails, Ended, procVars, States
  <2>4. CASE Start(p)
    BY <2>4 DEF Start, Goto, procVars, States
  <2>5. CASE TrackFails(p)
    BY <2>5 DEF TrackFails, Ended, procVars, States
  <2>6. CASE SetRunning(p)
    BY <2>6 DEF SetRunning, Goto, procVars, States
  <2>7. CASE Unobserved(p)
    BY <2>7 DEF Unobserved, Ended, Settled, procVars, States
  <2>8. CASE OnStart(p)
    <3>1. CASE CanMarkReady(p)
      BY <2>8, <3>1 DEF OnStart, markReadyFor, Goto
    <3>2. CASE ~(CanMarkReady(p))
      BY <2>8, <3>2 DEF OnStart, markReadyFor, Goto
    <3> QED  BY <3>1, <3>2
  <2> QED  BY <1>2, <2>1, <2>2, <2>3, <2>4, <2>5, <2>6, <2>7, <2>8 DEF LaunchStep
<1>3. CASE ExitAlone(p) \/ ExitCancelled(p) \/ ExitHandoff(p)
  BY <1>3 DEF ExitAlone, ExitCancelled, ExitHandoff, Ended, procVars
<1>4. CASE DecideStep(p)
  <2>1. CASE DecideQuiesced(p)
    BY <2>1 DEF DecideQuiesced, Goto, procVars, States
  <2>2. CASE DecideStop(p)
    BY <2>2 DEF DecideStop, stopProcess, Goto, EndWith, procVars, States
  <2>3. CASE DecideRequested(p)
    BY <2>3 DEF DecideRequested, Renew, Goto, procVars, States
  <2>4. CASE DecideEnd(p)
    BY <2>4 DEF DecideEnd, endProcess, Goto, EndWith, procVars, States
  <2>5. CASE DecideFail(p)
    BY <2>5 DEF DecideFail, failProcess, Goto, EndWith, procVars, States
  <2>6. CASE DecideRetry(p)
    BY <2>6 DEF DecideRetry, Renew, Goto, procVars, States
  <2>7. CASE TaskCompleted(p)
    BY <2>7 DEF TaskCompleted, Goto, procVars, States
  <2>8. CASE TaskFailed(p)
    BY <2>8 DEF TaskFailed, failProcess, Goto, EndWith, procVars, States
  <2> QED  BY <1>4, <2>1, <2>2, <2>3, <2>4, <2>5, <2>6, <2>7, <2>8 DEF DecideStep
<1>5. CASE BackoffStep(p)
  <2>1. CASE BackoffStop(p)
    BY <2>1 DEF BackoffStop, stopProcess, Goto, EndWith, procVars, States
  <2>2. CASE BackoffSkip(p)
    BY <2>2 DEF BackoffSkip, Goto, procVars, States
  <2>3. CASE BackoffTimer(p)
    BY <2>3 DEF BackoffTimer, Goto, procVars, States
  <2> QED  BY <1>5, <2>1, <2>2, <2>3 DEF BackoffStep
<1>6. CASE LoopStep(p)
  <2>1. CASE FailFast(p)
    BY <2>1 DEF FailFast, Goto, procVars, States
  <2>2. CASE SettleWorker(p)
    BY <2>2 DEF SettleWorker, Goto, procVars, States, RunTypeOK
  <2>3. CASE IdleStop(p)
    BY <2>3 DEF IdleStop, Goto, procVars, States
  <2>4. CASE IdleRestart(p)
    BY <2>4 DEF IdleRestart, Renew, EndWait, Goto, AfterDeps, procVars, States
  <2> QED  BY <1>6, <2>1, <2>2, <2>3, <2>4 DEF LoopStep
<1>7. CASE WatcherStep(p)
  <2>1. CASE WatcherTake(p)
    BY <2>1 DEF WatcherTake, procVars, States
  <2>2. CASE WatcherFire(p)
    BY <2>2 DEF WatcherFire, procVars, States
  <2>3. CASE WatcherExit(p)
    BY <2>3 DEF WatcherExit, procVars, States
  <2> QED  BY <1>7, <2>1, <2>2, <2>3 DEF WatcherStep
<1>8. CASE StaleStep(p)
  <2>1. CASE StaleTake(p)
    BY <2>1 DEF StaleTake, procVars, States
  <2>2. CASE StaleExit(p)
    BY <2>2 DEF StaleExit, procVars, States
  <2> QED  BY <1>8, <2>1, <2>2 DEF StaleStep
<1>9. CASE ProbeStep(p)
  <2>1. CASE ProbePass(p)
    <3>1. outcome' \in [Proc -> Cycles]
      <4>1. CASE CanMarkReady(p)
        <5>1. outcome' = [outcome EXCEPT ![p] = settleLocked(outcome[p], "satisfied")]
          BY <2>1, <4>1 DEF ProbePass, markReadyFor
        <5> QED  BY <5>1
      <4>2. CASE ~CanMarkReady(p)
        BY <2>1, <4>2 DEF ProbePass, markReadyFor
      <4> QED  BY <4>1, <4>2
    <3>2. UNCHANGED <<state, generation, restarts, active, disposition,
                      probeFailed, restartCh>>
      BY <2>1 DEF ProbePass
    <3> QED  BY <3>1, <3>2
  <2>2. CASE LogMatch(p)
    <3>1. outcome' \in [Proc -> Cycles]
      <4>1. CASE CanMarkReady(p)
        <5>1. outcome' = [outcome EXCEPT ![p] = settleLocked(outcome[p], "satisfied")]
          BY <2>2, <4>1 DEF LogMatch, markReadyFor
        <5> QED  BY <5>1
      <4>2. CASE ~CanMarkReady(p)
        BY <2>2, <4>2 DEF LogMatch, markReadyFor
      <4> QED  BY <4>1, <4>2
    <3>2. UNCHANGED <<state, generation, restarts, active, disposition,
                      probeFailed, restartCh>>
      BY <2>2 DEF LogMatch
    <3> QED  BY <3>1, <3>2
  <2>3. CASE ProbeTimeout(p)
    BY <2>3 DEF ProbeTimeout, procVars, States
  <2>4. CASE ProberCancel(p)
    BY <2>4 DEF ProberCancel, procVars, States
  <2> QED  BY <1>9, <2>1, <2>2, <2>3, <2>4 DEF ProbeStep
<1>10. CASE HealthFail(p) \/ MonitorCancel(p) \/ RequestRestart(p)
  <2>1. CASE HealthFail(p)
    BY <2>1 DEF HealthFail, procVars, States
  <2>2. CASE MonitorCancel(p)
    BY <2>2 DEF MonitorCancel, procVars, States
  <2>3. CASE RequestRestart(p)
    BY <2>3 DEF RequestRestart, procVars, States
  <2> QED  BY <1>10, <2>1, <2>2, <2>3
<1> QED  BY <1>1, <1>2, <1>3, <1>4, <1>5, <1>6, <1>7, <1>8, <1>9, <1>10 DEF ProcStep, WorkerStep

\* A step of a process keeps WorkTypeOK.
LEMMA WorkTypeOKStep ==
  ASSUME TypeOK, NEW p \in Proc, ProcStep(p)
  PROVE  WorkTypeOK'
<1> USE TypeFacts DEF TypeOK, WorkTypeOK
<1>1. CASE WaitStep(p)
  <2>1. CASE HoldCycle(p)
    BY <2>1 DEF HoldCycle, Waiting, Holds, workVars, Place, Result, ProcTypeOK
  <2>2. CASE DepSatisfied(p)
    BY <2>2 DEF DepSatisfied, Goto, AfterDeps, Waiting, Holds, workVars,
      Place, Result
  <2>3. CASE DepTerminal(p)
    BY <2>3 DEF DepTerminal, failProcess, Goto, EndWait, EndWith, Waiting,
      Holds, workVars, Place, Result
  <2>4. CASE DepStopped(p)
    BY <2>4 DEF DepStopped, stopProcess, Goto, EndWait, EndWith, Waiting,
      Holds, workVars, Place, Result
  <2>5. CASE DepAgain(p)
    BY <2>5 DEF DepAgain, Waiting, Holds, workVars, Place, Result
  <2>6. CASE DepQuiesced(p)
    BY <2>6 DEF DepQuiesced, Goto, EndWait, Waiting, Holds, workVars, Place,
      Result
  <2> QED  BY <1>1, <2>1, <2>2, <2>3, <2>4, <2>5, <2>6 DEF WaitStep
<1>2. CASE LaunchStep(p)
  <2>1. CASE Begin(p)
    BY <2>1 DEF Begin, Goto, workVars, Place, Result
  <2>2. CASE Refuse(p)
    BY <2>2 DEF Refuse, Ended, workVars, Place, Result
  <2>3. CASE StartFails(p)
    BY <2>3 DEF StartFails, Ended, workVars, Place, Result
  <2>4. CASE Start(p)
    BY <2>4 DEF Start, Goto, workVars, Place, Result
  <2>5. CASE TrackFails(p)
    BY <2>5 DEF TrackFails, Ended, workVars, Place, Result
  <2>6. CASE SetRunning(p)
    BY <2>6 DEF SetRunning, Goto, workVars, Place, Result
  <2>7. CASE Unobserved(p)
    BY <2>7 DEF Unobserved, Ended, Settled, workVars, Place, Result
  <2>8. CASE OnStart(p)
    BY <2>8 DEF OnStart, markReadyFor, Goto, workVars, Place, Result
  <2> QED  BY <1>2, <2>1, <2>2, <2>3, <2>4, <2>5, <2>6, <2>7, <2>8 DEF LaunchStep
<1>3. CASE ExitAlone(p) \/ ExitCancelled(p) \/ ExitHandoff(p)
  <2>1. CASE ExitAlone(p)
    BY <2>1 DEF ExitAlone, Ended, Settled, workVars, Place, Result
  <2>2. CASE ExitCancelled(p)
    BY <2>2 DEF ExitCancelled, Ended, Settled, workVars, Place, Result
  <2>3. CASE ExitHandoff(p)
    BY <2>3 DEF ExitHandoff, Ended, workVars, Place, Result
  <2> QED  BY <1>3, <2>1, <2>2, <2>3
<1>4. CASE DecideStep(p)
  <2>1. CASE DecideQuiesced(p)
    BY <2>1 DEF DecideQuiesced, Goto, workVars, Place, Result
  <2>2. CASE DecideStop(p)
    BY <2>2 DEF DecideStop, stopProcess, Goto, EndWith, workVars, Place,
      Result
  <2>3. CASE DecideRequested(p)
    BY <2>3 DEF DecideRequested, Renew, Goto, workVars, Place, Result
  <2>4. CASE DecideEnd(p)
    BY <2>4 DEF DecideEnd, endProcess, Goto, EndWith, workVars, Place, Result
  <2>5. CASE DecideFail(p)
    BY <2>5 DEF DecideFail, failProcess, Goto, EndWith, workVars, Place,
      Result
  <2>6. CASE DecideRetry(p)
    BY <2>6 DEF DecideRetry, Renew, Goto, workVars, Place, Result
  <2>7. CASE TaskCompleted(p)
    BY <2>7 DEF TaskCompleted, Goto, workVars, Place, Result
  <2>8. CASE TaskFailed(p)
    BY <2>8 DEF TaskFailed, failProcess, Goto, EndWith, workVars, Place,
      Result
  <2> QED  BY <1>4, <2>1, <2>2, <2>3, <2>4, <2>5, <2>6, <2>7, <2>8 DEF DecideStep
<1>5. CASE BackoffStep(p)
  <2>1. CASE BackoffStop(p)
    BY <2>1 DEF BackoffStop, stopProcess, Goto, EndWith, workVars, Place,
      Result
  <2>2. CASE BackoffSkip(p)
    BY <2>2 DEF BackoffSkip, Goto, workVars, Place, Result
  <2>3. CASE BackoffTimer(p)
    BY <2>3 DEF BackoffTimer, Goto, workVars, Place, Result
  <2> QED  BY <1>5, <2>1, <2>2, <2>3 DEF BackoffStep
<1>6. CASE LoopStep(p)
  <2>1. CASE FailFast(p)
    BY <2>1 DEF FailFast, Goto, workVars, Place, Result
  <2>2. CASE SettleWorker(p)
    BY <2>2 DEF SettleWorker, Goto, workVars, Place, Result
  <2>3. CASE IdleStop(p)
    BY <2>3 DEF IdleStop, Goto, workVars, Place, Result
  <2>4. CASE IdleRestart(p)
    BY <2>4 DEF IdleRestart, Renew, EndWait, Goto, AfterDeps, workVars, Place,
      Result
  <2> QED  BY <1>6, <2>1, <2>2, <2>3, <2>4 DEF LoopStep
<1>7. CASE WatcherStep(p)
  BY <1>7 DEF WatcherStep, WatcherTake, WatcherFire, WatcherExit, workVars
<1>8. CASE StaleStep(p)
  BY <1>8 DEF StaleStep, StaleTake, StaleExit, workVars
<1>9. CASE ProbeStep(p)
  BY <1>9 DEF ProbeStep, ProbePass, LogMatch, ProbeTimeout, ProberCancel,
    workVars
<1>10. CASE HealthFail(p) \/ MonitorCancel(p) \/ RequestRestart(p)
  BY <1>10 DEF HealthFail, MonitorCancel, RequestRestart, workVars
<1> QED  BY <1>1, <1>2, <1>3, <1>4, <1>5, <1>6, <1>7, <1>8, <1>9, <1>10 DEF ProcStep, WorkerStep

\* A step of a process keeps IncTypeOK.
LEMMA IncTypeOKStep ==
  ASSUME TypeOK, NEW p \in Proc, ProcStep(p)
  PROVE  IncTypeOK'
<1> USE TypeFacts DEF TypeOK, IncTypeOK
<1>1. CASE WaitStep(p)
  BY <1>1 DEF WaitStep, HoldCycle, DepSatisfied, DepTerminal, DepStopped,
    DepAgain, DepQuiesced, incVars
<1>2. CASE LaunchStep(p)
  <2>1. CASE Begin(p)
    <3>1. /\ procCancelled' \in [Proc -> BOOLEAN]
          /\ watcher' \in [Proc -> {"none", "armed", "took", "fired"}]
      BY <2>1 DEF Begin, incVars
    <3>2. stale' \in [Proc -> Nat]
      BY <2>1 DEF Begin, incVars
    <3>3. /\ prober' \in [Proc -> {"off", "on", "failed"}]
          /\ monitor' \in [Proc -> {"off", "on", "failed"}]
      BY <2>1 DEF Begin, incVars
    <3> QED  BY <3>1, <3>2, <3>3
  <2>2. CASE Refuse(p)
    BY <2>2 DEF Refuse, Ended, incVars
  <2>3. CASE StartFails(p)
    BY <2>3 DEF StartFails, Ended, incVars
  <2>4. CASE Start(p)
    BY <2>4 DEF Start, Goto, incVars
  <2>5. CASE TrackFails(p)
    BY <2>5 DEF TrackFails, Ended, incVars
  <2>6. CASE SetRunning(p)
    BY <2>6 DEF SetRunning, Goto, incVars
  <2>7. CASE Unobserved(p)
    BY <2>7 DEF Unobserved, Ended, Settled, incVars
  <2>8. CASE OnStart(p)
    BY <2>8 DEF OnStart, markReadyFor, Goto, incVars
  <2> QED  BY <1>2, <2>1, <2>2, <2>3, <2>4, <2>5, <2>6, <2>7, <2>8 DEF LaunchStep
<1>3. CASE ExitAlone(p) \/ ExitCancelled(p) \/ ExitHandoff(p)
  <2>1. CASE ExitAlone(p)
    BY <2>1 DEF ExitAlone, Ended, Settled, incVars
  <2>2. CASE ExitCancelled(p)
    BY <2>2 DEF ExitCancelled, Ended, Settled, incVars
  <2>3. CASE ExitHandoff(p)
    BY <2>3 DEF ExitHandoff, Ended, incVars
  <2> QED  BY <1>3, <2>1, <2>2, <2>3
<1>4. CASE DecideStep(p)
  BY <1>4 DEF DecideStep, DecideQuiesced, DecideStop, DecideRequested,
    DecideEnd, DecideFail, DecideRetry, TaskCompleted, TaskFailed, incVars
<1>5. CASE BackoffStep(p)
  BY <1>5 DEF BackoffStep, BackoffStop, BackoffSkip, BackoffTimer, incVars
<1>6. CASE LoopStep(p)
  BY <1>6 DEF LoopStep, FailFast, SettleWorker, IdleStop, IdleRestart, incVars
<1>7. CASE WatcherStep(p)
  <2>1. CASE WatcherTake(p)
    BY <2>1 DEF WatcherTake, incVars
  <2>2. CASE WatcherFire(p)
    BY <2>2 DEF WatcherFire, incVars
  <2>3. CASE WatcherExit(p)
    BY <2>3 DEF WatcherExit, incVars
  <2> QED  BY <1>7, <2>1, <2>2, <2>3 DEF WatcherStep
<1>8. CASE StaleStep(p)
  <2>1. CASE StaleTake(p)
    BY <2>1 DEF StaleTake, incVars
  <2>2. CASE StaleExit(p)
    BY <2>2 DEF StaleExit, incVars
  <2> QED  BY <1>8, <2>1, <2>2 DEF StaleStep
<1>9. CASE ProbeStep(p)
  <2>1. CASE ProbePass(p)
    BY <2>1 DEF ProbePass, markReadyFor, incVars
  <2>2. CASE LogMatch(p)
    BY <2>2 DEF LogMatch, markReadyFor, incVars
  <2>3. CASE ProbeTimeout(p)
    BY <2>3 DEF ProbeTimeout, incVars
  <2>4. CASE ProberCancel(p)
    BY <2>4 DEF ProberCancel, incVars
  <2> QED  BY <1>9, <2>1, <2>2, <2>3, <2>4 DEF ProbeStep
<1>10. CASE HealthFail(p) \/ MonitorCancel(p) \/ RequestRestart(p)
  <2>1. CASE HealthFail(p)
    BY <2>1 DEF HealthFail, incVars
  <2>2. CASE MonitorCancel(p)
    BY <2>2 DEF MonitorCancel, incVars
  <2>3. CASE RequestRestart(p)
    BY <2>3 DEF RequestRestart, incVars
  <2> QED  BY <1>10, <2>1, <2>2, <2>3
<1> QED  BY <1>1, <1>2, <1>3, <1>4, <1>5, <1>6, <1>7, <1>8, <1>9, <1>10 DEF ProcStep, WorkerStep

\* A step of a process keeps RunTypeOK.
LEMMA RunTypeOKStep ==
  ASSUME TypeOK, NEW p \in Proc, ProcStep(p)
  PROVE  RunTypeOK'
<1> USE TypeFacts DEF TypeOK, RunTypeOK
<1>1. CASE WaitStep(p)
  BY <1>1 DEF WaitStep, HoldCycle, DepSatisfied, DepTerminal, DepStopped,
    DepAgain, DepQuiesced, runVars
<1>2. CASE LaunchStep(p)
  BY <1>2 DEF LaunchStep, Begin, Refuse, StartFails, Start, TrackFails,
    SetRunning, Unobserved, OnStart, Ended, runVars
<1>3. CASE ExitAlone(p) \/ ExitCancelled(p) \/ ExitHandoff(p)
  BY <1>3 DEF ExitAlone, ExitCancelled, ExitHandoff, Ended, runVars
<1>4. CASE DecideStep(p)
  BY <1>4 DEF DecideStep, DecideQuiesced, DecideStop, DecideRequested,
    DecideEnd, DecideFail, DecideRetry, TaskCompleted, TaskFailed, runVars
<1>5. CASE BackoffStep(p)
  BY <1>5 DEF BackoffStep, BackoffStop, BackoffSkip, BackoffTimer, runVars
<1>6. CASE LoopStep(p)
  <2>1. CASE FailFast(p)
    BY <2>1 DEF FailFast, Goto, runVars
  <2>2. CASE SettleWorker(p)
    BY <2>2 DEF SettleWorker, Goto, runVars
  <2>3. CASE IdleStop(p)
    BY <2>3 DEF IdleStop, Goto, runVars
  <2>4. CASE IdleRestart(p)
    BY <2>4 DEF IdleRestart, Renew, EndWait, Goto, AfterDeps, runVars
  <2> QED  BY <1>6, <2>1, <2>2, <2>3, <2>4 DEF LoopStep
<1>7. CASE WatcherStep(p)
  BY <1>7 DEF WatcherStep, WatcherTake, WatcherFire, WatcherExit, runVars
<1>8. CASE StaleStep(p)
  BY <1>8 DEF StaleStep, StaleTake, StaleExit, runVars
<1>9. CASE ProbeStep(p)
  BY <1>9 DEF ProbeStep, ProbePass, LogMatch, ProbeTimeout, ProberCancel,
    runVars
<1>10. CASE HealthFail(p) \/ MonitorCancel(p) \/ RequestRestart(p)
  BY <1>10 DEF HealthFail, MonitorCancel, RequestRestart, runVars
<1> QED  BY <1>1, <1>2, <1>3, <1>4, <1>5, <1>6, <1>7, <1>8, <1>9, <1>10 DEF ProcStep, WorkerStep

\* A step of a process keeps HistTypeOK.
LEMMA HistTypeOKStep ==
  ASSUME TypeOK, NEW p \in Proc, ProcStep(p)
  PROVE  HistTypeOK'
<1> USE TypeFacts DEF TypeOK, HistTypeOK
<1>1. CASE WaitStep(p)
  BY <1>1 DEF WaitStep, HoldCycle, DepSatisfied, DepTerminal, DepStopped,
    DepAgain, DepQuiesced, histVars
<1>2. CASE LaunchStep(p)
  <2>1. CASE Begin(p)
    BY <2>1 DEF Begin, Goto, histVars, ProcTypeOK
  <2>2. CASE Refuse(p)
    BY <2>2 DEF Refuse, Ended, histVars, ProcTypeOK
  <2>3. CASE StartFails(p)
    BY <2>3 DEF StartFails, Ended, histVars, ProcTypeOK
  <2>4. CASE Start(p)
    BY <2>4 DEF Start, Goto, histVars, ProcTypeOK
  <2>5. CASE TrackFails(p)
    BY <2>5 DEF TrackFails, Ended, histVars, ProcTypeOK
  <2>6. CASE SetRunning(p)
    BY <2>6 DEF SetRunning, Goto, histVars, ProcTypeOK
  <2>7. CASE Unobserved(p)
    BY <2>7 DEF Unobserved, Ended, Settled, histVars, ProcTypeOK
  <2>8. CASE OnStart(p)
    BY <2>8 DEF OnStart, markReadyFor, Goto, histVars, ProcTypeOK
  <2> QED  BY <1>2, <2>1, <2>2, <2>3, <2>4, <2>5, <2>6, <2>7, <2>8 DEF LaunchStep
<1>3. CASE ExitAlone(p) \/ ExitCancelled(p) \/ ExitHandoff(p)
  BY <1>3 DEF ExitAlone, ExitCancelled, ExitHandoff, Ended, histVars
<1>4. CASE DecideStep(p)
  <2>1. CASE DecideQuiesced(p)
    BY <2>1 DEF DecideQuiesced, Goto, histVars, ProcTypeOK
  <2>2. CASE DecideStop(p)
    BY <2>2 DEF DecideStop, stopProcess, Goto, EndWith, histVars, ProcTypeOK
  <2>3. CASE DecideRequested(p)
    BY <2>3 DEF DecideRequested, Renew, Goto, histVars, ProcTypeOK
  <2>4. CASE DecideEnd(p)
    BY <2>4 DEF DecideEnd, endProcess, Goto, EndWith, histVars, ProcTypeOK
  <2>5. CASE DecideFail(p)
    BY <2>5 DEF DecideFail, failProcess, Goto, EndWith, histVars, ProcTypeOK
  <2>6. CASE DecideRetry(p)
    BY <2>6 DEF DecideRetry, Renew, Goto, histVars, ProcTypeOK
  <2>7. CASE TaskCompleted(p)
    BY <2>7 DEF TaskCompleted, Goto, histVars, ProcTypeOK
  <2>8. CASE TaskFailed(p)
    BY <2>8 DEF TaskFailed, failProcess, Goto, EndWith, histVars, ProcTypeOK
  <2> QED  BY <1>4, <2>1, <2>2, <2>3, <2>4, <2>5, <2>6, <2>7, <2>8 DEF DecideStep
<1>5. CASE BackoffStep(p)
  BY <1>5 DEF BackoffStep, BackoffStop, BackoffSkip, BackoffTimer, histVars
<1>6. CASE LoopStep(p)
  BY <1>6 DEF LoopStep, FailFast, SettleWorker, IdleStop, IdleRestart,
    histVars
<1>7. CASE WatcherStep(p)
  BY <1>7 DEF WatcherStep, WatcherTake, WatcherFire, WatcherExit, histVars
<1>8. CASE StaleStep(p)
  BY <1>8 DEF StaleStep, StaleTake, StaleExit, histVars
<1>9. CASE ProbeStep(p)
  <2>1. CASE ProbePass(p)
    BY <2>1 DEF ProbePass, markReadyFor, histVars, ProcTypeOK
  <2>2. CASE LogMatch(p)
    <3>1. /\ UNCHANGED <<requests, promised>>
          /\ \/ readyGen' = readyGen
             \/ readyGen' = [readyGen EXCEPT ![p] = generation[p]]
      BY <2>2 DEF LogMatch, markReadyFor
    <3> QED  BY <3>1 DEF ProcTypeOK
  <2>3. CASE ProbeTimeout(p)
    BY <2>3 DEF ProbeTimeout, histVars, ProcTypeOK
  <2>4. CASE ProberCancel(p)
    BY <2>4 DEF ProberCancel, histVars, ProcTypeOK
  <2> QED  BY <1>9, <2>1, <2>2, <2>3, <2>4 DEF ProbeStep
<1>10. CASE HealthFail(p) \/ MonitorCancel(p) \/ RequestRestart(p)
  <2>1. CASE HealthFail(p)
    BY <2>1 DEF HealthFail, histVars, ProcTypeOK
  <2>2. CASE MonitorCancel(p)
    BY <2>2 DEF MonitorCancel, histVars, ProcTypeOK
  <2>3. CASE RequestRestart(p)
    BY <2>3, SMTT(20) DEF RequestRestart, histVars, ProcTypeOK
  <2> QED  BY <1>10, <2>1, <2>2, <2>3
<1> QED  BY <1>1, <1>2, <1>3, <1>4, <1>5, <1>6, <1>7, <1>8, <1>9, <1>10 DEF ProcStep, WorkerStep

\* Init and every step establish the types.
LEMMA TypeInit == Init => TypeOK
<1> SUFFICES ASSUME Init PROVE TypeOK
  OBVIOUS
<1>1. <<"unset">> \in Cycles
  BY DEF Cycles, Outcome
<1>2. \A p \in Proc : /\ AfterDeps(p, 1) \in Place
                      /\ AfterDeps(p, 1) = "wait" => 1 <= Len(DependsOn[p])
  BY LifecycleAssumption DEF AfterDeps, Place
<1>3. ProcTypeOK
  BY <1>1 DEF Init, ProcTypeOK, States
<1>4. WorkTypeOK
  BY <1>2 DEF Init, WorkTypeOK, Result
<1>5. IncTypeOK /\ RunTypeOK /\ HistTypeOK
  BY DEF Init, IncTypeOK, RunTypeOK, HistTypeOK
<1> QED  BY <1>3, <1>4, <1>5 DEF TypeOK

\* Every step keeps the types.
LEMMA TypeNext == TypeOK /\ [Next]_vars => TypeOK'
<1> SUFFICES ASSUME TypeOK, [Next]_vars PROVE TypeOK'
  OBVIOUS
<1>1. ASSUME NEW p \in Proc, ProcStep(p) PROVE TypeOK'
  BY <1>1, ProcTypeOKStep, WorkTypeOKStep, IncTypeOKStep, RunTypeOKStep,
     HistTypeOKStep DEF TypeOK
<1>2. CASE RunStep
  <2>1. UNCHANGED <<procVars, workVars, incVars, histVars>> /\ RunTypeOK'
    BY <1>2 DEF TypeOK, RunTypeOK, RunStep, ShutdownClose, ShutdownCancel,
       Signal, AdmissionWatcher, HandoffSweep, HandoffClose, RunEnds
  <2> QED  BY <2>1 DEF TypeOK, ProcTypeOK, WorkTypeOK, IncTypeOK, HistTypeOK,
              procVars, workVars, incVars, histVars
<1>3. CASE UNCHANGED vars
  BY <1>3 DEF vars, TypeOK, ProcTypeOK, WorkTypeOK, IncTypeOK, RunTypeOK,
     HistTypeOK, procVars, workVars, incVars, runVars, histVars
<1> QED  BY <1>1, <1>2, <1>3 DEF Next, Finished

\* Type correctness: every behaviour of the lifecycle, for any processes,
\* dependencies and policies, keeps every field in its type.
THEOREM TypeCorrect == Spec => []TypeOK
  BY TypeInit, TypeNext, PTL DEF Spec

-----------------------------------------------------------------------------
(* Readiness cycles only grow                                              *)

\* A step of p settles or renews the cycles of p, or leaves them alone.
LEMMA OutcomeStep ==
  ASSUME NEW p \in Proc, ProcStep(p)
  PROVE  \/ outcome' = outcome
         \/ \E o \in {"satisfied", "terminal", "stopped"} :
               outcome' = [outcome EXCEPT ![p] = settleLocked(outcome[p], o)]
         \/ outcome' = [outcome EXCEPT ![p] = resetReady(outcome[p])]
<1>1. CASE WaitStep(p)
  BY <1>1 DEF WaitStep, HoldCycle, DepSatisfied, DepTerminal, DepStopped,
    DepAgain, DepQuiesced, failProcess, EndWith, stopProcess, procVars
<1>2. CASE LaunchStep(p)
  BY <1>2 DEF LaunchStep, Begin, Refuse, StartFails, Start, TrackFails,
    SetRunning, Unobserved, OnStart, Ended, markReadyFor, procVars
<1>3. CASE ExitAlone(p) \/ ExitCancelled(p) \/ ExitHandoff(p)
  BY <1>3 DEF ExitAlone, ExitCancelled, ExitHandoff, Ended, procVars
<1>4. CASE DecideStep(p)
  BY <1>4 DEF DecideStep, DecideQuiesced, DecideStop, DecideRequested,
    DecideEnd, DecideFail, DecideRetry, TaskCompleted, TaskFailed,
    stopProcess, EndWith, Renew, endProcess, failProcess, procVars
<1>5. CASE BackoffStep(p)
  BY <1>5 DEF BackoffStep, BackoffStop, BackoffSkip, BackoffTimer,
    stopProcess, EndWith, procVars
<1>6. CASE LoopStep(p)
  BY <1>6 DEF LoopStep, FailFast, SettleWorker, IdleStop, IdleRestart, Renew,
    procVars
<1>7. CASE WatcherStep(p)
  BY <1>7 DEF WatcherStep, WatcherTake, WatcherFire, WatcherExit, procVars
<1>8. CASE StaleStep(p)
  BY <1>8 DEF StaleStep, StaleTake, StaleExit, procVars
<1>9. CASE ProbeStep(p)
  BY <1>9 DEF ProbeStep, ProbePass, LogMatch, ProbeTimeout, ProberCancel,
    markReadyFor, procVars
<1>10. CASE HealthFail(p) \/ MonitorCancel(p) \/ RequestRestart(p)
  BY <1>10 DEF HealthFail, MonitorCancel, RequestRestart, procVars
<1> QED  BY <1>1, <1>2, <1>3, <1>4, <1>5, <1>6, <1>7, <1>8, <1>9, <1>10 DEF ProcStep, WorkerStep

Grows(q) == /\ Len(outcome'[q]) >= Len(outcome[q])
            /\ \A i \in 1..Len(outcome[q]) :
                 outcome[q][i] # "unset" => outcome'[q][i] = outcome[q][i]

\* No step takes a readiness cycle away or overwrites its verdict.
LEMMA CyclesGrow ==
  ASSUME TypeOK, [Next]_vars
  PROVE  \A q \in Proc : Grows(q)
<1>0. outcome \in [Proc -> Cycles] /\ \A c \in Cycles : Len(c) \in Nat
  BY DEF TypeOK, ProcTypeOK, Cycles
<1>1. CASE outcome' = outcome
  BY <1>0, <1>1 DEF Grows
<1>2. ASSUME NEW p \in Proc, ProcStep(p), outcome' # outcome
      PROVE  \A q \in Proc : Grows(q)
  <2>1. CASE \E o \in {"satisfied", "terminal", "stopped"} :
               outcome' = [outcome EXCEPT ![p] = settleLocked(outcome[p], o)]
    BY <1>0, <2>1, SettleFacts DEF Grows, Outcome
  <2>2. CASE outcome' = [outcome EXCEPT ![p] = resetReady(outcome[p])]
    BY <1>0, <2>2, ResetFacts DEF Grows
  <2> QED  BY <1>2, <2>1, <2>2, OutcomeStep
<1>3. RunStep \/ UNCHANGED vars => outcome' = outcome
  BY DEF RunStep, ShutdownClose, ShutdownCancel, Signal, AdmissionWatcher,
     HandoffSweep, HandoffClose, RunEnds, vars, procVars
<1> QED  BY <1>1, <1>2, <1>3 DEF Next, Finished

\* A published readiness verdict is never overwritten and never taken away:
\* whoever wakes on a cycle reads the verdict it was settled with.
THEOREM VerdictsAreFinal == Spec => VerdictsFinal
<1>1. TypeOK /\ [Next]_vars =>
        [\A p \in Proc : /\ Len(outcome'[p]) >= Len(outcome[p])
                         /\ \A i \in 1..Len(outcome[p]) :
                              outcome[p][i] # "unset" => outcome'[p][i] = outcome[p][i]]_vars
  BY CyclesGrow DEF Grows
<1> QED  BY <1>1, TypeCorrect, PTL DEF Spec, VerdictsFinal

-----------------------------------------------------------------------------
(* The inductive invariant                                                 *)

\* A dependency that has been ready stays so.
LEMMA ReadyStable ==
  ASSUME TypeOK, [Next]_vars
  PROVE  /\ \A q \in Proc : EverReady(q) => EverReady(q)'
         /\ \A q \in Proc : Len(outcome'[q]) >= Len(outcome[q])
         /\ \A q \in Proc : Len(outcome[q]) \in Nat /\ Len(outcome'[q]) \in Nat
<1>1. \A q \in Proc : Len(outcome[q]) \in Nat /\ Len(outcome'[q]) \in Nat
  BY TypeNext DEF TypeOK, ProcTypeOK, Cycles
<1>2. \A q \in Proc : EverReady(q) => EverReady(q)'
  BY <1>1, CyclesGrow DEF Grows, EverReady
<1> QED  BY <1>1, <1>2, CyclesGrow DEF Grows

\* The moves of a worker, as the dependency argument sees them: it holds a
\* cycle or lets it go, passes a dependency on a satisfied verdict, runs
\* incarnations, leaves runProcess, or enters it again.
Holding(p) == /\ pc' = pc /\ dep' = dep /\ generation' = generation
              /\ Waiting(p)
              /\ held' = [held EXCEPT ![p] = Len(outcome[Dep(p)])]
LettingGo(p) == /\ pc' = pc /\ dep' = dep /\ generation' = generation
                /\ held' = [held EXCEPT ![p] = 0]
Passing(p) == /\ Holds(p) /\ Verdict(p) = "satisfied"
              /\ dep' = [dep EXCEPT ![p] = @ + 1]
              /\ held' = [held EXCEPT ![p] = 0]
              /\ pc' = [pc EXCEPT ![p] = AfterDeps(p, dep[p] + 1)]
              /\ generation' = generation
Running(p) == /\ pc[p] \in Inside
              /\ \E place \in Inside : pc' = [pc EXCEPT ![p] = place]
              /\ \A q \in Proc \ {p} : generation'[q] = generation[q]
              /\ dep' = dep /\ held' = held
Leaving(p) == /\ \E place \in Place \ (Inside \cup {"wait"}) :
                    pc' = [pc EXCEPT ![p] = place]
              /\ \A q \in Proc \ {p} : dep'[q] = dep[q] /\ held'[q] = held[q]
              /\ generation' = generation
Entering(p) == /\ pc' = [pc EXCEPT ![p] = AfterDeps(p, 1)]
               /\ dep' = [dep EXCEPT ![p] = 1]
               /\ held' = [held EXCEPT ![p] = 0]
               /\ generation' = generation
Resting == pc' = pc /\ dep' = dep /\ held' = held /\ generation' = generation

\* What a step of a process does to the worker that runs it.
LEMMA WorkerMoves ==
  ASSUME TypeOK, NEW p \in Proc, ProcStep(p)
  PROVE  \/ Holding(p) \/ LettingGo(p) \/ Passing(p) \/ Running(p)
         \/ Leaving(p) \/ Entering(p) \/ Resting
<1> USE DEF TypeOK, ProcTypeOK, WorkTypeOK
<1>1. CASE WaitStep(p)
  <2>1. CASE HoldCycle(p)
    BY <2>1 DEF HoldCycle, procVars, workVars, Holding
  <2>2. CASE DepSatisfied(p)
    BY <2>2 DEF DepSatisfied, Goto, procVars, workVars, Passing
  <2>3. CASE DepTerminal(p)
    BY <2>3 DEF DepTerminal, failProcess, Goto, EndWait, EndWith, procVars,
      workVars, Leaving, Inside, Place
  <2>4. CASE DepStopped(p)
    BY <2>4 DEF DepStopped, stopProcess, Goto, EndWait, EndWith, procVars,
      workVars, Leaving, Inside, Place
  <2>5. CASE DepAgain(p)
    BY <2>5 DEF DepAgain, procVars, workVars, LettingGo
  <2>6. CASE DepQuiesced(p)
    BY <2>6 DEF DepQuiesced, Goto, EndWait, procVars, workVars, Leaving,
      Inside, Place
  <2> QED  BY <1>1, <2>1, <2>2, <2>3, <2>4, <2>5, <2>6 DEF WaitStep
<1>2. CASE LaunchStep(p)
  <2>1. CASE Begin(p)
    BY <2>1 DEF Begin, Goto, procVars, workVars, Running, Inside
  <2>2. CASE Refuse(p)
    BY <2>2 DEF Refuse, Ended, procVars, workVars, Running, Inside
  <2>3. CASE StartFails(p)
    BY <2>3 DEF StartFails, Ended, procVars, workVars, Running, Inside
  <2>4. CASE Start(p)
    BY <2>4 DEF Start, Goto, procVars, workVars, Running, Inside
  <2>5. CASE TrackFails(p)
    BY <2>5 DEF TrackFails, Ended, procVars, workVars, Running, Inside
  <2>6. CASE SetRunning(p)
    BY <2>6 DEF SetRunning, Goto, procVars, workVars, Running, Inside
  <2>7. CASE Unobserved(p)
    BY <2>7 DEF Unobserved, Ended, Settled, procVars, workVars, Running,
      Inside
  <2>8. CASE OnStart(p)
    BY <2>8 DEF OnStart, markReadyFor, Goto, procVars, workVars, Running,
      Inside
  <2> QED  BY <1>2, <2>1, <2>2, <2>3, <2>4, <2>5, <2>6, <2>7, <2>8 DEF LaunchStep
<1>3. CASE ExitAlone(p) \/ ExitCancelled(p) \/ ExitHandoff(p)
  <2>1. CASE ExitAlone(p)
    BY <2>1 DEF ExitAlone, Ended, Settled, procVars, workVars, Running, Inside
  <2>2. CASE ExitCancelled(p)
    BY <2>2 DEF ExitCancelled, Ended, Settled, procVars, workVars, Running,
      Inside
  <2>3. CASE ExitHandoff(p)
    BY <2>3 DEF ExitHandoff, Ended, procVars, workVars, Running, Inside
  <2> QED  BY <1>3, <2>1, <2>2, <2>3
<1>4. CASE DecideStep(p)
  <2>1. CASE DecideQuiesced(p)
    BY <2>1 DEF DecideQuiesced, Goto, procVars, workVars, Leaving, Inside,
      Place
  <2>2. CASE DecideStop(p)
    BY <2>2 DEF DecideStop, stopProcess, Goto, EndWith, procVars, workVars,
      Leaving, Inside, Place
  <2>3. CASE DecideRequested(p)
    BY <2>3 DEF DecideRequested, Renew, Goto, procVars, workVars, Running,
      Inside, Natural, Decidable, Joined
  <2>4. CASE DecideEnd(p)
    BY <2>4 DEF DecideEnd, endProcess, Goto, EndWith, procVars, workVars,
      Leaving, Inside, Place
  <2>5. CASE DecideFail(p)
    BY <2>5 DEF DecideFail, failProcess, Goto, EndWith, procVars, workVars,
      Leaving, Inside, Place
  <2>6. CASE DecideRetry(p)
    BY <2>6 DEF DecideRetry, Renew, Goto, procVars, workVars, Running, Inside,
      Natural, Decidable, Joined
  <2>7. CASE TaskCompleted(p)
    BY <2>7 DEF TaskCompleted, Goto, procVars, workVars, Leaving, Inside,
      Place
  <2>8. CASE TaskFailed(p)
    BY <2>8 DEF TaskFailed, failProcess, Goto, EndWith, procVars, workVars,
      Leaving, Inside, Place
  <2> QED  BY <1>4, <2>1, <2>2, <2>3, <2>4, <2>5, <2>6, <2>7, <2>8 DEF DecideStep
<1>5. CASE BackoffStep(p)
  <2>1. CASE BackoffStop(p)
    BY <2>1 DEF BackoffStop, stopProcess, Goto, EndWith, procVars, workVars,
      Leaving, Inside, Place
  <2>2. CASE BackoffSkip(p)
    BY <2>2 DEF BackoffSkip, Goto, procVars, workVars, Running, Inside
  <2>3. CASE BackoffTimer(p)
    BY <2>3 DEF BackoffTimer, Goto, procVars, workVars, Running, Inside
  <2> QED  BY <1>5, <2>1, <2>2, <2>3 DEF BackoffStep
<1>6. CASE LoopStep(p)
  <2>1. CASE FailFast(p)
    BY <2>1 DEF FailFast, Goto, procVars, workVars, Leaving, Inside, Place
  <2>2. CASE SettleWorker(p)
    BY <2>2 DEF SettleWorker, Goto, procVars, workVars, Leaving, Inside, Place
  <2>3. CASE IdleStop(p)
    BY <2>3 DEF IdleStop, Goto, procVars, workVars, Leaving, Inside, Place
  <2>4. CASE IdleRestart(p)
    BY <2>4 DEF IdleRestart, Renew, EndWait, Goto, procVars, workVars,
      Entering
  <2> QED  BY <1>6, <2>1, <2>2, <2>3, <2>4 DEF LoopStep
<1>7. CASE WatcherStep(p)
  BY <1>7 DEF WatcherStep, WatcherTake, WatcherFire, WatcherExit, procVars,
    workVars, Resting
<1>8. CASE StaleStep(p)
  BY <1>8 DEF StaleStep, StaleTake, StaleExit, procVars, workVars, Resting
<1>9. CASE ProbeStep(p)
  BY <1>9 DEF ProbeStep, ProbePass, LogMatch, ProbeTimeout, ProberCancel,
    procVars, workVars, Resting
<1>10. CASE HealthFail(p) \/ MonitorCancel(p) \/ RequestRestart(p)
  BY <1>10 DEF HealthFail, MonitorCancel, RequestRestart, procVars, workVars, Resting
<1> QED  BY <1>1, <1>2, <1>3, <1>4, <1>5, <1>6, <1>7, <1>8, <1>9, <1>10 DEF ProcStep, WorkerStep

\* A step of p leaves the other processes alone, and the sweep is not undone.
LEMMA OthersKeep ==
  ASSUME TypeOK, NEW p \in Proc, ProcStep(p), NEW q \in Proc \ {p}
  PROVE  /\ pc'[q] = pc[q] /\ res'[q] = res[q] /\ outcome'[q] = outcome[q]
         /\ disposition'[q] = disposition[q] /\ prober'[q] = prober[q]
         /\ readyGen'[q] = readyGen[q] /\ generation'[q] = generation[q]
         /\ dep'[q] = dep[q] /\ held'[q] = held[q] /\ sealing' = sealing
<1> USE DEF TypeOK, ProcTypeOK, WorkTypeOK, IncTypeOK, HistTypeOK
<1>1. CASE WaitStep(p)
  <2>1. CASE HoldCycle(p)
    BY <2>1 DEF HoldCycle, procVars, workVars, incVars, runVars, histVars
  <2>2. CASE DepSatisfied(p)
    BY <2>2 DEF DepSatisfied, Goto, procVars, workVars, incVars, runVars,
      histVars
  <2>3. CASE DepTerminal(p)
    BY <2>3 DEF DepTerminal, failProcess, Goto, EndWait, EndWith, procVars,
      workVars, incVars, runVars, histVars
  <2>4. CASE DepStopped(p)
    BY <2>4 DEF DepStopped, stopProcess, Goto, EndWait, EndWith, procVars,
      workVars, incVars, runVars, histVars
  <2>5. CASE DepAgain(p)
    BY <2>5 DEF DepAgain, procVars, workVars, incVars, runVars, histVars
  <2>6. CASE DepQuiesced(p)
    BY <2>6 DEF DepQuiesced, Goto, EndWait, procVars, workVars, incVars,
      runVars, histVars
  <2> QED  BY <1>1, <2>1, <2>2, <2>3, <2>4, <2>5, <2>6 DEF WaitStep
<1>2. CASE LaunchStep(p)
  <2>1. CASE Begin(p)
    BY <2>1, SMTT(20) DEF Begin, Goto, procVars, workVars, incVars, runVars, histVars
  <2>2. CASE Refuse(p)
    BY <2>2 DEF Refuse, Ended, procVars, workVars, incVars, runVars, histVars
  <2>3. CASE StartFails(p)
    BY <2>3 DEF StartFails, Ended, procVars, workVars, incVars, runVars,
      histVars
  <2>4. CASE Start(p)
    BY <2>4 DEF Start, Goto, procVars, workVars, incVars, runVars, histVars
  <2>5. CASE TrackFails(p)
    BY <2>5 DEF TrackFails, Ended, procVars, workVars, incVars, runVars,
      histVars
  <2>6. CASE SetRunning(p)
    BY <2>6 DEF SetRunning, Goto, procVars, workVars, incVars, runVars,
      histVars
  <2>7. CASE Unobserved(p)
    BY <2>7 DEF Unobserved, Ended, Settled, procVars, workVars, incVars,
      runVars, histVars
  <2>8. CASE OnStart(p)
    BY <2>8 DEF OnStart, markReadyFor, Goto, procVars, workVars, incVars,
      runVars, histVars
  <2> QED  BY <1>2, <2>1, <2>2, <2>3, <2>4, <2>5, <2>6, <2>7, <2>8 DEF LaunchStep
<1>3. CASE ExitAlone(p) \/ ExitCancelled(p) \/ ExitHandoff(p)
  <2>1. CASE ExitAlone(p)
    BY <2>1 DEF ExitAlone, Ended, Settled, procVars, workVars, incVars,
      runVars, histVars
  <2>2. CASE ExitCancelled(p)
    BY <2>2 DEF ExitCancelled, Ended, Settled, procVars, workVars, incVars,
      runVars, histVars
  <2>3. CASE ExitHandoff(p)
    BY <2>3 DEF ExitHandoff, Ended, procVars, workVars, incVars, runVars,
      histVars
  <2> QED  BY <1>3, <2>1, <2>2, <2>3
<1>4. CASE DecideStep(p)
  <2>1. CASE DecideQuiesced(p)
    BY <2>1 DEF DecideQuiesced, Goto, procVars, workVars, incVars, runVars,
      histVars
  <2>2. CASE DecideStop(p)
    BY <2>2 DEF DecideStop, stopProcess, Goto, EndWith, procVars, workVars,
      incVars, runVars, histVars
  <2>3. CASE DecideRequested(p)
    BY <2>3 DEF DecideRequested, Renew, Goto, procVars, workVars, incVars,
      runVars, histVars
  <2>4. CASE DecideEnd(p)
    BY <2>4 DEF DecideEnd, endProcess, Goto, EndWith, procVars, workVars,
      incVars, runVars, histVars
  <2>5. CASE DecideFail(p)
    BY <2>5 DEF DecideFail, failProcess, Goto, EndWith, procVars, workVars,
      incVars, runVars, histVars
  <2>6. CASE DecideRetry(p)
    BY <2>6 DEF DecideRetry, Renew, Goto, procVars, workVars, incVars,
      runVars, histVars
  <2>7. CASE TaskCompleted(p)
    BY <2>7 DEF TaskCompleted, Goto, procVars, workVars, incVars, runVars,
      histVars
  <2>8. CASE TaskFailed(p)
    BY <2>8 DEF TaskFailed, failProcess, Goto, EndWith, procVars, workVars,
      incVars, runVars, histVars
  <2> QED  BY <1>4, <2>1, <2>2, <2>3, <2>4, <2>5, <2>6, <2>7, <2>8 DEF DecideStep
<1>5. CASE BackoffStep(p)
  <2>1. CASE BackoffStop(p)
    BY <2>1 DEF BackoffStop, stopProcess, Goto, EndWith, procVars, workVars,
      incVars, runVars, histVars
  <2>2. CASE BackoffSkip(p)
    BY <2>2 DEF BackoffSkip, Goto, procVars, workVars, incVars, runVars,
      histVars
  <2>3. CASE BackoffTimer(p)
    BY <2>3 DEF BackoffTimer, Goto, procVars, workVars, incVars, runVars,
      histVars
  <2> QED  BY <1>5, <2>1, <2>2, <2>3 DEF BackoffStep
<1>6. CASE LoopStep(p)
  <2>1. CASE FailFast(p)
    BY <2>1 DEF FailFast, Goto, procVars, workVars, incVars, runVars, histVars
  <2>2. CASE SettleWorker(p)
    BY <2>2 DEF SettleWorker, Goto, procVars, workVars, incVars, runVars,
      histVars
  <2>3. CASE IdleStop(p)
    BY <2>3 DEF IdleStop, Goto, procVars, workVars, incVars, runVars, histVars
  <2>4. CASE IdleRestart(p)
    BY <2>4 DEF IdleRestart, Renew, EndWait, Goto, procVars, workVars,
      incVars, runVars, histVars
  <2> QED  BY <1>6, <2>1, <2>2, <2>3, <2>4 DEF LoopStep
<1>7. CASE WatcherStep(p)
  BY <1>7 DEF WatcherStep, WatcherTake, WatcherFire, WatcherExit, procVars,
    workVars, incVars, runVars, histVars
<1>8. CASE StaleStep(p)
  BY <1>8 DEF StaleStep, StaleTake, StaleExit, procVars, workVars, incVars,
    runVars, histVars
<1>9. CASE ProbeStep(p)
  <2>1. CASE ProbePass(p)
    BY <2>1 DEF ProbePass, markReadyFor, procVars, workVars, incVars, runVars,
      histVars
  <2>2. CASE LogMatch(p)
    BY <2>2 DEF LogMatch, markReadyFor, procVars, workVars, incVars, runVars,
      histVars
  <2>3. CASE ProbeTimeout(p)
    BY <2>3 DEF ProbeTimeout, procVars, workVars, incVars, runVars, histVars
  <2>4. CASE ProberCancel(p)
    BY <2>4 DEF ProberCancel, procVars, workVars, incVars, runVars, histVars
  <2> QED  BY <1>9, <2>1, <2>2, <2>3, <2>4 DEF ProbeStep
<1>10. CASE HealthFail(p) \/ MonitorCancel(p) \/ RequestRestart(p)
  BY <1>10 DEF HealthFail, MonitorCancel, RequestRestart, procVars, workVars,
    incVars, runVars, histVars
<1> QED  BY <1>1, <1>2, <1>3, <1>4, <1>5, <1>6, <1>7, <1>8, <1>9, <1>10 DEF ProcStep, WorkerStep

\* DepsReady(p, n) in the next state, for a number n of this one.
DepsReadyNext(p, n) == \A i \in 1..n : EverReady(DependsOn[p][i])'

\* DepInv is kept: readiness is stable, and only Passing moves a worker past
\* a dependency.
LEMMA DepInvNext ==
  ASSUME TypeOK, TypeOK', DepInv, [Next]_vars
  PROVE  DepInv'
<1>1. /\ \A q \in Proc : Len(outcome'[q]) >= Len(outcome[q])
      /\ \A q \in Proc : Len(outcome[q]) \in Nat /\ Len(outcome'[q]) \in Nat
      /\ \A q \in Proc : Len(DependsOn[q]) \in Nat
      /\ \A q \in Proc : dep[q] \in Nat \ {0} /\ dep'[q] \in Nat \ {0}
      /\ \A q \in Proc : Waiting(q) => dep[q] <= Len(DependsOn[q]) /\ Dep(q) \in Proc
      /\ \A q \in Proc : Waiting(q)' => dep'[q] <= Len(DependsOn[q]) /\ Dep(q)' \in Proc
  BY ReadyStable, LifecycleAssumption DEF TypeOK, WorkTypeOK, Waiting, Dep
<1>2. \A q \in Proc : \A n \in 0..Len(DependsOn[q]) :
        DepsReady(q, n) => DepsReadyNext(q, n)
  BY ReadyStable, LifecycleAssumption DEF DepsReady, DepsReadyNext
<1>3. ASSUME NEW q \in Proc, pc'[q] = pc[q], dep'[q] = dep[q], held'[q] = held[q],
             generation'[q] = generation[q]
      PROVE  DepInvAt(q)'
  <2>1. DepInvAt(q)
    BY DEF DepInv
  <2>2. Waiting(q)' => Waiting(q) /\ Dep(q)' = Dep(q)
    BY <1>3 DEF Waiting, Dep
  <2>3. Waiting(q)' => /\ DepsReadyNext(q, dep'[q] - 1)
                       /\ held'[q] <= Len(outcome'[Dep(q)])
    BY <1>1, <1>2, <1>3, <2>1, <2>2 DEF DepInvAt, TypeOK, WorkTypeOK
  <2>4. pc'[q] \in Inside \/ generation'[q] > 0 => DepsReadyNext(q, Len(DependsOn[q]))
    BY <1>1, <1>2, <1>3, <2>1 DEF DepInvAt
  <2> QED  BY <1>3, <2>2, <2>3, <2>4 DEF DepInvAt, DepsReady, DepsReadyNext
<1>4. ASSUME NEW p \in Proc, ProcStep(p) PROVE DepInvAt(p)'
  <2>1. DepInvAt(p)
    BY DEF DepInv
  <2>5. ASSUME Passing(p) PROVE DepsReady(p, dep[p])
    <3>1. Waiting(p) /\ held[p] > 0 /\ Verdict(p) = "satisfied"
      BY <2>5 DEF Passing, Holds
    <3>2. DepsReady(p, dep[p] - 1) /\ held[p] <= Len(outcome[Dep(p)])
      BY <2>1, <3>1 DEF DepInvAt
    <3>3. held[p] \in 1..Len(outcome[Dep(p)])
      <4>1. held[p] \in Nat /\ Len(outcome[Dep(p)]) \in Nat
        BY <1>1, <3>1 DEF TypeOK, WorkTypeOK
      <4> QED  BY <3>1, <3>2, <4>1
    <3>4. EverReady(Dep(p))
      BY <3>1, <3>3 DEF Verdict, EverReady
    <3>5. \A i \in 1..dep[p] : i = dep[p] \/ i \in 1..(dep[p] - 1)
      BY <1>1
    <3> QED  BY <3>2, <3>4, <3>5 DEF DepsReady, Dep
  <2> USE DEF TypeOK, ProcTypeOK, WorkTypeOK
  <2>2. ASSUME Waiting(p)' PROVE DepsReadyNext(p, dep'[p] - 1)
    <3>1. CASE Holding(p) \/ LettingGo(p) \/ Resting
      <4>1. Waiting(p) /\ dep'[p] = dep[p]
        BY <2>2, <3>1 DEF Holding, LettingGo, Resting, Waiting
      <4>2. dep[p] - 1 \in 0..Len(DependsOn[p])
        <5>1. /\ dep[p] \in Nat \ {0} /\ Len(DependsOn[p]) \in Nat
              /\ dep[p] <= Len(DependsOn[p])
          BY <1>1, <4>1
        <5> HIDE DEF TypeOK
        <5> QED  BY ONLY <5>1
      <4>3. DepsReady(p, dep[p] - 1)
        BY <2>1, <4>1 DEF DepInvAt
      <4> QED  BY <1>2, <4>1, <4>2, <4>3
    <3>2. CASE Passing(p)
      <4>1. dep[p] \in 0..Len(DependsOn[p]) /\ dep'[p] - 1 = dep[p]
        BY <1>1, <3>2 DEF Passing, Holds
      <4> QED  BY <1>2, <2>5, <3>2, <4>1
    <3>3. CASE Running(p) \/ Leaving(p)
      BY <2>2, <3>3 DEF Running, Leaving, Waiting, Inside
    <3>4. CASE Entering(p)
      BY <3>4 DEF Entering, DepsReadyNext
    <3> QED  BY <1>4, <3>1, <3>2, <3>3, <3>4, WorkerMoves
  <2>3. ASSUME Waiting(p)' PROVE held'[p] <= Len(outcome'[Dep(p)'])
    <3>1. CASE Holding(p)
      BY <1>1, <2>3, <3>1 DEF Holding, Waiting, Dep
    <3>2. CASE LettingGo(p) \/ Passing(p) \/ Entering(p)
      <4>1. held'[p] = 0
        BY <3>2 DEF LettingGo, Passing, Entering
      <4> QED  BY <1>1, <2>3, <4>1
    <3>3. CASE Running(p) \/ Leaving(p)
      BY <2>3, <3>3 DEF Running, Leaving, Waiting, Inside
    <3>4. CASE Resting
      BY <1>1, <2>1, <2>3, <3>4, SMTT(20) DEF Resting, Waiting, Dep, DepInvAt
    <3> QED  BY <1>4, <3>1, <3>2, <3>3, <3>4, WorkerMoves
  <2>4. ASSUME pc'[p] \in Inside \/ generation'[p] > 0
        PROVE  DepsReadyNext(p, Len(DependsOn[p]))
    <3>0. DepsReady(p, Len(DependsOn[p])) => DepsReadyNext(p, Len(DependsOn[p]))
      BY <1>1, <1>2
    <3>1. CASE Holding(p) \/ LettingGo(p) \/ Resting \/ Leaving(p)
      BY <2>1, <2>4, <3>0, <3>1 DEF Holding, LettingGo, Resting, Leaving, DepInvAt
    <3>2. CASE Running(p)
      BY <2>1, <3>0, <3>2 DEF Running, DepInvAt
    <3>3. CASE Passing(p)
      <4>1. CASE generation[p] > 0
        BY <2>1, <3>0, <4>1 DEF DepInvAt
      <4>2. CASE ~(generation[p] > 0)
        <5>1. dep[p] + 1 > Len(DependsOn[p]) /\ dep[p] <= Len(DependsOn[p])
          BY <1>1, <2>4, <3>3, <4>2 DEF Passing, AfterDeps, Inside, Holds
        <5>2. dep[p] = Len(DependsOn[p])
          BY <1>1, <5>1
        <5> QED  BY <2>5, <3>0, <3>3, <5>2
      <4> QED  BY <4>1, <4>2
    <3>4. CASE Entering(p)
      <4>1. generation[p] > 0 \/ 1 > Len(DependsOn[p])
        BY <2>4, <3>4 DEF Entering, AfterDeps, Inside
      <4>2. 1 > Len(DependsOn[p]) => DepsReady(p, Len(DependsOn[p]))
        BY <1>1 DEF DepsReady
      <4> QED  BY <2>1, <3>0, <4>1, <4>2 DEF DepInvAt
    <3> QED  BY <1>4, <3>1, <3>2, <3>3, <3>4, WorkerMoves
  <2> QED  BY <2>2, <2>3, <2>4 DEF DepInvAt, DepsReady, DepsReadyNext
<1>5. ASSUME NEW p \in Proc, ProcStep(p), NEW q \in Proc \ {p} PROVE DepInvAt(q)'
  <2>1. /\ pc'[q] = pc[q] /\ dep'[q] = dep[q] /\ held'[q] = held[q]
        /\ generation'[q] = generation[q]
    BY <1>5, OthersKeep
  <2> QED  BY <1>3, <2>1
<1>6. CASE RunStep \/ UNCHANGED vars
  <2>1. pc' = pc /\ dep' = dep /\ held' = held /\ generation' = generation
    BY <1>6 DEF RunStep, ShutdownClose, ShutdownCancel, Signal, AdmissionWatcher,
       HandoffSweep, HandoffClose, RunEnds, vars, procVars, workVars
  <2> QED  BY <1>3, <2>1 DEF DepInv
<1> QED  BY <1>4, <1>5, <1>6 DEF DepInv, Next, Finished

\* What settling and renewing make of the current cycle.
LEMMA CurrentFacts ==
  /\ \A c \in Cycles : \A o \in {"satisfied", "terminal", "stopped"} :
       settleLocked(c, o)[Len(settleLocked(c, o))] =
         IF c[Len(c)] = "unset" THEN o ELSE c[Len(c)]
  /\ \A c \in Cycles : resetReady(c)[Len(resetReady(c))] = "unset"
<1>1. ASSUME NEW c \in Cycles, NEW o \in {"satisfied", "terminal", "stopped"}
      PROVE  settleLocked(c, o)[Len(settleLocked(c, o))] =
               IF c[Len(c)] = "unset" THEN o ELSE c[Len(c)]
  BY SettleFacts DEF Outcome
<1> QED  BY <1>1, ResetFacts

\* Ending a process settles its cycle and never makes it ready.
LEMMA EndsSettled ==
  ASSUME TypeOK, NEW p \in Proc, NEW s, NEW v \in {"terminal", "stopped"},
         EndWith(p, s, v)
  PROVE  /\ outcome'[p][Len(outcome'[p])] # "unset"
         /\ outcome'[p][Len(outcome'[p])] = "satisfied"
              => outcome[p][Len(outcome[p])] = "satisfied"
<1>1. outcome[p] \in Cycles /\ outcome'[p] = settleLocked(outcome[p], v)
  BY DEF EndWith, TypeOK, ProcTypeOK
<1> QED  BY <1>1, CurrentFacts

\* The acting process keeps its part of the invariant.
LEMMA LifeStep ==
  ASSUME TypeOK, HandoffInv, NEW p \in Proc, LifeAt(p), ProcStep(p)
  PROVE  LifeAt(p)'
<1> USE CurrentFacts
    DEF TypeOK, ProcTypeOK, WorkTypeOK, IncTypeOK, HistTypeOK, HandoffInv,
        LifeAt, Over, currentOutcome
<1>1. CASE WaitStep(p)
  <2>1. CASE HoldCycle(p)
    BY <2>1 DEF HoldCycle, procVars, workVars, incVars, runVars, histVars,
      Waiting
  <2>2. CASE DepSatisfied(p)
    BY <2>2 DEF DepSatisfied, AfterDeps, Goto, procVars, workVars, incVars, runVars,
      histVars, Holds, Waiting
  <2>3. CASE DepTerminal(p)
    BY <2>3 DEF DepTerminal, failProcess, Goto, EndWait, EndWith, procVars,
      workVars, incVars, runVars, histVars, Holds, Waiting
  <2>4. CASE DepStopped(p)
    BY <2>4 DEF DepStopped, stopProcess, Goto, EndWait, EndWith, procVars,
      workVars, incVars, runVars, histVars, Holds, Waiting
  <2>5. CASE DepAgain(p)
    BY <2>5 DEF DepAgain, procVars, workVars, incVars, runVars, histVars,
      Holds, Waiting
  <2>6. CASE DepQuiesced(p)
    BY <2>6 DEF DepQuiesced, Goto, EndWait, procVars, workVars, incVars,
      runVars, histVars, Holds, Waiting
  <2> QED  BY <1>1, <2>1, <2>2, <2>3, <2>4, <2>5, <2>6 DEF WaitStep
<1>2. CASE LaunchStep(p)
  <2>1. CASE Begin(p)
    BY <2>1 DEF Begin, Goto, procVars, workVars, incVars, runVars, histVars
  <2>2. CASE Refuse(p)
    BY <2>2 DEF Refuse, Ended, procVars, workVars, incVars, runVars, histVars
  <2>3. CASE StartFails(p)
    BY <2>3 DEF StartFails, Ended, procVars, workVars, incVars, runVars,
      histVars
  <2>4. CASE Start(p)
    BY <2>4 DEF Start, Goto, procVars, workVars, incVars, runVars, histVars
  <2>5. CASE TrackFails(p)
    BY <2>5 DEF TrackFails, Ended, procVars, workVars, incVars, runVars,
      histVars
  <2>6. CASE SetRunning(p)
    BY <2>6 DEF SetRunning, Goto, procVars, workVars, incVars, runVars,
      histVars
  <2>7. CASE Unobserved(p)
    BY <2>7 DEF Unobserved, Ended, Settled, procVars, workVars, incVars,
      runVars, histVars
  <2>8. CASE OnStart(p)
    BY <2>8, SMTT(20) DEF OnStart, markReadyFor, Goto, procVars, workVars, incVars,
      runVars, histVars, CanMarkReady
  <2> QED  BY <1>2, <2>1, <2>2, <2>3, <2>4, <2>5, <2>6, <2>7, <2>8 DEF LaunchStep
<1>3. CASE ExitAlone(p) \/ ExitCancelled(p) \/ ExitHandoff(p)
  <2>1. CASE ExitAlone(p)
    BY <2>1 DEF ExitAlone, Ended, Settled, procVars, workVars, incVars,
      runVars, histVars
  <2>2. CASE ExitCancelled(p)
    BY <2>2 DEF ExitCancelled, Ended, Settled, procVars, workVars, incVars,
      runVars, histVars
  <2>3. CASE ExitHandoff(p)
    BY <2>3 DEF ExitHandoff, Ended, procVars, workVars, incVars, runVars,
      histVars
  <2> QED  BY <1>3, <2>1, <2>2, <2>3
<1>4. CASE DecideStep(p)
  <2>1. CASE DecideQuiesced(p)
    BY <2>1 DEF DecideQuiesced, Goto, procVars, workVars, incVars, runVars,
      histVars, Joined
  <2>2. CASE DecideStop(p)
    <3>1. EndWith(p, "exited", "stopped")
      BY <2>2 DEF DecideStop, stopProcess
    <3>2. /\ pc'[p] = "returned" /\ res'[p] = "none" /\ prober[p] = "off"
      BY <2>2 DEF DecideStop, Goto, Joined
    <3>3. UNCHANGED <<prober, readyGen, generation, sealing>>
      BY <2>2 DEF DecideStop, procVars, incVars, runVars, histVars
    <3> QED  BY <3>1, <3>2, <3>3, EndsSettled
  <2>3. CASE DecideRequested(p)
    BY <2>3 DEF DecideRequested, Renew, Goto, procVars, workVars, incVars,
      runVars, histVars, Decidable, Joined
  <2>4. CASE DecideEnd(p)
    <3>1. EndWith(p, "exited", "terminal")
      BY <2>4 DEF DecideEnd, endProcess
    <3>2. /\ pc'[p] = "returned" /\ res'[p] = "none" /\ prober[p] = "off"
      BY <2>4 DEF DecideEnd, Goto, Natural, Decidable, Joined
    <3>3. UNCHANGED <<prober, readyGen, generation, sealing>>
      BY <2>4 DEF DecideEnd, procVars, incVars, runVars, histVars
    <3> QED  BY <3>1, <3>2, <3>3, EndsSettled
  <2>5. CASE DecideFail(p)
    <3>1. EndWith(p, "failed", "terminal")
      BY <2>5 DEF DecideFail, failProcess
    <3>2. /\ pc'[p] = "returned" /\ res'[p] = "none" /\ prober[p] = "off"
      BY <2>5 DEF DecideFail, Goto, Natural, Decidable, Joined
    <3>3. UNCHANGED <<prober, readyGen, generation, sealing>>
      BY <2>5 DEF DecideFail, procVars, incVars, runVars, histVars
    <3> QED  BY <3>1, <3>2, <3>3, EndsSettled
  <2>6. CASE DecideRetry(p)
    BY <2>6 DEF DecideRetry, Renew, Goto, procVars, workVars, incVars,
      runVars, histVars, Natural, Decidable, Joined
  <2>7. CASE TaskCompleted(p)
    <3>1. outcome'[p] = settleLocked(outcome[p], "satisfied")
      BY <2>7 DEF TaskCompleted, TypeOK, ProcTypeOK
    <3>2. /\ readyGen'[p] = generation[p] /\ pc'[p] = "returned" /\ res'[p] = "none"
      BY <2>7 DEF TaskCompleted, Goto, TypeOK, WorkTypeOK, HistTypeOK
    <3>3. /\ pc[p] = "ended" /\ prober[p] = "off"
      BY <2>7 DEF TaskCompleted, Decidable, Joined
    <3>4. UNCHANGED <<disposition, prober, generation, sealing>>
      BY <2>7 DEF TaskCompleted, incVars, runVars
    <3>5. currentOutcome(p)' = IF currentOutcome(p) = "unset" THEN "satisfied"
                               ELSE currentOutcome(p)
      BY <3>1, CurrentFacts DEF currentOutcome, TypeOK, ProcTypeOK
    <3>6. /\ currentOutcome(p)' # "unset"
          /\ currentOutcome(p)' \notin {"terminal", "stopped"} /\ disposition'[p] = "unset"
      BY <3>3, <3>4, <3>5 DEF LifeAt
    <3> QED  BY <3>2, <3>3, <3>4, <3>6 DEF LifeAt
  <2>8. CASE TaskFailed(p)
    <3>1. EndWith(p, "failed", "terminal")
      BY <2>8 DEF TaskFailed, failProcess
    <3>2. /\ pc'[p] = "failfast" /\ res'[p] = "none" /\ prober[p] = "off"
      BY <2>8 DEF TaskFailed, Goto, Decidable, Joined
    <3>3. UNCHANGED <<prober, readyGen, generation, sealing>>
      BY <2>8 DEF TaskFailed, procVars, incVars, runVars, histVars
    <3> QED  BY <3>1, <3>2, <3>3, EndsSettled
  <2> QED  BY <1>4, <2>1, <2>2, <2>3, <2>4, <2>5, <2>6, <2>7, <2>8 DEF DecideStep
<1>5. CASE BackoffStep(p)
  <2>1. CASE BackoffStop(p)
    BY <2>1 DEF BackoffStop, stopProcess, Goto, EndWith, procVars, workVars,
      incVars, runVars, histVars
  <2>2. CASE BackoffSkip(p)
    BY <2>2 DEF BackoffSkip, Goto, procVars, workVars, incVars, runVars,
      histVars
  <2>3. CASE BackoffTimer(p)
    BY <2>3 DEF BackoffTimer, Goto, procVars, workVars, incVars, runVars,
      histVars
  <2> QED  BY <1>5, <2>1, <2>2, <2>3 DEF BackoffStep
<1>6. CASE LoopStep(p)
  <2>1. CASE FailFast(p)
    BY <2>1 DEF FailFast, Goto, procVars, workVars, incVars, runVars, histVars
  <2>2. CASE SettleWorker(p)
    BY <2>2 DEF SettleWorker, Goto, procVars, workVars, incVars, runVars,
      histVars
  <2>3. CASE IdleStop(p)
    BY <2>3 DEF IdleStop, Goto, procVars, workVars, incVars, runVars, histVars
  <2>4. CASE IdleRestart(p)
    BY <2>4, SMTT(20) DEF IdleRestart, AfterDeps, Renew, EndWait, Goto, procVars, workVars,
      incVars, runVars, histVars
  <2> QED  BY <1>6, <2>1, <2>2, <2>3, <2>4 DEF LoopStep
<1>7. CASE WatcherStep(p)
  BY <1>7 DEF WatcherStep, WatcherTake, WatcherFire, WatcherExit, procVars,
    workVars, incVars, runVars, histVars
<1>8. CASE StaleStep(p)
  BY <1>8 DEF StaleStep, StaleTake, StaleExit, procVars, workVars, incVars,
    runVars, histVars
<1>9. CASE ProbeStep(p)
  <2>1. CASE ProbePass(p)
    <3>1. /\ ReadyWhen[p] = "poll" /\ prober[p] = "on" /\ prober'[p] = "off"
          /\ UNCHANGED <<generation, pc, res, disposition, handoff, sealing>>
      BY <2>1 DEF ProbePass, workVars, runVars
    <3>2. CASE CanMarkReady(p)
      <4>1. /\ outcome'[p] = settleLocked(outcome[p], "satisfied")
            /\ readyGen'[p] = generation[p]
        BY <2>1, <3>2 DEF ProbePass, markReadyFor
      <4>2. outcome[p] \in Cycles /\ outcome[p][Len(outcome[p])] = "unset"
        BY <3>2 DEF CanMarkReady
      <4>3. outcome'[p][Len(outcome'[p])] = "satisfied"
        BY <4>1, <4>2
      <4> QED  BY <3>1, <4>1, <4>3
    <3>3. CASE ~CanMarkReady(p)
      <4>1. UNCHANGED <<outcome, readyGen>>
        BY <2>1, <3>3 DEF ProbePass, markReadyFor
      <4> QED  BY <3>1, <4>1
    <3> QED  BY <3>2, <3>3
  <2>2. CASE LogMatch(p)
    BY <2>2 DEF LogMatch, markReadyFor, procVars, workVars, incVars, runVars,
      histVars, CanMarkReady
  <2>3. CASE ProbeTimeout(p)
    BY <2>3 DEF ProbeTimeout, procVars, workVars, incVars, runVars, histVars
  <2>4. CASE ProberCancel(p)
    BY <2>4 DEF ProberCancel, procVars, workVars, incVars, runVars, histVars
  <2> QED  BY <1>9, <2>1, <2>2, <2>3, <2>4 DEF ProbeStep
<1>10. CASE HealthFail(p) \/ MonitorCancel(p) \/ RequestRestart(p)
  BY <1>10 DEF HealthFail, MonitorCancel, RequestRestart, procVars, workVars,
    incVars, runVars, histVars
<1> QED  BY <1>1, <1>2, <1>3, <1>4, <1>5, <1>6, <1>7, <1>8, <1>9, <1>10 DEF ProcStep, WorkerStep

\* The inductive invariant holds at first.
LEMMA IndInit == Init => IndInv
<1> SUFFICES ASSUME Init PROVE IndInv
  OBVIOUS
<1>1. TypeOK
  BY TypeInit
<1>2. DepInv /\ HandoffInv
  BY LifecycleAssumption DEF Init, DepInv, DepInvAt, DepsReady, HandoffInv, AfterDeps,
     Waiting, Dep, Inside
<1>3. LifeInv
  BY DEF Init, LifeInv, LifeAt, Over, currentOutcome, AfterDeps
<1> QED  BY <1>1, <1>2, <1>3 DEF IndInv

\* Every step keeps the inductive invariant.
LEMMA IndNext == IndInv /\ [Next]_vars => IndInv'
<1> SUFFICES ASSUME IndInv, [Next]_vars PROVE IndInv'
  OBVIOUS
<1>1. TypeOK /\ DepInv /\ HandoffInv /\ LifeInv
  BY DEF IndInv
<1>2. TypeOK' /\ DepInv'
  BY <1>1, TypeNext, DepInvNext
<1>3. ASSUME NEW p \in Proc, ProcStep(p) PROVE HandoffInv' /\ LifeInv'
  <2>1. sealing' = sealing /\ handoff' = handoff
    BY <1>3 DEF ProcStep, WorkerStep, WaitStep, HoldCycle, DepSatisfied, DepTerminal,
       DepStopped, DepAgain, DepQuiesced, LaunchStep, Begin, Refuse, StartFails,
       Start, TrackFails, SetRunning, Unobserved, OnStart, DecideStep,
       DecideQuiesced, DecideStop, DecideRequested, DecideEnd, DecideFail,
       DecideRetry, TaskCompleted, TaskFailed, BackoffStep, BackoffStop,
       BackoffSkip, BackoffTimer, LoopStep, FailFast, SettleWorker, IdleStop,
       IdleRestart, ExitAlone, ExitCancelled, ExitHandoff, WatcherStep,
       WatcherTake, WatcherFire, WatcherExit, StaleStep, StaleTake, StaleExit,
       ProbeStep, ProbePass, LogMatch, ProbeTimeout, ProberCancel, HealthFail,
       MonitorCancel, RequestRestart, Ended, runVars
  <2>2. LifeAt(p)'
    BY <1>1, <1>3, LifeStep DEF LifeInv
  <2>3. ASSUME NEW q \in Proc \ {p} PROVE LifeAt(q)'
    BY <1>1, <1>3, OthersKeep DEF LifeInv, LifeAt, Over, currentOutcome
  <2> QED  BY <1>1, <2>1, <2>2, <2>3 DEF HandoffInv, LifeInv
<1>4. CASE RunStep \/ UNCHANGED vars
  <2>1. /\ UNCHANGED <<pc, res, outcome, disposition, prober, readyGen, generation>>
        /\ sealing => sealing'
        /\ handoff' => handoff \/ sealing
    BY <1>4 DEF RunStep, ShutdownClose, ShutdownCancel, Signal, AdmissionWatcher,
       HandoffSweep, HandoffClose, RunEnds, vars, procVars, workVars, incVars,
       runVars, histVars
  <2>2. HandoffInv'
    BY <1>1, <2>1 DEF HandoffInv
  <2>3. ASSUME NEW q \in Proc PROVE LifeAt(q)'
    <3>1. LifeAt(q)
      BY <1>1 DEF LifeInv
    <3>2. currentOutcome(q)' = currentOutcome(q) /\ (Over(q)' => Over(q))
      BY <2>1 DEF currentOutcome, Over
    <3>3. LifeAt(q)'
      <4>1. res'[q] = "handoff" => sealing'
        BY <2>1, <3>1 DEF LifeAt
      <4> QED  BY <2>1, <3>1, <3>2, <4>1 DEF LifeAt
    <3> QED  BY <3>3
  <2> QED  BY <1>2, <2>2, <2>3 DEF IndInv, LifeInv
<1> QED  BY <1>2, <1>3, <1>4 DEF IndInv, Next, Finished

\* Ordered startup: no process of any stack gets an incarnation before each of
\* its dependencies has published a ready verdict (waitForDependency).
THEOREM OrderedStartup == Spec => []DependencyOrder
<1>1. IndInv => DependencyOrder
  BY DEF IndInv, DepInv, DepInvAt, DepsReady, DependencyOrder
<1> QED  BY <1>1, IndInit, IndNext, PTL DEF Spec

\* Nobody is stranded: a worker that has left runProcess has settled the cycle
\* its dependents wait on, unless the cleanup handoff released it.
THEOREM NobodyStranded == Spec => []EndedIsSettled
<1>1. IndInv => EndedIsSettled
  BY DEF IndInv, LifeInv, LifeAt, EndedIsSettled
<1> QED  BY <1>1, IndInit, IndNext, PTL DEF Spec

\* An end is published only by a worker that is at its end: a dependency that
\* is being restarted never fails its dependents.
THEOREM EndsAreReal == Spec => []OverIsOver
<1>1. IndInv => OverIsOver
  BY DEF IndInv, LifeInv, LifeAt, OverIsOver
<1> QED  BY <1>1, IndInit, IndNext, PTL DEF Spec

\* Advertised readiness belongs to the incarnation that is running.
THEOREM ReadinessIsCurrent == Spec => []ReadyIsCurrent
<1>1. IndInv => ReadyIsCurrent
  BY DEF IndInv, LifeInv, LifeAt, ReadyIsCurrent, currentlyReady
<1> QED  BY <1>1, IndInit, IndNext, PTL DEF Spec
-----------------------------------------------------------------------------
(* Restart requests                                                        *)

\* The requests of p that can still become a restart: the one that waits in
\* restartCh, and the one the watcher of the current incarnation has taken.
\* A watcher that fires after its incarnation was decided is not heard.
Queued(p) == IF restartCh[p] THEN 1 ELSE 0
Heard(p)  == pc[p] \in {"launch", "started", "onstart", "up", "ended"}
Taken(p)  == IF /\ Mode[p] = "service"
                /\ watcher[p] = "took" \/ (watcher[p] = "fired" /\ Heard(p))
             THEN 1 ELSE 0

\* Every restart is paid for: by max_restarts when the policy makes it, by an
\* accepted request otherwise, and no request pays twice.
PaidAt(p) ==
  /\ Queued(p) + Taken(p) <= requests
  /\ MaxRestarts[p] > 0 =>
       restarts[p] + Queued(p) + Taken(p) <= MaxRestarts[p] + requests
PaidInv == \A p \in Proc : PaidAt(p)

\* A step of p leaves the requests, restarts and workers of the others alone.
LEMMA OthersWait ==
  ASSUME TypeOK, NEW p \in Proc, ProcStep(p), NEW q \in Proc \ {p}
  PROVE  /\ pc'[q] = pc[q] /\ watcher'[q] = watcher[q]
         /\ restarts'[q] = restarts[q] /\ restartCh'[q] = restartCh[q]
         /\ active'[q] = active[q] /\ (runCancelled => runCancelled')
         /\ requests' \in {requests, requests + 1}
<1> USE DEF TypeOK, ProcTypeOK, WorkTypeOK, IncTypeOK, HistTypeOK
<1>1. CASE WaitStep(p)
  <2>1. CASE HoldCycle(p)
    BY <2>1 DEF HoldCycle, procVars, workVars, incVars, runVars, histVars
  <2>2. CASE DepSatisfied(p)
    BY <2>2 DEF DepSatisfied, Goto, procVars, workVars, incVars, runVars,
      histVars
  <2>3. CASE DepTerminal(p)
    BY <2>3 DEF DepTerminal, failProcess, Goto, EndWait, EndWith, procVars,
      workVars, incVars, runVars, histVars
  <2>4. CASE DepStopped(p)
    BY <2>4 DEF DepStopped, stopProcess, Goto, EndWait, EndWith, procVars,
      workVars, incVars, runVars, histVars
  <2>5. CASE DepAgain(p)
    BY <2>5 DEF DepAgain, procVars, workVars, incVars, runVars, histVars
  <2>6. CASE DepQuiesced(p)
    BY <2>6 DEF DepQuiesced, Goto, EndWait, procVars, workVars, incVars,
      runVars, histVars
  <2> QED  BY <1>1, <2>1, <2>2, <2>3, <2>4, <2>5, <2>6 DEF WaitStep
<1>2. CASE LaunchStep(p)
  <2>1. CASE Begin(p)
    BY <2>1, SMTT(20) DEF Begin, Goto, procVars, workVars, incVars, runVars, histVars
  <2>2. CASE Refuse(p)
    BY <2>2 DEF Refuse, Ended, procVars, workVars, incVars, runVars, histVars
  <2>3. CASE StartFails(p)
    BY <2>3 DEF StartFails, Ended, procVars, workVars, incVars, runVars,
      histVars
  <2>4. CASE Start(p)
    BY <2>4 DEF Start, Goto, procVars, workVars, incVars, runVars, histVars
  <2>5. CASE TrackFails(p)
    BY <2>5 DEF TrackFails, Ended, procVars, workVars, incVars, runVars,
      histVars
  <2>6. CASE SetRunning(p)
    BY <2>6 DEF SetRunning, Goto, procVars, workVars, incVars, runVars,
      histVars
  <2>7. CASE Unobserved(p)
    BY <2>7 DEF Unobserved, Ended, Settled, procVars, workVars, incVars,
      runVars, histVars
  <2>8. CASE OnStart(p)
    BY <2>8 DEF OnStart, markReadyFor, Goto, procVars, workVars, incVars,
      runVars, histVars
  <2> QED  BY <1>2, <2>1, <2>2, <2>3, <2>4, <2>5, <2>6, <2>7, <2>8 DEF LaunchStep
<1>3. CASE ExitAlone(p) \/ ExitCancelled(p) \/ ExitHandoff(p)
  <2>1. CASE ExitAlone(p)
    BY <2>1 DEF ExitAlone, Ended, Settled, procVars, workVars, incVars,
      runVars, histVars
  <2>2. CASE ExitCancelled(p)
    BY <2>2 DEF ExitCancelled, Ended, Settled, procVars, workVars, incVars,
      runVars, histVars
  <2>3. CASE ExitHandoff(p)
    BY <2>3 DEF ExitHandoff, Ended, procVars, workVars, incVars, runVars,
      histVars
  <2> QED  BY <1>3, <2>1, <2>2, <2>3
<1>4. CASE DecideStep(p)
  <2>1. CASE DecideQuiesced(p)
    BY <2>1 DEF DecideQuiesced, Goto, procVars, workVars, incVars, runVars,
      histVars
  <2>2. CASE DecideStop(p)
    BY <2>2 DEF DecideStop, stopProcess, Goto, EndWith, procVars, workVars,
      incVars, runVars, histVars
  <2>3. CASE DecideRequested(p)
    BY <2>3 DEF DecideRequested, Renew, Goto, procVars, workVars, incVars,
      runVars, histVars
  <2>4. CASE DecideEnd(p)
    BY <2>4 DEF DecideEnd, endProcess, Goto, EndWith, procVars, workVars,
      incVars, runVars, histVars
  <2>5. CASE DecideFail(p)
    BY <2>5 DEF DecideFail, failProcess, Goto, EndWith, procVars, workVars,
      incVars, runVars, histVars
  <2>6. CASE DecideRetry(p)
    BY <2>6 DEF DecideRetry, Renew, Goto, procVars, workVars, incVars,
      runVars, histVars
  <2>7. CASE TaskCompleted(p)
    BY <2>7 DEF TaskCompleted, Goto, procVars, workVars, incVars, runVars,
      histVars
  <2>8. CASE TaskFailed(p)
    BY <2>8 DEF TaskFailed, failProcess, Goto, EndWith, procVars, workVars,
      incVars, runVars, histVars
  <2> QED  BY <1>4, <2>1, <2>2, <2>3, <2>4, <2>5, <2>6, <2>7, <2>8 DEF DecideStep
<1>5. CASE BackoffStep(p)
  <2>1. CASE BackoffStop(p)
    BY <2>1 DEF BackoffStop, stopProcess, Goto, EndWith, procVars, workVars,
      incVars, runVars, histVars
  <2>2. CASE BackoffSkip(p)
    BY <2>2 DEF BackoffSkip, Goto, procVars, workVars, incVars, runVars,
      histVars
  <2>3. CASE BackoffTimer(p)
    BY <2>3 DEF BackoffTimer, Goto, procVars, workVars, incVars, runVars,
      histVars
  <2> QED  BY <1>5, <2>1, <2>2, <2>3 DEF BackoffStep
<1>6. CASE LoopStep(p)
  <2>1. CASE FailFast(p)
    BY <2>1 DEF FailFast, Goto, procVars, workVars, incVars, runVars, histVars
  <2>2. CASE SettleWorker(p)
    BY <2>2 DEF SettleWorker, Goto, procVars, workVars, incVars, runVars,
      histVars
  <2>3. CASE IdleStop(p)
    BY <2>3 DEF IdleStop, Goto, procVars, workVars, incVars, runVars, histVars
  <2>4. CASE IdleRestart(p)
    BY <2>4 DEF IdleRestart, Renew, EndWait, Goto, procVars, workVars,
      incVars, runVars, histVars
  <2> QED  BY <1>6, <2>1, <2>2, <2>3, <2>4 DEF LoopStep
<1>7. CASE WatcherStep(p)
  <2>1. CASE WatcherTake(p)
    BY <2>1 DEF WatcherTake, procVars, workVars, incVars, runVars, histVars
  <2>2. CASE WatcherFire(p)
    BY <2>2 DEF WatcherFire, procVars, workVars, incVars, runVars, histVars
  <2>3. CASE WatcherExit(p)
    BY <2>3 DEF WatcherExit, procVars, workVars, incVars, runVars, histVars
  <2> QED  BY <1>7, <2>1, <2>2, <2>3 DEF WatcherStep
<1>8. CASE StaleStep(p)
  <2>1. CASE StaleTake(p)
    BY <2>1 DEF StaleTake, procVars, workVars, incVars, runVars, histVars
  <2>2. CASE StaleExit(p)
    BY <2>2 DEF StaleExit, procVars, workVars, incVars, runVars, histVars
  <2> QED  BY <1>8, <2>1, <2>2 DEF StaleStep
<1>9. CASE ProbeStep(p)
  <2>1. CASE ProbePass(p)
    BY <2>1 DEF ProbePass, markReadyFor, procVars, workVars, incVars, runVars,
      histVars
  <2>2. CASE LogMatch(p)
    BY <2>2 DEF LogMatch, markReadyFor, procVars, workVars, incVars, runVars,
      histVars
  <2>3. CASE ProbeTimeout(p)
    BY <2>3 DEF ProbeTimeout, procVars, workVars, incVars, runVars, histVars
  <2>4. CASE ProberCancel(p)
    BY <2>4 DEF ProberCancel, procVars, workVars, incVars, runVars, histVars
  <2> QED  BY <1>9, <2>1, <2>2, <2>3, <2>4 DEF ProbeStep
<1>10. CASE HealthFail(p) \/ MonitorCancel(p) \/ RequestRestart(p)
  <2>1. CASE HealthFail(p)
    BY <2>1 DEF HealthFail, procVars, workVars, incVars, runVars, histVars
  <2>2. CASE MonitorCancel(p)
    BY <2>2 DEF MonitorCancel, procVars, workVars, incVars, runVars, histVars
  <2>3. CASE RequestRestart(p)
    BY <2>3 DEF RequestRestart, procVars, workVars, incVars, runVars, histVars
  <2> QED  BY <1>10, <2>1, <2>2, <2>3
<1> QED  BY <1>1, <1>2, <1>3, <1>4, <1>5, <1>6, <1>7, <1>8, <1>9, <1>10 DEF ProcStep, WorkerStep


\* The terms of an account are numbers.
LEMMA PaidTypes ==
  ASSUME TypeOK, NEW p \in Proc
  PROVE  /\ Queued(p) \in {0, 1} /\ Taken(p) \in {0, 1}
         /\ Queued(p)' \in {0, 1} /\ Taken(p)' \in {0, 1}
         /\ restarts[p] \in Nat /\ requests \in Nat /\ MaxRestarts[p] \in Nat
  BY LifecycleAssumption DEF Queued, Taken, TypeOK, ProcTypeOK, HistTypeOK

\* A step of p keeps its account: it restarts p only within max_restarts or
\* against a request, which is then spent.
LEMMA PaidStep ==
  ASSUME TypeOK, NEW p \in Proc, ProcStep(p), PaidAt(p)
  PROVE  PaidAt(p)'
<1> USE LifecycleAssumption DEF TypeOK, ProcTypeOK, WorkTypeOK, IncTypeOK,
  HistTypeOK, PaidAt, Queued, Taken, Heard
<1>1. CASE WaitStep(p)
  <2>1. CASE HoldCycle(p)
    BY <2>1 DEF HoldCycle, procVars, workVars, incVars, runVars, histVars
  <2>2. CASE DepSatisfied(p)
    <3>1. /\ restarts' = restarts /\ requests' = requests
          /\ restartCh' = restartCh /\ watcher' = watcher
          /\ ~Heard(p)'
      BY <2>2 DEF DepSatisfied, Goto, AfterDeps, procVars, incVars, histVars
    <3> QED  BY <3>1
  <2>3. CASE DepTerminal(p)
    BY <2>3 DEF DepTerminal, failProcess, Goto, EndWait, EndWith, procVars,
      workVars, incVars, runVars, histVars
  <2>4. CASE DepStopped(p)
    BY <2>4 DEF DepStopped, stopProcess, Goto, EndWait, EndWith, procVars,
      workVars, incVars, runVars, histVars
  <2>5. CASE DepAgain(p)
    BY <2>5 DEF DepAgain, procVars, workVars, incVars, runVars, histVars
  <2>6. CASE DepQuiesced(p)
    <3>1. /\ restarts' = restarts /\ requests' = requests
          /\ restartCh' = restartCh /\ watcher' = watcher
          /\ ~Heard(p)'
      BY <2>6 DEF DepQuiesced, Goto, procVars, incVars, histVars
    <3> QED  BY <3>1
  <2> QED  BY <1>1, <2>1, <2>2, <2>3, <2>4, <2>5, <2>6 DEF WaitStep
<1>2. CASE LaunchStep(p)
  <2>1. CASE Begin(p)
    BY <2>1, SMTT(20) DEF Begin, Goto, procVars, workVars, incVars, runVars, histVars
  <2>2. CASE Refuse(p)
    BY <2>2 DEF Refuse, Ended, procVars, workVars, incVars, runVars, histVars
  <2>3. CASE StartFails(p)
    BY <2>3 DEF StartFails, Ended, procVars, workVars, incVars, runVars,
      histVars
  <2>4. CASE Start(p)
    BY <2>4 DEF Start, Goto, procVars, workVars, incVars, runVars, histVars
  <2>5. CASE TrackFails(p)
    BY <2>5 DEF TrackFails, Ended, procVars, workVars, incVars, runVars,
      histVars
  <2>6. CASE SetRunning(p)
    BY <2>6 DEF SetRunning, Goto, procVars, workVars, incVars, runVars,
      histVars
  <2>7. CASE Unobserved(p)
    BY <2>7 DEF Unobserved, Ended, Settled, procVars, workVars, incVars,
      runVars, histVars
  <2>8. CASE OnStart(p)
    BY <2>8 DEF OnStart, markReadyFor, Goto, procVars, workVars, incVars,
      runVars, histVars
  <2> QED  BY <1>2, <2>1, <2>2, <2>3, <2>4, <2>5, <2>6, <2>7, <2>8 DEF LaunchStep
<1>3. CASE ExitAlone(p) \/ ExitCancelled(p) \/ ExitHandoff(p)
  <2>1. CASE ExitAlone(p)
    BY <2>1 DEF ExitAlone, Ended, Settled, procVars, workVars, incVars,
      runVars, histVars
  <2>2. CASE ExitCancelled(p)
    BY <2>2 DEF ExitCancelled, Ended, Settled, procVars, workVars, incVars,
      runVars, histVars
  <2>3. CASE ExitHandoff(p)
    BY <2>3 DEF ExitHandoff, Ended, procVars, workVars, incVars, runVars,
      histVars
  <2> QED  BY <1>3, <2>1, <2>2, <2>3
<1>4. CASE DecideStep(p)
  <2>1. CASE DecideQuiesced(p)
    BY <2>1 DEF DecideQuiesced, Goto, procVars, workVars, incVars, runVars,
      histVars
  <2>2. CASE DecideStop(p)
    BY <2>2 DEF DecideStop, stopProcess, Goto, EndWith, procVars, workVars,
      incVars, runVars, histVars
  <2>3. CASE DecideRequested(p)
    <3>1. /\ restarts'[p] = restarts[p] + 1 /\ requests' = requests
          /\ restartCh' = restartCh /\ watcher[p] = "fired" /\ watcher' = watcher
          /\ Mode[p] = "service" /\ Heard(p) /\ ~Heard(p)'
      BY <2>3 DEF DecideRequested, Decidable, Joined, Renew, Goto, incVars, histVars
    <3>2. Taken(p) = 1 /\ Taken(p)' = 0 /\ Queued(p)' = Queued(p)
      BY <3>1
    <3>3. /\ Queued(p) \in {0, 1} /\ Taken(p) \in {0, 1}
          /\ Queued(p)' \in {0, 1} /\ Taken(p)' \in {0, 1}
          /\ restarts[p] \in Nat /\ requests \in Nat /\ MaxRestarts[p] \in Nat
      BY PaidTypes
    <3>4. PaidAt(p)
      OBVIOUS
    <3> QED  BY ONLY <3>1, <3>2, <3>3, <3>4 DEF PaidAt
  <2>4. CASE DecideEnd(p)
    BY <2>4 DEF DecideEnd, endProcess, Goto, EndWith, procVars, workVars,
      incVars, runVars, histVars
  <2>5. CASE DecideFail(p)
    BY <2>5 DEF DecideFail, failProcess, Goto, EndWith, procVars, workVars,
      incVars, runVars, histVars
  <2>6. CASE DecideRetry(p)
    <3>1. /\ restarts'[p] = restarts[p] + 1 /\ requests' = requests
          /\ restartCh' = restartCh /\ watcher' = watcher
          /\ ~Exhausted(p) /\ Heard(p) /\ ~Heard(p)'
      BY <2>6 DEF DecideRetry, Natural, Decidable, Joined, Renew, Goto, incVars, histVars
    <3>2. Taken(p)' <= Taken(p) /\ Queued(p)' = Queued(p)
      BY <3>1
    <3>3. /\ Queued(p) \in {0, 1} /\ Taken(p) \in {0, 1}
          /\ Queued(p)' \in {0, 1} /\ Taken(p)' \in {0, 1}
          /\ restarts[p] \in Nat /\ requests \in Nat /\ MaxRestarts[p] \in Nat
      BY PaidTypes
    <3>4. PaidAt(p)
      OBVIOUS
    <3> QED  BY ONLY <3>1, <3>2, <3>3, <3>4 DEF PaidAt, Exhausted
  <2>7. CASE TaskCompleted(p)
    BY <2>7 DEF TaskCompleted, Goto, procVars, workVars, incVars, runVars,
      histVars
  <2>8. CASE TaskFailed(p)
    BY <2>8 DEF TaskFailed, failProcess, Goto, EndWith, procVars, workVars,
      incVars, runVars, histVars
  <2> QED  BY <1>4, <2>1, <2>2, <2>3, <2>4, <2>5, <2>6, <2>7, <2>8 DEF DecideStep
<1>5. CASE BackoffStep(p)
  <2>1. CASE BackoffStop(p)
    BY <2>1 DEF BackoffStop, stopProcess, Goto, EndWith, procVars, workVars,
      incVars, runVars, histVars
  <2>2. CASE BackoffSkip(p)
    BY <2>2 DEF BackoffSkip, Goto, procVars, workVars, incVars, runVars,
      histVars
  <2>3. CASE BackoffTimer(p)
    BY <2>3 DEF BackoffTimer, Goto, procVars, workVars, incVars, runVars,
      histVars
  <2> QED  BY <1>5, <2>1, <2>2, <2>3 DEF BackoffStep
<1>6. CASE LoopStep(p)
  <2>1. CASE FailFast(p)
    BY <2>1 DEF FailFast, Goto, procVars, workVars, incVars, runVars, histVars
  <2>2. CASE SettleWorker(p)
    BY <2>2 DEF SettleWorker, Goto, procVars, workVars, incVars, runVars,
      histVars
  <2>3. CASE IdleStop(p)
    BY <2>3 DEF IdleStop, Goto, procVars, workVars, incVars, runVars, histVars
  <2>4. CASE IdleRestart(p)
    <3>1. /\ restarts'[p] = restarts[p] + 1 /\ requests' = requests
          /\ restartCh[p] /\ ~restartCh'[p] /\ watcher' = watcher
          /\ ~Heard(p)'
      BY <2>4 DEF IdleRestart, Renew, Goto, AfterDeps, incVars, histVars
    <3>2. Queued(p) = 1 /\ Queued(p)' = 0 /\ Taken(p)' <= Taken(p)
      BY <3>1
    <3>3. /\ Queued(p) \in {0, 1} /\ Taken(p) \in {0, 1}
          /\ Queued(p)' \in {0, 1} /\ Taken(p)' \in {0, 1}
          /\ restarts[p] \in Nat /\ requests \in Nat /\ MaxRestarts[p] \in Nat
      BY PaidTypes
    <3>4. PaidAt(p)
      OBVIOUS
    <3> QED  BY ONLY <3>1, <3>2, <3>3, <3>4 DEF PaidAt
  <2> QED  BY <1>6, <2>1, <2>2, <2>3, <2>4 DEF LoopStep
<1>7. CASE WatcherStep(p)
  <2>1. CASE WatcherTake(p)
    BY <2>1 DEF WatcherTake, procVars, workVars, incVars, runVars, histVars
  <2>2. CASE WatcherFire(p)
    BY <2>2 DEF WatcherFire, procVars, workVars, incVars, runVars, histVars
  <2>3. CASE WatcherExit(p)
    BY <2>3 DEF WatcherExit, procVars, workVars, incVars, runVars, histVars
  <2> QED  BY <1>7, <2>1, <2>2, <2>3 DEF WatcherStep
<1>8. CASE StaleStep(p)
  <2>1. CASE StaleTake(p)
    BY <2>1 DEF StaleTake, procVars, workVars, incVars, runVars, histVars
  <2>2. CASE StaleExit(p)
    BY <2>2 DEF StaleExit, procVars, workVars, incVars, runVars, histVars
  <2> QED  BY <1>8, <2>1, <2>2 DEF StaleStep
<1>9. CASE ProbeStep(p)
  <2>1. CASE ProbePass(p)
    BY <2>1 DEF ProbePass, markReadyFor, procVars, workVars, incVars, runVars,
      histVars
  <2>2. CASE LogMatch(p)
    BY <2>2 DEF LogMatch, markReadyFor, procVars, workVars, incVars, runVars,
      histVars
  <2>3. CASE ProbeTimeout(p)
    BY <2>3 DEF ProbeTimeout, procVars, workVars, incVars, runVars, histVars
  <2>4. CASE ProberCancel(p)
    BY <2>4 DEF ProberCancel, procVars, workVars, incVars, runVars, histVars
  <2> QED  BY <1>9, <2>1, <2>2, <2>3, <2>4 DEF ProbeStep
<1>10. CASE HealthFail(p) \/ MonitorCancel(p) \/ RequestRestart(p)
  <2>1. CASE HealthFail(p) \/ MonitorCancel(p)
    BY <2>1 DEF HealthFail, MonitorCancel, procVars, workVars, incVars, histVars
  <2>2. CASE RequestRestart(p)
    <3>1. /\ restarts' = restarts /\ requests' = requests + 1
          /\ pc' = pc /\ watcher' = watcher
      BY <2>2 DEF RequestRestart, workVars, incVars
    <3>2. Taken(p)' = Taken(p) /\ Queued(p)' <= Queued(p) + 1
      BY <3>1
    <3>3. /\ Queued(p) \in {0, 1} /\ Taken(p) \in {0, 1}
          /\ Queued(p)' \in {0, 1} /\ Taken(p)' \in {0, 1}
          /\ restarts[p] \in Nat /\ requests \in Nat /\ MaxRestarts[p] \in Nat
      BY PaidTypes
    <3>4. PaidAt(p)
      OBVIOUS
    <3> QED  BY ONLY <3>1, <3>2, <3>3, <3>4 DEF PaidAt
  <2> QED  BY <1>10, <2>1, <2>2
<1> QED  BY <1>1, <1>2, <1>3, <1>4, <1>5, <1>6, <1>7, <1>8, <1>9, <1>10 DEF ProcStep, WorkerStep


\* A step of p that leaves a request pending leaves p active, or the run
\* cancelled: only SettleWorker takes a process out, and it looks first.
LEMMA PendingStep ==
  ASSUME TypeOK, NEW p \in Proc, ProcStep(p),
         restartCh[p] => active[p] \/ runCancelled
  PROVE  restartCh'[p] => active'[p] \/ runCancelled'
<1> USE DEF TypeOK, ProcTypeOK
<1>1. CASE WaitStep(p)
  <2>1. CASE HoldCycle(p)
    BY <2>1 DEF HoldCycle, procVars, workVars, incVars, runVars, histVars
  <2>2. CASE DepSatisfied(p)
    BY <2>2 DEF DepSatisfied, Goto, procVars, workVars, incVars, runVars,
      histVars
  <2>3. CASE DepTerminal(p)
    BY <2>3 DEF DepTerminal, failProcess, Goto, EndWait, EndWith, procVars,
      workVars, incVars, runVars, histVars
  <2>4. CASE DepStopped(p)
    BY <2>4 DEF DepStopped, stopProcess, Goto, EndWait, EndWith, procVars,
      workVars, incVars, runVars, histVars
  <2>5. CASE DepAgain(p)
    BY <2>5 DEF DepAgain, procVars, workVars, incVars, runVars, histVars
  <2>6. CASE DepQuiesced(p)
    BY <2>6 DEF DepQuiesced, Goto, EndWait, procVars, workVars, incVars,
      runVars, histVars
  <2> QED  BY <1>1, <2>1, <2>2, <2>3, <2>4, <2>5, <2>6 DEF WaitStep
<1>2. CASE LaunchStep(p)
  <2>1. CASE Begin(p)
    BY <2>1, SMTT(20) DEF Begin, Goto, procVars, workVars, incVars, runVars, histVars
  <2>2. CASE Refuse(p)
    BY <2>2 DEF Refuse, Ended, procVars, workVars, incVars, runVars, histVars
  <2>3. CASE StartFails(p)
    BY <2>3 DEF StartFails, Ended, procVars, workVars, incVars, runVars,
      histVars
  <2>4. CASE Start(p)
    BY <2>4 DEF Start, Goto, procVars, workVars, incVars, runVars, histVars
  <2>5. CASE TrackFails(p)
    BY <2>5 DEF TrackFails, Ended, procVars, workVars, incVars, runVars,
      histVars
  <2>6. CASE SetRunning(p)
    BY <2>6 DEF SetRunning, Goto, procVars, workVars, incVars, runVars,
      histVars
  <2>7. CASE Unobserved(p)
    BY <2>7 DEF Unobserved, Ended, Settled, procVars, workVars, incVars,
      runVars, histVars
  <2>8. CASE OnStart(p)
    BY <2>8 DEF OnStart, markReadyFor, Goto, procVars, workVars, incVars,
      runVars, histVars
  <2> QED  BY <1>2, <2>1, <2>2, <2>3, <2>4, <2>5, <2>6, <2>7, <2>8 DEF LaunchStep
<1>3. CASE ExitAlone(p) \/ ExitCancelled(p) \/ ExitHandoff(p)
  <2>1. CASE ExitAlone(p)
    BY <2>1 DEF ExitAlone, Ended, Settled, procVars, workVars, incVars,
      runVars, histVars
  <2>2. CASE ExitCancelled(p)
    BY <2>2 DEF ExitCancelled, Ended, Settled, procVars, workVars, incVars,
      runVars, histVars
  <2>3. CASE ExitHandoff(p)
    BY <2>3 DEF ExitHandoff, Ended, procVars, workVars, incVars, runVars,
      histVars
  <2> QED  BY <1>3, <2>1, <2>2, <2>3
<1>4. CASE DecideStep(p)
  <2>1. CASE DecideQuiesced(p)
    BY <2>1 DEF DecideQuiesced, Goto, procVars, workVars, incVars, runVars,
      histVars
  <2>2. CASE DecideStop(p)
    BY <2>2 DEF DecideStop, stopProcess, Goto, EndWith, procVars, workVars,
      incVars, runVars, histVars
  <2>3. CASE DecideRequested(p)
    BY <2>3 DEF DecideRequested, Renew, Goto, procVars, workVars, incVars,
      runVars, histVars
  <2>4. CASE DecideEnd(p)
    BY <2>4 DEF DecideEnd, endProcess, Goto, EndWith, procVars, workVars,
      incVars, runVars, histVars
  <2>5. CASE DecideFail(p)
    BY <2>5 DEF DecideFail, failProcess, Goto, EndWith, procVars, workVars,
      incVars, runVars, histVars
  <2>6. CASE DecideRetry(p)
    BY <2>6 DEF DecideRetry, Renew, Goto, procVars, workVars, incVars,
      runVars, histVars
  <2>7. CASE TaskCompleted(p)
    BY <2>7 DEF TaskCompleted, Goto, procVars, workVars, incVars, runVars,
      histVars
  <2>8. CASE TaskFailed(p)
    BY <2>8 DEF TaskFailed, failProcess, Goto, EndWith, procVars, workVars,
      incVars, runVars, histVars
  <2> QED  BY <1>4, <2>1, <2>2, <2>3, <2>4, <2>5, <2>6, <2>7, <2>8 DEF DecideStep
<1>5. CASE BackoffStep(p)
  <2>1. CASE BackoffStop(p)
    BY <2>1 DEF BackoffStop, stopProcess, Goto, EndWith, procVars, workVars,
      incVars, runVars, histVars
  <2>2. CASE BackoffSkip(p)
    BY <2>2 DEF BackoffSkip, Goto, procVars, workVars, incVars, runVars,
      histVars
  <2>3. CASE BackoffTimer(p)
    BY <2>3 DEF BackoffTimer, Goto, procVars, workVars, incVars, runVars,
      histVars
  <2> QED  BY <1>5, <2>1, <2>2, <2>3 DEF BackoffStep
<1>6. CASE LoopStep(p)
  <2>1. CASE FailFast(p)
    BY <2>1 DEF FailFast, Goto, procVars, workVars, incVars, runVars, histVars
  <2>2. CASE SettleWorker(p)
    BY <2>2 DEF SettleWorker, Goto, procVars, workVars, incVars, runVars,
      histVars
  <2>3. CASE IdleStop(p)
    BY <2>3 DEF IdleStop, Goto, procVars, workVars, incVars, runVars, histVars
  <2>4. CASE IdleRestart(p)
    BY <2>4 DEF IdleRestart, Renew, EndWait, Goto, procVars, workVars,
      incVars, runVars, histVars
  <2> QED  BY <1>6, <2>1, <2>2, <2>3, <2>4 DEF LoopStep
<1>7. CASE WatcherStep(p)
  <2>1. CASE WatcherTake(p)
    BY <2>1 DEF WatcherTake, procVars, workVars, incVars, runVars, histVars
  <2>2. CASE WatcherFire(p)
    BY <2>2 DEF WatcherFire, procVars, workVars, incVars, runVars, histVars
  <2>3. CASE WatcherExit(p)
    BY <2>3 DEF WatcherExit, procVars, workVars, incVars, runVars, histVars
  <2> QED  BY <1>7, <2>1, <2>2, <2>3 DEF WatcherStep
<1>8. CASE StaleStep(p)
  <2>1. CASE StaleTake(p)
    BY <2>1 DEF StaleTake, procVars, workVars, incVars, runVars, histVars
  <2>2. CASE StaleExit(p)
    BY <2>2 DEF StaleExit, procVars, workVars, incVars, runVars, histVars
  <2> QED  BY <1>8, <2>1, <2>2 DEF StaleStep
<1>9. CASE ProbeStep(p)
  <2>1. CASE ProbePass(p)
    BY <2>1 DEF ProbePass, markReadyFor, procVars, workVars, incVars, runVars,
      histVars
  <2>2. CASE LogMatch(p)
    BY <2>2 DEF LogMatch, markReadyFor, procVars, workVars, incVars, runVars,
      histVars
  <2>3. CASE ProbeTimeout(p)
    BY <2>3 DEF ProbeTimeout, procVars, workVars, incVars, runVars, histVars
  <2>4. CASE ProberCancel(p)
    BY <2>4 DEF ProberCancel, procVars, workVars, incVars, runVars, histVars
  <2> QED  BY <1>9, <2>1, <2>2, <2>3, <2>4 DEF ProbeStep
<1>10. CASE HealthFail(p) \/ MonitorCancel(p) \/ RequestRestart(p)
  <2>1. CASE HealthFail(p)
    BY <2>1 DEF HealthFail, procVars, workVars, incVars, runVars, histVars
  <2>2. CASE MonitorCancel(p)
    BY <2>2 DEF MonitorCancel, procVars, workVars, incVars, runVars, histVars
  <2>3. CASE RequestRestart(p)
    BY <2>3 DEF RequestRestart, procVars, workVars, incVars, runVars, histVars
  <2> QED  BY <1>10, <2>1, <2>2, <2>3
<1> QED  BY <1>1, <1>2, <1>3, <1>4, <1>5, <1>6, <1>7, <1>8, <1>9, <1>10 DEF ProcStep, WorkerStep


\* The accounts of all processes, over every step.
LEMMA PaidNext ==
  ASSUME TypeOK, PaidInv, [Next]_vars
  PROVE  PaidInv'
<1>1. ASSUME NEW p \in Proc, ProcStep(p) PROVE PaidInv'
  <2>1. PaidAt(p)'
    BY <1>1, PaidStep DEF PaidInv
  <2>2. ASSUME NEW q \in Proc \ {p} PROVE PaidAt(q)'
    <3>1. /\ Queued(q)' = Queued(q) /\ Taken(q)' = Taken(q)
          /\ restarts'[q] = restarts[q] /\ requests' \in {requests, requests + 1}
      BY <1>1, OthersWait DEF Queued, Taken, Heard
    <3>2. PaidAt(q)
      BY DEF PaidInv
    <3> QED  BY <3>1, <3>2, PaidTypes DEF PaidAt
  <2> QED  BY <2>1, <2>2 DEF PaidInv
<1>2. CASE RunStep \/ UNCHANGED vars
  <2>1. UNCHANGED <<pc, watcher, restarts, restartCh, requests>>
    BY <1>2 DEF RunStep, ShutdownClose, ShutdownCancel, Signal, AdmissionWatcher,
       HandoffSweep, HandoffClose, RunEnds, vars, procVars, workVars, incVars,
       runVars, histVars
  <2> QED  BY <2>1 DEF PaidInv, PaidAt, Queued, Taken, Heard
<1> QED  BY <1>1, <1>2 DEF Next, Finished

\* max_restarts holds against every race of the watcher, the backoff, the idle
\* worker and the policy: restarts beyond it were asked for (Exhausted,
\* requestRestart).
THEOREM RestartsArePaidFor == Spec => []RestartsBounded
<1>1. Init => PaidInv
  <2> SUFFICES ASSUME Init, NEW p \in Proc PROVE PaidAt(p)
    BY DEF PaidInv
  <2>1. Queued(p) = 0 /\ Taken(p) = 0 /\ restarts[p] = 0 /\ requests = 0
    BY DEF Init, Queued, Taken
  <2>2. MaxRestarts[p] \in Nat
    BY LifecycleAssumption
  <2> QED  BY <2>1, <2>2 DEF PaidAt
<1>2. TypeOK /\ PaidInv => RestartsBounded
  BY PaidTypes DEF PaidInv, PaidAt, RestartsBounded
<1>3. TypeOK /\ PaidInv /\ [Next]_vars => PaidInv'
  BY PaidNext
<1> QED  BY <1>1, <1>2, <1>3, TypeCorrect, PTL DEF Spec

\* A pending request keeps its process active until the run is cancelled, so
\* the idle stack is not stopped under it (SettleWorker, requestRestart).
THEOREM RequestsKeepAlive == Spec => []PendingKeepsAlive
<1>1. Init => PendingKeepsAlive
  BY DEF Init, PendingKeepsAlive
<1>2. ASSUME TypeOK, PendingKeepsAlive, [Next]_vars PROVE PendingKeepsAlive'
  <2>1. ASSUME NEW p \in Proc, ProcStep(p) PROVE PendingKeepsAlive'
    <3>1. restartCh'[p] => active'[p] \/ runCancelled'
      BY <1>2, <2>1, PendingStep DEF PendingKeepsAlive
    <3>2. ASSUME NEW q \in Proc \ {p}
          PROVE  restartCh'[q] => active'[q] \/ runCancelled'
      BY <1>2, <2>1, OthersWait DEF PendingKeepsAlive
    <3> QED  BY <3>1, <3>2 DEF PendingKeepsAlive
  <2>2. CASE RunStep \/ UNCHANGED vars
    BY <1>2, <2>2 DEF PendingKeepsAlive, RunStep, ShutdownClose, ShutdownCancel,
       Signal, AdmissionWatcher, HandoffSweep, HandoffClose, RunEnds, vars,
       procVars, workVars, incVars, runVars, histVars
  <2> QED  BY <1>2, <2>1, <2>2 DEF Next, Finished
<1> QED  BY <1>1, <1>2, TypeCorrect, PTL DEF Spec
==============================================================================
