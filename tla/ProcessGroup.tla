---------------------------- MODULE ProcessGroup ----------------------------
(***************************************************************************)
(* Ownership of process groups: internal/runner's exec from admission to   *)
(* the verification of the group, the registry of live groups, the crash   *)
(* record in the PID file, the forced shutdown, and Run's terminal sweep.  *)
(*                                                                         *)
(* A process group is named by its leader's pid.  The number is ours while *)
(* the leader is unreaped; once the leader is reaped and the group empty,  *)
(* the kernel may give it to an unrelated group.  One execution is one     *)
(* call of exec: an incarnation of a managed process, or a one-shot check  *)
(* (RunCheck), whose handoff is a deadline of its own.                     *)
(*                                                                         *)
(* A signal changes nothing by itself: members exit when they exit, on     *)
(* SIGTERM, on SIGKILL or on their own.  What counts is whom it reached    *)
(* and whether SIGKILL was sent.  Platform: Linux and macOS.  Enumeration  *)
(* of a group's members is atomic.  Track cannot fail after a start.       *)
(***************************************************************************)
EXTENDS FiniteSets

CONSTANTS
  Exec,          \* the executions
  Name,          \* Name[e]: the process an execution belongs to
  Check,         \* the executions that are one-shot checks
  HasHandoff,    \* Run has a cleanup handoff budget
  EnumFails,     \* a group's membership may be unreadable
  ObserveFails,  \* the leader's exit may be unobservable
  WriteFails,    \* a write of the record may fail
  NoExec         \* no execution

ASSUME ProcessGroupAssumption ==
  /\ Check \subseteq Exec /\ NoExec \notin Exec
  /\ DOMAIN Name = Exec
  /\ {HasHandoff, EnumFails, ObserveFails, WriteFails} \subseteq BOOLEAN

VARIABLES
  \* the worker in exec, its context, a check's own handoff, the flags it keeps
  pc, cancelled, own, escaped, blind,
  \* the kernel: leader, other members, a descendant that left the group with
  \* the command's output, an unrelated group under the same number, SIGKILL
  leader, kids, out, foreign, killed,
  \* unixProcessGroup and singleReap
  withdrawn, closed, reap,
  \* Runner: registry, lifecycleMu, flags, verdict problems, the record in
  \* memory and on disk
  groups, lock, stopping, sealing, handoff, problems, mem, disk, recordOn,
  \* Run's place and sweep, the forced shutdown, the run's context
  runPc, toSeal, target, force, toKill, runCancelled,
  \* history: the executions whose signal reached an unrelated group
  stray

execVars   == <<pc, cancelled, own, escaped, blind>>
kernelVars == <<leader, kids, out, foreign, killed>>
pgVars     == <<withdrawn, closed, reap>>
recVars    == <<mem, disk, recordOn>>
regVars    == <<groups, lock, stopping, sealing, handoff, problems>>
runVars    == <<runPc, toSeal, target, force, toKill, runCancelled>>
vars       == <<execVars, kernelVars, pgVars, recVars, regVars, runVars, stray>>

Names == {Name[e] : e \in Exec}
Place == {"idle", "recorded", "started", "tracked", "up", "stopTerm", "stopKill",
          "exitTerm", "exitKill", "join", "scan", "withdraw", "reap", "verify",
          "blindKill", "blindWithdraw", "blindReap", "blindVerify",
          "returned", "handed"}
Entry == {"none", "pending", "tracked"}

Goto(e, place) == pc' = [pc EXCEPT ![e] = place]

-----------------------------------------------------------------------------
(* The group                                                               *)

\* A live member of the group itself.
Live(e) == leader[e] = "running" \/ kids[e]

\* pg.State() = GroupEmpty, and pg.State() # GroupEmpty.  Members are listed by
\* number, and a group that cannot be listed is never taken for empty.
StateEmpty(e)    == closed[e] \/ ~(Live(e) \/ foreign[e])
StateNotEmpty(e) == ~closed[e] /\ (Live(e) \/ foreign[e] \/ EnumFails)

\* signal: the check and the kill(2) are one critical section.
Authority(e) == ~withdrawn[e] /\ ~closed[e]
signal(e)    == stray' = IF Authority(e) /\ foreign[e] THEN stray \cup {e} ELSE stray

Terminate(e) == signal(e) /\ UNCHANGED killed
Kill(e)      == /\ signal(e)
                /\ killed' = IF Authority(e) THEN [killed EXCEPT ![e] = TRUE] ELSE killed

\* The context of an execution ends with the run's.
CtxDone(e) == cancelled[e] \/ runCancelled

\* exec's handoff channel: whether there is one, and whether it is closed.
HandoffSet(e)    == e \in Check \/ HasHandoff
HandoffClosed(e) == IF e \in Check THEN own[e] ELSE handoff

-----------------------------------------------------------------------------
(* The record.  Every change rewrites the whole list.                      *)

writeRecord == \/ disk' = mem'
               \/ WriteFails /\ UNCHANGED disk

\* removeRecordsLocked: nothing is written when nothing was removed.
recordDrop(S) ==
  /\ mem' = [e \in Exec |-> IF recordOn /\ e \in S THEN "none" ELSE mem[e]]
  /\ IF mem' = mem THEN UNCHANGED disk ELSE writeRecord
  /\ UNCHANGED recordOn

-----------------------------------------------------------------------------
(* exec: launch.  lifecycleMu is held from admission to registration.      *)

\* Executions of one process follow one another, and a worker that was handed
\* off launches no more.
Turn(e) == \A f \in Exec \ {e} : Name[f] = Name[e] => pc[f] \in {"idle", "returned"}

Refuse(e) ==
  /\ pc[e] = "idle" /\ runPc = "up" /\ lock = NoExec /\ Turn(e)
  /\ stopping \/ CtxDone(e)
  /\ Goto(e, "returned")
  /\ UNCHANGED <<cancelled, own, escaped, blind, kernelVars, pgVars, recVars,
                 regVars, runVars, stray>>

\* recordPending: a launch that cannot be recorded is refused, unless the PID
\* file itself is gone, which ends recording for the run.
Admit(e) ==
  /\ pc[e] = "idle" /\ runPc = "up" /\ lock = NoExec /\ Turn(e)
  /\ ~stopping /\ ~CtxDone(e)
  /\ \/ /\ mem' = IF recordOn THEN [mem EXCEPT ![e] = "pending"] ELSE mem
        /\ disk' = mem'
        /\ Goto(e, "recorded") /\ lock' = e
        /\ UNCHANGED recordOn
     \/ /\ WriteFails /\ recordOn
        /\ recordOn' = FALSE
        /\ mem' = [f \in Exec |-> "none"] /\ disk' = mem'
        /\ Goto(e, "recorded") /\ lock' = e
     \/ /\ WriteFails /\ recordOn
        /\ Goto(e, "returned")
        /\ UNCHANGED <<recVars, lock>>
  /\ UNCHANGED <<cancelled, own, escaped, blind, kernelVars, pgVars, groups,
                 stopping, sealing, handoff, problems, runVars, stray>>

StartFails(e) ==
  /\ pc[e] = "recorded"
  /\ recordDrop({e})
  /\ lock' = NoExec
  /\ Goto(e, "returned")
  /\ UNCHANGED <<cancelled, own, escaped, blind, kernelVars, pgVars, groups,
                 stopping, sealing, handoff, problems, runVars, stray>>

Start(e) ==
  /\ pc[e] = "recorded"
  /\ leader' = [leader EXCEPT ![e] = "running"]
  /\ Goto(e, "started")
  /\ UNCHANGED <<cancelled, own, escaped, blind, kids, out, foreign, killed,
                 pgVars, recVars, regVars, runVars, stray>>

\* Track, trackGroup and recordTracked.  An older group still registered under
\* the name is reported again if it is not empty, and its handle is released.
Track(e) ==
  /\ pc[e] = "started"
  /\ LET prev       == groups[Name[e]]
         dropped(S) == [f \in Exec |-> IF recordOn /\ f \in S THEN "none" ELSE mem[f]]
         started(m) == IF recordOn THEN [m EXCEPT ![e] = "tracked"] ELSE m
     IN /\ groups' = [groups EXCEPT ![Name[e]] = e]
        /\ closed' = [f \in Exec |-> f = prev \/ closed[f]]
        /\ \/ /\ prev # NoExec /\ StateEmpty(prev)
              /\ mem' = started(dropped({prev}))
              /\ \/ writeRecord
                 \/ WriteFails /\ disk' = dropped({prev})
              /\ UNCHANGED problems
           \/ /\ prev # NoExec => StateNotEmpty(prev)
              /\ mem' = started(mem)
              /\ writeRecord
              /\ problems' = IF prev = NoExec THEN problems ELSE problems \cup {prev}
  /\ lock' = NoExec
  /\ Goto(e, "tracked")
  /\ UNCHANGED <<cancelled, own, escaped, blind, kernelVars, withdrawn, reap,
                 recordOn, stopping, sealing, handoff, runVars, stray>>

-----------------------------------------------------------------------------
(* exec: a leader whose exit cannot be observed.  The group is killed only *)
(* where the leader is still reserved (leaderStillReserved).               *)

Unobserved(e) ==
  /\ pc[e] = "tracked" /\ ObserveFails
  /\ blind' = [blind EXCEPT ![e] = TRUE]
  /\ \E place \in {"blindKill", "blindWithdraw"} : Goto(e, place)
  /\ UNCHANGED <<cancelled, own, escaped, kernelVars, pgVars, recVars, regVars,
                 runVars, stray>>

\* terminateSealedGroup
BlindKill(e) ==
  /\ pc[e] = "blindKill"
  /\ \/ StateEmpty(e) /\ UNCHANGED <<killed, stray>>
     \/ StateNotEmpty(e) /\ Kill(e)
  /\ Goto(e, "blindWithdraw")
  /\ UNCHANGED <<cancelled, own, escaped, blind, leader, kids, out, foreign,
                 pgVars, recVars, regVars, runVars>>

\* Withdraw, kill the leader through its own handle, start the reap.
BlindWithdraw(e) ==
  /\ pc[e] = "blindWithdraw"
  /\ withdrawn' = [withdrawn EXCEPT ![e] = TRUE]
  /\ reap' = [reap EXCEPT ![e] = TRUE]
  /\ Goto(e, "blindReap")
  /\ UNCHANGED <<cancelled, own, escaped, blind, kernelVars, closed, recVars,
                 regVars, runVars, stray>>

BlindReaped(e) ==
  /\ pc[e] = "blindReap"
  /\ \/ leader[e] = "reaped" /\ Goto(e, "blindVerify")
     \/ HandoffClosed(e) /\ Goto(e, "handed")
  /\ UNCHANGED <<cancelled, own, escaped, blind, kernelVars, pgVars, recVars,
                 regVars, runVars, stray>>

-----------------------------------------------------------------------------
(* exec: from the observed start to the reap                               *)

Up(e) ==
  /\ pc[e] = "tracked"
  /\ Goto(e, "up")
  /\ UNCHANGED <<cancelled, own, escaped, blind, kernelVars, pgVars, recVars,
                 regVars, runVars, stray>>

\* finishHandoff: the reap is started; the group stays registered.
finishHandoff(e) ==
  /\ HandoffClosed(e)
  /\ reap' = [reap EXCEPT ![e] = TRUE]
  /\ Goto(e, "handed")
  /\ UNCHANGED <<cancelled, own, escaped, blind, kernelVars, withdrawn, closed,
                 recVars, regVars, runVars, stray>>

UpHandoff(e) == pc[e] = "up" /\ finishHandoff(e)

UpEnds(e) ==
  /\ pc[e] = "up"
  /\ \/ CtxDone(e) /\ Goto(e, "stopTerm")
     \/ leader[e] = "zombie" /\ Goto(e, "exitTerm")
  /\ UNCHANGED <<cancelled, own, escaped, blind, kernelVars, pgVars, recVars,
                 regVars, runVars, stray>>

\* terminateGroup: SIGTERM, then SIGKILL, to a group that is not empty.  After a
\* cancellation the observer is joined; after an observed exit it is not.
AfterKill(e) == IF pc[e] \in {"stopTerm", "stopKill"} THEN "join" ELSE "scan"

terminateGroupTerm(e) ==
  /\ pc[e] \in {"stopTerm", "exitTerm"}
  /\ \/ StateEmpty(e) /\ Goto(e, AfterKill(e)) /\ UNCHANGED <<killed, stray>>
     \/ /\ StateNotEmpty(e) /\ Terminate(e)
        /\ Goto(e, IF pc[e] = "stopTerm" THEN "stopKill" ELSE "exitKill")
  /\ UNCHANGED <<cancelled, own, escaped, blind, leader, kids, out, foreign,
                 pgVars, recVars, regVars, runVars>>

terminateGroupKill(e) ==
  /\ pc[e] \in {"stopKill", "exitKill"}
  /\ \/ StateEmpty(e) /\ UNCHANGED <<killed, stray>>
     \/ StateNotEmpty(e) /\ Kill(e)
  /\ Goto(e, AfterKill(e))
  /\ UNCHANGED <<cancelled, own, escaped, blind, leader, kids, out, foreign,
                 pgVars, recVars, regVars, runVars>>

\* The observer is joined, or its budget is spent.
Join(e) ==
  /\ pc[e] = "join"
  /\ Goto(e, "scan")
  /\ UNCHANGED <<cancelled, own, escaped, blind, kernelVars, pgVars, recVars,
                 regVars, runVars, stray>>

JoinHandoff(e) == pc[e] = "join" /\ finishHandoff(e)

\* Mutant: an empty group is taken for the end of the output.
ScanTrustsGroup(e) ==
  /\ pc[e] = "scan"
  /\ escaped' = [escaped EXCEPT ![e] = Live(e)]
  /\ Goto(e, "withdraw")
  /\ UNCHANGED <<cancelled, own, blind, kernelVars, pgVars, recVars, regVars,
                 runVars, stray>>

\* The output reaches its end, or something still holds it after the settle
\* window.  Only a descendant outside the group is certain to hold it.
Scan(e) ==
  /\ pc[e] = "scan"
  /\ \/ ~out[e] /\ UNCHANGED escaped
     \/ (Live(e) \/ out[e]) /\ escaped' = [escaped EXCEPT ![e] = TRUE]
  /\ Goto(e, "withdraw")
  /\ UNCHANGED <<cancelled, own, blind, kernelVars, pgVars, recVars, regVars,
                 runVars, stray>>

ScanHandoff(e) == pc[e] = "scan" /\ (Live(e) \/ out[e]) /\ finishHandoff(e)

\* Mutant: the reap is started before the authority is withdrawn.
ReapBeforeWithdraw(e) ==
  /\ pc[e] = "withdraw"
  /\ reap' = [reap EXCEPT ![e] = TRUE]
  /\ IF reap[e] THEN withdrawn' = [withdrawn EXCEPT ![e] = TRUE] /\ Goto(e, "reap")
                ELSE UNCHANGED <<withdrawn, pc>>
  /\ UNCHANGED <<cancelled, own, escaped, blind, kernelVars, closed, recVars,
                 regVars, runVars, stray>>

\* Withdraw, then the sole reap.
Withdraw(e) ==
  /\ pc[e] = "withdraw"
  /\ withdrawn' = [withdrawn EXCEPT ![e] = TRUE]
  /\ reap' = [reap EXCEPT ![e] = TRUE]
  /\ Goto(e, "reap")
  /\ UNCHANGED <<cancelled, own, escaped, blind, kernelVars, closed, recVars,
                 regVars, runVars, stray>>

Reaped(e) ==
  /\ pc[e] = "reap"
  /\ \/ leader[e] = "reaped" /\ Goto(e, "verify")
     \/ HandoffClosed(e) /\ Goto(e, "handed")
  /\ UNCHANGED <<cancelled, own, escaped, blind, kernelVars, pgVars, recVars,
                 regVars, runVars, stray>>

-----------------------------------------------------------------------------
(* exec: verification, under lifecycleMu                                   *)

\* The terminal sweep took the registry, so the group is its to report.
SweepOwns(e) == HandoffSet(e) /\ sealing

\* untrackGroup, recordDropGroup, Close
release(e) ==
  /\ groups' = [groups EXCEPT ![Name[e]] = IF @ = e THEN NoExec ELSE @]
  /\ recordDrop({e})
  /\ closed' = [closed EXCEPT ![e] = TRUE]

Verify(e) ==
  /\ pc[e] \in {"verify", "blindVerify"} /\ lock = NoExec
  /\ \/ /\ SweepOwns(e)
        /\ Goto(e, "handed")
        /\ UNCHANGED <<groups, recVars, closed, problems>>
     \/ /\ ~SweepOwns(e) /\ StateNotEmpty(e)
        /\ problems' = problems \cup {e}
        /\ Goto(e, "returned")
        /\ UNCHANGED <<groups, recVars, closed>>
     \/ /\ ~SweepOwns(e) /\ StateEmpty(e)
        /\ problems' = IF escaped[e] THEN problems \cup {e} ELSE problems
        /\ release(e)
        /\ Goto(e, "returned")
  /\ UNCHANGED <<cancelled, own, escaped, blind, kernelVars, withdrawn, reap,
                 lock, stopping, sealing, handoff, runVars, stray>>

-----------------------------------------------------------------------------
(* What runs beside exec                                                   *)

Started(e)  == leader[e] # "none"
InExec(e)   == pc[e] \notin {"idle", "returned", "handed"}

\* A restart, a failed probe or a check's deadline cancels the execution.
CancelExec(e) ==
  /\ InExec(e) /\ ~CtxDone(e)
  /\ cancelled' = [cancelled EXCEPT ![e] = TRUE]
  /\ UNCHANGED <<pc, own, escaped, blind, kernelVars, pgVars, recVars, regVars,
                 runVars, stray>>

\* A check's cleanup deadline, armed when its context ends.
CheckHandoff(e) ==
  /\ e \in Check /\ InExec(e) /\ CtxDone(e) /\ ~own[e]
  /\ own' = [own EXCEPT ![e] = TRUE]
  /\ UNCHANGED <<pc, cancelled, escaped, blind, kernelVars, pgVars, recVars,
                 regVars, runVars, stray>>

\* os/exec calls cmd.Cancel when the context ends before its wait is over,
\* which can be after the leader was collected.
CancelHook(e) ==
  /\ Started(e) /\ CtxDone(e)
  /\ InExec(e) \/ leader[e] # "reaped"
  /\ Terminate(e)
  /\ UNCHANGED <<execVars, leader, kids, out, foreign, pgVars, recVars, regVars,
                 runVars>>

\* cmd.Wait collects the leader.
Reap(e) ==
  /\ reap[e] /\ leader[e] = "zombie"
  /\ leader' = [leader EXCEPT ![e] = "reaped"]
  /\ UNCHANGED <<execVars, kids, out, foreign, killed, pgVars, recVars, regVars,
                 runVars, stray>>

\* The kernel and the command.
LeaderExits(e) ==
  /\ leader[e] = "running"
  /\ leader' = [leader EXCEPT ![e] = "zombie"]
  /\ UNCHANGED <<execVars, kids, out, foreign, killed, pgVars, recVars, regVars,
                 runVars, stray>>

\* Nothing forks any more once SIGKILL is pending.
KidsChange(e) ==
  /\ kids[e] \/ (Live(e) /\ ~killed[e])
  /\ kids' = [kids EXCEPT ![e] = ~@]
  /\ UNCHANGED <<execVars, leader, out, foreign, killed, pgVars, recVars, regVars,
                 runVars, stray>>

\* A descendant leaves the group while the output is still being read.
KidLeaves(e) ==
  /\ Live(e) /\ ~killed[e] /\ ~out[e]
  /\ pc[e] \in {"up", "stopTerm", "stopKill", "exitTerm", "exitKill", "join", "scan"}
  /\ out' = [out EXCEPT ![e] = TRUE]
  /\ UNCHANGED <<execVars, leader, kids, foreign, killed, pgVars, recVars, regVars,
                 runVars, stray>>

\* The number is free: it may be given to an unrelated group.
NumberReused(e) ==
  /\ leader[e] = "reaped" /\ ~kids[e]
  /\ foreign' = [foreign EXCEPT ![e] = ~@]
  /\ UNCHANGED <<execVars, leader, kids, out, killed, pgVars, recVars, regVars,
                 runVars, stray>>

-----------------------------------------------------------------------------
(* Run and the shutdown command                                            *)

\* Mutant: a name with no group is taken into the snapshot.
RegisteredWithNil == {groups[n] : n \in Names}

Registered == {groups[n] : n \in Names} \ {NoExec}

\* A signal, a shutdown or an idle stack cancels the run.
CancelRun ==
  /\ ~runCancelled /\ force = "no"
  /\ runCancelled' = TRUE
  /\ UNCHANGED <<execVars, kernelVars, pgVars, recVars, regVars, runPc, toSeal,
                 target, force, toKill, stray>>

\* The watcher of beginRun
AdmissionWatcher ==
  /\ runCancelled /\ ~stopping /\ lock = NoExec
  /\ stopping' = TRUE
  /\ UNCHANGED <<execVars, kernelVars, pgVars, recVars, groups, lock, sealing,
                 handoff, problems, runVars, stray>>

\* Shutdown(force): close admission, kill what is registered, then cancel.
ForceClose ==
  /\ force = "no" /\ runPc = "up" /\ lock = NoExec
  /\ stopping' = TRUE /\ force' = "closing"
  /\ UNCHANGED <<execVars, kernelVars, pgVars, recVars, groups, lock, sealing,
                 handoff, problems, runPc, toSeal, target, toKill, runCancelled,
                 stray>>

ForceSnapshot ==
  /\ force = "closing"
  /\ toKill' = Registered /\ force' = "killing"
  /\ UNCHANGED <<execVars, kernelVars, pgVars, recVars, regVars, runPc, toSeal,
                 target, runCancelled, stray>>

ForceKill(e) ==
  /\ e \in toKill
  /\ toKill' = toKill \ {e}
  /\ Kill(e)
  /\ UNCHANGED <<execVars, leader, kids, out, foreign, pgVars, recVars, regVars,
                 runPc, toSeal, target, force, runCancelled>>

ForceCancel ==
  /\ force = "killing" /\ toKill = {}
  /\ runCancelled' = TRUE /\ force' = "done"
  /\ UNCHANGED <<execVars, kernelVars, pgVars, recVars, regVars, runPc, toSeal,
                 target, toKill, stray>>

AllReturned == \A e \in Exec : ~InExec(e)

\* Mutant: the sweep does not wait for a launch in progress.
SweepTakesUnlocked ==
  /\ runPc = "up" /\ runCancelled
  /\ HasHandoff \/ AllReturned
  /\ stopping' = TRUE /\ sealing' = TRUE
  /\ toSeal' = Registered
  /\ groups' = [n \in Names |-> NoExec]
  /\ runPc' = "sweep"
  /\ UNCHANGED <<execVars, kernelVars, pgVars, recVars, lock, handoff, problems,
                 target, force, toKill, runCancelled, stray>>

\* sealGroups takes the registry: when the handoff timer fires, or when every
\* worker has returned from a cancelled run.
SweepTake ==
  /\ runPc = "up" /\ runCancelled /\ lock = NoExec
  /\ HasHandoff \/ AllReturned
  /\ stopping' = TRUE /\ sealing' = TRUE
  /\ toSeal' = Registered
  /\ groups' = [n \in Names |-> NoExec]
  /\ runPc' = "sweep"
  /\ UNCHANGED <<execVars, kernelVars, pgVars, recVars, lock, handoff, problems,
                 target, force, toKill, runCancelled, stray>>

\* sweepGroups is a no-op for a run that was not cancelled.
SweepSkip ==
  /\ runPc = "up" /\ ~runCancelled /\ AllReturned
  /\ runPc' = "report"
  /\ UNCHANGED <<execVars, kernelVars, pgVars, recVars, regVars, toSeal, target,
                 force, toKill, runCancelled, stray>>

\* Mutant: a group whose leader has exited is sealed without SIGKILL.
SweepKillsLeaders(e) ==
  /\ e \in toSeal /\ target = NoExec
  /\ toSeal' = toSeal \ {e} /\ target' = e
  /\ IF leader[e] = "running" THEN Kill(e) ELSE UNCHANGED <<killed, stray>>
  /\ UNCHANGED <<execVars, leader, kids, out, foreign, pgVars, recVars, regVars,
                 runPc, force, toKill, runCancelled>>

\* terminateSealedGroup, while the authority is still held
SweepKill(e) ==
  /\ e \in toSeal /\ target = NoExec
  /\ toSeal' = toSeal \ {e} /\ target' = e
  /\ \/ StateEmpty(e) /\ UNCHANGED <<killed, stray>>
     \/ StateNotEmpty(e) /\ Kill(e)
  /\ UNCHANGED <<execVars, leader, kids, out, foreign, pgVars, recVars, regVars,
                 runPc, force, toKill, runCancelled>>

\* Mutants: a sealed group that is not empty is not reported, or its entry is
\* dropped from the record.
SealForgetsSurvivor(e) ==
  /\ target = e
  /\ target' = NoExec
  /\ withdrawn' = [withdrawn EXCEPT ![e] = TRUE]
  /\ closed' = [closed EXCEPT ![e] = TRUE]
  /\ IF StateEmpty(e) THEN recordDrop({e}) ELSE UNCHANGED recVars
  /\ UNCHANGED <<execVars, kernelVars, reap, groups, lock, stopping, sealing,
                 handoff, problems, runPc, toSeal, force, toKill, runCancelled, stray>>

SealDropsEntry(e) ==
  /\ target = e
  /\ target' = NoExec
  /\ withdrawn' = [withdrawn EXCEPT ![e] = TRUE]
  /\ closed' = [closed EXCEPT ![e] = TRUE]
  /\ problems' = IF StateEmpty(e) THEN problems ELSE problems \cup {e}
  /\ recordDrop({e})
  /\ UNCHANGED <<execVars, kernelVars, reap, groups, lock, stopping, sealing,
                 handoff, runPc, toSeal, force, toKill, runCancelled, stray>>

\* Seal: Withdraw, State, Close
SweepSeal(e) ==
  /\ target = e
  /\ target' = NoExec
  /\ withdrawn' = [withdrawn EXCEPT ![e] = TRUE]
  /\ closed' = [closed EXCEPT ![e] = TRUE]
  /\ \/ StateEmpty(e) /\ recordDrop({e}) /\ UNCHANGED problems
     \/ StateNotEmpty(e) /\ problems' = problems \cup {e} /\ UNCHANGED recVars
  /\ UNCHANGED <<execVars, kernelVars, reap, groups, lock, stopping, sealing,
                 handoff, runPc, toSeal, force, toKill, runCancelled, stray>>

\* close(handoff) releases the workers; Run waits for them.
SweepDone ==
  /\ runPc = "sweep" /\ toSeal = {} /\ target = NoExec
  /\ handoff' = HasHandoff
  /\ runPc' = "join"
  /\ UNCHANGED <<execVars, kernelVars, pgVars, recVars, groups, lock, stopping,
                 sealing, problems, toSeal, target, force, toKill, runCancelled,
                 stray>>

WorkersDone ==
  /\ runPc = "join" /\ AllReturned
  /\ runPc' = "report"
  /\ UNCHANGED <<execVars, kernelVars, pgVars, recVars, regVars, toSeal, target,
                 force, toKill, runCancelled, stray>>

\* reportPendingReaps, then Run cancels its own context and returns.
Report ==
  /\ runPc = "report"
  /\ problems' = problems \cup {e \in Exec : reap[e] /\ leader[e] # "reaped"}
  /\ runPc' = "over" /\ runCancelled' = TRUE
  /\ UNCHANGED <<execVars, kernelVars, pgVars, recVars, groups, lock, stopping,
                 sealing, handoff, toSeal, target, force, toKill, stray>>

Finished == runPc = "over" /\ UNCHANGED vars

-----------------------------------------------------------------------------
Init ==
  /\ pc = [e \in Exec |-> "idle"]
  /\ leader = [e \in Exec |-> "none"]
  /\ /\ cancelled = [e \in Exec |-> FALSE] /\ own = [e \in Exec |-> FALSE]
     /\ escaped = [e \in Exec |-> FALSE] /\ blind = [e \in Exec |-> FALSE]
     /\ kids = [e \in Exec |-> FALSE] /\ out = [e \in Exec |-> FALSE]
     /\ foreign = [e \in Exec |-> FALSE] /\ killed = [e \in Exec |-> FALSE]
     /\ withdrawn = [e \in Exec |-> FALSE] /\ closed = [e \in Exec |-> FALSE]
     /\ reap = [e \in Exec |-> FALSE]
  /\ groups = [n \in Names |-> NoExec]
  /\ lock = NoExec /\ stopping = FALSE /\ sealing = FALSE /\ handoff = FALSE
  /\ problems = {} /\ stray = {}
  /\ mem = [e \in Exec |-> "none"] /\ disk = mem /\ recordOn = TRUE
  /\ runPc = "up" /\ toSeal = {} /\ target = NoExec
  /\ force = "no" /\ toKill = {} /\ runCancelled = FALSE

LaunchStep(e) == Refuse(e) \/ Admit(e) \/ StartFails(e) \/ Start(e) \/ Track(e)

BlindStep(e) ==
  Unobserved(e) \/ BlindKill(e) \/ BlindWithdraw(e) \/ BlindReaped(e)

StopStep(e) ==
  \/ Up(e) \/ UpHandoff(e) \/ UpEnds(e)
  \/ terminateGroupTerm(e) \/ terminateGroupKill(e)
  \/ Join(e) \/ JoinHandoff(e) \/ Scan(e) \/ ScanHandoff(e)
  \/ Withdraw(e) \/ Reaped(e) \/ Verify(e)

OutsideStep(e) ==
  \/ CancelExec(e) \/ CheckHandoff(e) \/ CancelHook(e) \/ Reap(e)
  \/ LeaderExits(e) \/ KidsChange(e) \/ KidLeaves(e) \/ NumberReused(e)

SweepStep(e) == ForceKill(e) \/ SweepKill(e) \/ SweepSeal(e)

RunStep ==
  \/ CancelRun \/ AdmissionWatcher \/ ForceClose \/ ForceSnapshot \/ ForceCancel
  \/ SweepTake \/ SweepSkip \/ SweepDone \/ WorkersDone \/ Report

ExecStep(e) == \/ LaunchStep(e) \/ BlindStep(e) \/ StopStep(e)
               \/ OutsideStep(e) \/ SweepStep(e)

Next == (\E e \in Exec : ExecStep(e)) \/ RunStep \/ Finished

Spec == Init /\ [][Next]_vars

-----------------------------------------------------------------------------
(* Properties                                                              *)

ExecTypeOK ==
  /\ pc \in [Exec -> Place]
  /\ cancelled \in [Exec -> BOOLEAN] /\ own \in [Exec -> BOOLEAN]
  /\ escaped \in [Exec -> BOOLEAN] /\ blind \in [Exec -> BOOLEAN]

GroupTypeOK ==
  /\ leader \in [Exec -> {"none", "running", "zombie", "reaped"}]
  /\ kids \in [Exec -> BOOLEAN] /\ out \in [Exec -> BOOLEAN]
  /\ foreign \in [Exec -> BOOLEAN] /\ killed \in [Exec -> BOOLEAN]
  /\ withdrawn \in [Exec -> BOOLEAN] /\ closed \in [Exec -> BOOLEAN]
  /\ reap \in [Exec -> BOOLEAN]

RunTypeOK ==
  /\ groups \in [Names -> Exec \cup {NoExec}]
  /\ lock \in Exec \cup {NoExec}
  /\ stopping \in BOOLEAN /\ sealing \in BOOLEAN /\ handoff \in BOOLEAN
  /\ problems \subseteq Exec /\ stray \subseteq Exec
  /\ mem \in [Exec -> Entry] /\ disk \in [Exec -> Entry] /\ recordOn \in BOOLEAN
  /\ runPc \in {"up", "sweep", "join", "report", "over"}
  /\ toSeal \subseteq Exec /\ target \in Exec \cup {NoExec}
  /\ force \in {"no", "closing", "killing", "done"} /\ toKill \subseteq Exec
  /\ runCancelled \in BOOLEAN

\* Every variable has its type.
TypeOK == ExecTypeOK /\ GroupTypeOK /\ RunTypeOK

\* No signal of a managed process reaches an unrelated group: not from the
\* escalation, the cancel hook, a forced shutdown or the sweep, however they
\* interleave with the reap (signal, Withdraw, Seal).
SignalsReachOwn == stray \subseteq Check

\* The same for every execution, checks included.
NoStraySignal == stray = {}

\* Authority is not given up over a live group before SIGKILL was sent, except
\* where the leader's exit could not be observed (terminateGroup,
\* terminateSealedGroup).
KilledBeforeSealed ==
  \A e \in Exec : (withdrawn[e] \/ closed[e]) /\ Live(e) => killed[e] \/ blind[e]

\* A verdict without problems is proof: when Run returns, no group has a live
\* member unless its execution is named in the verdict (ShutdownResult).  A
\* check that was handed off is covered when the terminal sweep ran.
VerdictSound ==
  runPc = "over" => \A e \in Exec :
    Live(e) /\ (e \in Check => sealing) => e \in problems

\* An execution that verified its group itself has also named a descendant that
\* left the group with the command's output.
EscapesReported ==
  \A e \in Exec : pc[e] = "returned" /\ out[e] => e \in problems

\* A crash at any point finds every group that may be running in the record on
\* disk, whichever writes failed (recordPending, recordTracked, recordDrop).
RecordCoversLive ==
  recordOn => \A e \in Exec : Live(e) => disk[e] # "none"

\* After the sweep took the registry nothing is registered or launched again,
\* so Run leaves no group behind its back (closeAdmission, lifecycleMu).
SweepIsLast ==
  sealing => Registered = {} /\ \A e \in Exec : pc[e] \notin {"recorded", "started"}

-----------------------------------------------------------------------------
(* The inductive invariants behind the safety properties                   *)

\* Places of exec that hold lifecycleMu, and those between registration and the
\* withdrawal of authority.
Launching == {"recorded", "started"}
Unwithdrawn == {"tracked", "up", "stopTerm", "stopKill", "exitTerm", "exitKill",
                "join", "scan", "withdraw", "blindKill", "blindWithdraw"}

\* The sweep still has e before it.
Swept(e) == e \in toSeal \/ target = e

\* Launches exclude one another and the sweep; a name has one execution at a
\* time; the registry knows a group under its own name.
LaunchInv ==
  /\ \A e \in Exec : pc[e] \in Launching <=> lock = e
  /\ \A e \in Exec : pc[e] \in {"idle", "recorded"} => leader[e] = "none" /\ ~kids[e]
  /\ \A e, f \in Exec : e # f /\ Name[e] = Name[f] => ~(InExec(e) /\ InExec(f))
  /\ \A n \in Names : groups[n] \in Exec => Name[groups[n]] = n
  /\ sealing => stopping /\ lock = NoExec /\ \A n \in Names : groups[n] = NoExec
  /\ runPc # "sweep" => toSeal = {} /\ target = NoExec
  /\ runPc = "sweep" => sealing
  /\ handoff => sealing /\ runPc \in {"join", "report", "over"}

\* A number is reused only after the reap, a reap is started only after the
\* authority is gone, and until then the group is registered or swept.
OwnerInv ==
  \A e \in Exec :
    /\ foreign[e] => leader[e] = "reaped"
    /\ leader[e] = "reaped" => reap[e]
    /\ e \notin Check /\ reap[e] => withdrawn[e]
    /\ pc[e] \in Unwithdrawn /\ ~withdrawn[e] => groups[Name[e]] = e \/ Swept(e)

\* A handle is closed only when nobody will ask it for the group's state again:
\* it is neither registered nor before the sweep, and an execution that goes on
\* will leave the group to the sweep.
HandleInv ==
  /\ sealing => \A e \in Exec : InExec(e) => HandoffSet(e)
  /\ target \notin toSeal
  /\ \A e \in Exec :
       /\ closed[e] => /\ \A n \in Names : groups[n] # e
                       /\ ~Swept(e)
                       /\ InExec(e) => sealing
                       /\ pc[e] \notin {"idle", "recorded", "started"}
       /\ pc[e] \in {"idle", "recorded", "started"} =>
            ~Swept(e) /\ \A n \in Names : groups[n] # e
       /\ Swept(e) => sealing

\* A group that runs or is about to has its entry in memory and on disk.
CoverInv ==
  recordOn => \A e \in Exec : Live(e) \/ pc[e] \in Launching
                                => mem[e] # "none" /\ disk[e] # "none"

IndInv == /\ TypeOK /\ LaunchInv /\ OwnerInv /\ SignalsReachOwn
          /\ HandleInv /\ CoverInv
=============================================================================
