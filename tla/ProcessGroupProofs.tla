------------------------- MODULE ProcessGroupProofs -------------------------
(***************************************************************************)
(* Proofs about ProcessGroup, for every set of executions, every naming,   *)
(* every choice of checks and every combination of failures.               *)
(***************************************************************************)
EXTENDS ProcessGroup, TLAPS

(* Type correctness *)

\* The part of the type invariant about exec, the worker's place and flags, is
\* preserved.
LEMMA ExecTypeNext ==
  ASSUME TypeOK, [Next]_vars
  PROVE  ExecTypeOK'
<1> USE DEF TypeOK, ExecTypeOK, Place
<1>1. ASSUME NEW e \in Exec, LaunchStep(e) PROVE ExecTypeOK'
  <2>1. CASE Refuse(e)
    BY <2>1 DEF Refuse, Goto, kernelVars, pgVars, recVars, regVars, runVars
  <2>2. CASE Admit(e)
    BY <2>2 DEF Admit, Goto, recVars, kernelVars, pgVars, runVars
  <2>3. CASE StartFails(e)
    BY <2>3 DEF StartFails, recordDrop, Goto, kernelVars, pgVars, runVars,
      writeRecord
  <2>4. CASE Start(e)
    BY <2>4 DEF Start, Goto, pgVars, recVars, regVars, runVars
  <2>5. CASE Track(e)
    BY <2>5 DEF Track, writeRecord, Goto, kernelVars, runVars
  <2> QED  BY <1>1, <2>1, <2>2, <2>3, <2>4, <2>5 DEF LaunchStep
<1>2. ASSUME NEW e \in Exec, BlindStep(e) PROVE ExecTypeOK'
  <2>1. CASE Unobserved(e)
    BY <2>1 DEF Unobserved, Goto, kernelVars, pgVars, recVars, regVars, runVars
  <2>2. CASE BlindKill(e)
    BY <2>2 DEF BlindKill, Kill, Goto, pgVars, recVars, regVars, runVars, signal
  <2>3. CASE BlindWithdraw(e)
    BY <2>3 DEF BlindWithdraw, Goto, kernelVars, recVars, regVars, runVars
  <2>4. CASE BlindReaped(e)
    BY <2>4 DEF BlindReaped, Goto, kernelVars, pgVars, recVars, regVars, runVars
  <2> QED  BY <1>2, <2>1, <2>2, <2>3, <2>4 DEF BlindStep
<1>3. ASSUME NEW e \in Exec, StopStep(e) PROVE ExecTypeOK'
  <2>1. CASE Up(e)
    BY <2>1 DEF Up, Goto, kernelVars, pgVars, recVars, regVars, runVars
  <2>2. CASE UpHandoff(e)
    BY <2>2 DEF UpHandoff, finishHandoff, Goto, kernelVars, recVars, regVars,
      runVars
  <2>3. CASE UpEnds(e)
    BY <2>3 DEF UpEnds, Goto, kernelVars, pgVars, recVars, regVars, runVars
  <2>4. CASE terminateGroupTerm(e)
    BY <2>4 DEF terminateGroupTerm, Goto, AfterKill, Terminate, pgVars, recVars,
      regVars, runVars, signal
  <2>5. CASE terminateGroupKill(e)
    BY <2>5 DEF terminateGroupKill, Kill, Goto, AfterKill, pgVars, recVars, regVars,
      runVars, signal
  <2>6. CASE Join(e)
    BY <2>6 DEF Join, Goto, kernelVars, pgVars, recVars, regVars, runVars
  <2>7. CASE JoinHandoff(e)
    BY <2>7 DEF JoinHandoff, finishHandoff, Goto, kernelVars, recVars, regVars,
      runVars
  <2>8. CASE Scan(e)
    BY <2>8 DEF Scan, Goto, kernelVars, pgVars, recVars, regVars, runVars
  <2>9. CASE ScanHandoff(e)
    BY <2>9 DEF ScanHandoff, finishHandoff, Goto, kernelVars, recVars, regVars,
      runVars
  <2>10. CASE Withdraw(e)
    BY <2>10 DEF Withdraw, Goto, kernelVars, recVars, regVars, runVars
  <2>11. CASE Reaped(e)
    BY <2>11 DEF Reaped, Goto, kernelVars, pgVars, recVars, regVars, runVars
  <2>12. CASE Verify(e)
    BY <2>12 DEF Verify, Goto, recVars, release, kernelVars, runVars, recordDrop,
      writeRecord
  <2> QED  BY <1>3, <2>1, <2>2, <2>3, <2>4, <2>5, <2>6, <2>7, <2>8, <2>9, <2>10,
    <2>11, <2>12 DEF StopStep
<1>4. ASSUME NEW e \in Exec, OutsideStep(e) PROVE ExecTypeOK'
  <2>1. CASE CancelExec(e)
    BY <2>1 DEF CancelExec, kernelVars, pgVars, recVars, regVars, runVars
  <2>2. CASE CheckHandoff(e)
    BY <2>2 DEF CheckHandoff, kernelVars, pgVars, recVars, regVars, runVars
  <2>3. CASE CancelHook(e)
    BY <2>3 DEF CancelHook, Terminate, execVars, pgVars, recVars, regVars, runVars,
      signal
  <2>4. CASE Reap(e)
    BY <2>4 DEF Reap, execVars, pgVars, recVars, regVars, runVars
  <2>5. CASE LeaderExits(e)
    BY <2>5 DEF LeaderExits, execVars, pgVars, recVars, regVars, runVars
  <2>6. CASE KidsChange(e)
    BY <2>6 DEF KidsChange, execVars, pgVars, recVars, regVars, runVars
  <2>7. CASE KidLeaves(e)
    BY <2>7 DEF KidLeaves, execVars, pgVars, recVars, regVars, runVars
  <2>8. CASE NumberReused(e)
    BY <2>8 DEF NumberReused, execVars, pgVars, recVars, regVars, runVars
  <2> QED  BY <1>4, <2>1, <2>2, <2>3, <2>4, <2>5, <2>6, <2>7, <2>8 DEF OutsideStep
<1>5. ASSUME NEW e \in Exec, SweepStep(e) PROVE ExecTypeOK'
  <2>1. CASE ForceKill(e)
    BY <2>1 DEF ForceKill, Kill, execVars, pgVars, recVars, regVars, signal
  <2>2. CASE SweepKill(e)
    BY <2>2 DEF SweepKill, Kill, execVars, pgVars, recVars, regVars, signal
  <2>3. CASE SweepSeal(e)
    BY <2>3 DEF SweepSeal, recordDrop, recVars, execVars, kernelVars, writeRecord
  <2> QED  BY <1>5, <2>1, <2>2, <2>3 DEF SweepStep
<1>6. CASE RunStep
  <2>1. CASE CancelRun
    BY <2>1 DEF CancelRun, execVars, kernelVars, pgVars, recVars, regVars
  <2>2. CASE AdmissionWatcher
    BY <2>2 DEF AdmissionWatcher, execVars, kernelVars, pgVars, recVars, runVars
  <2>3. CASE ForceClose
    BY <2>3 DEF ForceClose, execVars, kernelVars, pgVars, recVars
  <2>4. CASE ForceSnapshot
    BY <2>4 DEF ForceSnapshot, execVars, kernelVars, pgVars, recVars, regVars
  <2>5. CASE ForceCancel
    BY <2>5 DEF ForceCancel, execVars, kernelVars, pgVars, recVars, regVars
  <2>6. CASE SweepTake
    BY <2>6 DEF SweepTake, execVars, kernelVars, pgVars, recVars
  <2>7. CASE SweepSkip
    BY <2>7 DEF SweepSkip, execVars, kernelVars, pgVars, recVars, regVars
  <2>8. CASE SweepDone
    BY <2>8 DEF SweepDone, execVars, kernelVars, pgVars, recVars
  <2>9. CASE WorkersDone
    BY <2>9 DEF WorkersDone, execVars, kernelVars, pgVars, recVars, regVars
  <2>10. CASE Report
    BY <2>10 DEF Report, execVars, kernelVars, pgVars, recVars
  <2> QED  BY <1>6, <2>1, <2>2, <2>3, <2>4, <2>5, <2>6, <2>7, <2>8, <2>9, <2>10 DEF
    RunStep
<1>7. CASE UNCHANGED vars
  BY <1>7 DEF vars, execVars, kernelVars, pgVars, recVars, regVars, runVars, Place
<1> QED  BY <1>1, <1>2, <1>3, <1>4, <1>5, <1>6, <1>7 DEF Next, ExecStep, Finished

\* The part about the kernel and the group's handle is preserved.
LEMMA GroupTypeNext ==
  ASSUME TypeOK, [Next]_vars
  PROVE  GroupTypeOK'
<1> USE DEF TypeOK, GroupTypeOK
<1>1. ASSUME NEW e \in Exec, LaunchStep(e) PROVE GroupTypeOK'
  <2>1. CASE Refuse(e)
    BY <2>1 DEF Refuse, Goto, kernelVars, pgVars, recVars, regVars, runVars
  <2>2. CASE Admit(e)
    BY <2>2 DEF Admit, Goto, recVars, kernelVars, pgVars, runVars
  <2>3. CASE StartFails(e)
    BY <2>3 DEF StartFails, recordDrop, Goto, kernelVars, pgVars, runVars,
      writeRecord
  <2>4. CASE Start(e)
    BY <2>4 DEF Start, Goto, pgVars, recVars, regVars, runVars
  <2>5. CASE Track(e)
    BY <2>5 DEF Track, writeRecord, Goto, kernelVars, runVars
  <2> QED  BY <1>1, <2>1, <2>2, <2>3, <2>4, <2>5 DEF LaunchStep
<1>2. ASSUME NEW e \in Exec, BlindStep(e) PROVE GroupTypeOK'
  <2>1. CASE Unobserved(e)
    BY <2>1 DEF Unobserved, Goto, kernelVars, pgVars, recVars, regVars, runVars
  <2>2. CASE BlindKill(e)
    BY <2>2 DEF BlindKill, Kill, Goto, pgVars, recVars, regVars, runVars, signal
  <2>3. CASE BlindWithdraw(e)
    BY <2>3 DEF BlindWithdraw, Goto, kernelVars, recVars, regVars, runVars
  <2>4. CASE BlindReaped(e)
    BY <2>4 DEF BlindReaped, Goto, kernelVars, pgVars, recVars, regVars, runVars
  <2> QED  BY <1>2, <2>1, <2>2, <2>3, <2>4 DEF BlindStep
<1>3. ASSUME NEW e \in Exec, StopStep(e) PROVE GroupTypeOK'
  <2>1. CASE Up(e)
    BY <2>1 DEF Up, Goto, kernelVars, pgVars, recVars, regVars, runVars
  <2>2. CASE UpHandoff(e)
    BY <2>2 DEF UpHandoff, finishHandoff, Goto, kernelVars, recVars, regVars,
      runVars
  <2>3. CASE UpEnds(e)
    BY <2>3 DEF UpEnds, Goto, kernelVars, pgVars, recVars, regVars, runVars
  <2>4. CASE terminateGroupTerm(e)
    BY <2>4 DEF terminateGroupTerm, Goto, AfterKill, Terminate, pgVars, recVars,
      regVars, runVars, signal
  <2>5. CASE terminateGroupKill(e)
    BY <2>5 DEF terminateGroupKill, Kill, Goto, AfterKill, pgVars, recVars, regVars,
      runVars, signal
  <2>6. CASE Join(e)
    BY <2>6 DEF Join, Goto, kernelVars, pgVars, recVars, regVars, runVars
  <2>7. CASE JoinHandoff(e)
    BY <2>7 DEF JoinHandoff, finishHandoff, Goto, kernelVars, recVars, regVars,
      runVars
  <2>8. CASE Scan(e)
    BY <2>8 DEF Scan, Goto, kernelVars, pgVars, recVars, regVars, runVars
  <2>9. CASE ScanHandoff(e)
    BY <2>9 DEF ScanHandoff, finishHandoff, Goto, kernelVars, recVars, regVars,
      runVars
  <2>10. CASE Withdraw(e)
    BY <2>10 DEF Withdraw, Goto, kernelVars, recVars, regVars, runVars
  <2>11. CASE Reaped(e)
    BY <2>11 DEF Reaped, Goto, kernelVars, pgVars, recVars, regVars, runVars
  <2>12. CASE Verify(e)
    BY <2>12 DEF Verify, Goto, recVars, release, kernelVars, runVars, recordDrop,
      writeRecord
  <2> QED  BY <1>3, <2>1, <2>2, <2>3, <2>4, <2>5, <2>6, <2>7, <2>8, <2>9, <2>10,
    <2>11, <2>12 DEF StopStep
<1>4. ASSUME NEW e \in Exec, OutsideStep(e) PROVE GroupTypeOK'
  <2>1. CASE CancelExec(e)
    BY <2>1 DEF CancelExec, kernelVars, pgVars, recVars, regVars, runVars
  <2>2. CASE CheckHandoff(e)
    BY <2>2 DEF CheckHandoff, kernelVars, pgVars, recVars, regVars, runVars
  <2>3. CASE CancelHook(e)
    BY <2>3 DEF CancelHook, Terminate, execVars, pgVars, recVars, regVars, runVars,
      signal
  <2>4. CASE Reap(e)
    BY <2>4 DEF Reap, execVars, pgVars, recVars, regVars, runVars
  <2>5. CASE LeaderExits(e)
    BY <2>5 DEF LeaderExits, execVars, pgVars, recVars, regVars, runVars
  <2>6. CASE KidsChange(e)
    BY <2>6 DEF KidsChange, execVars, pgVars, recVars, regVars, runVars
  <2>7. CASE KidLeaves(e)
    BY <2>7 DEF KidLeaves, execVars, pgVars, recVars, regVars, runVars
  <2>8. CASE NumberReused(e)
    BY <2>8 DEF NumberReused, execVars, pgVars, recVars, regVars, runVars
  <2> QED  BY <1>4, <2>1, <2>2, <2>3, <2>4, <2>5, <2>6, <2>7, <2>8 DEF OutsideStep
<1>5. ASSUME NEW e \in Exec, SweepStep(e) PROVE GroupTypeOK'
  <2>1. CASE ForceKill(e)
    BY <2>1 DEF ForceKill, Kill, execVars, pgVars, recVars, regVars, signal
  <2>2. CASE SweepKill(e)
    BY <2>2 DEF SweepKill, Kill, execVars, pgVars, recVars, regVars, signal
  <2>3. CASE SweepSeal(e)
    BY <2>3 DEF SweepSeal, recordDrop, recVars, execVars, kernelVars, writeRecord
  <2> QED  BY <1>5, <2>1, <2>2, <2>3 DEF SweepStep
<1>6. CASE RunStep
  <2>1. CASE CancelRun
    BY <2>1 DEF CancelRun, execVars, kernelVars, pgVars, recVars, regVars
  <2>2. CASE AdmissionWatcher
    BY <2>2 DEF AdmissionWatcher, execVars, kernelVars, pgVars, recVars, runVars
  <2>3. CASE ForceClose
    BY <2>3 DEF ForceClose, execVars, kernelVars, pgVars, recVars
  <2>4. CASE ForceSnapshot
    BY <2>4 DEF ForceSnapshot, execVars, kernelVars, pgVars, recVars, regVars
  <2>5. CASE ForceCancel
    BY <2>5 DEF ForceCancel, execVars, kernelVars, pgVars, recVars, regVars
  <2>6. CASE SweepTake
    BY <2>6 DEF SweepTake, execVars, kernelVars, pgVars, recVars
  <2>7. CASE SweepSkip
    BY <2>7 DEF SweepSkip, execVars, kernelVars, pgVars, recVars, regVars
  <2>8. CASE SweepDone
    BY <2>8 DEF SweepDone, execVars, kernelVars, pgVars, recVars
  <2>9. CASE WorkersDone
    BY <2>9 DEF WorkersDone, execVars, kernelVars, pgVars, recVars, regVars
  <2>10. CASE Report
    BY <2>10 DEF Report, execVars, kernelVars, pgVars, recVars
  <2> QED  BY <1>6, <2>1, <2>2, <2>3, <2>4, <2>5, <2>6, <2>7, <2>8, <2>9, <2>10 DEF
    RunStep
<1>7. CASE UNCHANGED vars
  BY <1>7 DEF vars, execVars, kernelVars, pgVars, recVars, regVars, runVars
<1> QED  BY <1>1, <1>2, <1>3, <1>4, <1>5, <1>6, <1>7 DEF Next, ExecStep, Finished

\* The part about the registry, the record, Run and the forced shutdown is
\* preserved.
LEMMA RunTypeNext ==
  ASSUME TypeOK, [Next]_vars
  PROVE  RunTypeOK'
<1> USE ProcessGroupAssumption DEF TypeOK, RunTypeOK, Entry, Names
<1>1. ASSUME NEW e \in Exec, LaunchStep(e) PROVE RunTypeOK'
  <2>1. CASE Refuse(e)
    BY <2>1 DEF Refuse, Goto, kernelVars, pgVars, recVars, regVars, runVars
  <2>2. CASE Admit(e)
    <3>1. mem' \in [Exec -> Entry] /\ disk' \in [Exec -> Entry] /\ recordOn' \in BOOLEAN
      <4>1. CASE recordOn /\ mem' = [mem EXCEPT ![e] = "pending"] /\ disk' = mem' /\ UNCHANGED recordOn
        BY <4>1
      <4>2. CASE mem' = mem /\ disk' = mem' /\ UNCHANGED recordOn
        BY <4>2
      <4>3. CASE mem' = [f \in Exec |-> "none"] /\ disk' = mem' /\ recordOn' = FALSE
        BY <4>3
      <4>4. CASE UNCHANGED recVars
        BY <4>4 DEF recVars
      <4> QED  BY <2>2, <4>1, <4>2, <4>3, <4>4 DEF Admit
    <3> QED  BY <2>2, <3>1 DEF Admit, recVars, runVars
  <2>3. CASE StartFails(e)
    BY <2>3 DEF StartFails, recordDrop, Goto, kernelVars, pgVars, runVars,
      writeRecord
  <2>4. CASE Start(e)
    BY <2>4 DEF Start, Goto, pgVars, recVars, regVars, runVars
  <2>5. CASE Track(e)
    <3> DEFINE dropped(S) == [f \in Exec |-> IF recordOn /\ f \in S THEN "none" ELSE mem[f]]
               started(m) == IF recordOn THEN [m EXCEPT ![e] = "tracked"] ELSE m
               prev == groups[Name[e]]
    <3>1. /\ \A S : dropped(S) \in [Exec -> Entry]
          /\ \A m \in [Exec -> Entry] : started(m) \in [Exec -> Entry]
      OBVIOUS
    <3>2. \/ mem' = started(dropped({prev})) /\ (writeRecord \/ disk' = dropped({prev}))
          \/ mem' = started(mem) /\ writeRecord
      BY <2>5 DEF Track
    <3> HIDE DEF dropped, started
    <3>3. mem' \in [Exec -> Entry] /\ disk' \in [Exec -> Entry]
      BY <3>1, <3>2 DEF writeRecord
    <3>4. prev \in Exec \cup {NoExec} /\ Name[e] \in Names
      BY DEF Names
    <3>5. problems' \subseteq Exec
      BY <2>5, <3>4 DEF Track
    <3>6. groups' \in [Names -> Exec \cup {NoExec}] /\ lock' = NoExec
      BY <2>5 DEF Track
    <3> QED  BY <2>5, <3>3, <3>5, <3>6 DEF Track, runVars
  <2> QED  BY <1>1, <2>1, <2>2, <2>3, <2>4, <2>5 DEF LaunchStep
<1>2. ASSUME NEW e \in Exec, BlindStep(e) PROVE RunTypeOK'
  <2>1. CASE Unobserved(e)
    BY <2>1 DEF Unobserved, Goto, kernelVars, pgVars, recVars, regVars, runVars
  <2>2. CASE BlindKill(e)
    BY <2>2 DEF BlindKill, Kill, Goto, pgVars, recVars, regVars, runVars, signal
  <2>3. CASE BlindWithdraw(e)
    BY <2>3 DEF BlindWithdraw, Goto, kernelVars, recVars, regVars, runVars
  <2>4. CASE BlindReaped(e)
    BY <2>4 DEF BlindReaped, Goto, kernelVars, pgVars, recVars, regVars, runVars
  <2> QED  BY <1>2, <2>1, <2>2, <2>3, <2>4 DEF BlindStep
<1>3. ASSUME NEW e \in Exec, StopStep(e) PROVE RunTypeOK'
  <2>1. CASE Up(e)
    BY <2>1 DEF Up, Goto, kernelVars, pgVars, recVars, regVars, runVars
  <2>2. CASE UpHandoff(e)
    BY <2>2 DEF UpHandoff, finishHandoff, Goto, kernelVars, recVars, regVars,
      runVars
  <2>3. CASE UpEnds(e)
    BY <2>3 DEF UpEnds, Goto, kernelVars, pgVars, recVars, regVars, runVars
  <2>4. CASE terminateGroupTerm(e)
    BY <2>4 DEF terminateGroupTerm, Goto, AfterKill, Terminate, pgVars, recVars,
      regVars, runVars, signal
  <2>5. CASE terminateGroupKill(e)
    BY <2>5 DEF terminateGroupKill, Kill, Goto, AfterKill, pgVars, recVars, regVars,
      runVars, signal
  <2>6. CASE Join(e)
    BY <2>6 DEF Join, Goto, kernelVars, pgVars, recVars, regVars, runVars
  <2>7. CASE JoinHandoff(e)
    BY <2>7 DEF JoinHandoff, finishHandoff, Goto, kernelVars, recVars, regVars,
      runVars
  <2>8. CASE Scan(e)
    BY <2>8 DEF Scan, Goto, kernelVars, pgVars, recVars, regVars, runVars
  <2>9. CASE ScanHandoff(e)
    BY <2>9 DEF ScanHandoff, finishHandoff, Goto, kernelVars, recVars, regVars,
      runVars
  <2>10. CASE Withdraw(e)
    BY <2>10 DEF Withdraw, Goto, kernelVars, recVars, regVars, runVars
  <2>11. CASE Reaped(e)
    BY <2>11 DEF Reaped, Goto, kernelVars, pgVars, recVars, regVars, runVars
  <2>12. CASE Verify(e)
    BY <2>12 DEF Verify, Goto, recVars, release, kernelVars, runVars, recordDrop,
      writeRecord
  <2> QED  BY <1>3, <2>1, <2>2, <2>3, <2>4, <2>5, <2>6, <2>7, <2>8, <2>9, <2>10,
    <2>11, <2>12 DEF StopStep
<1>4. ASSUME NEW e \in Exec, OutsideStep(e) PROVE RunTypeOK'
  <2>1. CASE CancelExec(e)
    BY <2>1 DEF CancelExec, kernelVars, pgVars, recVars, regVars, runVars
  <2>2. CASE CheckHandoff(e)
    BY <2>2 DEF CheckHandoff, kernelVars, pgVars, recVars, regVars, runVars
  <2>3. CASE CancelHook(e)
    BY <2>3 DEF CancelHook, Terminate, execVars, pgVars, recVars, regVars, runVars,
      signal
  <2>4. CASE Reap(e)
    BY <2>4 DEF Reap, execVars, pgVars, recVars, regVars, runVars
  <2>5. CASE LeaderExits(e)
    BY <2>5 DEF LeaderExits, execVars, pgVars, recVars, regVars, runVars
  <2>6. CASE KidsChange(e)
    BY <2>6 DEF KidsChange, execVars, pgVars, recVars, regVars, runVars
  <2>7. CASE KidLeaves(e)
    BY <2>7 DEF KidLeaves, execVars, pgVars, recVars, regVars, runVars
  <2>8. CASE NumberReused(e)
    BY <2>8 DEF NumberReused, execVars, pgVars, recVars, regVars, runVars
  <2> QED  BY <1>4, <2>1, <2>2, <2>3, <2>4, <2>5, <2>6, <2>7, <2>8 DEF OutsideStep
<1>5. ASSUME NEW e \in Exec, SweepStep(e) PROVE RunTypeOK'
  <2>1. CASE ForceKill(e)
    BY <2>1 DEF ForceKill, Kill, execVars, pgVars, recVars, regVars, signal
  <2>2. CASE SweepKill(e)
    BY <2>2 DEF SweepKill, Kill, execVars, pgVars, recVars, regVars, signal
  <2>3. CASE SweepSeal(e)
    BY <2>3 DEF SweepSeal, recordDrop, recVars, execVars, kernelVars, writeRecord
  <2> QED  BY <1>5, <2>1, <2>2, <2>3 DEF SweepStep
<1>6. CASE RunStep
  <2>1. CASE CancelRun
    BY <2>1 DEF CancelRun, execVars, kernelVars, pgVars, recVars, regVars
  <2>2. CASE AdmissionWatcher
    BY <2>2 DEF AdmissionWatcher, execVars, kernelVars, pgVars, recVars, runVars
  <2>3. CASE ForceClose
    BY <2>3 DEF ForceClose, execVars, kernelVars, pgVars, recVars
  <2>4. CASE ForceSnapshot
    BY <2>4 DEF ForceSnapshot, Registered, execVars, kernelVars, pgVars, recVars,
      regVars
  <2>5. CASE ForceCancel
    BY <2>5 DEF ForceCancel, execVars, kernelVars, pgVars, recVars, regVars
  <2>6. CASE SweepTake
    BY <2>6 DEF SweepTake, Registered, execVars, kernelVars, pgVars, recVars
  <2>7. CASE SweepSkip
    BY <2>7 DEF SweepSkip, execVars, kernelVars, pgVars, recVars, regVars
  <2>8. CASE SweepDone
    BY <2>8 DEF SweepDone, execVars, kernelVars, pgVars, recVars
  <2>9. CASE WorkersDone
    BY <2>9 DEF WorkersDone, execVars, kernelVars, pgVars, recVars, regVars
  <2>10. CASE Report
    BY <2>10 DEF Report, execVars, kernelVars, pgVars, recVars
  <2> QED  BY <1>6, <2>1, <2>2, <2>3, <2>4, <2>5, <2>6, <2>7, <2>8, <2>9, <2>10 DEF
    RunStep
<1>7. CASE UNCHANGED vars
  BY <1>7 DEF vars, execVars, kernelVars, pgVars, recVars, regVars, runVars,
    Registered
<1> QED  BY <1>1, <1>2, <1>3, <1>4, <1>5, <1>6, <1>7 DEF Next, ExecStep, Finished

\* The first state is well typed.
LEMMA TypeInit == Init => TypeOK
<1> SUFFICES ASSUME Init PROVE TypeOK
  OBVIOUS
<1>1. ExecTypeOK /\ GroupTypeOK
  BY DEF Init, ExecTypeOK, GroupTypeOK, Place
<1>2. RunTypeOK
  BY DEF Init, RunTypeOK, Entry
<1> QED  BY <1>1, <1>2 DEF TypeOK

\* Every step of the runner, of the kernel and of Run keeps the types.
LEMMA TypeNext == TypeOK /\ [Next]_vars => TypeOK'
BY ExecTypeNext, GroupTypeNext, RunTypeNext DEF TypeOK

\* Every variable of the model keeps its type, whatever fails.
THEOREM TypeCorrect == Spec => []TypeOK
BY TypeInit, TypeNext, PTL DEF Spec

-----------------------------------------------------------------------------
(* Launches, names and the sweep *)

\* lifecycleMu, held from admission to registration, keeps launches apart from
\* one another and from the sweep (exec, sealGroups).
LEMMA LaunchNext ==
  ASSUME TypeOK, LaunchInv, [Next]_vars
  PROVE  LaunchInv'
<1> USE ProcessGroupAssumption DEF TypeOK, ExecTypeOK, GroupTypeOK, RunTypeOK, LaunchInv, Launching, InExec
<1>1. ASSUME NEW e \in Exec, LaunchStep(e) PROVE LaunchInv'
  <2>1. CASE Refuse(e)
    BY <2>1 DEF Refuse, Turn, Goto, kernelVars, pgVars, recVars, regVars, runVars
  <2>2. CASE Admit(e)
    BY <2>2 DEF Admit, Turn, Goto, recVars, kernelVars, pgVars, runVars
  <2>3. CASE StartFails(e)
    BY <2>3 DEF StartFails, recordDrop, Goto, kernelVars, pgVars, runVars,
      writeRecord
  <2>4. CASE Start(e)
    BY <2>4 DEF Start, Goto, pgVars, recVars, regVars, runVars
  <2>5. CASE Track(e)
    BY <2>5 DEF Track, writeRecord, Goto, kernelVars, runVars
  <2> QED  BY <1>1, <2>1, <2>2, <2>3, <2>4, <2>5 DEF LaunchStep
<1>2. ASSUME NEW e \in Exec, BlindStep(e) PROVE LaunchInv'
  <2>1. CASE Unobserved(e)
    BY <2>1 DEF Unobserved, Goto, kernelVars, pgVars, recVars, regVars, runVars
  <2>2. CASE BlindKill(e)
    BY <2>2 DEF BlindKill, Kill, Goto, pgVars, recVars, regVars, runVars, signal
  <2>3. CASE BlindWithdraw(e)
    BY <2>3 DEF BlindWithdraw, Goto, kernelVars, recVars, regVars, runVars
  <2>4. CASE BlindReaped(e)
    BY <2>4 DEF BlindReaped, Goto, kernelVars, pgVars, recVars, regVars, runVars
  <2> QED  BY <1>2, <2>1, <2>2, <2>3, <2>4 DEF BlindStep
<1>3. ASSUME NEW e \in Exec, StopStep(e) PROVE LaunchInv'
  <2>1. CASE Up(e)
    BY <2>1 DEF Up, Goto, kernelVars, pgVars, recVars, regVars, runVars
  <2>2. CASE UpHandoff(e)
    BY <2>2 DEF UpHandoff, finishHandoff, Goto, kernelVars, recVars, regVars,
      runVars
  <2>3. CASE UpEnds(e)
    BY <2>3 DEF UpEnds, Goto, kernelVars, pgVars, recVars, regVars, runVars
  <2>4. CASE terminateGroupTerm(e)
    BY <2>4 DEF terminateGroupTerm, Goto, AfterKill, Terminate, pgVars, recVars,
      regVars, runVars, signal
  <2>5. CASE terminateGroupKill(e)
    BY <2>5 DEF terminateGroupKill, Kill, Goto, AfterKill, pgVars, recVars, regVars,
      runVars, signal
  <2>6. CASE Join(e)
    BY <2>6 DEF Join, Goto, kernelVars, pgVars, recVars, regVars, runVars
  <2>7. CASE JoinHandoff(e)
    BY <2>7 DEF JoinHandoff, finishHandoff, Goto, kernelVars, recVars, regVars,
      runVars
  <2>8. CASE Scan(e)
    BY <2>8 DEF Scan, Goto, kernelVars, pgVars, recVars, regVars, runVars
  <2>9. CASE ScanHandoff(e)
    BY <2>9 DEF ScanHandoff, finishHandoff, Goto, kernelVars, recVars, regVars,
      runVars
  <2>10. CASE Withdraw(e)
    BY <2>10 DEF Withdraw, Goto, kernelVars, recVars, regVars, runVars
  <2>11. CASE Reaped(e)
    BY <2>11 DEF Reaped, Goto, kernelVars, pgVars, recVars, regVars, runVars
  <2>12. CASE Verify(e)
    BY <2>12 DEF Verify, Goto, recVars, release, kernelVars, runVars, recordDrop,
      writeRecord
  <2> QED  BY <1>3, <2>1, <2>2, <2>3, <2>4, <2>5, <2>6, <2>7, <2>8, <2>9, <2>10,
    <2>11, <2>12 DEF StopStep
<1>4. ASSUME NEW e \in Exec, OutsideStep(e) PROVE LaunchInv'
  <2>1. CASE CancelExec(e)
    BY <2>1 DEF CancelExec, InExec, kernelVars, pgVars, recVars, regVars, runVars
  <2>2. CASE CheckHandoff(e)
    BY <2>2 DEF CheckHandoff, InExec, kernelVars, pgVars, recVars, regVars, runVars
  <2>3. CASE CancelHook(e)
    BY <2>3 DEF CancelHook, InExec, Terminate, execVars, pgVars, recVars, regVars,
      runVars, signal
  <2>4. CASE Reap(e)
    BY <2>4 DEF Reap, execVars, pgVars, recVars, regVars, runVars
  <2>5. CASE LeaderExits(e)
    BY <2>5 DEF LeaderExits, execVars, pgVars, recVars, regVars, runVars
  <2>6. CASE KidsChange(e)
    BY <2>6 DEF KidsChange, Live, execVars, pgVars, recVars, regVars, runVars
  <2>7. CASE KidLeaves(e)
    BY <2>7 DEF KidLeaves, execVars, pgVars, recVars, regVars, runVars
  <2>8. CASE NumberReused(e)
    BY <2>8 DEF NumberReused, execVars, pgVars, recVars, regVars, runVars
  <2> QED  BY <1>4, <2>1, <2>2, <2>3, <2>4, <2>5, <2>6, <2>7, <2>8 DEF OutsideStep
<1>5. ASSUME NEW e \in Exec, SweepStep(e) PROVE LaunchInv'
  <2>1. CASE ForceKill(e)
    BY <2>1 DEF ForceKill, Kill, execVars, pgVars, recVars, regVars, signal
  <2>2. CASE SweepKill(e)
    BY <2>2 DEF SweepKill, Kill, execVars, pgVars, recVars, regVars, signal
  <2>3. CASE SweepSeal(e)
    BY <2>3 DEF SweepSeal, recordDrop, recVars, execVars, kernelVars, writeRecord
  <2> QED  BY <1>5, <2>1, <2>2, <2>3 DEF SweepStep
<1>6. CASE RunStep
  <2>1. CASE CancelRun
    BY <2>1 DEF CancelRun, execVars, kernelVars, pgVars, recVars, regVars
  <2>2. CASE AdmissionWatcher
    BY <2>2 DEF AdmissionWatcher, execVars, kernelVars, pgVars, recVars, runVars
  <2>3. CASE ForceClose
    BY <2>3 DEF ForceClose, execVars, kernelVars, pgVars, recVars
  <2>4. CASE ForceSnapshot
    BY <2>4 DEF ForceSnapshot, Registered, execVars, kernelVars, pgVars, recVars,
      regVars
  <2>5. CASE ForceCancel
    BY <2>5 DEF ForceCancel, execVars, kernelVars, pgVars, recVars, regVars
  <2>6. CASE SweepTake
    BY <2>6 DEF SweepTake, Registered, execVars, kernelVars, pgVars, recVars
  <2>7. CASE SweepSkip
    BY <2>7 DEF SweepSkip, execVars, kernelVars, pgVars, recVars, regVars
  <2>8. CASE SweepDone
    BY <2>8 DEF SweepDone, execVars, kernelVars, pgVars, recVars
  <2>9. CASE WorkersDone
    BY <2>9 DEF WorkersDone, execVars, kernelVars, pgVars, recVars, regVars
  <2>10. CASE Report
    BY <2>10 DEF Report, execVars, kernelVars, pgVars, recVars
  <2> QED  BY <1>6, <2>1, <2>2, <2>3, <2>4, <2>5, <2>6, <2>7, <2>8, <2>9, <2>10 DEF
    RunStep
<1>7. CASE UNCHANGED vars
  BY <1>7 DEF vars, execVars, kernelVars, pgVars, recVars, regVars, runVars, InExec
<1> QED  BY <1>1, <1>2, <1>3, <1>4, <1>5, <1>6, <1>7 DEF Next, ExecStep, Finished

-----------------------------------------------------------------------------
(* Ownership *)

\* Authority is withdrawn before the reap is started, and a group whose authority
\* is held is registered or before the sweep (Withdraw, trackGroup, takeGroups).
LEMMA OwnerNext ==
  ASSUME TypeOK, LaunchInv, OwnerInv, [Next]_vars
  PROVE  OwnerInv'
<1> USE ProcessGroupAssumption DEF TypeOK, ExecTypeOK, GroupTypeOK, RunTypeOK, LaunchInv, OwnerInv, Unwithdrawn, Launching, Swept, Names
<1>1. ASSUME NEW e \in Exec, LaunchStep(e) PROVE OwnerInv'
  <2>1. CASE Refuse(e)
    BY <2>1 DEF Refuse, Turn, Goto, kernelVars, pgVars, recVars, regVars, runVars
  <2>2. CASE Admit(e)
    BY <2>2 DEF Admit, Turn, Goto, recVars, kernelVars, pgVars, runVars
  <2>3. CASE StartFails(e)
    BY <2>3 DEF StartFails, recordDrop, Goto, kernelVars, pgVars, runVars,
      writeRecord
  <2>4. CASE Start(e)
    BY <2>4 DEF Start, Goto, pgVars, recVars, regVars, runVars
  <2>5. CASE Track(e)
    <3>1. /\ UNCHANGED <<foreign, leader, reap, withdrawn, toSeal, target>>
          /\ groups' = [groups EXCEPT ![Name[e]] = e] /\ pc[e] = "started"
          /\ pc' = [pc EXCEPT ![e] = "tracked"]
      BY <2>5 DEF Track, Goto, kernelVars, runVars
    <3>2. ASSUME NEW f \in Exec, pc'[f] \in Unwithdrawn, ~withdrawn'[f]
          PROVE  groups'[Name[f]] = f \/ Swept(f)'
      <4>1. CASE f = e
        BY <3>1, <4>1
      <4>2. CASE f # e /\ Name[f] = Name[e]
        BY <3>1, <3>2, <4>2 DEF InExec
      <4>3. CASE Name[f] # Name[e]
        BY <3>1, <3>2, <4>3
      <4> QED  BY <4>1, <4>2, <4>3
    <3> QED  BY <3>1, <3>2
  <2> QED  BY <1>1, <2>1, <2>2, <2>3, <2>4, <2>5 DEF LaunchStep
<1>2. ASSUME NEW e \in Exec, BlindStep(e) PROVE OwnerInv'
  <2>1. CASE Unobserved(e)
    BY <2>1 DEF Unobserved, Goto, kernelVars, pgVars, recVars, regVars, runVars
  <2>2. CASE BlindKill(e)
    BY <2>2 DEF BlindKill, Kill, Goto, pgVars, recVars, regVars, runVars, signal
  <2>3. CASE BlindWithdraw(e)
    BY <2>3 DEF BlindWithdraw, Goto, kernelVars, recVars, regVars, runVars
  <2>4. CASE BlindReaped(e)
    BY <2>4 DEF BlindReaped, Goto, HandoffClosed, kernelVars, pgVars, recVars,
      regVars, runVars
  <2> QED  BY <1>2, <2>1, <2>2, <2>3, <2>4 DEF BlindStep
<1>3. ASSUME NEW e \in Exec, StopStep(e) PROVE OwnerInv'
  <2>1. CASE Up(e)
    BY <2>1 DEF Up, Goto, kernelVars, pgVars, recVars, regVars, runVars
  <2>2. CASE UpHandoff(e)
    BY <2>2 DEF UpHandoff, finishHandoff, HandoffClosed, Goto, kernelVars, recVars,
      regVars, runVars
  <2>3. CASE UpEnds(e)
    BY <2>3 DEF UpEnds, Goto, kernelVars, pgVars, recVars, regVars, runVars
  <2>4. CASE terminateGroupTerm(e)
    BY <2>4 DEF terminateGroupTerm, Goto, AfterKill, Terminate, pgVars, recVars,
      regVars, runVars, signal
  <2>5. CASE terminateGroupKill(e)
    BY <2>5 DEF terminateGroupKill, Kill, Goto, AfterKill, pgVars, recVars, regVars,
      runVars, signal
  <2>6. CASE Join(e)
    BY <2>6 DEF Join, Goto, kernelVars, pgVars, recVars, regVars, runVars
  <2>7. CASE JoinHandoff(e)
    BY <2>7 DEF JoinHandoff, finishHandoff, HandoffClosed, Goto, kernelVars,
      recVars, regVars, runVars
  <2>8. CASE Scan(e)
    BY <2>8 DEF Scan, Goto, kernelVars, pgVars, recVars, regVars, runVars
  <2>9. CASE ScanHandoff(e)
    BY <2>9 DEF ScanHandoff, finishHandoff, HandoffClosed, Goto, kernelVars,
      recVars, regVars, runVars
  <2>10. CASE Withdraw(e)
    BY <2>10 DEF Withdraw, Goto, kernelVars, recVars, regVars, runVars
  <2>11. CASE Reaped(e)
    BY <2>11 DEF Reaped, Goto, HandoffClosed, kernelVars, pgVars, recVars, regVars,
      runVars
  <2>12. CASE Verify(e)
    BY <2>12 DEF Verify, Goto, recVars, release, kernelVars, runVars, recordDrop,
      writeRecord
  <2> QED  BY <1>3, <2>1, <2>2, <2>3, <2>4, <2>5, <2>6, <2>7, <2>8, <2>9, <2>10,
    <2>11, <2>12 DEF StopStep
<1>4. ASSUME NEW e \in Exec, OutsideStep(e) PROVE OwnerInv'
  <2>1. CASE CancelExec(e)
    BY <2>1 DEF CancelExec, InExec, kernelVars, pgVars, recVars, regVars, runVars
  <2>2. CASE CheckHandoff(e)
    BY <2>2 DEF CheckHandoff, InExec, kernelVars, pgVars, recVars, regVars, runVars
  <2>3. CASE CancelHook(e)
    BY <2>3 DEF CancelHook, InExec, Terminate, execVars, pgVars, recVars, regVars,
      runVars, signal
  <2>4. CASE Reap(e)
    BY <2>4 DEF Reap, execVars, pgVars, recVars, regVars, runVars
  <2>5. CASE LeaderExits(e)
    BY <2>5 DEF LeaderExits, execVars, pgVars, recVars, regVars, runVars
  <2>6. CASE KidsChange(e)
    BY <2>6 DEF KidsChange, execVars, pgVars, recVars, regVars, runVars
  <2>7. CASE KidLeaves(e)
    BY <2>7 DEF KidLeaves, execVars, pgVars, recVars, regVars, runVars
  <2>8. CASE NumberReused(e)
    BY <2>8 DEF NumberReused, execVars, pgVars, recVars, regVars, runVars
  <2> QED  BY <1>4, <2>1, <2>2, <2>3, <2>4, <2>5, <2>6, <2>7, <2>8 DEF OutsideStep
<1>5. ASSUME NEW e \in Exec, SweepStep(e) PROVE OwnerInv'
  <2>1. CASE ForceKill(e)
    BY <2>1 DEF ForceKill, Kill, execVars, pgVars, recVars, regVars, signal
  <2>2. CASE SweepKill(e)
    BY <2>2 DEF SweepKill, Kill, execVars, pgVars, recVars, regVars, signal
  <2>3. CASE SweepSeal(e)
    BY <2>3 DEF SweepSeal, recordDrop, recVars, execVars, kernelVars, writeRecord
  <2> QED  BY <1>5, <2>1, <2>2, <2>3 DEF SweepStep
<1>6. CASE RunStep
  <2>1. CASE CancelRun
    BY <2>1 DEF CancelRun, execVars, kernelVars, pgVars, recVars, regVars
  <2>2. CASE AdmissionWatcher
    BY <2>2 DEF AdmissionWatcher, execVars, kernelVars, pgVars, recVars, runVars
  <2>3. CASE ForceClose
    BY <2>3 DEF ForceClose, execVars, kernelVars, pgVars, recVars
  <2>4. CASE ForceSnapshot
    BY <2>4 DEF ForceSnapshot, Registered, execVars, kernelVars, pgVars, recVars,
      regVars
  <2>5. CASE ForceCancel
    BY <2>5 DEF ForceCancel, execVars, kernelVars, pgVars, recVars, regVars
  <2>6. CASE SweepTake
    <3>1. /\ UNCHANGED <<pc, foreign, leader, reap, withdrawn, target>>
          /\ toSeal' = Registered /\ runPc = "up"
      BY <2>6 DEF SweepTake, execVars, kernelVars, pgVars
    <3>2. ASSUME NEW f \in Exec, pc[f] \in Unwithdrawn, ~withdrawn[f]
          PROVE  f \in Registered
      <4>1. groups[Name[f]] = f /\ Name[f] \in Names
        BY <3>1, <3>2
      <4> QED  BY <4>1 DEF Registered
    <3> QED  BY <3>1, <3>2
  <2>7. CASE SweepSkip
    BY <2>7 DEF SweepSkip, execVars, kernelVars, pgVars, recVars, regVars
  <2>8. CASE SweepDone
    BY <2>8 DEF SweepDone, execVars, kernelVars, pgVars, recVars
  <2>9. CASE WorkersDone
    BY <2>9 DEF WorkersDone, execVars, kernelVars, pgVars, recVars, regVars
  <2>10. CASE Report
    BY <2>10 DEF Report, execVars, kernelVars, pgVars, recVars
  <2> QED  BY <1>6, <2>1, <2>2, <2>3, <2>4, <2>5, <2>6, <2>7, <2>8, <2>9, <2>10 DEF
    RunStep
<1>7. CASE UNCHANGED vars
  BY <1>7 DEF vars, execVars, kernelVars, pgVars, recVars, regVars, runVars, InExec,
    Turn, Registered, HandoffClosed
<1> QED  BY <1>1, <1>2, <1>3, <1>4, <1>5, <1>6, <1>7 DEF Next, ExecStep, Finished

-----------------------------------------------------------------------------
(* The record *)

\* A step of exec that moves on, behind the launch, and touches neither handles
\* nor registry nor sweep.
MovesOn(e) ==
  /\ InExec(e) /\ pc[e] \notin {"recorded", "started"}
  /\ \E place \in {"blindKill", "blindWithdraw", "blindReap", "blindVerify", "up",
                  "stopTerm", "stopKill", "exitTerm", "exitKill", "join", "scan",
                  "withdraw", "reap", "verify", "handed"} :
       pc' = [pc EXCEPT ![e] = place]
  /\ UNCHANGED <<groups, closed, toSeal, target, sealing>>

\* Such a step keeps the handles open that HandleInv says are open.
LEMMA HandleMoves ==
  ASSUME TypeOK, HandleInv, NEW e \in Exec, MovesOn(e)
  PROVE  HandleInv'
<1> USE DEF TypeOK, ExecTypeOK, GroupTypeOK, RunTypeOK, InExec, Swept, HandoffSet
<1> DEFINE launching == {"idle", "recorded", "started"}
<1>1. \A f \in Exec : /\ InExec(f)' => InExec(f)
                      /\ pc'[f] \in launching <=> pc[f] \in launching
  BY DEF MovesOn
<1>2. UNCHANGED <<groups, closed, toSeal, target, sealing>>
  BY DEF MovesOn
<1>3. ASSUME NEW f \in Exec, sealing', InExec(f)' PROVE HandoffSet(f)
  BY <1>1, <1>2, <1>3 DEF HandleInv
<1>4. ASSUME NEW f \in Exec, closed'[f]
      PROVE  /\ \A n \in Names : groups'[n] # f
             /\ ~Swept(f)' /\ (InExec(f)' => sealing') /\ pc'[f] \notin launching
  BY <1>1, <1>2, <1>4 DEF HandleInv
<1>5. ASSUME NEW f \in Exec, pc'[f] \in launching
      PROVE  ~Swept(f)' /\ \A n \in Names : groups'[n] # f
  BY <1>1, <1>2, <1>5 DEF HandleInv
<1>6. \A f \in Exec : Swept(f)' => sealing'
  BY <1>2 DEF HandleInv
<1>7. target' \notin toSeal'
  BY <1>2 DEF HandleInv
<1> QED  BY <1>3, <1>4, <1>5, <1>6, <1>7 DEF HandleInv

\* No handle is closed while the registry, the sweep or exec may still ask it for
\* the state of its group (Close, Seal, SweepOwns).
LEMMA HandleNext ==
  ASSUME TypeOK, LaunchInv, HandleInv, [Next]_vars
  PROVE  HandleInv'
<1> USE ProcessGroupAssumption DEF TypeOK, ExecTypeOK, GroupTypeOK, RunTypeOK, LaunchInv, HandleInv, Launching, Swept, Names, InExec, HandoffSet
<1>1. ASSUME NEW e \in Exec, LaunchStep(e) PROVE HandleInv'
  <2>1. CASE Refuse(e)
    BY <2>1 DEF Refuse, Turn, Goto, kernelVars, pgVars, recVars, regVars, runVars
  <2>2. CASE Admit(e)
    BY <2>2 DEF Admit, Turn, Goto, recVars, kernelVars, pgVars, runVars
  <2>3. CASE StartFails(e)
    BY <2>3 DEF StartFails, recordDrop, Goto, kernelVars, pgVars, runVars,
      writeRecord
  <2>4. CASE Start(e)
    <3>1. /\ pc[e] = "recorded" /\ pc' = [pc EXCEPT ![e] = "started"]
          /\ UNCHANGED <<groups, closed, toSeal, target, sealing>>
      BY <2>4 DEF Start, Goto, pgVars, regVars, runVars
    <3> QED  BY <3>1
  <2>5. CASE Track(e)
    <3> DEFINE prev == groups[Name[e]]
    <3>1. /\ pc[e] = "started" /\ pc' = [pc EXCEPT ![e] = "tracked"]
          /\ groups' = [groups EXCEPT ![Name[e]] = e]
          /\ closed' = [f \in Exec |-> f = prev \/ closed[f]]
          /\ UNCHANGED <<toSeal, target, sealing>>
      BY <2>5 DEF Track, Goto, runVars
    <3>2. lock = e /\ ~sealing /\ Name[e] \in Names /\ InExec(e)
      BY <3>1
    <3>3. \A f \in Exec : ~(f \in toSeal \/ target = f)
      BY <3>2
    <3>4. ASSUME NEW f \in Exec, f # e, NEW n \in Names, groups'[n] = f
          PROVE  groups[n] = f /\ n # Name[e]
      BY <3>1, <3>2, <3>4
    <3>5. ASSUME NEW f \in Exec, closed'[f]
          PROVE  /\ f # e /\ \A n \in Names : groups'[n] # f
                 /\ pc[f] \notin {"idle", "recorded", "started"} /\ ~InExec(f)
      <4>1. CASE closed[f]
        BY <3>1, <3>2, <3>4, <4>1
      <4>2. CASE f = prev
        <5>1. f # e /\ Name[f] = Name[e]
          BY <3>1, <3>2, <4>2
        <5>2. ~InExec(f)
          BY <3>1, <3>2, <5>1
        <5>3. \A n \in Names : groups'[n] # f
          BY <3>4, <4>2, <5>1
        <5> QED  BY <3>2, <4>2, <5>1, <5>2, <5>3
      <4> QED  BY <3>1, <3>5, <4>1, <4>2
    <3>6. ASSUME NEW f \in Exec, pc'[f] \in {"idle", "recorded", "started"}
          PROVE  \A n \in Names : groups'[n] # f
      BY <3>1, <3>4, <3>6
    <3> HIDE DEF prev
    <3> QED  BY <3>1, <3>2, <3>3, <3>5, <3>6
  <2> QED  BY <1>1, <2>1, <2>2, <2>3, <2>4, <2>5 DEF LaunchStep
<1>2. ASSUME NEW e \in Exec, BlindStep(e) PROVE HandleInv'
  <2>1. Unobserved(e) => MovesOn(e)
    BY DEF Unobserved, MovesOn, Goto, pgVars, regVars, runVars
  <2>2. BlindKill(e) => MovesOn(e)
    BY DEF BlindKill, MovesOn, Goto, pgVars, regVars, runVars
  <2>3. BlindWithdraw(e) => MovesOn(e)
    BY DEF BlindWithdraw, MovesOn, Goto, regVars, runVars
  <2>4. BlindReaped(e) => MovesOn(e)
    BY DEF BlindReaped, MovesOn, Goto, pgVars, regVars, runVars
  <2> QED  BY <1>2, <2>1, <2>2, <2>3, <2>4, HandleMoves DEF BlindStep
<1>3. ASSUME NEW e \in Exec, StopStep(e) PROVE HandleInv'
  <2>1. Up(e) => MovesOn(e)
    BY DEF Up, MovesOn, Goto, pgVars, regVars, runVars
  <2>2. UpHandoff(e) => MovesOn(e)
    BY DEF UpHandoff, MovesOn, finishHandoff, Goto, regVars, runVars
  <2>3. UpEnds(e) => MovesOn(e)
    BY DEF UpEnds, MovesOn, Goto, pgVars, regVars, runVars
  <2>4. terminateGroupTerm(e) => MovesOn(e)
    BY DEF terminateGroupTerm, MovesOn, Goto, AfterKill, pgVars, regVars, runVars
  <2>5. terminateGroupKill(e) => MovesOn(e)
    BY DEF terminateGroupKill, MovesOn, Goto, AfterKill, pgVars, regVars, runVars
  <2>6. Join(e) => MovesOn(e)
    BY DEF Join, MovesOn, Goto, pgVars, regVars, runVars
  <2>7. JoinHandoff(e) => MovesOn(e)
    BY DEF JoinHandoff, MovesOn, finishHandoff, Goto, regVars, runVars
  <2>8. Scan(e) => MovesOn(e)
    BY DEF Scan, MovesOn, Goto, pgVars, regVars, runVars
  <2>9. ScanHandoff(e) => MovesOn(e)
    BY DEF ScanHandoff, MovesOn, finishHandoff, Goto, regVars, runVars
  <2>10. Withdraw(e) => MovesOn(e)
    BY DEF Withdraw, MovesOn, Goto, regVars, runVars
  <2>11. Reaped(e) => MovesOn(e)
    BY DEF Reaped, MovesOn, Goto, pgVars, regVars, runVars
  <2>12. CASE Verify(e)
    <3>1. pc[e] \in {"verify", "blindVerify"} /\ UNCHANGED <<toSeal, target, sealing>>
      BY <2>12 DEF Verify, runVars
    <3>2. CASE SweepOwns(e)
      <4>1. pc' = [pc EXCEPT ![e] = "handed"] /\ UNCHANGED <<groups, closed>>
        BY <2>12, <3>2 DEF Verify, Goto
      <4> QED  BY <3>1, <4>1
    <3>3. CASE ~SweepOwns(e)
      <4>1. ~sealing /\ pc' = [pc EXCEPT ![e] = "returned"]
        BY <2>12, <3>1, <3>3 DEF Verify, SweepOwns, Goto
      <4>2. CASE UNCHANGED <<groups, closed>>
        BY <3>1, <4>1, <4>2
      <4>3. CASE release(e)
        <5>1. /\ groups' = [groups EXCEPT ![Name[e]] = IF @ = e THEN NoExec ELSE @]
              /\ closed' = [closed EXCEPT ![e] = TRUE]
          BY <4>3 DEF release
        <5>2. \A n \in Names : groups'[n] # e
          BY <5>1
        <5>3. \A n \in Names, f \in Exec : groups'[n] = f => groups[n] = f
          BY <5>1
        <5> QED  BY <3>1, <4>1, <5>1, <5>2, <5>3
      <4> QED  BY <2>12, <3>3, <4>2, <4>3 DEF Verify
    <3> QED  BY <3>2, <3>3
  <2> QED  BY <1>3, <2>1, <2>2, <2>3, <2>4, <2>5, <2>6, <2>7, <2>8, <2>9, <2>10,
    <2>11, <2>12, HandleMoves DEF StopStep
<1>4. ASSUME NEW e \in Exec, OutsideStep(e) PROVE HandleInv'
  <2>1. CASE CancelExec(e)
    BY <2>1 DEF CancelExec, kernelVars, pgVars, recVars, regVars, runVars
  <2>2. CASE CheckHandoff(e)
    BY <2>2 DEF CheckHandoff, kernelVars, pgVars, recVars, regVars, runVars
  <2>3. CASE CancelHook(e)
    BY <2>3 DEF CancelHook, Terminate, execVars, pgVars, recVars, regVars, runVars,
      signal
  <2>4. CASE Reap(e)
    BY <2>4 DEF Reap, execVars, pgVars, recVars, regVars, runVars
  <2>5. CASE LeaderExits(e)
    BY <2>5 DEF LeaderExits, execVars, pgVars, recVars, regVars, runVars
  <2>6. CASE KidsChange(e)
    BY <2>6, SMTT(20) DEF KidsChange, execVars, pgVars, recVars, regVars, runVars
  <2>7. CASE KidLeaves(e)
    BY <2>7 DEF KidLeaves, execVars, pgVars, recVars, regVars, runVars
  <2>8. CASE NumberReused(e)
    BY <2>8, SMTT(20) DEF NumberReused, execVars, pgVars, recVars, regVars, runVars
  <2> QED  BY <1>4, <2>1, <2>2, <2>3, <2>4, <2>5, <2>6, <2>7, <2>8 DEF OutsideStep
<1>5. ASSUME NEW e \in Exec, SweepStep(e) PROVE HandleInv'
  <2>1. CASE ForceKill(e)
    <3>1. UNCHANGED <<pc, groups, closed, toSeal, target, sealing>>
      BY <2>1 DEF ForceKill, execVars, pgVars, regVars
    <3> QED  BY <3>1
  <2>2. CASE SweepKill(e)
    BY <2>2 DEF SweepKill, Kill, execVars, pgVars, recVars, regVars, signal
  <2>3. CASE SweepSeal(e)
    <3>1. /\ target = e /\ target' = NoExec /\ closed' = [closed EXCEPT ![e] = TRUE]
          /\ UNCHANGED <<pc, groups, toSeal, sealing>>
      BY <2>3 DEF SweepSeal, execVars
    <3>2. sealing /\ e \notin toSeal /\ \A n \in Names : groups[n] = NoExec
      BY <3>1
    <3>3. pc[e] \notin {"idle", "recorded", "started"}
      BY <3>1, <3>2
    <3> QED  BY <3>1, <3>2, <3>3
  <2> QED  BY <1>5, <2>1, <2>2, <2>3 DEF SweepStep
<1>6. CASE RunStep
  <2>1. CASE CancelRun
    BY <2>1 DEF CancelRun, execVars, kernelVars, pgVars, recVars, regVars
  <2>2. CASE AdmissionWatcher
    BY <2>2 DEF AdmissionWatcher, execVars, kernelVars, pgVars, recVars, runVars
  <2>3. CASE ForceClose
    BY <2>3 DEF ForceClose, execVars, kernelVars, pgVars, recVars
  <2>4. CASE ForceSnapshot
    BY <2>4 DEF ForceSnapshot, Registered, execVars, kernelVars, pgVars, recVars,
      regVars
  <2>5. CASE ForceCancel
    BY <2>5 DEF ForceCancel, execVars, kernelVars, pgVars, recVars, regVars
  <2>6. CASE SweepTake
    BY <2>6 DEF SweepTake, AllReturned, Registered, execVars, kernelVars, pgVars,
      recVars
  <2>7. CASE SweepSkip
    BY <2>7 DEF SweepSkip, AllReturned, execVars, kernelVars, pgVars, recVars,
      regVars
  <2>8. CASE SweepDone
    BY <2>8 DEF SweepDone, execVars, kernelVars, pgVars, recVars
  <2>9. CASE WorkersDone
    BY <2>9 DEF WorkersDone, AllReturned, execVars, kernelVars, pgVars, recVars,
      regVars
  <2>10. CASE Report
    BY <2>10 DEF Report, execVars, kernelVars, pgVars, recVars
  <2> QED  BY <1>6, <2>1, <2>2, <2>3, <2>4, <2>5, <2>6, <2>7, <2>8, <2>9, <2>10 DEF
    RunStep
<1>7. CASE UNCHANGED vars
  BY <1>7 DEF vars, execVars, kernelVars, pgVars, recVars, regVars, runVars
<1> QED  BY <1>1, <1>2, <1>3, <1>4, <1>5, <1>6, <1>7 DEF Next, ExecStep, Finished

\* A rewrite of the record that drops only S leaves every other entry where it
\* was, in memory and on disk, whether or not the write failed.
LEMMA DropCovers ==
  ASSUME TypeOK, NEW S, recordDrop(S), NEW f \in Exec \ S,
         mem[f] # "none", disk[f] # "none"
  PROVE  mem'[f] # "none" /\ disk'[f] # "none"
<1>1. mem'[f] # "none"
  BY DEF recordDrop
<1> QED  BY <1>1 DEF recordDrop, writeRecord

\* A group that runs, or is about to, keeps its entry in memory and on disk
\* through every rewrite of the record, failed writes included.
LEMMA CoverNext ==
  ASSUME TypeOK, LaunchInv, HandleInv, CoverInv, [Next]_vars
  PROVE  CoverInv'
<1> USE DEF TypeOK, ExecTypeOK, GroupTypeOK, RunTypeOK, CoverInv, Launching, Live
<1>1. ASSUME NEW e \in Exec, LaunchStep(e) PROVE CoverInv'
  <2>1. CASE Refuse(e)
    BY <2>1 DEF Refuse, Goto, kernelVars, pgVars, recVars, regVars, runVars
  <2>2. CASE Admit(e)
    <3>1. /\ UNCHANGED <<leader, kids>>
          /\ \E p \in Place : pc' = [pc EXCEPT ![e] = p]
      BY <2>2 DEF Admit, Goto, kernelVars, Place
    <3>2. CASE /\ mem' = IF recordOn THEN [mem EXCEPT ![e] = "pending"] ELSE mem
               /\ disk' = mem' /\ UNCHANGED recordOn
      <4>1. ASSUME NEW f \in Exec, recordOn, Live(f) \/ pc'[f] \in Launching
            PROVE  mem'[f] # "none"
        <5>1. CASE f = e
          BY <3>2, <4>1, <5>1
        <5>2. CASE f # e
          BY <3>1, <3>2, <4>1, <5>2
        <5> QED  BY <5>1, <5>2
      <4>2. disk' = mem' /\ UNCHANGED <<recordOn, leader, kids>>
        BY <3>1, <3>2
      <4> QED  BY <4>1, <4>2
    <3>3. CASE ~recordOn'
      BY <3>3
    <3>4. CASE Goto(e, "returned") /\ UNCHANGED recVars
      BY <3>1, <3>4 DEF Goto, recVars
    <3> QED  BY <2>2, <3>2, <3>3, <3>4 DEF Admit
  <2>3. CASE StartFails(e)
    <3>1. /\ pc[e] = "recorded" /\ pc' = [pc EXCEPT ![e] = "returned"]
          /\ recordDrop({e}) /\ UNCHANGED <<leader, kids, recordOn>>
      BY <2>3 DEF StartFails, Goto, kernelVars, recordDrop
    <3>2. ~Live(e)
      BY <3>1 DEF LaunchInv
    <3> QED  BY <3>1, <3>2, DropCovers
  <2>4. CASE Start(e)
    BY <2>4 DEF Start, Goto, pgVars, recVars, regVars, runVars
  <2>5. CASE Track(e)
    <3> DEFINE prev       == groups[Name[e]]
               dropped(S) == [f \in Exec |-> IF recordOn /\ f \in S THEN "none" ELSE mem[f]]
               started(m) == IF recordOn THEN [m EXCEPT ![e] = "tracked"] ELSE m
    <3>1. /\ pc[e] = "started" /\ pc' = [pc EXCEPT ![e] = "tracked"]
          /\ UNCHANGED <<leader, kids, recordOn>>
      BY <2>5 DEF Track, Goto, kernelVars
    <3>2. Name[e] \in Names /\ prev # e
      BY <3>1, ProcessGroupAssumption DEF HandleInv, Names
    <3>3. SUFFICES ASSUME recordOn, NEW f \in Exec, Live(f) \/ pc'[f] \in Launching
                   PROVE  mem'[f] # "none" /\ disk'[f] # "none"
      BY <3>1
    <3>4. mem[f] # "none" /\ disk[f] # "none"
      BY <3>1, <3>3
    <3>5. CASE prev # NoExec /\ StateEmpty(prev)
               /\ mem' = started(dropped({prev}))
               /\ (writeRecord \/ disk' = dropped({prev}))
      <4>1. prev \in Exec /\ ~closed[prev]
        BY <3>2, <3>5 DEF HandleInv
      <4>2. ~Live(prev) /\ pc[prev] \notin {"idle", "recorded", "started"}
        BY <3>2, <3>5, <4>1 DEF StateEmpty, HandleInv
      <4>3. f # prev
        BY <3>1, <3>2, <3>3, <4>1, <4>2
      <4>4. mem'[f] # "none" /\ dropped({prev})[f] # "none"
        BY <3>3, <3>4, <3>5, <4>3
      <4> QED  BY <3>4, <3>5, <4>4 DEF writeRecord
    <3>6. CASE mem' = started(mem) /\ writeRecord
      <4>1. mem'[f] # "none"
        BY <3>3, <3>4, <3>6
      <4> QED  BY <3>4, <3>6, <4>1 DEF writeRecord
    <3> QED  BY <2>5, <3>5, <3>6 DEF Track
  <2> QED  BY <1>1, <2>1, <2>2, <2>3, <2>4, <2>5 DEF LaunchStep
<1>2. ASSUME NEW e \in Exec, BlindStep(e) PROVE CoverInv'
  <2>1. CASE Unobserved(e)
    BY <2>1 DEF Unobserved, Goto, kernelVars, pgVars, recVars, regVars, runVars
  <2>2. CASE BlindKill(e)
    BY <2>2 DEF BlindKill, Kill, Goto, pgVars, recVars, regVars, runVars, signal
  <2>3. CASE BlindWithdraw(e)
    BY <2>3 DEF BlindWithdraw, Goto, kernelVars, recVars, regVars, runVars
  <2>4. CASE BlindReaped(e)
    BY <2>4 DEF BlindReaped, Goto, kernelVars, pgVars, recVars, regVars, runVars
  <2> QED  BY <1>2, <2>1, <2>2, <2>3, <2>4 DEF BlindStep
<1>3. ASSUME NEW e \in Exec, StopStep(e) PROVE CoverInv'
  <2>1. CASE Up(e)
    BY <2>1 DEF Up, Goto, kernelVars, pgVars, recVars, regVars, runVars
  <2>2. CASE UpHandoff(e)
    BY <2>2 DEF UpHandoff, finishHandoff, Goto, kernelVars, recVars, regVars,
      runVars
  <2>3. CASE UpEnds(e)
    BY <2>3 DEF UpEnds, Goto, kernelVars, pgVars, recVars, regVars, runVars
  <2>4. CASE terminateGroupTerm(e)
    BY <2>4 DEF terminateGroupTerm, Goto, AfterKill, Terminate, pgVars, recVars,
      regVars, runVars, signal
  <2>5. CASE terminateGroupKill(e)
    BY <2>5 DEF terminateGroupKill, Kill, Goto, AfterKill, pgVars, recVars, regVars,
      runVars, signal
  <2>6. CASE Join(e)
    BY <2>6 DEF Join, Goto, kernelVars, pgVars, recVars, regVars, runVars
  <2>7. CASE JoinHandoff(e)
    BY <2>7 DEF JoinHandoff, finishHandoff, Goto, kernelVars, recVars, regVars,
      runVars
  <2>8. CASE Scan(e)
    BY <2>8 DEF Scan, Goto, kernelVars, pgVars, recVars, regVars, runVars
  <2>9. CASE ScanHandoff(e)
    BY <2>9 DEF ScanHandoff, finishHandoff, Goto, kernelVars, recVars, regVars,
      runVars
  <2>10. CASE Withdraw(e)
    BY <2>10 DEF Withdraw, Goto, kernelVars, recVars, regVars, runVars
  <2>11. CASE Reaped(e)
    BY <2>11 DEF Reaped, Goto, kernelVars, pgVars, recVars, regVars, runVars
  <2>12. CASE Verify(e)
    <3>1. /\ pc[e] \in {"verify", "blindVerify"} /\ UNCHANGED <<leader, kids>>
          /\ \E p \in {"handed", "returned"} : pc' = [pc EXCEPT ![e] = p]
      BY <2>12 DEF Verify, kernelVars, Goto
    <3>2. CASE UNCHANGED recVars
      BY <3>1, <3>2 DEF recVars
    <3>3. CASE ~SweepOwns(e) /\ StateEmpty(e) /\ release(e)
      <4>1. ~closed[e]
        BY <3>1, <3>3 DEF HandleInv, SweepOwns, InExec
      <4>2. ~Live(e) /\ recordDrop({e}) /\ UNCHANGED recordOn
        BY <3>3, <4>1 DEF StateEmpty, release, recordDrop
      <4> QED  BY <3>1, <4>2, DropCovers
    <3> QED  BY <2>12, <3>2, <3>3 DEF Verify
  <2> QED  BY <1>3, <2>1, <2>2, <2>3, <2>4, <2>5, <2>6, <2>7, <2>8, <2>9, <2>10,
    <2>11, <2>12 DEF StopStep
<1>4. ASSUME NEW e \in Exec, OutsideStep(e) PROVE CoverInv'
  <2>1. CASE CancelExec(e)
    BY <2>1 DEF CancelExec, kernelVars, pgVars, recVars, regVars, runVars
  <2>2. CASE CheckHandoff(e)
    BY <2>2 DEF CheckHandoff, kernelVars, pgVars, recVars, regVars, runVars
  <2>3. CASE CancelHook(e)
    BY <2>3 DEF CancelHook, Terminate, execVars, pgVars, recVars, regVars, runVars,
      signal
  <2>4. CASE Reap(e)
    BY <2>4 DEF Reap, execVars, pgVars, recVars, regVars, runVars
  <2>5. CASE LeaderExits(e)
    BY <2>5 DEF LeaderExits, execVars, pgVars, recVars, regVars, runVars
  <2>6. CASE KidsChange(e)
    BY <2>6 DEF KidsChange, execVars, pgVars, recVars, regVars, runVars
  <2>7. CASE KidLeaves(e)
    BY <2>7 DEF KidLeaves, execVars, pgVars, recVars, regVars, runVars
  <2>8. CASE NumberReused(e)
    BY <2>8 DEF NumberReused, execVars, pgVars, recVars, regVars, runVars
  <2> QED  BY <1>4, <2>1, <2>2, <2>3, <2>4, <2>5, <2>6, <2>7, <2>8 DEF OutsideStep
<1>5. ASSUME NEW e \in Exec, SweepStep(e) PROVE CoverInv'
  <2>1. CASE ForceKill(e)
    BY <2>1 DEF ForceKill, Kill, execVars, pgVars, recVars, regVars, signal
  <2>2. CASE SweepKill(e)
    BY <2>2 DEF SweepKill, Kill, execVars, pgVars, recVars, regVars, signal
  <2>3. CASE SweepSeal(e)
    <3>1. target = e /\ UNCHANGED <<leader, kids, pc>>
      BY <2>3 DEF SweepSeal, kernelVars, execVars
    <3>2. CASE UNCHANGED recVars
      BY <3>1, <3>2 DEF recVars
    <3>3. CASE StateEmpty(e) /\ recordDrop({e})
      <4>1. ~closed[e] /\ pc[e] \notin Launching
        BY <3>1 DEF HandleInv, Swept
      <4>2. ~Live(e) /\ UNCHANGED recordOn
        BY <3>3, <4>1 DEF StateEmpty, recordDrop
      <4> QED  BY <3>1, <3>3, <4>1, <4>2, DropCovers
    <3> QED  BY <2>3, <3>2, <3>3 DEF SweepSeal
  <2> QED  BY <1>5, <2>1, <2>2, <2>3 DEF SweepStep
<1>6. CASE RunStep
  <2>1. CASE CancelRun
    BY <2>1 DEF CancelRun, execVars, kernelVars, pgVars, recVars, regVars
  <2>2. CASE AdmissionWatcher
    BY <2>2 DEF AdmissionWatcher, execVars, kernelVars, pgVars, recVars, runVars
  <2>3. CASE ForceClose
    BY <2>3 DEF ForceClose, execVars, kernelVars, pgVars, recVars
  <2>4. CASE ForceSnapshot
    BY <2>4 DEF ForceSnapshot, execVars, kernelVars, pgVars, recVars, regVars
  <2>5. CASE ForceCancel
    BY <2>5 DEF ForceCancel, execVars, kernelVars, pgVars, recVars, regVars
  <2>6. CASE SweepTake
    BY <2>6 DEF SweepTake, execVars, kernelVars, pgVars, recVars
  <2>7. CASE SweepSkip
    BY <2>7 DEF SweepSkip, execVars, kernelVars, pgVars, recVars, regVars
  <2>8. CASE SweepDone
    BY <2>8 DEF SweepDone, execVars, kernelVars, pgVars, recVars
  <2>9. CASE WorkersDone
    BY <2>9 DEF WorkersDone, execVars, kernelVars, pgVars, recVars, regVars
  <2>10. CASE Report
    BY <2>10 DEF Report, execVars, kernelVars, pgVars, recVars
  <2> QED  BY <1>6, <2>1, <2>2, <2>3, <2>4, <2>5, <2>6, <2>7, <2>8, <2>9, <2>10 DEF
    RunStep
<1>7. CASE UNCHANGED vars
  BY <1>7 DEF vars, execVars, kernelVars, pgVars, recVars, regVars, runVars
<1> QED  BY <1>1, <1>2, <1>3, <1>4, <1>5, <1>6, <1>7 DEF Next, ExecStep, Finished

-----------------------------------------------------------------------------
(* The theorems *)

\* A signal goes to the group its number was taken for: a number is reused only
\* after the reap, and the authority of a managed process is gone by then.
LEMMA SignalNext ==
  ASSUME TypeOK, OwnerInv, SignalsReachOwn, [Next]_vars
  PROVE  SignalsReachOwn'
<1> USE DEF TypeOK, GroupTypeOK, SignalsReachOwn
<1>1. ASSUME NEW e \in Exec, signal(e)  PROVE stray' \subseteq Check
  <2>1. CASE e \in Check
    BY <1>1, <2>1 DEF signal
  <2>2. CASE e \notin Check
    <3>1. ~(Authority(e) /\ foreign[e])
      BY <2>2 DEF OwnerInv, Authority
    <3> QED  BY <1>1, <3>1 DEF signal
  <2> QED  BY <2>1, <2>2
<1>2. ASSUME NEW e \in Exec, ExecStep(e)
      PROVE  UNCHANGED stray \/ signal(e)
  <2>1. CASE LaunchStep(e)
    BY <2>1 DEF LaunchStep, Refuse, Admit, StartFails, Start, Track
  <2>2. CASE BlindStep(e)
    BY <2>2 DEF BlindStep, Unobserved, BlindKill, BlindWithdraw, BlindReaped, Kill
  <2>3. CASE StopStep(e)
    BY <2>3 DEF StopStep, Up, UpHandoff, finishHandoff, UpEnds, terminateGroupTerm,
      terminateGroupKill, Terminate, Kill, Join, JoinHandoff, Scan, ScanHandoff,
      Withdraw, Reaped, Verify
  <2>4. CASE OutsideStep(e)
    BY <2>4 DEF OutsideStep, CancelExec, CheckHandoff, CancelHook, Terminate, Reap,
      LeaderExits, KidsChange, KidLeaves, NumberReused
  <2>5. CASE SweepStep(e)
    BY <2>5 DEF SweepStep, ForceKill, SweepKill, SweepSeal, Kill
  <2> QED  BY <1>2, <2>1, <2>2, <2>3, <2>4, <2>5 DEF ExecStep
<1>3. CASE RunStep
  BY <1>3 DEF RunStep, CancelRun, AdmissionWatcher, ForceClose, ForceSnapshot,
    ForceCancel, SweepTake, SweepSkip, SweepDone, WorkersDone, Report
<1>4. CASE UNCHANGED vars
  BY <1>4 DEF vars
<1> QED  BY <1>1, <1>2, <1>3, <1>4 DEF Next, Finished

\* The invariant holds before the first launch.
LEMMA IndInit == Init => IndInv
<1> SUFFICES ASSUME Init  PROVE IndInv
  OBVIOUS
<1>1. TypeOK
  BY TypeInit
<1>2. LaunchInv
  BY ProcessGroupAssumption DEF Init, LaunchInv, Launching, InExec, Names
<1>3. OwnerInv /\ SignalsReachOwn
  BY DEF Init, OwnerInv, SignalsReachOwn, Unwithdrawn
<1>4. HandleInv
  BY ProcessGroupAssumption DEF Init, HandleInv, Swept, InExec, Names
<1>5. CoverInv
  BY DEF Init, CoverInv, Live, Launching
<1> QED  BY <1>1, <1>2, <1>3, <1>4, <1>5 DEF IndInv

\* Every step preserves it.
LEMMA IndNext == IndInv /\ [Next]_vars => IndInv'
BY TypeNext, LaunchNext, OwnerNext, SignalNext, HandleNext, CoverNext DEF IndInv

\* The invariant behind the safety properties holds in every reachable state.
THEOREM Invariance == Spec => []IndInv
BY IndInit, IndNext, PTL DEF Spec

\* No signal of a managed process reaches an unrelated group, for any number of
\* executions and whatever fails (signal, Withdraw, startReap).
THEOREM SignalsAreOwn == Spec => []SignalsReachOwn
<1>1. IndInv => SignalsReachOwn
  BY DEF IndInv
<1> QED  BY <1>1, Invariance, PTL

\* Nothing is registered or launched after the sweep took the registry
\* (closeAdmission, sealGroups).
THEOREM SweepComesLast == Spec => []SweepIsLast
<1>1. IndInv => SweepIsLast
  <2> SUFFICES ASSUME IndInv, sealing
               PROVE  Registered = {} /\ \A e \in Exec : pc[e] \notin {"recorded", "started"}
    BY DEF SweepIsLast
  <2>1. lock = NoExec /\ \A n \in Names : groups[n] = NoExec
    BY DEF IndInv, LaunchInv
  <2>2. Registered = {}
    BY <2>1 DEF Registered
  <2>3. \A e \in Exec : pc[e] \notin {"recorded", "started"}
    BY <2>1, ProcessGroupAssumption DEF IndInv, LaunchInv, Launching
  <2> QED  BY <2>2, <2>3
<1> QED  BY <1>1, Invariance, PTL

\* A crash at any point finds every group that may be running in the record on
\* disk (recordPending, recordTracked, recordDropGroup).
THEOREM RecordIsComplete == Spec => []RecordCoversLive
<1>1. IndInv => RecordCoversLive
  BY DEF IndInv, CoverInv, RecordCoversLive
<1> QED  BY <1>1, Invariance, PTL

-----------------------------------------------------------------------------
(* Where a group ends up *)

BlindPlace == {"blindKill", "blindWithdraw", "blindReap", "blindVerify"}

\* Places behind the escalation to SIGKILL.
AfterEscalation == {"join", "scan", "withdraw", "reap", "verify", "returned"}

\* A process has one execution in exec, and the others are over or to come.
TurnInv ==
  \A e, f \in Exec : e # f /\ Name[e] = Name[f] /\ InExec(e) => pc[f] \in {"idle", "returned"}

\* A group that is still alive behind the escalation, or whose authority is
\* gone or about to go, was sent SIGKILL or could not be observed.
KillInv ==
  \A e \in Exec :
    /\ pc[e] \in {"idle", "recorded", "started"} => ~withdrawn[e]
    /\ pc[e] \in BlindPlace => blind[e]
    /\ Live(e) /\ (withdrawn[e] \/ closed[e] \/ pc[e] \in AfterEscalation \/ target = e)
         => killed[e] \/ blind[e]

\* A descendant that left the group is noticed by the scan, then reported.
EscapeInv ==
  \A e \in Exec :
    /\ pc[e] \in {"idle", "recorded", "started", "tracked"} \cup BlindPlace => ~out[e]
    /\ pc[e] \in {"withdraw", "reap", "verify"} /\ out[e] => escaped[e]
    /\ pc[e] = "returned" /\ out[e] => e \in problems

\* A live group is registered, before the sweep, or named in the verdict.
AccountInv ==
  /\ runPc \in {"report", "over"} => AllReturned
  /\ \A e \in Exec :
       /\ pc[e] = "handed" /\ e \notin Check => sealing
       /\ pc[e] = "returned" /\ Live(e) => e \in problems
       /\ Live(e) /\ pc[e] \notin {"idle", "recorded", "started"} =>
            groups[Name[e]] = e \/ Swept(e) \/ e \in problems

OutcomeInv == TurnInv /\ KillInv /\ EscapeInv /\ AccountInv
\* exec runs once at a time for a process, and not after a handoff of it.
LEMMA TurnNext ==
  ASSUME TypeOK, LaunchInv, TurnInv, [Next]_vars
  PROVE  TurnInv'
<1> USE DEF TypeOK, ExecTypeOK, TurnInv, InExec
<1>1. ASSUME NEW e \in Exec, LaunchStep(e) PROVE TurnInv'
  <2>1. CASE Refuse(e)
    BY <2>1 DEF Refuse, Turn, Goto, kernelVars, pgVars, recVars, regVars,
      runVars
  <2>2. CASE Admit(e)
    BY <2>2 DEF Admit, Turn, Goto, kernelVars, pgVars, recVars, runVars
  <2>3. CASE StartFails(e)
    BY <2>3 DEF StartFails, Goto, kernelVars, pgVars, runVars
  <2>4. CASE Start(e)
    BY <2>4 DEF Start, Goto, pgVars, recVars, regVars, runVars
  <2>5. CASE Track(e)
    BY <2>5 DEF Track, Goto, kernelVars, runVars
  <2> QED  BY <1>1, <2>1, <2>2, <2>3, <2>4, <2>5 DEF LaunchStep
<1>2. ASSUME NEW e \in Exec, BlindStep(e) PROVE TurnInv'
  <2>1. CASE Unobserved(e)
    BY <2>1 DEF Unobserved, Goto, kernelVars, pgVars, recVars, regVars, runVars
  <2>2. CASE BlindKill(e)
    BY <2>2 DEF BlindKill, Kill, Goto, pgVars, recVars, regVars, runVars
  <2>3. CASE BlindWithdraw(e)
    BY <2>3 DEF BlindWithdraw, Goto, kernelVars, recVars, regVars, runVars
  <2>4. CASE BlindReaped(e)
    BY <2>4 DEF BlindReaped, Goto, kernelVars, pgVars, recVars, regVars, runVars
  <2> QED  BY <1>2, <2>1, <2>2, <2>3, <2>4 DEF BlindStep
<1>3. ASSUME NEW e \in Exec, StopStep(e) PROVE TurnInv'
  <2>1. CASE Up(e)
    BY <2>1 DEF Up, Goto, kernelVars, pgVars, recVars, regVars, runVars
  <2>2. CASE UpHandoff(e)
    BY <2>2 DEF UpHandoff, finishHandoff, Goto, kernelVars, recVars, regVars,
      runVars
  <2>3. CASE UpEnds(e)
    BY <2>3 DEF UpEnds, Goto, kernelVars, pgVars, recVars, regVars, runVars
  <2>4. CASE terminateGroupTerm(e)
    BY <2>4 DEF terminateGroupTerm, Goto, AfterKill, Terminate, pgVars, recVars,
      regVars, runVars
  <2>5. CASE terminateGroupKill(e)
    BY <2>5 DEF terminateGroupKill, Kill, Goto, AfterKill, pgVars, recVars,
      regVars, runVars
  <2>6. CASE Join(e)
    BY <2>6 DEF Join, Goto, kernelVars, pgVars, recVars, regVars, runVars
  <2>7. CASE JoinHandoff(e)
    BY <2>7 DEF JoinHandoff, finishHandoff, Goto, kernelVars, recVars, regVars,
      runVars
  <2>8. CASE Scan(e)
    BY <2>8 DEF Scan, Goto, kernelVars, pgVars, recVars, regVars, runVars
  <2>9. CASE ScanHandoff(e)
    BY <2>9 DEF ScanHandoff, finishHandoff, Goto, kernelVars, recVars, regVars,
      runVars
  <2>10. CASE Withdraw(e)
    BY <2>10 DEF Withdraw, Goto, kernelVars, recVars, regVars, runVars
  <2>11. CASE Reaped(e)
    BY <2>11 DEF Reaped, Goto, kernelVars, pgVars, recVars, regVars, runVars
  <2>12. CASE Verify(e)
    BY <2>12 DEF Verify, Goto, kernelVars, recVars, runVars
  <2> QED  BY <1>3, <2>1, <2>2, <2>3, <2>4, <2>5, <2>6, <2>7, <2>8, <2>9, <2>10,
    <2>11, <2>12 DEF StopStep
<1>4. ASSUME NEW e \in Exec, OutsideStep(e) PROVE TurnInv'
  <2>1. CASE CancelExec(e)
    BY <2>1 DEF CancelExec, kernelVars, pgVars, recVars, regVars, runVars
  <2>2. CASE CheckHandoff(e)
    BY <2>2 DEF CheckHandoff, kernelVars, pgVars, recVars, regVars, runVars
  <2>3. CASE CancelHook(e)
    BY <2>3 DEF CancelHook, Terminate, execVars, pgVars, recVars, regVars,
      runVars
  <2>4. CASE Reap(e)
    BY <2>4 DEF Reap, execVars, pgVars, recVars, regVars, runVars
  <2>5. CASE LeaderExits(e)
    BY <2>5 DEF LeaderExits, execVars, pgVars, recVars, regVars, runVars
  <2>6. CASE KidsChange(e)
    BY <2>6 DEF KidsChange, execVars, pgVars, recVars, regVars, runVars
  <2>7. CASE KidLeaves(e)
    BY <2>7 DEF KidLeaves, execVars, pgVars, recVars, regVars, runVars
  <2>8. CASE NumberReused(e)
    BY <2>8 DEF NumberReused, execVars, pgVars, recVars, regVars, runVars
  <2> QED  BY <1>4, <2>1, <2>2, <2>3, <2>4, <2>5, <2>6, <2>7, <2>8 DEF
    OutsideStep
<1>5. ASSUME NEW e \in Exec, SweepStep(e) PROVE TurnInv'
  <2>1. CASE ForceKill(e)
    BY <2>1 DEF ForceKill, Kill, execVars, pgVars, recVars, regVars
  <2>2. CASE SweepKill(e)
    BY <2>2 DEF SweepKill, Kill, execVars, pgVars, recVars, regVars
  <2>3. CASE SweepSeal(e)
    BY <2>3 DEF SweepSeal, execVars, kernelVars, recVars
  <2> QED  BY <1>5, <2>1, <2>2, <2>3 DEF SweepStep
<1>6. CASE RunStep
  <2>1. CASE CancelRun
    BY <2>1 DEF CancelRun, execVars, kernelVars, pgVars, recVars, regVars
  <2>2. CASE AdmissionWatcher
    BY <2>2 DEF AdmissionWatcher, execVars, kernelVars, pgVars, recVars, runVars
  <2>3. CASE ForceClose
    BY <2>3 DEF ForceClose, execVars, kernelVars, pgVars, recVars
  <2>4. CASE ForceSnapshot
    BY <2>4 DEF ForceSnapshot, execVars, kernelVars, pgVars, recVars, regVars
  <2>5. CASE ForceCancel
    BY <2>5 DEF ForceCancel, execVars, kernelVars, pgVars, recVars, regVars
  <2>6. CASE SweepTake
    BY <2>6 DEF SweepTake, execVars, kernelVars, pgVars, recVars
  <2>7. CASE SweepSkip
    BY <2>7 DEF SweepSkip, execVars, kernelVars, pgVars, recVars, regVars
  <2>8. CASE SweepDone
    BY <2>8 DEF SweepDone, execVars, kernelVars, pgVars, recVars
  <2>9. CASE WorkersDone
    BY <2>9 DEF WorkersDone, execVars, kernelVars, pgVars, recVars, regVars
  <2>10. CASE Report
    BY <2>10 DEF Report, execVars, kernelVars, pgVars, recVars
  <2> QED  BY <1>6, <2>1, <2>2, <2>3, <2>4, <2>5, <2>6, <2>7, <2>8, <2>9, <2>10
    DEF RunStep
<1>7. CASE UNCHANGED vars
  BY <1>7 DEF vars, execVars, kernelVars, pgVars, recVars, regVars, runVars
<1> QED  BY <1>1, <1>2, <1>3, <1>4, <1>5, <1>6, <1>7 DEF Next, ExecStep, Finished

\* Authority is withdrawn behind the escalation, or by the sweep behind its own
\* SIGKILL; a group that was seen empty stays empty.
LEMMA KillNext ==
  ASSUME IndInv, TurnInv, KillInv, [Next]_vars
  PROVE  KillInv'
<1> USE ProcessGroupAssumption DEF IndInv, TypeOK, ExecTypeOK, GroupTypeOK,
  KillInv, BlindPlace, AfterEscalation, Live, StateEmpty, StateNotEmpty,
  Authority, LaunchInv, Launching, HandleInv, Swept
<1>1. ASSUME NEW e \in Exec, LaunchStep(e) PROVE KillInv'
  <2>1. CASE Refuse(e)
    BY <2>1 DEF Refuse, Turn, Goto, kernelVars, pgVars, recVars, regVars,
      runVars
  <2>2. CASE Admit(e)
    BY <2>2 DEF Admit, Turn, Goto, kernelVars, pgVars, recVars, runVars
  <2>3. CASE StartFails(e)
    BY <2>3 DEF StartFails, recordDrop, Goto, kernelVars, pgVars, runVars
  <2>4. CASE Start(e)
    BY <2>4 DEF Start, Goto, pgVars, recVars, regVars, runVars
  <2>5. CASE Track(e)
    <3> DEFINE prev == groups[Name[e]]
    <3>1. /\ pc[e] = "started" /\ pc' = [pc EXCEPT ![e] = "tracked"]
          /\ closed' = [f \in Exec |-> f = prev \/ closed[f]]
          /\ UNCHANGED <<leader, kids, killed, blind, withdrawn, target>>
      BY <2>5 DEF Track, Goto, kernelVars, runVars
    <3>2. prev \in Exec => prev # e /\ Name[prev] = Name[e] /\ pc[prev] = "returned"
      <4>1. Name[e] \in Names
        BY DEF Names
      <4>2. prev \in Exec => prev # e /\ pc[prev] # "idle"
        BY ONLY <3>1, <4>1, HandleInv, e \in Exec DEF HandleInv
      <4>3. prev \in Exec => Name[prev] = Name[e]
        BY ONLY <4>1, LaunchInv DEF LaunchInv
      <4>4. InExec(e)
        BY ONLY <3>1 DEF InExec
      <4> QED  BY ONLY <4>2, <4>3, <4>4, TurnInv, e \in Exec DEF TurnInv
    <3> QED  BY <3>1, <3>2
  <2> QED  BY <1>1, <2>1, <2>2, <2>3, <2>4, <2>5 DEF LaunchStep
<1>2. ASSUME NEW e \in Exec, BlindStep(e) PROVE KillInv'
  <2>1. CASE Unobserved(e)
    BY <2>1 DEF Unobserved, Goto, kernelVars, pgVars, recVars, regVars, runVars
  <2>2. CASE BlindKill(e)
    BY <2>2 DEF BlindKill, Kill, Goto, signal, pgVars, recVars, regVars, runVars
  <2>3. CASE BlindWithdraw(e)
    BY <2>3 DEF BlindWithdraw, Goto, kernelVars, recVars, regVars, runVars
  <2>4. CASE BlindReaped(e)
    BY <2>4 DEF BlindReaped, Goto, kernelVars, pgVars, recVars, regVars, runVars
  <2> QED  BY <1>2, <2>1, <2>2, <2>3, <2>4 DEF BlindStep
<1>3. ASSUME NEW e \in Exec, StopStep(e) PROVE KillInv'
  <2>1. CASE Up(e)
    BY <2>1 DEF Up, Goto, kernelVars, pgVars, recVars, regVars, runVars
  <2>2. CASE UpHandoff(e)
    BY <2>2 DEF UpHandoff, finishHandoff, Goto, kernelVars, recVars, regVars,
      runVars
  <2>3. CASE UpEnds(e)
    BY <2>3 DEF UpEnds, Goto, kernelVars, pgVars, recVars, regVars, runVars
  <2>4. CASE terminateGroupTerm(e)
    BY <2>4 DEF terminateGroupTerm, Goto, AfterKill, Terminate, signal, pgVars,
      recVars, regVars, runVars
  <2>5. CASE terminateGroupKill(e)
    BY <2>5 DEF terminateGroupKill, Kill, Goto, AfterKill, signal, pgVars,
      recVars, regVars, runVars
  <2>6. CASE Join(e)
    BY <2>6 DEF Join, Goto, kernelVars, pgVars, recVars, regVars, runVars
  <2>7. CASE JoinHandoff(e)
    BY <2>7 DEF JoinHandoff, finishHandoff, Goto, kernelVars, recVars, regVars,
      runVars
  <2>8. CASE Scan(e)
    BY <2>8 DEF Scan, Goto, kernelVars, pgVars, recVars, regVars, runVars
  <2>9. CASE ScanHandoff(e)
    BY <2>9 DEF ScanHandoff, finishHandoff, Goto, kernelVars, recVars, regVars,
      runVars
  <2>10. CASE Withdraw(e)
    BY <2>10 DEF Withdraw, Goto, kernelVars, recVars, regVars, runVars
  <2>11. CASE Reaped(e)
    BY <2>11 DEF Reaped, Goto, kernelVars, pgVars, recVars, regVars, runVars
  <2>12. CASE Verify(e)
    BY <2>12 DEF Verify, Goto, release, recordDrop, kernelVars, recVars, runVars
  <2> QED  BY <1>3, <2>1, <2>2, <2>3, <2>4, <2>5, <2>6, <2>7, <2>8, <2>9, <2>10,
    <2>11, <2>12 DEF StopStep
<1>4. ASSUME NEW e \in Exec, OutsideStep(e) PROVE KillInv'
  <2>1. CASE CancelExec(e)
    BY <2>1 DEF CancelExec, kernelVars, pgVars, recVars, regVars, runVars
  <2>2. CASE CheckHandoff(e)
    BY <2>2 DEF CheckHandoff, kernelVars, pgVars, recVars, regVars, runVars
  <2>3. CASE CancelHook(e)
    BY <2>3 DEF CancelHook, Terminate, signal, execVars, pgVars, recVars,
      regVars, runVars
  <2>4. CASE Reap(e)
    BY <2>4 DEF Reap, execVars, pgVars, recVars, regVars, runVars
  <2>5. CASE LeaderExits(e)
    BY <2>5 DEF LeaderExits, execVars, pgVars, recVars, regVars, runVars
  <2>6. CASE KidsChange(e)
    BY <2>6 DEF KidsChange, execVars, pgVars, recVars, regVars, runVars
  <2>7. CASE KidLeaves(e)
    BY <2>7 DEF KidLeaves, execVars, pgVars, recVars, regVars, runVars
  <2>8. CASE NumberReused(e)
    BY <2>8 DEF NumberReused, execVars, pgVars, recVars, regVars, runVars
  <2> QED  BY <1>4, <2>1, <2>2, <2>3, <2>4, <2>5, <2>6, <2>7, <2>8 DEF
    OutsideStep
<1>5. ASSUME NEW e \in Exec, SweepStep(e) PROVE KillInv'
  <2>1. CASE ForceKill(e)
    BY <2>1 DEF ForceKill, Kill, signal, execVars, pgVars, recVars, regVars
  <2>2. CASE SweepKill(e)
    BY <2>2 DEF SweepKill, Kill, signal, execVars, pgVars, recVars, regVars
  <2>3. CASE SweepSeal(e)
    BY <2>3 DEF SweepSeal, recordDrop, execVars, kernelVars, recVars
  <2> QED  BY <1>5, <2>1, <2>2, <2>3 DEF SweepStep
<1>6. CASE RunStep
  <2>1. CASE CancelRun
    BY <2>1 DEF CancelRun, execVars, kernelVars, pgVars, recVars, regVars
  <2>2. CASE AdmissionWatcher
    BY <2>2 DEF AdmissionWatcher, execVars, kernelVars, pgVars, recVars, runVars
  <2>3. CASE ForceClose
    BY <2>3 DEF ForceClose, execVars, kernelVars, pgVars, recVars
  <2>4. CASE ForceSnapshot
    BY <2>4 DEF ForceSnapshot, execVars, kernelVars, pgVars, recVars, regVars
  <2>5. CASE ForceCancel
    BY <2>5 DEF ForceCancel, execVars, kernelVars, pgVars, recVars, regVars
  <2>6. CASE SweepTake
    BY <2>6 DEF SweepTake, execVars, kernelVars, pgVars, recVars
  <2>7. CASE SweepSkip
    BY <2>7 DEF SweepSkip, execVars, kernelVars, pgVars, recVars, regVars
  <2>8. CASE SweepDone
    BY <2>8 DEF SweepDone, execVars, kernelVars, pgVars, recVars
  <2>9. CASE WorkersDone
    BY <2>9 DEF WorkersDone, execVars, kernelVars, pgVars, recVars, regVars
  <2>10. CASE Report
    BY <2>10 DEF Report, execVars, kernelVars, pgVars, recVars
  <2> QED  BY <1>6, <2>1, <2>2, <2>3, <2>4, <2>5, <2>6, <2>7, <2>8, <2>9, <2>10
    DEF RunStep
<1>7. CASE UNCHANGED vars
  BY <1>7 DEF vars, execVars, kernelVars, pgVars, recVars, regVars, runVars
<1> QED  BY <1>1, <1>2, <1>3, <1>4, <1>5, <1>6, <1>7 DEF Next, ExecStep, Finished

\* Only the output still open at the scan tells of a descendant elsewhere.
LEMMA EscapeNext ==
  ASSUME IndInv, EscapeInv, [Next]_vars
  PROVE  EscapeInv'
<1> USE DEF IndInv, TypeOK, ExecTypeOK, GroupTypeOK, EscapeInv, BlindPlace,
  LaunchInv
<1>1. ASSUME NEW e \in Exec, LaunchStep(e) PROVE EscapeInv'
  <2>1. CASE Refuse(e)
    BY <2>1 DEF Refuse, Turn, Goto, kernelVars, pgVars, recVars, regVars,
      runVars
  <2>2. CASE Admit(e)
    BY <2>2 DEF Admit, Turn, Goto, kernelVars, pgVars, recVars, runVars
  <2>3. CASE StartFails(e)
    BY <2>3 DEF StartFails, recordDrop, Goto, kernelVars, pgVars, runVars
  <2>4. CASE Start(e)
    BY <2>4 DEF Start, Goto, pgVars, recVars, regVars, runVars
  <2>5. CASE Track(e)
    BY <2>5 DEF Track, Goto, kernelVars, runVars
  <2> QED  BY <1>1, <2>1, <2>2, <2>3, <2>4, <2>5 DEF LaunchStep
<1>2. ASSUME NEW e \in Exec, BlindStep(e) PROVE EscapeInv'
  <2>1. CASE Unobserved(e)
    BY <2>1 DEF Unobserved, Goto, kernelVars, pgVars, recVars, regVars, runVars
  <2>2. CASE BlindKill(e)
    BY <2>2 DEF BlindKill, Kill, Goto, signal, pgVars, recVars, regVars, runVars
  <2>3. CASE BlindWithdraw(e)
    BY <2>3 DEF BlindWithdraw, Goto, kernelVars, recVars, regVars, runVars
  <2>4. CASE BlindReaped(e)
    BY <2>4 DEF BlindReaped, Goto, kernelVars, pgVars, recVars, regVars, runVars
  <2> QED  BY <1>2, <2>1, <2>2, <2>3, <2>4 DEF BlindStep
<1>3. ASSUME NEW e \in Exec, StopStep(e) PROVE EscapeInv'
  <2>1. CASE Up(e)
    BY <2>1 DEF Up, Goto, kernelVars, pgVars, recVars, regVars, runVars
  <2>2. CASE UpHandoff(e)
    BY <2>2 DEF UpHandoff, finishHandoff, Goto, kernelVars, recVars, regVars,
      runVars
  <2>3. CASE UpEnds(e)
    BY <2>3 DEF UpEnds, Goto, kernelVars, pgVars, recVars, regVars, runVars
  <2>4. CASE terminateGroupTerm(e)
    BY <2>4 DEF terminateGroupTerm, Goto, AfterKill, Terminate, signal, pgVars,
      recVars, regVars, runVars
  <2>5. CASE terminateGroupKill(e)
    BY <2>5 DEF terminateGroupKill, Kill, Goto, AfterKill, signal, pgVars,
      recVars, regVars, runVars
  <2>6. CASE Join(e)
    BY <2>6 DEF Join, Goto, kernelVars, pgVars, recVars, regVars, runVars
  <2>7. CASE JoinHandoff(e)
    BY <2>7 DEF JoinHandoff, finishHandoff, Goto, kernelVars, recVars, regVars,
      runVars
  <2>8. CASE Scan(e)
    BY <2>8 DEF Scan, Goto, kernelVars, pgVars, recVars, regVars, runVars
  <2>9. CASE ScanHandoff(e)
    BY <2>9 DEF ScanHandoff, finishHandoff, Goto, kernelVars, recVars, regVars,
      runVars
  <2>10. CASE Withdraw(e)
    BY <2>10 DEF Withdraw, Goto, kernelVars, recVars, regVars, runVars
  <2>11. CASE Reaped(e)
    BY <2>11 DEF Reaped, Goto, kernelVars, pgVars, recVars, regVars, runVars
  <2>12. CASE Verify(e)
    BY <2>12 DEF Verify, Goto, release, recordDrop, kernelVars, recVars, runVars
  <2> QED  BY <1>3, <2>1, <2>2, <2>3, <2>4, <2>5, <2>6, <2>7, <2>8, <2>9, <2>10,
    <2>11, <2>12 DEF StopStep
<1>4. ASSUME NEW e \in Exec, OutsideStep(e) PROVE EscapeInv'
  <2>1. CASE CancelExec(e)
    BY <2>1 DEF CancelExec, kernelVars, pgVars, recVars, regVars, runVars
  <2>2. CASE CheckHandoff(e)
    BY <2>2 DEF CheckHandoff, kernelVars, pgVars, recVars, regVars, runVars
  <2>3. CASE CancelHook(e)
    BY <2>3 DEF CancelHook, Terminate, signal, execVars, pgVars, recVars,
      regVars, runVars
  <2>4. CASE Reap(e)
    BY <2>4 DEF Reap, execVars, pgVars, recVars, regVars, runVars
  <2>5. CASE LeaderExits(e)
    BY <2>5 DEF LeaderExits, execVars, pgVars, recVars, regVars, runVars
  <2>6. CASE KidsChange(e)
    BY <2>6 DEF KidsChange, execVars, pgVars, recVars, regVars, runVars
  <2>7. CASE KidLeaves(e)
    BY <2>7 DEF KidLeaves, execVars, pgVars, recVars, regVars, runVars
  <2>8. CASE NumberReused(e)
    BY <2>8 DEF NumberReused, execVars, pgVars, recVars, regVars, runVars
  <2> QED  BY <1>4, <2>1, <2>2, <2>3, <2>4, <2>5, <2>6, <2>7, <2>8 DEF
    OutsideStep
<1>5. ASSUME NEW e \in Exec, SweepStep(e) PROVE EscapeInv'
  <2>1. CASE ForceKill(e)
    BY <2>1 DEF ForceKill, Kill, signal, execVars, pgVars, recVars, regVars
  <2>2. CASE SweepKill(e)
    BY <2>2 DEF SweepKill, Kill, signal, execVars, pgVars, recVars, regVars
  <2>3. CASE SweepSeal(e)
    BY <2>3 DEF SweepSeal, recordDrop, execVars, kernelVars, recVars
  <2> QED  BY <1>5, <2>1, <2>2, <2>3 DEF SweepStep
<1>6. CASE RunStep
  <2>1. CASE CancelRun
    BY <2>1 DEF CancelRun, execVars, kernelVars, pgVars, recVars, regVars
  <2>2. CASE AdmissionWatcher
    BY <2>2 DEF AdmissionWatcher, execVars, kernelVars, pgVars, recVars, runVars
  <2>3. CASE ForceClose
    BY <2>3 DEF ForceClose, execVars, kernelVars, pgVars, recVars
  <2>4. CASE ForceSnapshot
    BY <2>4 DEF ForceSnapshot, execVars, kernelVars, pgVars, recVars, regVars
  <2>5. CASE ForceCancel
    BY <2>5 DEF ForceCancel, execVars, kernelVars, pgVars, recVars, regVars
  <2>6. CASE SweepTake
    BY <2>6 DEF SweepTake, execVars, kernelVars, pgVars, recVars
  <2>7. CASE SweepSkip
    BY <2>7 DEF SweepSkip, execVars, kernelVars, pgVars, recVars, regVars
  <2>8. CASE SweepDone
    BY <2>8 DEF SweepDone, execVars, kernelVars, pgVars, recVars
  <2>9. CASE WorkersDone
    BY <2>9 DEF WorkersDone, execVars, kernelVars, pgVars, recVars, regVars
  <2>10. CASE Report
    BY <2>10 DEF Report, execVars, kernelVars, pgVars, recVars
  <2> QED  BY <1>6, <2>1, <2>2, <2>3, <2>4, <2>5, <2>6, <2>7, <2>8, <2>9, <2>10
    DEF RunStep
<1>7. CASE UNCHANGED vars
  BY <1>7 DEF vars, execVars, kernelVars, pgVars, recVars, regVars, runVars
<1> QED  BY <1>1, <1>2, <1>3, <1>4, <1>5, <1>6, <1>7 DEF Next, ExecStep, Finished

\* A group leaves the registry for the sweep, for the verdict, or because it is
\* empty.
LEMMA AccountNext ==
  ASSUME IndInv, TurnInv, AccountInv, [Next]_vars
  PROVE  AccountInv'
<1> USE ProcessGroupAssumption DEF IndInv, TypeOK, ExecTypeOK, GroupTypeOK,
  RunTypeOK, AccountInv, AllReturned, InExec, Live, Swept
<1>1. ASSUME NEW e \in Exec, LaunchStep(e) PROVE AccountInv'
  <2>1. CASE Refuse(e)
    BY <2>1 DEF Refuse, Goto, kernelVars, regVars, runVars, LaunchInv
  <2>2. CASE Admit(e)
    BY <2>2 DEF Admit, Goto, kernelVars, runVars, LaunchInv
  <2>3. CASE StartFails(e)
    BY <2>3 DEF StartFails, Goto, kernelVars, runVars, LaunchInv
  <2>4. CASE Start(e)
    BY <2>4 DEF Start, Goto, pgVars, recVars, regVars, runVars
  <2>5. CASE Track(e)
    <3> DEFINE prev == groups[Name[e]]
    <3>1. /\ pc[e] = "started" /\ pc' = [pc EXCEPT ![e] = "tracked"]
          /\ groups' = [groups EXCEPT ![Name[e]] = e]
          /\ problems \subseteq problems'
          /\ UNCHANGED <<leader, kids, runPc, sealing, toSeal, target>>
      BY <2>5 DEF Track, Goto, kernelVars, runVars
    <3>2. ~(prev \in Exec /\ Live(prev)) \/ prev \in problems'
      <4>1. prev \in Exec => ~closed[prev]
        BY DEF HandleInv, Names
      <4> QED  BY <2>5, <4>1 DEF Track, StateEmpty, StateNotEmpty
    <3>3. Name[e] \in Names /\ \A f \in Exec : groups'[Name[f]] = IF Name[f] = Name[e] THEN e ELSE groups[Name[f]]
      BY <3>1 DEF Names
    <3>4. runPc \notin {"report", "over"}
      BY <3>1
    <3>5. ASSUME NEW f \in Exec, f # e, Live(f), pc[f] \notin {"idle", "recorded", "started"}
          PROVE  groups'[Name[f]] = f \/ Swept(f)' \/ f \in problems'
      <4>1. groups[Name[f]] = f \/ Swept(f) \/ f \in problems
        BY <3>5
      <4> QED  BY <3>1, <3>2, <3>3, <3>5, <4>1
    <3> QED  BY <3>1, <3>3, <3>4, <3>5
  <2> QED  BY <1>1, <2>1, <2>2, <2>3, <2>4, <2>5 DEF LaunchStep
<1>2. ASSUME NEW e \in Exec, BlindStep(e) PROVE AccountInv'
  <2>1. CASE Unobserved(e)
    BY <2>1 DEF Unobserved, Goto, kernelVars, pgVars, recVars, regVars, runVars
  <2>2. CASE BlindKill(e)
    BY <2>2 DEF BlindKill, Kill, Goto, signal, pgVars, recVars, regVars, runVars
  <2>3. CASE BlindWithdraw(e)
    BY <2>3 DEF BlindWithdraw, Goto, kernelVars, recVars, regVars, runVars
  <2>4. CASE BlindReaped(e)
    BY <2>4 DEF BlindReaped, HandoffClosed, Goto, kernelVars, regVars, runVars, LaunchInv
  <2> QED  BY <1>2, <2>1, <2>2, <2>3, <2>4 DEF BlindStep
<1>3. ASSUME NEW e \in Exec, StopStep(e) PROVE AccountInv'
  <2>1. CASE Up(e)
    BY <2>1 DEF Up, Goto, kernelVars, pgVars, recVars, regVars, runVars
  <2>2. CASE UpHandoff(e)
    BY <2>2 DEF UpHandoff, finishHandoff, HandoffClosed, Goto, kernelVars, regVars, runVars, LaunchInv
  <2>3. CASE UpEnds(e)
    BY <2>3 DEF UpEnds, Goto, kernelVars, pgVars, recVars, regVars, runVars
  <2>4. CASE terminateGroupTerm(e)
    BY <2>4 DEF terminateGroupTerm, Goto, AfterKill, Terminate, signal, pgVars,
      recVars, regVars, runVars
  <2>5. CASE terminateGroupKill(e)
    BY <2>5 DEF terminateGroupKill, Kill, Goto, AfterKill, signal, pgVars,
      recVars, regVars, runVars
  <2>6. CASE Join(e)
    BY <2>6 DEF Join, Goto, kernelVars, pgVars, recVars, regVars, runVars
  <2>7. CASE JoinHandoff(e)
    BY <2>7 DEF JoinHandoff, finishHandoff, HandoffClosed, Goto, kernelVars, regVars, runVars, LaunchInv
  <2>8. CASE Scan(e)
    BY <2>8 DEF Scan, Goto, kernelVars, pgVars, recVars, regVars, runVars
  <2>9. CASE ScanHandoff(e)
    BY <2>9 DEF ScanHandoff, finishHandoff, HandoffClosed, Goto, kernelVars, regVars, runVars, LaunchInv
  <2>10. CASE Withdraw(e)
    BY <2>10 DEF Withdraw, Goto, kernelVars, recVars, regVars, runVars
  <2>11. CASE Reaped(e)
    BY <2>11 DEF Reaped, HandoffClosed, Goto, kernelVars, regVars, runVars, LaunchInv
  <2>12. CASE Verify(e)
    <3>1. /\ pc[e] \in {"verify", "blindVerify"} /\ problems \subseteq problems'
          /\ UNCHANGED <<leader, kids, runPc, sealing, toSeal, target>>
      BY <2>12 DEF Verify, kernelVars, runVars
    <3>2. runPc \notin {"report", "over"}
      BY <3>1
    <3>3. CASE SweepOwns(e) /\ pc' = [pc EXCEPT ![e] = "handed"] /\ UNCHANGED groups
      BY <3>1, <3>2, <3>3 DEF SweepOwns
    <3>4. CASE e \in problems' /\ pc' = [pc EXCEPT ![e] = "returned"] /\ UNCHANGED groups
      BY <3>1, <3>2, <3>4
    <3>5. CASE ~SweepOwns(e) /\ StateEmpty(e) /\ release(e) /\ pc' = [pc EXCEPT ![e] = "returned"]
      <4>1. ~Live(e)
        BY <3>1, <3>5 DEF SweepOwns, StateEmpty, HandleInv
      <4>2. \A f \in Exec \ {e} : groups[Name[f]] = f => groups'[Name[f]] = f
        BY <3>5 DEF release, Names
      <4> QED  BY <3>1, <3>2, <3>5, <4>1, <4>2
    <3> QED  BY <2>12, <3>3, <3>4, <3>5 DEF Verify, Goto
  <2> QED  BY <1>3, <2>1, <2>2, <2>3, <2>4, <2>5, <2>6, <2>7, <2>8, <2>9, <2>10,
    <2>11, <2>12 DEF StopStep
<1>4. ASSUME NEW e \in Exec, OutsideStep(e) PROVE AccountInv'
  <2>1. CASE CancelExec(e)
    BY <2>1 DEF CancelExec, kernelVars, pgVars, recVars, regVars, runVars
  <2>2. CASE CheckHandoff(e)
    BY <2>2 DEF CheckHandoff, kernelVars, pgVars, recVars, regVars, runVars
  <2>3. CASE CancelHook(e)
    BY <2>3 DEF CancelHook, Terminate, signal, execVars, pgVars, recVars,
      regVars, runVars
  <2>4. CASE Reap(e)
    BY <2>4 DEF Reap, execVars, pgVars, recVars, regVars, runVars
  <2>5. CASE LeaderExits(e)
    BY <2>5 DEF LeaderExits, execVars, pgVars, recVars, regVars, runVars
  <2>6. CASE KidsChange(e)
    BY <2>6 DEF KidsChange, execVars, pgVars, recVars, regVars, runVars
  <2>7. CASE KidLeaves(e)
    BY <2>7 DEF KidLeaves, execVars, pgVars, recVars, regVars, runVars
  <2>8. CASE NumberReused(e)
    BY <2>8 DEF NumberReused, execVars, pgVars, recVars, regVars, runVars
  <2> QED  BY <1>4, <2>1, <2>2, <2>3, <2>4, <2>5, <2>6, <2>7, <2>8 DEF
    OutsideStep
<1>5. ASSUME NEW e \in Exec, SweepStep(e) PROVE AccountInv'
  <2>1. CASE ForceKill(e)
    BY <2>1 DEF ForceKill, Kill, signal, execVars, pgVars, recVars, regVars
  <2>2. CASE SweepKill(e)
    BY <2>2 DEF SweepKill, Kill, signal, execVars, pgVars, recVars, regVars
  <2>3. CASE SweepSeal(e)
    <3>1. /\ target = e /\ target' = NoExec /\ problems \subseteq problems'
          /\ UNCHANGED <<pc, leader, kids, groups, runPc, sealing, toSeal>>
      BY <2>3 DEF SweepSeal, execVars, kernelVars
    <3>2. ~Live(e) \/ e \in problems'
      <4>1. ~closed[e]
        BY <3>1 DEF HandleInv
      <4> QED  BY <2>3, <4>1 DEF SweepSeal, StateEmpty
    <3> QED  BY <3>1, <3>2
  <2> QED  BY <1>5, <2>1, <2>2, <2>3 DEF SweepStep
<1>6. CASE RunStep
  <2>1. CASE CancelRun
    BY <2>1 DEF CancelRun, execVars, kernelVars, pgVars, recVars, regVars
  <2>2. CASE AdmissionWatcher
    BY <2>2 DEF AdmissionWatcher, execVars, kernelVars, pgVars, recVars, runVars
  <2>3. CASE ForceClose
    BY <2>3 DEF ForceClose, execVars, kernelVars, pgVars, recVars
  <2>4. CASE ForceSnapshot
    BY <2>4 DEF ForceSnapshot, execVars, kernelVars, pgVars, recVars, regVars
  <2>5. CASE ForceCancel
    BY <2>5 DEF ForceCancel, execVars, kernelVars, pgVars, recVars, regVars
  <2>6. CASE SweepTake
    <3>1. /\ toSeal' = Registered /\ sealing' = TRUE /\ runPc' = "sweep"
          /\ UNCHANGED <<pc, leader, kids, problems, target>>
      BY <2>6 DEF SweepTake, execVars, kernelVars
    <3>2. \A f \in Exec : groups[Name[f]] = f => f \in toSeal'
      BY <3>1 DEF Registered, Names
    <3>3. \A f \in Exec : ~Swept(f)
      BY <2>6 DEF SweepTake, LaunchInv
    <3> QED  BY <3>1, <3>2, <3>3
  <2>7. CASE SweepSkip
    BY <2>7 DEF SweepSkip, execVars, kernelVars, pgVars, recVars, regVars
  <2>8. CASE SweepDone
    BY <2>8 DEF SweepDone, execVars, kernelVars, pgVars, recVars
  <2>9. CASE WorkersDone
    BY <2>9 DEF WorkersDone, execVars, kernelVars, pgVars, recVars, regVars
  <2>10. CASE Report
    BY <2>10 DEF Report, execVars, kernelVars, pgVars, recVars
  <2> QED  BY <1>6, <2>1, <2>2, <2>3, <2>4, <2>5, <2>6, <2>7, <2>8, <2>9, <2>10
    DEF RunStep
<1>7. CASE UNCHANGED vars
  BY <1>7 DEF vars, execVars, kernelVars, pgVars, recVars, regVars, runVars
<1> QED  BY <1>1, <1>2, <1>3, <1>4, <1>5, <1>6, <1>7 DEF Next, ExecStep, Finished


\* Nothing is alive, unregistered or reported before the first launch.
LEMMA OutcomeInit == Init => OutcomeInv
  BY ProcessGroupAssumption DEF Init, OutcomeInv, TurnInv, InExec, KillInv, BlindPlace, AfterEscalation,
     Live, EscapeInv, AccountInv, AllReturned, Swept

\* Every reachable state keeps track of where each group ended up.
THEOREM OutcomeInvariance == Spec => []OutcomeInv
<1>1. IndInv /\ OutcomeInv /\ [Next]_vars => OutcomeInv'
  BY TurnNext, KillNext, EscapeNext, AccountNext DEF OutcomeInv, IndInv
<1> QED  BY <1>1, OutcomeInit, Invariance, PTL DEF Spec

\* Authority over a live group is never given up before SIGKILL was sent to it,
\* unless its leader could not be observed (terminateGroup,
\* terminateSealedGroup), for any executions, handoffs and failures.
THEOREM SealedAfterKill == Spec => []KilledBeforeSealed
<1>1. OutcomeInv => KilledBeforeSealed
  BY DEF OutcomeInv, KillInv, KilledBeforeSealed
<1> QED  BY <1>1, OutcomeInvariance, PTL

\* An execution that verified its own group has named the descendant that left
\* it with the command's output (exec's settle window).
THEOREM EscapesAreReported == Spec => []EscapesReported
<1>1. OutcomeInv => EscapesReported
  BY DEF OutcomeInv, EscapeInv, EscapesReported
<1> QED  BY <1>1, OutcomeInvariance, PTL

\* A verdict without problems is proof that no group of a managed process, and
\* after a sweep of no check either, has a live member (ShutdownResult).
THEOREM VerdictIsProof == Spec => []VerdictSound
<1>1. IndInv /\ OutcomeInv => VerdictSound
  <2> SUFFICES ASSUME IndInv, OutcomeInv, runPc = "over", NEW e \in Exec, Live(e),
                      e \in Check => sealing
               PROVE  e \in problems
    BY DEF VerdictSound
  <2>1. pc[e] \in {"idle", "returned", "handed"} /\ ~Swept(e)
    BY ProcessGroupAssumption DEF OutcomeInv, AccountInv, AllReturned, InExec, IndInv, LaunchInv, Swept
  <2>2. pc[e] # "idle"
    BY DEF IndInv, LaunchInv, Live
  <2>3. CASE sealing
    BY <2>1, <2>2, <2>3, ProcessGroupAssumption DEF IndInv, LaunchInv, Names, OutcomeInv, AccountInv
  <2>4. CASE ~sealing
    BY <2>1, <2>2, <2>4 DEF OutcomeInv, AccountInv
  <2> QED  BY <2>3, <2>4
<1> QED  BY <1>1, OutcomeInvariance, Invariance, PTL
=============================================================================
