--------------------------- MODULE RecoveryProofs ---------------------------
(***************************************************************************)
(* Proofs about Recovery: crash recovery signals only members of the       *)
(* recorded group, a stop that reports success left none of them alive,    *)
(* and a live member is never forgotten silently, for any members,         *)
(* strangers and reuse of process numbers.                                 *)
(***************************************************************************)
EXTENDS Recovery, TLAPS

-----------------------------------------------------------------------------
(* The inductive invariant *)

\* The steps of a recovery where the emptiness rule may run.
Probing == {"classify", "unproven", "await", "conclude"}
Step    == Probing \cup {"idle", "identify", "open", "reidentify", "ping", "list",
                         "pin", "pinned", "term", "repin", "kill", "done"}

WorldTypeOK ==
  /\ life \in [Process -> {"unborn", "live", "zombie", "gone"}] /\ left \in SUBSET Own
  /\ daemon \in {"up", "crashed", "exited"}
  /\ verdict \in {None, "verified", "unverified"}
  /\ pidFile \in {"old", "none", "new"} /\ lease \in {None, "daemon", "stop", "up"}
  /\ rec \in {"groups", "pending", "nostart", "legacy", "unreadable"}
  /\ host \in {"same", "unknown", "foreign", "rebooted"}

RecoveryTypeOK ==
  /\ at \in Step /\ chk \in {"off", "probe", "scan1", "scan2", "holders"}
  /\ mode \in {None, "assess", "graceful", "force"} /\ pass \in {"first", "second"}
  /\ lfd \in Process \cup {NoProc} /\ opened \in Process \cup {NoProc}
  /\ pins \in SUBSET Process /\ fresh \in SUBSET Process /\ todo \in SUBSET Nat
  /\ emptied \in BOOLEAN /\ sent \in SUBSET {"SIGTERM", "SIGKILL"}
  /\ outcome \in {None, "empty", "terminated", "live", "unknown"}

CommandTypeOK ==
  /\ stop \in {"idle", "ask", "wait", "signal", "dead", "leased", "recover", "done"}
  /\ answer \in {None, "verified", "unverified", "unavailable"}
  /\ result \in {None, "ok", "unverified", "failed", "cleared"}
  /\ up \in {"idle", "resolve", "assess", "write", "running", "refused"}
  /\ force \in BOOLEAN /\ warned \in BOOLEAN

TypeOK == WorldTypeOK /\ RecoveryTypeOK /\ CommandTypeOK

\* A stranger that was given the number of the leader.
Heir(i) == i \in Stranger /\ PidOf[i] = PidOf[lead] /\ life[i] # "unborn"

\* What the kernel guarantees of numbers: one unreaped process per number, and
\* the group's number is not given away while anybody uses it.
KernelInv ==
  /\ life[lead] # "unborn"
  /\ \A i, j \in Unreaped : PidOf[i] = PidOf[j] => i = j
  /\ \A i \in Process : Heir(i) =>
       life[lead] = "gone" /\ \A j \in Own \ left : life[j] \in {"unborn", "gone"}

\* What a command, or the recovery, takes as proof that the group is gone.
CommandProof == \/ host = "rebooted"
                \/ verdict = "verified" \/ answer = "verified" \/ result = "ok"
RecoveryProof == \/ outcome \in {"empty", "terminated"}
                 \/ emptied \/ chk \in {"scan2", "holders"}
                 \/ at = "conclude" /\ chk = "off"
ProofInv ==
  /\ chk # "off" => at \in Probing
  /\ CommandProof \/ RecoveryProof => OwnLive = {}

\* From the ping on, the leader's pidfd is the leader's; what was pinned are
\* members, what is about to be pinned are members or heirs.
PinInv ==
  /\ at \in {"ping", "list", "pin", "pinned", "term", "await", "repin", "kill"} => lfd = lead
  /\ at = "reidentify" => /\ lfd \in Process /\ PidOf[lfd] = PidOf[lead]
                          /\ life[lfd] # "unborn"
  /\ at = "pinned" => opened \in Process
  /\ \A i \in fresh : i \in Own \/ Heir(i)
  /\ pins \subseteq Own /\ signalled \subseteq Own

\* Who holds the lease, and what that says of the PID file.
SessionInv ==
  /\ daemon = "up" <=> lease = "daemon"
  /\ daemon = "up" => pidFile = "old"
  /\ stop \in {"leased", "recover"} => lease = "stop"
  /\ up \in {"resolve", "assess", "write", "running"} => lease = "up"
  /\ up \in {"write", "running"} => pidFile # "old"
  /\ NobodyForgotten

IndInv == TypeOK /\ KernelInv /\ ProofInv /\ PinInv /\ SessionInv

-----------------------------------------------------------------------------
(* The kernel *)

\* Holder finds the unreaped process of a number when there is one.
LEMMA HolderFacts ==
  ASSUME NEW pid
  PROVE  /\ Holder(pid) = NoProc <=> \A i \in Unreaped : PidOf[i] # pid
         /\ Holder(pid) # NoProc => Holder(pid) \in Unreaped /\ PidOf[Holder(pid)] = pid
<1>1. CASE \E i \in Unreaped : PidOf[i] = pid
  <2>1. Holder(pid) = CHOOSE i \in Unreaped : PidOf[i] = pid
    BY <1>1 DEF Holder
  <2>2. Holder(pid) \in Unreaped /\ PidOf[Holder(pid)] = pid
    BY <1>1, <2>1
  <2> QED  BY <1>1, <2>2, RecoveryAssumption DEF Unreaped, Process
<1>2. CASE ~ \E i \in Unreaped : PidOf[i] = pid
  BY <1>2 DEF Holder
<1> QED  BY <1>1, <1>2

\* A step of the kernel, of a recovery, or of the daemon and the commands.
KernelStep == \E i \in Process :
                Fork(i) \/ Exit(i) \/ Reap(i) \/ LeaveGroup(i) \/ Arrive(i)
CommandStep ==
  \/ Crash \/ (\E v \in {"verified", "unverified"} : DaemonEnds(v))
  \/ (\E f \in BOOLEAN : StopStarts(f)) \/ StopAsks \/ StopSignals
  \/ StopCleansUp \/ StopLeases \/ StopReads \/ StopConcludes
  \/ UpAcquires \/ UpResolves \/ UpConcludes \/ UpWrites

\* What the three kinds of step leave alone.
LEMMA Frames ==
  ASSUME [Next]_vars
  PROVE  \/ KernelStep /\ UNCHANGED kernelRest
         \/ RecoveryStep /\ UNCHANGED recRest
         \/ CommandStep /\ UNCHANGED <<life, left, host, rec, signalled>>
         \/ UNCHANGED vars
<1>1. KernelStep => UNCHANGED kernelRest
  BY DEF KernelStep, Fork, Exit, Reap, LeaveGroup, Arrive
<1>2. RecoveryStep => UNCHANGED recRest
  BY DEF RecoveryStep, Probe, Scan, CountHolders, Identify, OpenLeader,
    Reidentify, PingLeader, ListMembers, PinOpen, PinCheck, PinsDone, SendTerm,
    Repin, SendKill, ConcludeEmptied
<1>3. CommandStep => UNCHANGED <<life, left, host, rec, signalled>>
  BY DEF CommandStep, Crash, DaemonEnds, StopStarts, StopAsks, StopSignals,
    StopCleansUp, StopLeases, StopReads, StopConcludes, UpAcquires, UpResolves,
    UpConcludes, UpWrites, StopUnrecorded, daemonRest, stopRest, upRest,
    kernelVars, histVars
<1> QED  BY <1>1, <1>2, <1>3 DEF Next, KernelStep, CommandStep

\* Nobody is born into a group without a live member, so a group that is gone
\* stays gone.
LEMMA GoneStays ==
  ASSUME TypeOK, OwnLive = {}, [Next]_vars
  PROVE  OwnLive' = {}
<1> USE RecoveryAssumption DEF TypeOK, WorldTypeOK, OwnLive, Live, Group, Unreaped, Process
<1>1. CASE KernelStep
  <2>1. ASSUME NEW i \in Process, Fork(i) PROVE OwnLive' = {}
    BY <2>1 DEF Fork, kernelRest, daemonVars, recVars, cmdVars, histVars
  <2>2. ASSUME NEW i \in Process, Exit(i) PROVE OwnLive' = {}
    BY <2>2 DEF Exit, kernelRest, daemonVars, recVars, cmdVars, histVars
  <2>3. ASSUME NEW i \in Process, Reap(i) PROVE OwnLive' = {}
    BY <2>3 DEF Reap, kernelRest, daemonVars, recVars, cmdVars, histVars
  <2>4. ASSUME NEW i \in Process, LeaveGroup(i) PROVE OwnLive' = {}
    BY <2>4 DEF LeaveGroup, kernelRest, daemonVars, recVars, cmdVars, histVars
  <2>5. ASSUME NEW i \in Process, Arrive(i) PROVE OwnLive' = {}
    BY <2>5 DEF Arrive, kernelRest, daemonVars, recVars, cmdVars, histVars
  <2> QED  BY <1>1, <2>1, <2>2, <2>3, <2>4, <2>5 DEF KernelStep
<1>2. CASE UNCHANGED <<life, left>>
  BY <1>2
<1> QED  BY Frames, <1>1, <1>2 DEF recRest, kernelVars, vars

\* Numbers stay unique, and no stranger gets the leader's number while a
\* member of the group is unreaped.
LEMMA KernelNext ==
  ASSUME TypeOK, KernelInv, [Next]_vars
  PROVE  KernelInv'
<1> USE RecoveryAssumption DEF TypeOK, WorldTypeOK, KernelInv, Heir, Unreaped, Process
<1>1. CASE KernelStep
  <2>1. ASSUME NEW i \in Process, Fork(i) PROVE KernelInv'
    <3>1. Holder(PidOf[i]) = NoProc /\ life' = [life EXCEPT ![i] = "live"] /\ left' = left
      BY <2>1 DEF Fork
    <3>2. \A j \in Unreaped : PidOf[j] # PidOf[i]
      BY <3>1, HolderFacts
    <3>3. \A j \in Process : ~Heir(j)
      BY <2>1 DEF Fork, OwnLive, Live, Group
    <3> QED  BY <2>1, <3>1, <3>2, <3>3 DEF Fork
  <2>2. ASSUME NEW i \in Process, Exit(i) PROVE KernelInv'
    BY <2>2 DEF Exit, kernelRest, daemonVars, recVars, cmdVars, histVars
  <2>3. ASSUME NEW i \in Process, Reap(i) PROVE KernelInv'
    BY <2>3 DEF Reap, kernelRest, daemonVars, recVars, cmdVars, histVars
  <2>4. ASSUME NEW i \in Process, LeaveGroup(i) PROVE KernelInv'
    BY <2>4 DEF LeaveGroup, kernelRest, daemonVars, recVars, cmdVars, histVars
  <2>5. ASSUME NEW i \in Process, Arrive(i) PROVE KernelInv'
    <3>1. /\ Holder(PidOf[i]) = NoProc /\ life' = [life EXCEPT ![i] = "live"] /\ left' = left
          /\ PidOf[i] = PidOf[lead] => Group = {}
      BY <2>5 DEF Arrive
    <3>2. \A j \in Unreaped : PidOf[j] # PidOf[i]
      BY <3>1, HolderFacts
    <3>3. PidOf[i] = PidOf[lead] => \A j \in Own \ left : life[j] \in {"unborn", "gone"}
      BY <3>1 DEF Group
    <3>4. PidOf[i] = PidOf[lead] => life[lead] = "gone"
      BY <3>2
    <3> QED  BY <2>5, <3>1, <3>2, <3>3, <3>4 DEF Arrive
  <2> QED  BY <1>1, <2>1, <2>2, <2>3, <2>4, <2>5 DEF KernelStep
<1>2. CASE UNCHANGED <<life, left>>
  BY <1>2
<1> QED  BY Frames, <1>1, <1>2 DEF recRest, kernelVars, vars

-----------------------------------------------------------------------------
(* Types *)

\* The types of the kernel's and the daemon's variables.
LEMMA WorldTypeNext ==
  ASSUME TypeOK, [Next]_vars
  PROVE  WorldTypeOK'
<1> USE RecoveryAssumption DEF TypeOK, WorldTypeOK, None, Process
<1>1. CASE KernelStep
  <2>1. ASSUME NEW i \in Process, Fork(i) PROVE WorldTypeOK'
    BY <2>1 DEF Fork, kernelRest, daemonVars, recVars, cmdVars, histVars
  <2>2. ASSUME NEW i \in Process, Exit(i) PROVE WorldTypeOK'
    BY <2>2 DEF Exit, kernelRest, daemonVars, recVars, cmdVars, histVars
  <2>3. ASSUME NEW i \in Process, Reap(i) PROVE WorldTypeOK'
    BY <2>3 DEF Reap, kernelRest, daemonVars, recVars, cmdVars, histVars
  <2>4. ASSUME NEW i \in Process, LeaveGroup(i) PROVE WorldTypeOK'
    BY <2>4 DEF LeaveGroup, kernelRest, daemonVars, recVars, cmdVars, histVars
  <2>5. ASSUME NEW i \in Process, Arrive(i) PROVE WorldTypeOK'
    BY <2>5 DEF Arrive, kernelRest, daemonVars, recVars, cmdVars, histVars
  <2> QED  BY <1>1, <2>1, <2>2, <2>3, <2>4, <2>5 DEF KernelStep
<1>2. CASE RecoveryStep /\ UNCHANGED recRest
  BY <1>2 DEF recRest, kernelVars, daemonVars
<1>3. CASE CommandStep
  <2>1. CASE Crash
    BY <2>1 DEF Crash, daemonRest, kernelVars, recVars, cmdVars
  <2>2. ASSUME NEW v \in {"verified", "unverified"}, DaemonEnds(v) PROVE WorldTypeOK'
    BY <2>2 DEF DaemonEnds, daemonRest, kernelVars, recVars, cmdVars
  <2>3. ASSUME NEW f \in BOOLEAN, StopStarts(f) PROVE WorldTypeOK'
    BY <2>3 DEF StopStarts, Done, stopRest, kernelVars, recVars
  <2>4. CASE StopAsks
    BY <2>4 DEF StopAsks, stopRest, kernelVars, recVars
  <2>5. CASE StopSignals
    BY <2>5 DEF StopSignals, stopRest, kernelVars, recVars
  <2>6. CASE StopCleansUp
    BY <2>6 DEF StopCleansUp, Cleanup, Done, stopRest, kernelVars, recVars
  <2>7. CASE StopLeases
    BY <2>7 DEF StopLeases, Done, stopRest, kernelVars, recVars
  <2>8. CASE StopReads
    BY <2>8 DEF StopReads, Done, StopUnrecorded, StartRecovery, stopRest,
      Cleanup, Release, Goto, kernelVars, recVars
  <2>9. CASE StopConcludes
    BY <2>9 DEF StopConcludes, Done, Cleanup, kept, stopRest, kernelVars
  <2>10. CASE UpAcquires
    BY <2>10 DEF UpAcquires, upRest, kernelVars, recVars, histVars
  <2>11. CASE UpResolves
    BY <2>11 DEF UpResolves, Cleanup, StartRecovery, upRest, Release, Goto,
      kernelVars, recVars, histVars
  <2>12. CASE UpConcludes
    BY <2>12 DEF UpConcludes, Cleanup, kept, upRest, kernelVars, histVars
  <2>13. CASE UpWrites
    BY <2>13 DEF UpWrites, WritePID, upRest, kernelVars, recVars, histVars
  <2> QED  BY <1>3, <2>1, <2>2, <2>3, <2>4, <2>5, <2>6, <2>7, <2>8, <2>9, <2>10,
    <2>11, <2>12, <2>13 DEF CommandStep
<1>4. CASE UNCHANGED vars
  BY <1>4 DEF vars, kernelVars, daemonVars, recVars, cmdVars, histVars
<1> QED  BY Frames, <1>1, <1>2, <1>3, <1>4


\* How a recovery ends: the outcome is set and every pidfd closed.
LEMMA ConcludedStep ==
  ASSUME TypeOK, NEW o \in {"empty", "terminated", "live", "unknown"}, Concluded(o)
  PROVE  /\ RecoveryTypeOK'
         /\ at' = "done" /\ chk' = "off" /\ outcome' = o /\ emptied' = emptied
         /\ pins' = {} /\ fresh' = {}
  BY DEF TypeOK, RecoveryTypeOK, Concluded, Release, Step

\* An unproven leader: the group is over, or it is probed again.
LEMMA UnprovenStep ==
  ASSUME TypeOK, NEW r, FinishUnproven(r)
  PROVE  /\ RecoveryTypeOK' /\ emptied' = emptied /\ pins' = {} /\ fresh' = {}
         /\ \/ r = "pgid_reused" /\ at' = "done" /\ chk' = "off" /\ outcome' = "empty"
            \/ at' = "unproven" /\ chk' = "probe" /\ outcome' = outcome
<1>1. CASE r = "pgid_reused"
  BY <1>1, ConcludedStep DEF FinishUnproven
<1>2. CASE r # "pgid_reused"
  BY <1>2 DEF FinishUnproven, Goto, TypeOK, RecoveryTypeOK, Step, Probing
<1> QED  BY <1>1, <1>2

\* The start of a recovery: decided by the host and the record alone, or the
\* group is classified.
LEMMA StartStep ==
  ASSUME NEW m \in {"assess", "graceful", "force"}, StartRecovery(m)
  PROVE  /\ RecoveryTypeOK' /\ emptied' = FALSE /\ pins' = {} /\ fresh' = {}
         /\ \/ /\ at' = "done" /\ chk' = "off"
               /\ outcome' = "empty" <=> host = "rebooted"
               /\ outcome' # "terminated"
            \/ at' = "classify" /\ chk' = "probe" /\ outcome' = None
  BY DEF StartRecovery, Release, Goto, RecoveryTypeOK, Step, Probing, None

\* The answer of the emptiness rule moves the recovery on, and it takes the
\* group for gone only when the rule said so.
LEMMA ProbedStep ==
  ASSUME TypeOK, at \in Probing, NEW r \in {"empty", "members", "unknown"}, Probed(r)
  PROVE  /\ RecoveryTypeOK'
         /\ pins' \in {pins, {}} /\ fresh' \in {fresh, {}}
         /\ chk' \in {"off", "probe"} /\ (chk' # "off" => at' \in Probing)
         /\ at' \in {"identify", "done", "await", "repin", "conclude"}
         /\ at' \in {"await", "repin"} => at = "await" /\ lfd' = lfd
         /\ RecoveryProof' => RecoveryProof \/ r = "empty"
<1> USE DEF TypeOK, Probing
<1>1. CASE \E o \in {"empty", "terminated", "live", "unknown"} :
             Concluded(o) /\ (o \in {"empty", "terminated"} => r = "empty")
  BY <1>1, ConcludedStep DEF RecoveryProof
<1>2. CASE at = "await" /\ AwaitEmpty(r)
  BY <1>2 DEF AwaitEmpty, Goto, RecoveryTypeOK, Step, RecoveryProof
<1>3. CASE at = "classify" /\ Goto("identify", "off") /\ UNCHANGED kept
  BY <1>3 DEF Goto, kept, RecoveryTypeOK, Step, RecoveryProof
<1>4. CASE at = "classify"
  BY <1>1, <1>3, <1>4 DEF Probed
<1>5. CASE at = "unproven"
  BY <1>1, <1>5 DEF Probed
<1>6. CASE at = "await"
  BY <1>2, <1>6 DEF Probed
<1>7. CASE at = "conclude"
  BY <1>1, <1>7 DEF Probed
<1> QED  BY <1>4, <1>5, <1>6, <1>7

\* The types of a recovery's variables.
LEMMA RecoveryTypeNext ==
  ASSUME TypeOK, ProofInv, PinInv, [Next]_vars
  PROVE  RecoveryTypeOK'
<1> USE DEF TypeOK
<1>1. CASE KernelStep /\ UNCHANGED kernelRest
  BY <1>1 DEF kernelRest, recVars, RecoveryTypeOK
<1>2. CASE RecoveryStep /\ UNCHANGED recRest
  <2>1. CASE Probe
    <3>1. at \in Probing
      BY <2>1 DEF Probe, ProofInv
    <3>2. CASE Probed("empty")
      BY <3>1, <3>2, ProbedStep
    <3>3. CASE chk' = "scan1" /\ UNCHANGED <<at, kept>>
      BY <3>3 DEF kept, RecoveryTypeOK
    <3> QED  BY <2>1, <3>2, <3>3 DEF Probe
  <2>2. CASE Scan
    <3>1. at \in Probing
      BY <2>2 DEF Scan, ProofInv
    <3>2. ASSUME NEW r \in {"members", "unknown"}, Probed(r) PROVE RecoveryTypeOK'
      BY <3>1, <3>2, ProbedStep
    <3>3. CASE chk' \in {"scan2", "holders"} /\ UNCHANGED <<at, kept>>
      BY <3>3 DEF kept, RecoveryTypeOK
    <3> QED  BY <2>2, <3>2, <3>3 DEF Scan
  <2>3. CASE CountHolders
    <3>1. at \in Probing
      BY <2>3 DEF CountHolders, ProofInv
    <3>2. PICK r \in {"empty", "unknown"} : Probed(r)
      BY <2>3 DEF CountHolders
    <3> QED  BY <3>1, <3>2, ProbedStep
  <2>4. CASE Identify
    <3>1. CASE \E r : FinishUnproven(r)
      BY <3>1, UnprovenStep
    <3>2. CASE Concluded("unknown") \/ Concluded("live")
      BY <3>2, ConcludedStep
    <3>3. CASE Goto("open", "off") /\ UNCHANGED kept
      BY <3>3 DEF Goto, kept, RecoveryTypeOK, Step
    <3> QED  BY <2>4, <3>1, <3>2, <3>3 DEF Identify
  <2>5. CASE OpenLeader
    <3>1. CASE FinishUnproven("leader_gone")
      BY <3>1, UnprovenStep
    <3>2. CASE Concluded("unknown")
      BY <3>2, ConcludedStep
    <3>3. CASE /\ lfd' = Holder(PidOf[lead]) /\ lfd' # NoProc /\ Goto("reidentify", "off")
               /\ UNCHANGED <<mode, pass, pins, fresh, todo, opened, emptied, outcome, sent>>
      <4>1. lfd' \in Process
        BY <3>3, HolderFacts DEF Unreaped
      <4> QED  BY <3>3, <4>1 DEF Goto, RecoveryTypeOK, Step
    <3> QED  BY <2>5, <3>1, <3>2, <3>3 DEF OpenLeader
  <2>6. CASE Reidentify
    <3>1. CASE FinishUnproven(LeaderIdentity)
      BY <3>1, UnprovenStep
    <3>2. CASE Goto("ping", "off") /\ UNCHANGED kept
      BY <3>2 DEF Goto, kept, RecoveryTypeOK, Step
    <3> QED  BY <2>6, <3>1, <3>2 DEF Reidentify
  <2>7. CASE PingLeader
    <3>1. CASE FinishUnproven("leader_gone")
      BY <3>1, UnprovenStep
    <3>2. CASE Goto("list", "off") /\ UNCHANGED kept
      BY <3>2 DEF Goto, kept, RecoveryTypeOK, Step
    <3> QED  BY <2>7, <3>1, <3>2 DEF PingLeader
  <2>8. CASE ListMembers
    <3>1. CASE Concluded("unknown")
      BY <3>1, ConcludedStep
    <3>2. CASE Goto("kill", "off") /\ UNCHANGED kept
      BY <3>2 DEF Goto, kept, RecoveryTypeOK, Step
    <3>3. CASE /\ todo' = {PidOf[i] : i \in Live} \ {PidOf[i] : i \in pins}
               /\ Goto("pin", "off")
               /\ UNCHANGED <<mode, pass, lfd, pins, fresh, opened, emptied, outcome, sent>>
      <4>1. \A i \in Live : PidOf[i] \in Nat
        BY RecoveryAssumption DEF Live, Group, Unreaped, Process
      <4>2. todo' \in SUBSET Nat
        BY <3>3, <4>1
      <4> QED  BY <3>3, <4>2 DEF Goto, RecoveryTypeOK, Step
    <3> QED  BY <2>8, <3>1, <3>2, <3>3 DEF ListMembers
  <2>9. ASSUME NEW pid \in todo, PinOpen(pid) PROVE RecoveryTypeOK'
    <3>1. Holder(pid) = NoProc \/ Holder(pid) \in Process
      BY HolderFacts DEF Unreaped
    <3>2. /\ at' \in {"pin", "pinned"} /\ opened' \in {opened, Holder(pid)}
          /\ todo' \in {todo, todo \ {pid}} /\ opened' \in Process \cup {NoProc}
          /\ UNCHANGED <<chk, mode, pass, lfd, pins, fresh, emptied, outcome, sent>>
      BY <2>9, <3>1 DEF PinOpen, RecoveryTypeOK
    <3> QED  BY <3>2 DEF RecoveryTypeOK, Step
  <2>10. CASE PinCheck
    <3>1. opened \in Process
      BY <2>10 DEF PinCheck, PinInv
    <3> QED  BY <2>10, <3>1, Zenon DEF PinCheck, RecoveryTypeOK, Step
  <2>11. CASE PinsDone
    <3>1. CASE FinishUnproven("leader_gone")
      BY <3>1, UnprovenStep
    <3>2. CASE ~FinishUnproven("leader_gone")
      BY <2>11, <3>2 DEF PinsDone, Goto, RecoveryTypeOK, Step
    <3> QED  BY <3>1, <3>2
  <2>12. CASE SendTerm
    BY <2>12 DEF SendTerm, Signal, Goto, RecoveryTypeOK, Step, Probing
  <2>13. CASE Repin
    BY <2>13 DEF Repin, Goto, RecoveryTypeOK, Step
  <2>14. CASE SendKill
    BY <2>14 DEF SendKill, Signal, Goto, RecoveryTypeOK, Step, Probing
  <2>15. CASE ConcludeEmptied
    <3>1. PICK o \in {"terminated", "empty"} : Concluded(o)
      BY <2>15 DEF ConcludeEmptied
    <3> QED  BY <3>1, ConcludedStep
  <2> QED  BY <1>2, <2>1, <2>2, <2>3, <2>4, <2>5, <2>6, <2>7, <2>8, <2>9, <2>10,
    <2>11, <2>12, <2>13, <2>14, <2>15 DEF RecoveryStep
<1>3. CASE CommandStep
  <2>1. CASE Crash
    BY <2>1 DEF Crash, daemonRest, recVars, RecoveryTypeOK
  <2>2. ASSUME NEW v \in {"verified", "unverified"}, DaemonEnds(v) PROVE RecoveryTypeOK'
    BY <2>2 DEF DaemonEnds, daemonRest, recVars, RecoveryTypeOK
  <2>3. ASSUME NEW f \in BOOLEAN, StopStarts(f) PROVE RecoveryTypeOK'
    BY <2>3 DEF StopStarts, recVars, RecoveryTypeOK
  <2>4. CASE StopAsks
    BY <2>4 DEF StopAsks, recVars, RecoveryTypeOK
  <2>5. CASE StopSignals
    BY <2>5 DEF StopSignals, recVars, RecoveryTypeOK
  <2>6. CASE StopCleansUp
    BY <2>6 DEF StopCleansUp, recVars, RecoveryTypeOK
  <2>7. CASE StopLeases
    BY <2>7 DEF StopLeases, recVars, RecoveryTypeOK
  <2>8. CASE StopReads
    <3>1. CASE UNCHANGED recVars
      BY <3>1 DEF recVars, RecoveryTypeOK
    <3>2. CASE \E m \in {"graceful", "force"} : StartRecovery(m)
      BY <3>2, StartStep
    <3> QED  BY <2>8, <3>1, <3>2 DEF StopReads, StopUnrecorded
  <2>9. CASE StopConcludes
    BY <2>9 DEF StopConcludes, kept, RecoveryTypeOK, Step
  <2>10. CASE UpAcquires
    BY <2>10 DEF UpAcquires, recVars, RecoveryTypeOK
  <2>11. CASE UpResolves
    <3>1. CASE UNCHANGED recVars
      BY <3>1 DEF recVars, RecoveryTypeOK
    <3>2. CASE StartRecovery("assess")
      BY <3>2, StartStep
    <3> QED  BY <2>11, <3>1, <3>2 DEF UpResolves
  <2>12. CASE UpConcludes
    BY <2>12 DEF UpConcludes, kept, RecoveryTypeOK, Step
  <2>13. CASE UpWrites
    BY <2>13 DEF UpWrites, recVars, RecoveryTypeOK
  <2> QED  BY <1>3, <2>1, <2>2, <2>3, <2>4, <2>5, <2>6, <2>7, <2>8, <2>9, <2>10,
    <2>11, <2>12, <2>13 DEF CommandStep
<1>4. CASE UNCHANGED vars
  BY <1>4 DEF vars, recVars, RecoveryTypeOK
<1> QED  BY Frames, <1>1, <1>2, <1>3, <1>4

\* The types of the commands' variables.
LEMMA CommandTypeNext ==
  ASSUME TypeOK, [Next]_vars
  PROVE  CommandTypeOK'
<1> USE RecoveryAssumption DEF TypeOK, WorldTypeOK, RecoveryTypeOK,
  CommandTypeOK, None
<1>1. CASE KernelStep /\ UNCHANGED kernelRest
  BY <1>1 DEF kernelRest, cmdVars, histVars
<1>2. CASE RecoveryStep /\ UNCHANGED recRest
  BY <1>2 DEF recRest, cmdVars
<1>3. CASE CommandStep
  <2>1. CASE Crash
    BY <2>1 DEF Crash, daemonRest, kernelVars, recVars, cmdVars
  <2>2. ASSUME NEW v \in {"verified", "unverified"}, DaemonEnds(v) PROVE CommandTypeOK'
    BY <2>2 DEF DaemonEnds, daemonRest, kernelVars, recVars, cmdVars
  <2>3. ASSUME NEW f \in BOOLEAN, StopStarts(f) PROVE CommandTypeOK'
    BY <2>3 DEF StopStarts, Done, stopRest, kernelVars, recVars
  <2>4. CASE StopAsks
    BY <2>4 DEF StopAsks, stopRest, kernelVars, recVars
  <2>5. CASE StopSignals
    BY <2>5 DEF StopSignals, stopRest, kernelVars, recVars
  <2>6. CASE StopCleansUp
    BY <2>6 DEF StopCleansUp, Cleanup, Done, stopRest, kernelVars, recVars
  <2>7. CASE StopLeases
    BY <2>7 DEF StopLeases, Done, stopRest, kernelVars, recVars
  <2>8. CASE StopReads
    BY <2>8 DEF StopReads, StopUnrecorded, Done, stopRest
  <2>9. CASE StopConcludes
    BY <2>9 DEF StopConcludes, Done, Cleanup, kept, stopRest, kernelVars
  <2>10. CASE UpAcquires
    BY <2>10 DEF UpAcquires, upRest, kernelVars, recVars, histVars
  <2>11. CASE UpResolves
    BY <2>11 DEF UpResolves, Cleanup, StartRecovery, upRest, Release, Goto,
      kernelVars, recVars, histVars
  <2>12. CASE UpConcludes
    BY <2>12 DEF UpConcludes, Cleanup, kept, upRest, kernelVars, histVars
  <2>13. CASE UpWrites
    BY <2>13 DEF UpWrites, WritePID, upRest, kernelVars, recVars, histVars
  <2> QED  BY <1>3, <2>1, <2>2, <2>3, <2>4, <2>5, <2>6, <2>7, <2>8, <2>9, <2>10,
    <2>11, <2>12, <2>13 DEF CommandStep
<1>4. CASE UNCHANGED vars
  BY <1>4 DEF vars, kernelVars, daemonVars, recVars, cmdVars, histVars
<1> QED  BY Frames, <1>1, <1>2, <1>3, <1>4

-----------------------------------------------------------------------------
(* What counts as proof that the group is gone *)

\* A number that names somebody else was given away after the group was over.
LEMMA ReusedMeansGone ==
  ASSUME TypeOK, KernelInv, LeaderIdentity = "pgid_reused"
  PROVE  OwnLive = {}
<1> DEFINE h == Holder(PidOf[lead])
<1>1. h # NoProc /\ h # lead
  BY DEF LeaderIdentity
<1>2. h \in Unreaped /\ PidOf[h] = PidOf[lead]
  BY <1>1, HolderFacts
<1>3. Heir(h)
  BY <1>1, <1>2, RecoveryAssumption DEF Unreaped, Process, Heir
<1> QED  BY <1>2, <1>3, RecoveryAssumption DEF KernelInv, OwnLive, Live, Group, Unreaped, Process

\* The pinned leader is proven only while the leader is unreaped.
LEMMA ProvenMeansLeader ==
  ASSUME LeaderIdentity = "proven"
  PROVE  lead \in Unreaped
<1>1. Holder(PidOf[lead]) = lead
  BY DEF LeaderIdentity
<1> QED  BY <1>1, HolderFacts, RecoveryAssumption

\* A recovery concludes "empty" or "terminated" only of a group without a live
\* member: groupProvenEmpty, a reused number, a rebooted host.
LEMMA RecoveryProofStep ==
  ASSUME TypeOK, KernelInv, ProofInv, RecoveryStep
  PROVE  /\ chk' # "off" => at' \in Probing
         /\ RecoveryProof' => OwnLive = {}
<1> DEFINE Goal == /\ chk' # "off" => at' \in Probing
                   /\ RecoveryProof' => OwnLive = {}
<1> USE DEF ProofInv
<1>1. ASSUME NEW r \in {"empty", "members", "unknown"}, chk # "off", Probed(r),
             r = "empty" => OwnLive = {}
      PROVE  Goal
  <2>1. at \in Probing
    BY <1>1
  <2> QED  BY <1>1, <2>1, ProbedStep
<1>2. ASSUME NEW o \in {"empty", "terminated", "live", "unknown"}, Concluded(o),
             o \in {"empty", "terminated"} => OwnLive = {}
      PROVE  Goal
  BY <1>2, ConcludedStep DEF RecoveryProof
<1>3. ASSUME NEW r, FinishUnproven(r), r = "pgid_reused" => OwnLive = {}
      PROVE  Goal
  BY <1>3, UnprovenStep DEF RecoveryProof, Probing
<1>4. ASSUME UNCHANGED <<outcome, emptied>>, chk' = "off", at' # "conclude"
      PROVE  Goal
  BY <1>4 DEF RecoveryProof
<1>5. LeaderIdentity = "pgid_reused" => OwnLive = {}
  BY ReusedMeansGone
<1> SUFFICES Goal
  OBVIOUS
<1> HIDE DEF Goal, ProofInv

<1>11. CASE Probe
  <2>1. CASE Probed("empty") /\ Group = {}
    BY <1>11, <2>1, <1>1 DEF Probe, OwnLive, Live
  <2>2. CASE chk' = "scan1" /\ UNCHANGED <<at, kept>>
    BY <1>11, <2>2 DEF Probe, kept, Goal, ProofInv, RecoveryProof, Probing
  <2> QED  BY <1>11, <2>1, <2>2 DEF Probe
<1>12. CASE Scan
  <2>1. ASSUME NEW r \in {"members", "unknown"}, Probed(r) PROVE Goal
    BY <1>12, <2>1, <1>1 DEF Scan
  <2>2. CASE Live = {} /\ chk' \in {"scan2", "holders"} /\ UNCHANGED <<at, kept>>
    BY <1>12, <2>2 DEF Scan, kept, Goal, ProofInv, OwnLive
  <2> QED  BY <1>12, <2>1, <2>2 DEF Scan
<1>13. CASE CountHolders
  <2>1. OwnLive = {} /\ chk # "off"
    BY <1>13 DEF CountHolders, ProofInv, RecoveryProof
  <2>2. PICK r \in {"empty", "unknown"} : Probed(r)
    BY <1>13 DEF CountHolders
  <2> QED  BY <2>1, <2>2, <1>1
<1>14. CASE Identify
  <2>1. CASE \E r : FinishUnproven(r) /\ (r = "pgid_reused" => OwnLive = {})
    BY <2>1, <1>3
  <2>2. CASE Concluded("unknown") \/ Concluded("live")
    BY <2>2, <1>2
  <2>3. CASE Goto("open", "off") /\ UNCHANGED kept
    BY <2>3, <1>4 DEF Goto, kept
  <2> QED  BY <1>14, <2>1, <2>2, <2>3, <1>5 DEF Identify
<1>15. CASE OpenLeader
  <2>1. CASE FinishUnproven("leader_gone")
    BY <2>1, <1>3
  <2>2. CASE Concluded("unknown")
    BY <2>2, <1>2
  <2> QED  BY <1>15, <2>1, <2>2, <1>4 DEF OpenLeader, Goto
<1>16. CASE Reidentify
  <2>1. CASE FinishUnproven(LeaderIdentity)
    BY <2>1, <1>3, <1>5
  <2> QED  BY <1>16, <2>1, <1>4 DEF Reidentify, Goto, kept
<1>17. CASE PingLeader
  <2>1. CASE FinishUnproven("leader_gone")
    BY <2>1, <1>3
  <2> QED  BY <1>17, <2>1, <1>4 DEF PingLeader, Goto, kept
<1>18. CASE ListMembers
  <2>1. CASE Concluded("unknown")
    BY <2>1, <1>2
  <2>2. CASE ~Concluded("unknown")
    BY <1>18, <2>2, <1>4 DEF ListMembers, Goto, kept
  <2> QED  BY <2>1, <2>2
<1>19. ASSUME NEW pid \in todo, PinOpen(pid) PROVE Goal
  BY <1>19 DEF PinOpen, Goal, ProofInv, RecoveryProof, Probing
<1>20. CASE PinCheck
  BY <1>20 DEF PinCheck, Goal, ProofInv, RecoveryProof, Probing
<1>21. CASE PinsDone
  <2>1. CASE FinishUnproven("leader_gone")
    BY <2>1, <1>3
  <2>2. CASE ~FinishUnproven("leader_gone")
    BY <1>21, <2>2, <1>4 DEF PinsDone, Goto
  <2> QED  BY <2>1, <2>2
<1>22. CASE SendTerm
  BY <1>22 DEF SendTerm, Goto, Goal, ProofInv, RecoveryProof, Probing
<1>23. CASE Repin
  BY <1>23, <1>4 DEF Repin, Goto
<1>24. CASE SendKill
  BY <1>24 DEF SendKill, Goto, Goal, ProofInv, RecoveryProof, Probing
<1>25. CASE ConcludeEmptied
  <2>1. OwnLive = {}
    BY <1>25 DEF ConcludeEmptied, ProofInv, RecoveryProof
  <2>2. PICK o \in {"terminated", "empty"} : Concluded(o)
    BY <1>25 DEF ConcludeEmptied
  <2> QED  BY <2>1, <2>2, <1>2
<1> QED  BY <1>11, <1>12, <1>13, <1>14, <1>15, <1>16, <1>17, <1>18, <1>19,
  <1>20, <1>21, <1>22, <1>23, <1>24, <1>25 DEF RecoveryStep, Goal

\* What counts as proof is proof: the daemon's verdict, the answer of a stop,
\* and the outcome of a recovery.
LEMMA ProofNext ==
  ASSUME TypeOK, KernelInv, ProofInv, [Next]_vars
  PROVE  ProofInv'
<1> USE DEF TypeOK, ProofInv, CommandProof, RecoveryProof, Probing, None
<1>0. UNCHANGED <<life, left>> => OwnLive' = OwnLive
  BY DEF OwnLive, Live, Group, Unreaped
<1>1. CASE KernelStep /\ UNCHANGED kernelRest
  BY <1>1, GoneStays DEF kernelRest, daemonVars, recVars, cmdVars
<1>2. CASE RecoveryStep /\ UNCHANGED recRest
  BY <1>2, <1>0, RecoveryProofStep DEF recRest, kernelVars, daemonVars, cmdVars
<1>3. CASE CommandStep /\ UNCHANGED <<life, left, host, rec, signalled>>
  <2>1. CASE Crash
    BY <2>1, <1>0, <1>3 DEF Crash, daemonRest, recVars, cmdVars
  <2>2. ASSUME NEW v \in {"verified", "unverified"}, DaemonEnds(v) PROVE ProofInv'
    BY <2>2, <1>0, <1>3 DEF DaemonEnds, daemonRest, recVars, cmdVars
  <2>3. ASSUME NEW f \in BOOLEAN, StopStarts(f) PROVE ProofInv'
    BY <2>3, <1>0, <1>3 DEF StopStarts, Done, recVars
  <2>4. CASE StopAsks
    BY <2>4, <1>0, <1>3 DEF StopAsks, recVars
  <2>5. CASE StopSignals
    BY <2>5, <1>0, <1>3 DEF StopSignals, recVars
  <2>6. CASE StopCleansUp
    BY <2>6, <1>0, <1>3 DEF StopCleansUp, Done, recVars
  <2>7. CASE StopLeases
    BY <2>7, <1>0, <1>3 DEF StopLeases, Done, recVars
  <2>8. CASE StopReads
    <3>1. CASE UNCHANGED recVars
      BY <2>8, <3>1, <1>0, <1>3 DEF StopReads, StopUnrecorded, Done, recVars
    <3>2. CASE \E m \in {"graceful", "force"} : StartRecovery(m) /\ UNCHANGED result
      BY <2>8, <3>2, <1>0, <1>3, StartStep DEF StopReads
    <3> QED  BY <2>8, <3>1, <3>2 DEF StopReads, StopUnrecorded
  <2>9. CASE StopConcludes
    BY <2>9, <1>0, <1>3 DEF StopConcludes, Done, Verified, kept
  <2>10. CASE UpAcquires
    BY <2>10, <1>0, <1>3 DEF upRest, UpAcquires, recVars
  <2>11. CASE UpResolves
    <3>1. CASE UNCHANGED recVars
      BY <2>11, <3>1, <1>0, <1>3 DEF UpResolves, upRest, recVars
    <3>2. CASE StartRecovery("assess")
      BY <2>11, <3>2, <1>0, <1>3, StartStep DEF UpResolves, upRest
    <3> QED  BY <2>11, <3>1, <3>2 DEF UpResolves
  <2>12. CASE UpConcludes
    BY <2>12, <1>0, <1>3 DEF upRest, UpConcludes, kept
  <2>13. CASE UpWrites
    BY <2>13, <1>0, <1>3 DEF upRest, UpWrites, recVars
  <2> QED  BY <1>3, <2>1, <2>2, <2>3, <2>4, <2>5, <2>6, <2>7, <2>8, <2>9, <2>10,
    <2>11, <2>12, <2>13 DEF CommandStep
<1>4. CASE UNCHANGED vars
  BY <1>4, <1>0 DEF vars, kernelVars, daemonVars, recVars, cmdVars, histVars
<1> QED  BY Frames, <1>1, <1>2, <1>3, <1>4

-----------------------------------------------------------------------------
(* Pins *)

\* Steps that close every pidfd, or keep them and stay with the leader.
LEMMA PinsKept ==
  ASSUME PinInv, UNCHANGED <<life, signalled>>, pins' \in {pins, {}}, fresh' \in {fresh, {}},
         at' # "reidentify", at' # "pinned",
         at' \in {"ping", "list", "pin", "pinned", "term", "await", "repin", "kill"}
           => lfd' = lead
  PROVE  PinInv'
  BY DEF PinInv, Heir

\* A recovery that concludes, or finds its leader unproven, holds no pin.
LEMMA PinsReleased ==
  ASSUME TypeOK, PinInv, UNCHANGED <<life, signalled>>,
         \/ \E o \in {"empty", "terminated", "live", "unknown"} : Concluded(o)
         \/ \E r : FinishUnproven(r)
  PROVE  PinInv'
<1>1. /\ pins' = {} /\ fresh' = {} /\ at' \in {"done", "unproven"}
  BY ConcludedStep, UnprovenStep
<1> QED  BY <1>1, PinsKept

\* While the leader is unreaped nobody has been given its number.
LEMMA NoHeir ==
  ASSUME TypeOK, KernelInv, lead \in Unreaped
  PROVE  \A i \in Process : ~Heir(i)
  BY DEF KernelInv, Unreaped

\* A pidfd pins a process and not a number: what is pinned while the leader is
\* unreaped are members of the recorded group.
LEMMA PinNext ==
  ASSUME TypeOK, KernelInv, ProofInv, PinInv, [Next]_vars
  PROVE  PinInv'
<1> USE DEF TypeOK
<1>1. CASE KernelStep /\ UNCHANGED kernelRest
  <2>1. \A i \in Process : life[i] # "unborn" => life'[i] # "unborn"
    BY <1>1 DEF KernelStep, WorldTypeOK, Fork, Exit, Reap, LeaveGroup, Arrive
  <2>2. UNCHANGED <<at, lfd, opened, pins, fresh, signalled>>
    BY <1>1 DEF kernelRest, recVars, histVars
  <2> QED  BY <2>1, <2>2 DEF PinInv, Heir, RecoveryTypeOK
<1>2. CASE RecoveryStep /\ UNCHANGED recRest
  <2>0. UNCHANGED life
    BY <1>2 DEF recRest, kernelVars
  <2>1. CASE Probe
    <3>1. at \in Probing
      BY <2>1 DEF Probe, ProofInv
    <3>2. CASE Probed("empty")
      BY <2>1, <3>1, <3>2, <2>0, ProbedStep, PinsKept DEF PinInv, Probe
    <3>3. CASE UNCHANGED <<at, kept>>
      BY <2>1, <3>3, <2>0, PinsKept DEF Probe, kept, PinInv, Heir
    <3> QED  BY <2>1, <3>2, <3>3 DEF Probe
  <2>2. CASE Scan
    <3>1. at \in Probing
      BY <2>2 DEF Scan, ProofInv
    <3>2. ASSUME NEW r \in {"members", "unknown"}, Probed(r) PROVE PinInv'
      BY <2>2, <3>1, <3>2, <2>0, ProbedStep, PinsKept DEF PinInv, Scan
    <3>3. CASE UNCHANGED <<at, kept>>
      BY <2>2, <3>3, <2>0, PinsKept DEF Scan, kept, PinInv, Heir
    <3> QED  BY <2>2, <3>2, <3>3 DEF Scan
  <2>3. CASE CountHolders
    <3>1. at \in Probing
      BY <2>3 DEF CountHolders, ProofInv
    <3>2. PICK r \in {"empty", "unknown"} : Probed(r)
      BY <2>3 DEF CountHolders
    <3> QED  BY <2>3, <3>1, <3>2, <2>0, ProbedStep, PinsKept DEF PinInv, CountHolders
  <2>4. CASE Identify
    <3>1. CASE (\E r : FinishUnproven(r)) \/ Concluded("unknown") \/ Concluded("live")
      BY <2>4, <3>1, <2>0, PinsReleased DEF Identify
    <3>2. CASE Goto("open", "off") /\ UNCHANGED kept
      BY <2>4, <3>2, <2>0, PinsKept DEF Identify, Goto, kept
    <3> QED  BY <2>4, <3>1, <3>2 DEF Identify
  <2>5. CASE OpenLeader
    <3>1. CASE FinishUnproven("leader_gone") \/ Concluded("unknown")
      BY <2>5, <3>1, <2>0, PinsReleased DEF OpenLeader
    <3>2. CASE /\ lfd' = Holder(PidOf[lead]) /\ lfd' # NoProc /\ at' = "reidentify"
               /\ UNCHANGED <<pins, fresh>>
      <4>1. lfd' \in Unreaped /\ PidOf[lfd'] = PidOf[lead]
        BY <3>2, HolderFacts
      <4>2. lfd' \in Process /\ life[lfd'] # "unborn"
        BY <4>1 DEF Unreaped
      <4> QED  BY <2>5, <3>2, <4>1, <4>2, <2>0 DEF OpenLeader, PinInv, Heir
    <3> QED  BY <2>5, <3>1, <3>2 DEF OpenLeader, Goto
  <2>6. CASE Reidentify
    <3>1. CASE FinishUnproven(LeaderIdentity)
      BY <2>6, <3>1, <2>0, PinsReleased DEF Reidentify
    <3>2. CASE LeaderIdentity = "proven" /\ Goto("ping", "off") /\ UNCHANGED kept
      <4>1. \A i \in Process : ~Heir(i)
        BY <3>2, ProvenMeansLeader, NoHeir
      <4>2. lfd = lead
        BY <2>6, <4>1, RecoveryAssumption DEF Reidentify, PinInv, Heir, Process
      <4> QED  BY <2>6, <3>2, <4>2, <2>0, PinsKept DEF Reidentify, Goto, kept
    <3> QED  BY <2>6, <3>1, <3>2 DEF Reidentify
  <2>7. CASE PingLeader
    <3>1. CASE FinishUnproven("leader_gone")
      BY <2>7, <3>1, <2>0, PinsReleased DEF PingLeader
    <3>2. CASE Goto("list", "off") /\ UNCHANGED kept
      BY <2>7, <3>2, <2>0, PinsKept DEF PingLeader, Goto, kept, PinInv
    <3> QED  BY <2>7, <3>1, <3>2 DEF PingLeader
  <2>8. CASE ListMembers
    <3>1. CASE Concluded("unknown")
      BY <2>8, <3>1, <2>0, PinsReleased DEF ListMembers
    <3>2. CASE at' \in {"kill", "pin"} /\ UNCHANGED <<lfd, pins, fresh>>
      BY <2>8, <3>2, <2>0, PinsKept DEF ListMembers, PinInv
    <3> QED  BY <2>8, <3>1, <3>2 DEF ListMembers, Goto, kept
  <2>9. ASSUME NEW pid \in todo, PinOpen(pid) PROVE PinInv'
    <3>1. /\ UNCHANGED <<life, signalled, lfd, pins, fresh>> /\ at = "pin"
          /\ \/ at' = "pin"
             \/ at' = "pinned" /\ opened' = Holder(pid) /\ Holder(pid) # NoProc
      BY <2>9, <2>0 DEF PinOpen
    <3>2. Holder(pid) # NoProc => Holder(pid) \in Process
      BY HolderFacts DEF Unreaped
    <3> QED  BY <3>1, <3>2 DEF PinInv, Heir
  <2>10. CASE PinCheck
    <3>1. /\ UNCHANGED <<life, signalled, lfd, pins>> /\ at' = "pin" /\ lfd = lead
          /\ \/ fresh' = fresh
             \/ fresh' = fresh \cup {opened} /\ Keep(PidOf[opened])
      BY <2>10, <2>0 DEF PinCheck, PinInv
    <3>2. ASSUME Keep(PidOf[opened]) PROVE opened \in Own \/ Heir(opened)
      <4>1. Holder(PidOf[opened]) \in Live /\ opened \in Unreaped
        BY <3>2 DEF Keep
      <4>2. Holder(PidOf[opened]) = opened
        BY <4>1, HolderFacts DEF KernelInv
      <4> QED  BY <4>1, <4>2 DEF Live, Group, Unreaped, Heir
    <3> QED  BY <3>1, <3>2 DEF PinInv, Heir
  <2>11. CASE PinsDone
    <3>1. CASE FinishUnproven("leader_gone")
      BY <2>11, <3>1, <2>0, PinsReleased DEF PinsDone
    <3>2. CASE /\ lfd \in Unreaped /\ at' \in {"kill", "term", "repin"}
               /\ pins' = pins \cup fresh /\ fresh' = {} /\ UNCHANGED lfd
      <4>1. lfd = lead
        BY <2>11 DEF PinsDone, PinInv
      <4>2. fresh \subseteq Own
        BY <3>2, <4>1, NoHeir DEF PinInv, RecoveryTypeOK
      <4> QED  BY <2>11, <3>2, <4>1, <4>2, <2>0 DEF PinsDone, PinInv, Heir
    <3>3. CASE at' = "kill" /\ fresh' = {} /\ UNCHANGED <<lfd, pins>>
      BY <2>11, <3>3, <2>0, PinsKept DEF PinsDone, PinInv
    <3> QED  BY <2>11, <3>1, <3>2, <3>3 DEF PinsDone, Goto
  <2>12. CASE SendTerm
    BY <2>12, <2>0 DEF SendTerm, Signal, Goto, PinInv, Heir
  <2>13. CASE Repin
    <3>1. /\ UNCHANGED <<life, signalled, lfd, fresh>> /\ pins' \subseteq pins
          /\ at = "repin" /\ at' \in {"list", "kill"}
      BY <2>13, <2>0 DEF Repin, Goto
    <3> QED  BY <3>1 DEF PinInv, Heir
  <2>14. CASE SendKill
    BY <2>14, <2>0 DEF SendKill, Signal, Goto, PinInv, Heir
  <2>15. CASE ConcludeEmptied
    BY <2>15, <2>0, PinsReleased DEF ConcludeEmptied
  <2> QED  BY <1>2, <2>1, <2>2, <2>3, <2>4, <2>5, <2>6, <2>7, <2>8, <2>9, <2>10,
    <2>11, <2>12, <2>13, <2>14, <2>15 DEF RecoveryStep
<1>3. CASE CommandStep /\ UNCHANGED <<life, left, host, rec, signalled>>
  <2>1. CASE Crash
    BY <2>1, <1>3 DEF Crash, daemonRest, recVars, PinInv, Heir
  <2>2. ASSUME NEW v \in {"verified", "unverified"}, DaemonEnds(v) PROVE PinInv'
    BY <2>2, <1>3 DEF DaemonEnds, daemonRest, recVars, PinInv, Heir
  <2>3. ASSUME NEW f \in BOOLEAN, StopStarts(f) PROVE PinInv'
    BY <2>3, <1>3 DEF StopStarts, recVars, PinInv, Heir
  <2>4. CASE StopAsks
    BY <2>4, <1>3 DEF StopAsks, recVars, PinInv, Heir
  <2>5. CASE StopSignals
    BY <2>5, <1>3 DEF StopSignals, recVars, PinInv, Heir
  <2>6. CASE StopCleansUp
    BY <2>6, <1>3 DEF StopCleansUp, recVars, PinInv, Heir
  <2>7. CASE StopLeases
    BY <2>7, <1>3 DEF StopLeases, recVars, PinInv, Heir
  <2>8. CASE StopReads
    <3>1. CASE UNCHANGED recVars
      BY <1>3, <3>1 DEF recVars, PinInv, Heir
    <3>2. CASE \E m \in {"graceful", "force"} : StartRecovery(m)
      BY <1>3, <3>2, StartStep, PinsKept
    <3> QED  BY <2>8, <3>1, <3>2 DEF StopReads, StopUnrecorded
  <2>9. CASE StopConcludes
    BY <2>9, <1>3, PinsKept DEF StopConcludes, kept
  <2>10. CASE UpAcquires
    BY <2>10, <1>3 DEF UpAcquires, recVars, PinInv, Heir
  <2>11. CASE UpResolves
    <3>1. CASE UNCHANGED recVars
      BY <1>3, <3>1 DEF recVars, PinInv, Heir
    <3>2. CASE StartRecovery("assess")
      BY <1>3, <3>2, StartStep, PinsKept
    <3> QED  BY <2>11, <3>1, <3>2 DEF UpResolves
  <2>12. CASE UpConcludes
    BY <2>12, <1>3, PinsKept DEF UpConcludes, kept
  <2>13. CASE UpWrites
    BY <2>13, <1>3 DEF UpWrites, recVars, PinInv, Heir
  <2> QED  BY <1>3, <2>1, <2>2, <2>3, <2>4, <2>5, <2>6, <2>7, <2>8, <2>9, <2>10,
    <2>11, <2>12, <2>13 DEF CommandStep
<1>4. CASE UNCHANGED vars
  BY <1>4 DEF vars, kernelVars, recVars, histVars, PinInv, Heir
<1> QED  BY Frames, <1>1, <1>2, <1>3, <1>4


-----------------------------------------------------------------------------
(* The lease and the PID file *)

\* The PID file is removed under the lease, or by a stop that saw its daemon
\* gone; without proof somebody is told.
LEMMA SessionNext ==
  ASSUME TypeOK, ProofInv, SessionInv, [Next]_vars
  PROVE  SessionInv'
<1> USE DEF TypeOK, WorldTypeOK, CommandTypeOK, SessionInv, NobodyForgotten,
  ProofInv, CommandProof, RecoveryProof, None
<1>0. UNCHANGED <<life, left>> => OwnLive' = OwnLive
  BY DEF OwnLive, Live, Group, Unreaped
<1>1. CASE KernelStep /\ UNCHANGED kernelRest
  BY <1>1, GoneStays DEF kernelRest, daemonVars, cmdVars, histVars
<1>2. CASE RecoveryStep /\ UNCHANGED recRest
  BY <1>2, <1>0 DEF recRest, kernelVars, daemonVars, cmdVars
<1>3. CASE CommandStep /\ UNCHANGED <<life, left, host, rec, signalled>>
  <2>1. CASE Crash
    BY <2>1, <1>0, <1>3 DEF Crash, daemonRest, kernelVars, cmdVars
  <2>2. ASSUME NEW v \in {"verified", "unverified"}, DaemonEnds(v) PROVE SessionInv'
    BY <2>2, <1>0, <1>3 DEF DaemonEnds, daemonRest, kernelVars, cmdVars
  <2>3. ASSUME NEW f \in BOOLEAN, StopStarts(f) PROVE SessionInv'
    BY <2>3, <1>0, <1>3 DEF StopStarts, Done, stopRest, kernelVars
  <2>4. CASE StopAsks
    BY <2>4, <1>0, <1>3 DEF StopAsks, stopRest, kernelVars
  <2>5. CASE StopSignals
    BY <2>5, <1>0, <1>3 DEF StopSignals, stopRest, kernelVars
  <2>6. CASE StopCleansUp
    BY <2>6, <1>0, <1>3 DEF StopCleansUp, Cleanup, Done, stopRest, kernelVars, ProcessGone
  <2>7. CASE StopLeases
    BY <2>7, <1>0, <1>3 DEF StopLeases, Done, stopRest, kernelVars
  <2>8. CASE StopReads
    BY <2>8, <1>0, <1>3 DEF StopReads, Done, StopUnrecorded, stopRest, Cleanup, kernelVars
  <2>9. CASE StopConcludes
    BY <2>9, <1>0, <1>3 DEF StopConcludes, Done, Cleanup, stopRest, kernelVars, Verified
  <2>10. CASE UpAcquires
    BY <2>10, <1>0, <1>3 DEF UpAcquires, upRest, kernelVars, histVars
  <2>11. CASE UpResolves
    BY <2>11, <1>0, <1>3 DEF UpResolves, Cleanup, upRest, kernelVars, histVars
  <2>12. CASE UpConcludes
    BY <2>12, <1>0, <1>3 DEF UpConcludes, Cleanup, upRest, kernelVars, histVars
  <2>13. CASE UpWrites
    BY <2>13, <1>0, <1>3 DEF UpWrites, WritePID, upRest, kernelVars, histVars
  <2> QED  BY <1>3, <2>1, <2>2, <2>3, <2>4, <2>5, <2>6, <2>7, <2>8, <2>9, <2>10,
    <2>11, <2>12, <2>13 DEF CommandStep
<1>4. CASE UNCHANGED vars
  BY <1>4, <1>0 DEF vars, kernelVars, daemonVars, recVars, cmdVars, histVars
<1> QED  BY Frames, <1>1, <1>2, <1>3, <1>4


-----------------------------------------------------------------------------
(* Together *)

\* A daemon with a live leader, or a machine that was rebooted.
LEMMA IndInit == Init => IndInv
<1> SUFFICES ASSUME Init PROVE IndInv
  OBVIOUS
<1> USE RecoveryAssumption DEF Init, None, Process
<1>1. WorldTypeOK
  BY DEF WorldTypeOK
<1>2. RecoveryTypeOK /\ CommandTypeOK
  BY DEF RecoveryTypeOK, CommandTypeOK, Step
<1>3. KernelInv
  BY DEF KernelInv, Heir, Unreaped
<1>4. host = "rebooted" => OwnLive = {}
  BY DEF OwnLive, Live, Group, Unreaped
<1>5. ProofInv
  BY <1>4 DEF ProofInv, CommandProof, RecoveryProof
<1>6. PinInv
  BY DEF PinInv
<1>7. SessionInv
  BY DEF SessionInv, NobodyForgotten
<1> QED  BY <1>1, <1>2, <1>3, <1>5, <1>6, <1>7 DEF IndInv, TypeOK

\* No step of the kernel, of a recovery, of the daemon or of a command breaks a
\* part of the invariant.
LEMMA IndNext == IndInv /\ [Next]_vars => IndInv'
  BY WorldTypeNext, RecoveryTypeNext, CommandTypeNext, KernelNext, ProofNext,
     PinNext, SessionNext DEF IndInv, TypeOK

\* The inductive invariant holds in every reachable state.
THEOREM Inductive == Spec => []IndInv
  BY IndInit, IndNext, PTL DEF Spec

\* RecoverGroups signals members of the recorded group and nobody else: the
\* pidfd of the leader is opened before its identity is proven again, the
\* members are pinned while the leader is unreaped, and as long as it is, the
\* kernel gives the number of the group to nobody.
THEOREM RecoverySignalsOwn == Spec => []OnlyOwnSignalled
<1>1. IndInv => OnlyOwnSignalled
  BY DEF IndInv, PinInv, OnlyOwnSignalled
<1> QED  BY <1>1, Inductive, PTL

\* A stop that reports success (stopDaemon, stopDeadDaemon) left no member of
\* the recorded group alive, whoever found out: the daemon, the emptiness
\* rule, a reused number or a changed boot id.
THEOREM StopSuccessIsProof == Spec => []SuccessMeansGone
<1>1. IndInv => SuccessMeansGone
  BY DEF IndInv, ProofInv, CommandProof, SuccessMeansGone
<1> QED  BY <1>1, Inductive, PTL

\* As long as a member of a recorded group lives without a daemon, its record is
\* still in the PID file or somebody was told that termination is not verified,
\* through any interleaving of a crash, a stop and the next up.
THEOREM LiveMembersRemembered == Spec => []NobodyForgotten
<1>1. IndInv => NobodyForgotten
  BY DEF IndInv, SessionInv
<1> QED  BY <1>1, Inductive, PTL
=============================================================================
