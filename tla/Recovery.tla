------------------------------ MODULE Recovery ------------------------------
(***************************************************************************)
(* What is left when a daemon goes away: the PID file with the process     *)
(* group it launched, the stop command that asks, signals or replaces the  *)
(* daemon, crash recovery over pidfds, and the next `up` that wants the    *)
(* session.  Sources: internal/runner/recover_unix.go, processgroup.go,    *)
(* internal/daemon, cmd/proc-compose/helpers.go and main.go.               *)
(*                                                                         *)
(* One recorded group is modelled, system call by system call, against a   *)
(* kernel that reuses process numbers.  A membership scan is one step and  *)
(* every member is visible to it.  How a daemon shuts down is in Control;  *)
(* here it is one step.  The second daemon is not stopped.                 *)
(***************************************************************************)
EXTENDS Naturals, FiniteSets

CONSTANTS
  Own,        \* processes that are or will be members of the recorded group
  lead,       \* its leader
  Stranger,   \* unrelated processes that may get a number again
  PidOf,      \* the number each process has
  NoProc,     \* no process
  EnumFails   \* a membership scan may fail

ASSUME RecoveryAssumption ==
  /\ lead \in Own /\ Own \cap Stranger = {} /\ NoProc \notin Own \cup Stranger
  /\ PidOf \in [Own \cup Stranger -> Nat]
  /\ \A i, j \in Own : PidOf[i] = PidOf[j] => i = j
  /\ EnumFails \in BOOLEAN

Process == Own \cup Stranger

VARIABLES
  \* the kernel: each process, and the members that left the group
  life, left,
  \* the daemon, its verdict, the PID file, the instance lease; what the
  \* file records of the group and of the host it was written on
  daemon, verdict, pidFile, lease, rec, host,
  \* RecoverGroups on the recorded group
  at, chk, mode, pass, lfd, pins, fresh, todo, opened, emptied, outcome, sent,
  \* the stop command and the next up
  stop, force, answer, result, up,
  \* history: processes signalled; a stop or the daemon said NOT verified
  signalled, warned

kernelVars == <<life, left>>
daemonVars == <<daemon, verdict, pidFile, lease, rec, host>>
recVars    == <<at, chk, mode, pass, lfd, pins, fresh, todo, opened, emptied,
                outcome, sent>>
cmdVars    == <<stop, force, answer, result, up>>
histVars   == <<signalled, warned>>
vars == <<kernelVars, daemonVars, recVars, cmdVars, histVars>>

None == "none"

-----------------------------------------------------------------------------
(* The kernel.                                                             *)

Unreaped == {i \in Process : life[i] \in {"live", "zombie"}}

\* A stranger with the leader's number leads a new group of that number.
Group == {i \in Unreaped : \/ i \in Own \ left
                           \/ i \in Stranger /\ PidOf[i] = PidOf[lead]}

Live == {i \in Group : life[i] = "live"}
OwnLive == Live \cap Own

\* The process a number names now.
Holder(pid) == IF \E i \in Unreaped : PidOf[i] = pid
               THEN CHOOSE i \in Unreaped : PidOf[i] = pid ELSE NoProc

kernelRest == <<daemonVars, recVars, cmdVars, histVars>>

Fork(i) ==
  /\ i \in Own /\ life[i] = "unborn" /\ OwnLive # {}
  /\ Holder(PidOf[i]) = NoProc
  /\ life' = [life EXCEPT ![i] = "live"]
  /\ UNCHANGED <<left, kernelRest>>

Exit(i) ==
  /\ life[i] = "live" /\ i \in Own
  /\ life' = [life EXCEPT ![i] = "zombie"]
  /\ UNCHANGED <<left, kernelRest>>

\* The leader's parent is the daemon, and init once that is gone.
Reap(i) ==
  /\ life[i] = "zombie" /\ (i = lead => daemon # "up")
  /\ life' = [life EXCEPT ![i] = "gone"]
  /\ UNCHANGED <<left, kernelRest>>

\* setsid or setpgid.
LeaveGroup(i) ==
  /\ i \in Own \ left /\ life[i] = "live"
  /\ left' = left \cup {i}
  /\ UNCHANGED <<life, kernelRest>>

\* A number is free when nothing unreaped uses it as pid or as group.
Arrive(i) ==
  /\ i \in Stranger /\ life[i] = "unborn"
  /\ Holder(PidOf[i]) = NoProc
  /\ PidOf[i] = PidOf[lead] => Group = {}
  /\ life' = [life EXCEPT ![i] = "live"]
  /\ UNCHANGED <<left, kernelRest>>

-----------------------------------------------------------------------------
(* The first daemon.                                                       *)

daemonRest == <<kernelVars, recVars, cmdVars, signalled>>

\* The daemon dies with its lease; the file and the group stay.
Crash ==
  /\ daemon = "up"
  /\ daemon' = "crashed" /\ lease' = None
  /\ UNCHANGED <<verdict, pidFile, rec, host, warned, daemonRest>>

\* The daemon shuts down, for whatever reason, removes its PID file and
\* gives its lease up.  Its verdict is proof (ProcessGroup, VerdictSound).
DaemonEnds(v) ==
  /\ daemon = "up"
  /\ v = "verified" => OwnLive = {}
  /\ daemon' = "exited" /\ verdict' = v
  /\ pidFile' = "none" /\ lease' = None
  /\ warned' = (warned \/ v # "verified")
  /\ UNCHANGED <<rec, host, daemonRest>>

-----------------------------------------------------------------------------
(* RecoverGroups on one group.                                             *)

recRest == <<kernelVars, daemonVars, cmdVars, warned>>
kept == <<mode, pass, lfd, pins, fresh, todo, opened, emptied, outcome, sent>>

\* release: the pidfds are closed.
Release == lfd' = NoProc /\ pins' = {} /\ fresh' = {} /\ todo' = {} /\ opened' = NoProc

\* finish: the group's outcome is decided.
Concluded(o) ==
  /\ at' = "done" /\ outcome' = o
  /\ chk' = "off" /\ Release
  /\ UNCHANGED <<mode, pass, emptied, sent>>

\* Go to step s of the recovery, with the emptiness rule running there or not.
Goto(s, c) == at' = s /\ chk' = c

\* hostVerdict and the checks that need no system call.
StartRecovery(m) ==
  /\ mode' = m
  /\ pass' = "first" /\ emptied' = FALSE /\ sent' = {}
  /\ Release
  /\ IF host # "same" \/ rec = "pending"
     THEN /\ Goto("done", "off")
          /\ outcome' = IF host = "rebooted" THEN "empty" ELSE "unknown"
     ELSE Goto("classify", "probe") /\ outcome' = None

\* awaitEmpty: poll again, or the deadline has passed.
AwaitEmpty(r) ==
  /\ emptied' = (r = "empty")
  /\ \/ r # "empty" /\ Goto("await", "probe")
     \/ IF r # "empty" /\ pass = "first" THEN Goto("repin", "off")
        ELSE Goto("conclude", IF r = "empty" THEN "off" ELSE "probe")
  /\ UNCHANGED <<mode, pass, lfd, pins, fresh, todo, opened, outcome, sent>>

\* The emptiness rule answered r: "empty", "members" or "unknown".
Probed(r) ==
  CASE at = "classify" ->
         IF r = "members" /\ rec # "nostart"
         THEN /\ Goto("identify", "off")
              /\ UNCHANGED kept
         ELSE Concluded(IF r = "empty" THEN "empty" ELSE "unknown")
    [] at = "unproven" -> Concluded(IF r = "empty" THEN "empty" ELSE "unknown")
    [] at = "await" -> AwaitEmpty(r)
    [] at = "conclude" ->
         Concluded(IF r # "empty" THEN "unknown"
                   ELSE IF sent # {} THEN "terminated" ELSE "empty")

\* groupProvenEmpty: kill(-pgid, 0), two scans, and the zombies that explain
\* a probe that succeeded.
Probe ==
  /\ chk = "probe"
  /\ IF Group = {} THEN Probed("empty")
     ELSE /\ chk' = "scan1"
          /\ UNCHANGED <<at, kept>>
  /\ UNCHANGED <<recRest, signalled>>

Scan ==
  /\ chk \in {"scan1", "scan2"}
  /\ \/ EnumFails /\ Probed("unknown")
     \/ Live # {} /\ Probed("members")
     \/ /\ Live = {}
        /\ chk' = IF chk = "scan1" THEN "scan2" ELSE "holders"
        /\ UNCHANGED <<at, kept>>
  /\ UNCHANGED <<recRest, signalled>>

CountHolders ==
  /\ chk = "holders"
  /\ \/ EnumFails /\ Probed("unknown")
     \/ Probed(IF Group # {} THEN "empty" ELSE "unknown")
  /\ UNCHANGED <<recRest, signalled>>

\* leaderIdentity: what the recorded number names now.
LeaderIdentity ==
  LET h == Holder(PidOf[lead])
  IN CASE h = NoProc    -> "leader_gone"
       [] h = lead      -> IF lead \in left THEN "leader_left_group" ELSE "proven"
       [] OTHER         -> "pgid_reused"

\* Mutant of FinishUnproven: a leader that is gone ends the group.
GoneIsEmpty(reason) ==
  IF reason \in {"pgid_reused", "leader_gone"} THEN Concluded("empty")
  ELSE /\ Goto("unproven", "probe") /\ lfd' = NoProc /\ pins' = {} /\ fresh' = {}
       /\ UNCHANGED <<mode, pass, todo, opened, emptied, outcome, sent>>

\* A reused number proves the recorded group over; otherwise probe again.
FinishUnproven(reason) ==
  IF reason = "pgid_reused" THEN Concluded("empty")
  ELSE /\ Goto("unproven", "probe") /\ lfd' = NoProc /\ pins' = {} /\ fresh' = {}
       /\ UNCHANGED <<mode, pass, todo, opened, emptied, outcome, sent>>

\* The leader is proven before anything is opened.  An unreadable procfs
\* entry, and the caller's own group, are refused.
Identify ==
  /\ at = "identify"
  /\ \/ FinishUnproven("enumeration_failed")
     \/ Concluded("unknown")
     \/ LeaderIdentity # "proven" /\ FinishUnproven(LeaderIdentity)
     \/ /\ LeaderIdentity = "proven"
        /\ IF mode = "assess" THEN Concluded("live")
           ELSE /\ Goto("open", "off")
                /\ UNCHANGED kept
  /\ UNCHANGED <<recRest, signalled>>

\* pidfdOpen of the leader's number; without pidfds nothing is signalled.
OpenLeader ==
  /\ at = "open"
  /\ \/ Concluded("unknown")
     \/ Holder(PidOf[lead]) = NoProc /\ FinishUnproven("leader_gone")
     \/ /\ lfd' = Holder(PidOf[lead]) /\ lfd' # NoProc
        /\ Goto("reidentify", "off")
        /\ UNCHANGED <<mode, pass, pins, fresh, todo, opened, emptied, outcome, sent>>
  /\ UNCHANGED <<recRest, signalled>>

\* Identity again, now that the pidfd pins the process, then a ping.
Reidentify ==
  /\ at = "reidentify"
  /\ IF LeaderIdentity # "proven" THEN FinishUnproven(LeaderIdentity)
     ELSE /\ Goto("ping", "off")
          /\ UNCHANGED kept
  /\ UNCHANGED <<recRest, signalled>>

PingLeader ==
  /\ at = "ping"
  /\ IF lfd \notin Unreaped THEN FinishUnproven("leader_gone")
     ELSE /\ Goto("list", "off")
          /\ UNCHANGED kept
  /\ UNCHANGED <<recRest, signalled>>

\* pinMembers: list the live members' numbers, without those already pinned.
ListMembers ==
  /\ at = "list"
  /\ \/ /\ EnumFails
        /\ IF pass = "first" THEN Concluded("unknown")
           ELSE /\ Goto("kill", "off")
                /\ UNCHANGED kept
     \/ /\ todo' = {PidOf[i] : i \in Live} \ {PidOf[i] : i \in pins}
        /\ Goto("pin", "off")
        /\ UNCHANGED <<mode, pass, lfd, pins, fresh, opened, emptied, outcome, sent>>
  /\ UNCHANGED <<recRest, signalled>>

PinOpen(pid) ==
  /\ at = "pin" /\ pid \in todo
  /\ IF Holder(pid) = NoProc
     THEN /\ todo' = todo \ {pid}
          /\ UNCHANGED <<at, opened>>
     ELSE at' = "pinned" /\ opened' = Holder(pid) /\ UNCHANGED todo
  /\ UNCHANGED <<chk, mode, pass, lfd, pins, fresh, emptied, outcome, sent, recRest,
                 signalled>>

\* Mutant of Keep: the number came from the scan, so its process is a member.
TrustTheScan(pid) == TRUE

\* What procfs says after the pidfd was opened, and the pidfd still answers.
Keep(pid) == Holder(pid) \in Live /\ opened \in Unreaped

PinCheck ==
  /\ at = "pinned"
  /\ fresh' = IF Keep(PidOf[opened]) THEN fresh \cup {opened} ELSE fresh
  /\ todo' = todo \ {PidOf[opened]}
  /\ at' = "pin" /\ opened' = NoProc
  /\ UNCHANGED <<chk, mode, pass, lfd, pins, emptied, outcome, sent, recRest,
                 signalled>>

\* The leader stayed unreaped across the scan: every process found is a
\* member.  A group that lost it in the first pass is left alone; in the
\* second the pins taken before remain.
PinsDone ==
  /\ at = "pin" /\ todo = {}
  /\ IF lfd \in Unreaped
     THEN /\ Goto(IF pass = "second" THEN "kill"
                  ELSE IF mode = "graceful" THEN "term" ELSE "repin", "off")
          /\ pins' = pins \cup fresh /\ fresh' = {}
          /\ UNCHANGED <<mode, pass, lfd, todo, opened, emptied, outcome, sent>>
     ELSE IF pass = "first" THEN FinishUnproven("leader_gone")
     ELSE /\ Goto("kill", "off")
          /\ fresh' = {}
          /\ UNCHANGED <<mode, pass, lfd, pins, todo, opened, emptied, outcome,
                         sent>>
  /\ UNCHANGED <<recRest, signalled>>

\* signal: every pinned process that still exists gets it.
Signal(sig) ==
  /\ signalled' = signalled \cup (pins \cap Unreaped)
  /\ sent' = IF pins \cap Unreaped = {} THEN sent ELSE sent \cup {sig}

SendTerm ==
  /\ at = "term"
  /\ Signal("SIGTERM")
  /\ Goto("await", "probe")
  /\ UNCHANGED <<mode, pass, lfd, pins, fresh, todo, opened, emptied, outcome, recRest>>

\* repin: drop the pins that are gone; scan again while the leader is proven.
Repin ==
  /\ at = "repin"
  /\ pass' = "second" /\ pins' = pins \cap Unreaped
  /\ Goto(IF lfd \in Unreaped /\ LeaderIdentity = "proven" THEN "list" ELSE "kill",
          "off")
  /\ UNCHANGED <<mode, lfd, fresh, todo, opened, emptied, outcome, sent, recRest,
                 signalled>>

SendKill ==
  /\ at = "kill"
  /\ Signal("SIGKILL")
  /\ Goto("await", "probe")
  /\ UNCHANGED <<mode, pass, lfd, pins, fresh, todo, opened, emptied, outcome, recRest>>

\* conclude for a group awaitEmpty proved empty; it is not probed again.
ConcludeEmptied ==
  /\ at = "conclude" /\ chk = "off"
  /\ Concluded(IF sent # {} THEN "terminated" ELSE "empty")
  /\ UNCHANGED <<recRest, signalled>>

RecoveryStep ==
  \/ Probe \/ Scan \/ CountHolders \/ Identify \/ OpenLeader \/ Reidentify
  \/ PingLeader \/ ListMembers \/ (\E pid \in todo : PinOpen(pid)) \/ PinCheck
  \/ PinsDone \/ SendTerm \/ Repin \/ SendKill \/ ConcludeEmptied

-----------------------------------------------------------------------------
(* The stop command.                                                       *)

stopRest == <<kernelVars, rec, host, up, signalled>>

Done(r) == stop' = "done" /\ result' = r

\* The file can be read, and the process it names is that daemon and runs.
IsAliveFromPIDFile == pidFile = "old" /\ rec # "unreadable" /\ daemon = "up"

\* The file can be read and names the groups of its daemon.
HasGroups == rec \notin {"legacy", "unreadable"}

Cleanup == pidFile' = "none"

StopStarts(f) ==
  /\ stop = "idle" /\ force' = f
  /\ IF pidFile # "old" THEN Done("failed")
     ELSE /\ stop' = IF IsAliveFromPIDFile THEN "ask" ELSE "dead"
          /\ UNCHANGED result
  /\ UNCHANGED <<answer, daemon, verdict, pidFile, lease, recVars, warned,
                 stopRest>>

\* requestShutdown: the daemon's verdict, no verdict, or no way to ask.
StopAsks ==
  /\ stop = "ask"
  /\ \/ daemon = "exited" /\ answer' = verdict /\ stop' = "wait"
     \/ answer' = "unverified" /\ stop' = "wait"
     \/ answer' = "unavailable" /\ stop' = "signal"
  /\ UNCHANGED <<force, result, daemon, verdict, pidFile, lease, recVars,
                 warned, stopRest>>

\* signalDaemonUnverified: SIGTERM may end the daemon in time (DaemonEnds);
\* with force, or after the graceful period, it is killed.
StopSignals ==
  /\ stop = "signal"
  /\ stop' = "wait"
  /\ daemon' = IF daemon = "up" THEN "crashed" ELSE daemon
  /\ lease' = IF daemon = "up" THEN None ELSE lease
  /\ UNCHANGED <<force, answer, result, verdict, pidFile, recVars, warned,
                 stopRest>>

ProcessGone == daemon # "up"

\* waitProcessGone, and Cleanup of whatever PID file is there now.
StopCleansUp ==
  /\ stop = "wait"
  /\ IF ProcessGone
     THEN /\ Cleanup
          /\ Done(IF answer = "verified" THEN "ok" ELSE "unverified")
          /\ warned' = (warned \/ answer # "verified")
     ELSE Done("failed") /\ UNCHANGED <<pidFile, warned>>
  /\ UNCHANGED <<force, answer, daemon, verdict, lease, recVars, stopRest>>

\* stopDeadDaemon takes the instance lease first.
StopLeases ==
  /\ stop = "dead"
  /\ IF lease = None THEN lease' = "stop" /\ stop' = "leased" /\ UNCHANGED result
     ELSE Done("failed") /\ UNCHANGED lease
  /\ UNCHANGED <<force, answer, daemon, verdict, pidFile, recVars, warned,
                 stopRest>>

\* A file without a record, or an unreadable one, proves nothing; force
\* clears it.
StopUnrecorded ==
  /\ Done(IF force /\ rec = "legacy" THEN "cleared" ELSE "unverified")
  /\ lease' = None
  /\ IF force THEN Cleanup ELSE UNCHANGED pidFile
  /\ warned' = TRUE
  /\ UNCHANGED recVars

\* Under the lease: the file may have changed hands.
StopReads ==
  /\ stop = "leased"
  /\ IF pidFile # "old"
     THEN Done("failed") /\ lease' = None /\ UNCHANGED <<pidFile, recVars, warned>>
     ELSE IF ~HasGroups THEN StopUnrecorded
     ELSE /\ stop' = "recover"
          /\ StartRecovery(IF force THEN "force" ELSE "graceful")
          /\ UNCHANGED <<result, lease, pidFile, warned>>
  /\ UNCHANGED <<force, answer, daemon, verdict, stopRest>>

\* Mutant of Verified: only a live group counts against success.
NotLive == outcome # "live"

Verified == outcome \in {"empty", "terminated"}

\* Success needs proof for the group; force clears the state but fails.
StopConcludes ==
  /\ stop = "recover" /\ at = "done"
  /\ Done(IF Verified THEN "ok" ELSE "unverified")
  /\ IF Verified \/ force THEN Cleanup ELSE UNCHANGED pidFile
  /\ warned' = (warned \/ ~Verified)
  /\ lease' = None /\ at' = "idle"
  /\ UNCHANGED <<force, answer, daemon, verdict, chk, kept, stopRest>>

-----------------------------------------------------------------------------
(* The next up.                                                            *)

upRest == <<kernelVars, daemon, verdict, rec, host, stop, force, answer,
            result, histVars>>

\* session.Acquire: the instance lease.  A refusal here, and one by the
\* preflight check, which changes nothing, is an up that never starts.
UpAcquires ==
  /\ up = "idle" /\ lease = None
  /\ lease' = "up" /\ up' = "resolve"
  /\ UNCHANGED <<pidFile, recVars, upRest>>

\* ResolveCrashedRun under the lease.
UpResolves ==
  /\ up = "resolve"
  /\ IF pidFile = "none" THEN up' = "write" /\ UNCHANGED <<pidFile, lease, recVars>>
     ELSE IF rec = "legacy"
     THEN up' = "write" /\ Cleanup /\ UNCHANGED <<lease, recVars>>
     ELSE IF rec = "unreadable"
     THEN up' = "refused" /\ lease' = None /\ UNCHANGED <<pidFile, recVars>>
     ELSE up' = "assess" /\ StartRecovery("assess") /\ UNCHANGED <<pidFile, lease>>
  /\ UNCHANGED upRest

UpConcludes ==
  /\ up = "assess" /\ at = "done"
  /\ IF outcome = "empty"
     THEN up' = "write" /\ Cleanup /\ UNCHANGED lease
     ELSE up' = "refused" /\ lease' = None /\ UNCHANGED pidFile
  /\ at' = "idle"
  /\ UNCHANGED <<chk, kept, upRest>>

\* The file is replaced in one step: no reader sees a part of it.
WritePID == pidFile' = "new"

\* The run begins.
UpWrites ==
  /\ up = "write"
  /\ up' = "running" /\ WritePID
  /\ UNCHANGED <<lease, recVars, upRest>>

-----------------------------------------------------------------------------

\* A daemon that runs with a live group, or a machine that was rebooted
\* since the file was written.
Init ==
  /\ \/ /\ host \in {"same", "unknown", "foreign"} /\ daemon = "up"
        /\ life = [i \in Process |-> IF i = lead THEN "live" ELSE "unborn"]
        /\ rec \in {"groups", "pending", "nostart", "legacy", "unreadable"}
        /\ rec = "groups" \/ host = "same"
        /\ lease = "daemon"
     \/ /\ host = "rebooted" /\ daemon = "crashed" /\ rec = "groups"
        /\ life = [i \in Process |-> IF i \in Own THEN "gone" ELSE "unborn"]
        /\ lease = None
  /\ left = {} /\ verdict = None /\ pidFile = "old"
  /\ at = "idle" /\ chk = "off" /\ mode = None /\ pass = "first"
  /\ lfd = NoProc /\ pins = {} /\ fresh = {} /\ todo = {} /\ opened = NoProc
  /\ emptied = FALSE /\ outcome = None /\ sent = {}
  /\ stop = "idle" /\ force = FALSE /\ answer = None /\ result = None
  /\ up = "idle" /\ signalled = {} /\ warned = FALSE

Next ==
  \/ \E i \in Process : Fork(i) \/ Exit(i) \/ Reap(i) \/ LeaveGroup(i) \/ Arrive(i)
  \/ Crash \/ (\E v \in {"verified", "unverified"} : DaemonEnds(v))
  \/ RecoveryStep
  \/ (\E f \in BOOLEAN : StopStarts(f)) \/ StopAsks \/ StopSignals
  \/ StopCleansUp \/ StopLeases \/ StopReads \/ StopConcludes
  \/ UpAcquires \/ UpResolves \/ UpConcludes \/ UpWrites

Spec == Init /\ [][Next]_vars

-----------------------------------------------------------------------------
(* Properties                                                              *)

\* Crash recovery signals only processes of the recorded group, although
\* numbers are reused between every two of its system calls (classify,
\* pinMembers, repin, signal).
OnlyOwnSignalled == signalled \subseteq Own

\* A stop that reports success left no member of the recorded group alive
\* (stopDaemon, stopDeadDaemon, RecoverGroups).
SuccessMeansGone == result = "ok" => OwnLive = {}

\* While a member of a recorded group lives and no daemon looks after it, the
\* record that names it is still there, or somebody was told that termination
\* is NOT verified.  A file without a record is the exception the code makes.
NobodyForgotten ==
  OwnLive # {} /\ daemon # "up" /\ pidFile # "old" /\ rec # "legacy" => warned

=============================================================================
