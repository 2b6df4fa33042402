------------------------------- MODULE Control -------------------------------
(***************************************************************************)
(* The daemon's control plane: the IPC server's command path, the          *)
(* runner's command loop, reload, and the way Run ends: sweep, teardown,   *)
(* publication of the verdict, the acknowledgement barrier, and the exit   *)
(* of main.  Sources: internal/runner/runner.go, reload.go, teardown.go,   *)
(* internal/ipc/server.go, client.go, and the stop client of helpers.go.   *)
(*                                                                         *)
(* Workers and process groups are modelled in Lifecycle and ProcessGroup;  *)
(* here their end is one step that may leave a problem in the verdict.     *)
(* The snapshot that precedes every command is modelled in Events.  The    *)
(* write of an acknowledgement is bounded by 2 s and the two waits for it  *)
(* by 10 s, so those two waits do not time out.                            *)
(***************************************************************************)
EXTENDS Naturals, Sequences, FiniteSets

CONSTANTS
  Client,      \* connections of command line clients
  Wants,       \* Wants[c]: the commands c may send
  Proc,        \* the processes of the running configuration
  Mode,        \* Mode[p]: "service", "task" or "teardown"
  Managed,     \* the selected ones, which have a procState
  Teardown,    \* the teardown processes in name order
  Files,       \* the configuration files a reload may find
  CmdCap       \* capacity of the command channel

\* The commands handleCommands knows.
Action == {"shutdown", "restart", "reload"}

\* How a process of the running configuration appears in a reloaded file;
\* "moved" stands for a changed mode or dependency list.
Edit == {"same", "changed", "removed", "moved"}

ASSUME ControlAssumption ==
  /\ "none" \notin Client
  /\ Wants \in [Client -> SUBSET Action]
  /\ Mode \in [Proc -> {"service", "task", "teardown"}]
  /\ Managed \subseteq {p \in Proc : Mode[p] # "teardown"}
  /\ Teardown \in Seq({p \in Proc : Mode[p] = "teardown"})
  /\ Files \subseteq [edits : [Proc -> Edit], added : BOOLEAN]
  /\ CmdCap \in Nat \ {0}

VARIABLES
  \* Run: its place, whether it is cancelled (which closes admission), what
  \* the sweep and the teardown phase found, the definitions teardown runs
  run, cancelled, outcome, torn, tdDef,
  \* the shutdown handle (stopCancel), the verdict channel, the barrier
  handle, verdictCh, holders, sealed,
  \* the command channel; the command loop and its locals
  cmdCh, loop, cur, res, diff, todo,
  \* the runner's configuration: a version of each definition
  cfg,
  \* per connection: the server's handler, the reply channel, the answer
  \* about to be written and the fate of that write; the client's place and
  \* what it was told
  serving, reply, ack, flushed, client, told,
  \* history: shutdown requests that took the barrier, and the ones whose
  \* answer was recorded in the journal
  accepted, journalled

runVars  == <<run, cancelled, outcome, torn, tdDef>>
stopVars == <<handle, verdictCh, holders, sealed>>
loopVars == <<cmdCh, loop, cur, res, diff, todo>>
connVars == <<serving, reply, ack, flushed, client, told>>
histVars == <<accepted, journalled>>
vars     == <<runVars, stopVars, loopVars, cfg, connVars, histVars>>

None == "none"
NoCommand == [client |-> None, action |-> None]

\* Answers of the runner.  "partial" is an unverified termination,
\* "teardown" a verified one whose teardown did not pass: the two kinds of
\* verdict that teardownOnly tells apart.
Result == {"ok", "partial", "teardown", "error"}
Answer == Result \cup {"busy", "timeout", "lost"}

Phase == {"up", "swept", "closing", "tearing", "end", "published",
          "draining", "returned", "exited"}

NoDiff == [edits |-> [p \in Proc |-> "same"], added |-> FALSE,
           base |-> [p \in Proc |-> 0]]

-----------------------------------------------------------------------------
(* The barrier.                                                            *)

\* Mutant of CanEnter: a late holder is not refused.
EnterSealed == TRUE

\* enter succeeds until the barrier is sealed.
CanEnter == ~sealed

\* leave of the last holder releases sealAndWait.
Drained == holders = 0

-----------------------------------------------------------------------------
(* Run, from the end of its workers to its return.                         *)

\* A signal, a failed process or an idle stack cancels the run.  Admission
\* (launchAdmissionClosedLocked) is closed from here on.
Cancel ==
  /\ run = "up" /\ ~cancelled
  /\ cancelled' = TRUE
  /\ UNCHANGED <<run, outcome, torn, tdDef, stopVars, loopVars,
                 cfg, connVars, histVars>>

\* All workers and checks are quiescent, the groups swept, the pending reaps
\* reported: termination is verified, or the cleanup was handed off before
\* it could be, or there is a problem.
Sweep ==
  /\ run = "up" /\ cancelled
  /\ run' = "swept"
  /\ outcome' \in {"verified", "handed_off", "problem"}
  /\ UNCHANGED <<cancelled, torn, tdDef, stopVars, loopVars, cfg, connVars,
                 histVars>>

\* runTeardown: the definitions are read before admission is looked at.
ReadTeardown ==
  /\ run = "swept"
  /\ tdDef' = cfg
  /\ run' = IF Teardown = <<>> THEN "end" ELSE "closing"
  /\ UNCHANGED <<cancelled, outcome, torn, stopVars, loopVars,
                 cfg, connVars, histVars>>

\* Teardown runs only once every managed process is verified gone.
SkipTeardown == outcome # "verified"

BeginTeardown ==
  /\ run = "closing"
  /\ IF SkipTeardown
     THEN /\ torn' = [i \in DOMAIN Teardown |-> "skipped"]
          /\ run' = "end"
     ELSE run' = "tearing" /\ UNCHANGED torn
  /\ UNCHANGED <<cancelled, outcome, tdDef, stopVars, loopVars,
                 cfg, connVars, histVars>>

\* runTeardownProcess, one at a time, in order.  "failed" stands for every
\* way not to pass: failed, timed out, handed off, not run.
RunTeardown ==
  /\ run = "tearing" /\ Len(torn) < Len(Teardown)
  /\ \E s \in {"passed", "failed"} : torn' = Append(torn, s)
  /\ UNCHANGED <<run, cancelled, outcome, tdDef, stopVars,
                 loopVars, cfg, connVars, histVars>>

\* The teardown phase seals its own groups and reports what it could not
\* terminate or reap.
SealTeardown ==
  /\ run = "tearing" /\ Len(torn) = Len(Teardown)
  /\ outcome' \in {"verified", "problem"}
  /\ run' = "end"
  /\ UNCHANGED <<cancelled, torn, tdDef, stopVars, loopVars, cfg,
                 connVars, histVars>>

\* Mutant of Verdict: a failed teardown hides an unverified termination.
TeardownHidesProblem ==
  IF \E i \in DOMAIN torn : torn[i] # "passed" THEN "teardown"
  ELSE IF outcome = "problem" THEN "partial" ELSE "ok"

\* ShutdownResult and TeardownError, joined.
Verdict == IF outcome = "problem" THEN "partial"
           ELSE IF \E i \in DOMAIN torn : torn[i] # "passed" THEN "teardown"
           ELSE "ok"

\* The run is cancelled, if it was not, its admission watcher and metrics
\* joined, and endRun publishes: the handle is withdrawn, the verdict buffered, stopped
\* closed.
Publish ==
  /\ run = "end"
  /\ run' = "published"
  /\ handle' = FALSE
  /\ verdictCh' = Verdict
  /\ UNCHANGED <<cancelled, outcome, torn, tdDef, holders, sealed,
                 loopVars, cfg, connVars, histVars>>

Seal ==
  /\ run = "published"
  /\ sealed' = TRUE
  /\ run' = "draining"
  /\ UNCHANGED <<cancelled, outcome, torn, tdDef, handle,
                 verdictCh, holders, loopVars, cfg, connVars, histVars>>

\* sealAndWait returns and Run with it.
Return ==
  /\ run = "draining" /\ Drained
  /\ run' = "returned"
  /\ UNCHANGED <<cancelled, outcome, torn, tdDef, stopVars,
                 loopVars, cfg, connVars, histVars>>

\* main: ipcServer.Shutdown, daemon.Cleanup, exit.  A client that is still
\* waiting reads the end of the stream.
Exit ==
  /\ run = "returned"
  /\ run' = "exited"
  /\ serving' = [c \in Client |-> "closed"]
  /\ told' = [c \in Client |-> IF client[c] = "asked" THEN "lost" ELSE told[c]]
  /\ client' = [c \in Client |-> IF client[c] = "asked" THEN "done"
                                 ELSE client[c]]
  /\ UNCHANGED <<cancelled, outcome, torn, tdDef, stopVars,
                 loopVars, cfg, reply, ack, flushed, histVars>>

-----------------------------------------------------------------------------
(* handleCommands: one command at a time.                                  *)

\* The result of the current command is known.
Finish(r) == loop' = "reply" /\ res' = r

\* select takes a command, when there is one ...
TakeCommand ==
  /\ loop = "select" /\ cmdCh # <<>>
  /\ cur' = Head(cmdCh)
  /\ cmdCh' = Tail(cmdCh)
  /\ loop' = Head(cmdCh).action
  /\ UNCHANGED <<res, diff, todo, runVars, stopVars, cfg, connVars, histVars>>

\* ... or sees commandsCtx, which ends when Run has returned.
LoopReturns ==
  /\ loop = "select" /\ run = "returned"
  /\ loop' = "returned"
  /\ UNCHANGED <<cmdCh, cur, res, diff, todo, runVars, stopVars, cfg,
                 connVars, histVars>>

\* "restart": unmanaged and task names are refused, and so is everything
\* once admission is closed.  What the request does is in Lifecycle.
RestartCommand(p) ==
  /\ loop = "restart"
  /\ Finish(IF p \in Managed /\ Mode[p] # "task" /\ ~cancelled
            THEN "ok" ELSE "error")
  /\ UNCHANGED <<cmdCh, cur, diff, todo, runVars, stopVars, cfg, connVars,
                 histVars>>

\* "reload": a file that cannot be loaded, or that changes a mode or a
\* dependency list, is refused before anything is replaced.
ReloadLoad ==
  /\ loop = "reload"
  /\ \/ Finish("error") /\ UNCHANGED <<diff, todo>>
     \/ \E f \in Files :
          /\ \A p \in Proc : f.edits[p] # "moved"
          /\ diff' = [edits |-> f.edits, added |-> f.added, base |-> cfg]
          /\ todo' = {p \in Proc : f.edits[p] = "changed"}
          /\ loop' = "apply" /\ UNCHANGED res
  /\ UNCHANGED <<cmdCh, cur, runVars, stopVars, cfg, connVars, histVars>>

Edited(e) == {p \in Proc : diff.edits[p] = e}

\* A changed task, and a service without a procState, is skipped.
Skipped(p) == Mode[p] = "task" \/ (Mode[p] = "service" /\ p \notin Managed)

\* Mutant of ReloadRefused: only restarts look at admission.
TeardownUnchecked(p) == Mode[p] = "service" /\ cancelled

\* Both kinds of replacement check admission in their critical section.
ReloadRefused(p) == cancelled

\* The changed processes one after the other, in any order; a refusal leaves
\* the ones already replaced.
ReloadApply(p) ==
  /\ loop = "apply" /\ p \in todo
  /\ IF Skipped(p)
     THEN todo' = todo \ {p} /\ UNCHANGED <<loop, res, cfg>>
     ELSE IF ReloadRefused(p)
     THEN Finish("error") /\ UNCHANGED <<todo, cfg>>
     ELSE /\ cfg' = [cfg EXCEPT ![p] = @ + 1]
          /\ todo' = todo \ {p}
          /\ UNCHANGED <<loop, res>>
  /\ UNCHANGED <<cmdCh, cur, diff, stopVars, runVars, connVars, histVars>>

\* Mutant of ReloadStatus: a skipped change is not mentioned.
StatusForgetsSkipped ==
  IF Edited("removed") # {} \/ diff.added THEN "partial" ELSE "ok"

\* The status Reload returns when it was not refused.
ReloadStatus ==
  IF \/ Edited("removed") # {} \/ diff.added
     \/ \E p \in Edited("changed") : Skipped(p)
  THEN "partial" ELSE "ok"

ReloadEnds ==
  /\ loop = "apply" /\ todo = {}
  /\ Finish(ReloadStatus)
  /\ UNCHANGED <<cmdCh, cur, diff, todo, runVars, stopVars, cfg, connVars,
                 histVars>>

\* "shutdown": the barrier is taken before the shutdown is requested.
EnterBarrier ==
  /\ loop = "shutdown"
  /\ IF CanEnter
     THEN /\ holders' = holders + 1
          /\ accepted' = accepted \cup {cur.client}
          /\ loop' = "request" /\ UNCHANGED res
     ELSE Finish("error") /\ UNCHANGED <<holders, accepted>>
  /\ UNCHANGED <<cmdCh, cur, diff, todo, handle, verdictCh, sealed, runVars,
                 cfg, connVars, journalled>>

\* Shutdown: without a handle no stack is running; otherwise admission is
\* closed and the run cancelled.
RequestShutdown ==
  /\ loop = "request"
  /\ IF handle
     THEN cancelled' = TRUE /\ loop' = "await" /\ UNCHANGED res
     ELSE Finish("error") /\ UNCHANGED cancelled
  /\ UNCHANGED <<run, outcome, torn, tdDef, cmdCh, cur, diff, todo,
                 stopVars, cfg, connVars, histVars>>

\* handleShutdown waits for stopped, then takes the buffered verdict.
AwaitVerdict ==
  /\ loop = "await" /\ ~handle /\ verdictCh # None
  /\ Finish(verdictCh)
  /\ verdictCh' = None
  /\ UNCHANGED <<cmdCh, cur, diff, todo, handle, holders, sealed, runVars,
                 cfg, connVars, histVars>>

\* shutdownAckTimeout passed, before the run ended or just as it did.
AwaitTimeout ==
  /\ loop = "await"
  /\ Finish("error")
  /\ UNCHANGED <<cmdCh, cur, diff, todo, runVars, stopVars, cfg, connVars,
                 histVars>>

\* Every command but a shutdown is done once the reply is sent, and so is a
\* shutdown that did not get the barrier.
Reply ==
  /\ loop = "reply"
  /\ reply' = [reply EXCEPT ![cur.client] = res]
  /\ IF cur.client \in accepted
     THEN loop' = "flush" /\ UNCHANGED cur
     ELSE loop' = "select" /\ cur' = NoCommand
  /\ res' = None /\ diff' = NoDiff /\ todo' = {}
  /\ UNCHANGED <<cmdCh, stopVars, runVars, cfg, serving, ack, flushed, client,
                 told, histVars>>

Undelivered == flushed[cur.client] = "failed"

\* WaitFlushed: an answer that was not delivered goes to the journal ...
Flush ==
  /\ loop = "flush" /\ flushed[cur.client] # "pending"
  /\ journalled' = IF Undelivered THEN journalled \cup {cur.client} ELSE journalled
  /\ loop' = "leave"
  /\ UNCHANGED <<cmdCh, cur, res, diff, todo, stopVars, runVars, cfg,
                 connVars, accepted>>

\* Mutant of Leave: an undelivered answer returns without leaving.
LeaveSkipped ==
  /\ loop = "leave"
  /\ holders' = IF Undelivered THEN holders ELSE holders - 1
  /\ loop' = "select" /\ cur' = NoCommand
  /\ UNCHANGED <<cmdCh, res, diff, todo, handle, verdictCh, sealed, runVars,
                 cfg, connVars, histVars>>

\* ... before the barrier is left.
Leave ==
  /\ loop = "leave"
  /\ holders' = holders - 1
  /\ loop' = "select" /\ cur' = NoCommand
  /\ UNCHANGED <<cmdCh, res, diff, todo, handle, verdictCh, sealed, runVars,
                 cfg, connVars, histVars>>

-----------------------------------------------------------------------------
(* The server's handler of one connection, and its client.                 *)

connRest == <<runVars, stopVars, loop, cur, res, diff, todo, cfg, histVars>>

\* A client that has read the snapshot sends a command.
Ask(c, a) ==
  /\ client[c] = "new"
  /\ client' = [client EXCEPT ![c] = "asked"]
  /\ serving' = [serving EXCEPT ![c] = a]
  /\ UNCHANGED <<cmdCh, reply, ack, flushed, told, connRest>>

\* handleCommand: forward the command, or answer "busy" at once.
Receive(c) ==
  /\ serving[c] \in Action
  /\ IF Len(cmdCh) < CmdCap
     THEN /\ cmdCh' = Append(cmdCh, [client |-> c, action |-> serving[c]])
          /\ serving' = [serving EXCEPT ![c] = "waiting"]
          /\ UNCHANGED ack
     ELSE /\ ack' = [ack EXCEPT ![c] = "busy"]
          /\ serving' = [serving EXCEPT ![c] = "writing"]
          /\ UNCHANGED cmdCh
  /\ UNCHANGED <<reply, flushed, client, told, connRest>>

TakeReply(c) ==
  /\ serving[c] = "waiting" /\ reply[c] # None
  /\ ack' = [ack EXCEPT ![c] = reply[c]]
  /\ reply' = [reply EXCEPT ![c] = None]
  /\ serving' = [serving EXCEPT ![c] = "writing"]
  /\ UNCHANGED <<cmdCh, flushed, client, told, connRest>>

\* replyTimeout: what the runner replies after this is never written.
ReplyTimeout(c) ==
  /\ serving[c] = "waiting"
  /\ ack' = [ack EXCEPT ![c] = "timeout"]
  /\ serving' = [serving EXCEPT ![c] = "writing"]
  /\ UNCHANGED <<cmdCh, reply, flushed, client, told, connRest>>

\* finish(nil) only for the runner's own answer.
Delivered(c) == ack[c] # "timeout"

\* The write attempt is over, whatever came of it.
Written(c, fate) ==
  /\ flushed' = [flushed EXCEPT ![c] = fate]
  /\ serving' = [serving EXCEPT ![c] = "closed"]
  /\ ack' = [ack EXCEPT ![c] = None]
  /\ UNCHANGED <<cmdCh, reply, connRest>>

\* writeAck succeeds and the client reads it.
WriteAck(c) ==
  /\ serving[c] = "writing" /\ client[c] = "asked"
  /\ told' = [told EXCEPT ![c] = ack[c]]
  /\ client' = [client EXCEPT ![c] = "done"]
  /\ Written(c, IF Delivered(c) THEN "written" ELSE "failed")

\* writeAck fails: the client is gone, or has not read for the deadline.
WriteFails(c) ==
  /\ serving[c] = "writing"
  /\ Written(c, "failed")
  /\ UNCHANGED <<client, told>>

\* The client's budget runs out, or the user interrupts it.
GiveUp(c) ==
  /\ client[c] = "asked"
  /\ client' = [client EXCEPT ![c] = "done"]
  /\ told' = [told EXCEPT ![c] = "lost"]
  /\ UNCHANGED <<cmdCh, serving, reply, ack, flushed, connRest>>

-----------------------------------------------------------------------------

Init ==
  /\ run = "up" /\ cancelled = FALSE
  /\ outcome = "verified" /\ torn = <<>>
  /\ cfg = [p \in Proc |-> 0] /\ tdDef = cfg
  /\ handle = TRUE /\ verdictCh = None /\ holders = 0 /\ sealed = FALSE
  /\ cmdCh = <<>> /\ loop = "select" /\ cur = NoCommand /\ res = None
  /\ diff = NoDiff /\ todo = {}
  /\ serving = [c \in Client |-> "none"]
  /\ reply = [c \in Client |-> None]
  /\ ack = [c \in Client |-> None]
  /\ flushed = [c \in Client |-> "pending"]
  /\ client = [c \in Client |-> "new"]
  /\ told = [c \in Client |-> None]
  /\ accepted = {} /\ journalled = {}

RunStep == \/ Sweep \/ ReadTeardown \/ BeginTeardown \/ RunTeardown
           \/ SealTeardown \/ Publish \/ Seal \/ Return \/ Exit

LoopStep ==
  \/ TakeCommand \/ LoopReturns
  \/ \E p \in Proc : RestartCommand(p) \/ ReloadApply(p)
  \/ ReloadLoad \/ ReloadEnds
  \/ EnterBarrier \/ RequestShutdown \/ AwaitVerdict \/ AwaitTimeout
  \/ Reply \/ Flush \/ Leave

ServerStep(c) == \/ Receive(c) \/ TakeReply(c) \/ ReplyTimeout(c)
                 \/ WriteAck(c) \/ WriteFails(c)

\* The daemon's goroutines are gone once it has exited; nothing moves then.
Up == run # "exited"

Next ==
  \/ Up /\ (Cancel \/ RunStep \/ LoopStep)
  \/ Up /\ \E c \in Client : 
       ServerStep(c) \/ (\E a \in Wants[c] : Ask(c, a)) \/ GiveUp(c)

Spec == Init /\ [][Next]_vars

\* The goroutines of Run, of the command loop and of each connection move
\* when they can.  Nothing is assumed of the clients or of a signal.
Fairness ==
  /\ WF_vars(Up /\ RunStep)
  /\ WF_vars(Up /\ LoopStep)
  /\ \A c \in Client : WF_vars(Up /\ ServerStep(c))

FairSpec == Spec /\ Fairness

-----------------------------------------------------------------------------
(* Properties                                                              *)

\* A stop client is told "ok" only when the run is over, nothing was left
\* unverified and every teardown command ran and passed; it is told of a
\* teardown failure alone only when termination was verified (endRun,
\* TeardownError, teardownOnly).
ToldTheTruth ==
  \A c \in accepted :
    /\ told[c] = "ok" =>
         /\ run \in {"published", "draining", "returned", "exited"}
         /\ outcome # "problem"
         /\ torn = [i \in DOMAIN Teardown |-> "passed"]
    /\ told[c] = "teardown" => outcome # "problem"

\* What the teardown phase runs is the configuration as the last reload
\* left it: no definition changes under it (Reload's admission checks).
TeardownIsCurrent ==
  run \notin {"up", "swept"} =>
    \A i \in DOMAIN Teardown : tdDef[Teardown[i]] = cfg[Teardown[i]]

\* A reload that is not refused replaces exactly the changed definitions
\* that can be replaced while the stack runs, although a shutdown may begin
\* between two of them; one answered "ok" leaves nothing of the file out.
ReloadHonest ==
  loop = "reply" /\ cur.action = "reload" =>
    LET Replaced == {p \in Proc : cfg[p] = diff.base[p] + 1}
    IN /\ res # "error" => Replaced = {p \in Edited("changed") : ~Skipped(p)}
       /\ res = "ok" => \A p \in Proc :
            diff.edits[p] = "same" \/ p \in Replaced

\* The promise of the shutdown acknowledgement (ackBarrier, WaitFlushed,
\* endRun): Run returns only after every accepted stop request has been
\* answered with the runner's own words or recorded in the journal.
AccountedFor == {c \in accepted : flushed[c] = "written"} \cup journalled
Promise == INSTANCE StopPromise WITH
             pending <- accepted \ AccountedFor,
             accounted <- AccountedFor,
             over <- run \in {"returned", "exited"}
KeepsPromise == Promise!Spec

\* A cancelled run ends whatever its clients do: the daemon never waits for
\* a handler that waits for it.
CancelledExits == cancelled ~> run = "exited"
=============================================================================
