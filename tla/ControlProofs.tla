---------------------------- MODULE ControlProofs ----------------------------
(***************************************************************************)
(* Proofs about Control: what a stop client is told, what a reload reports *)
(* and what teardown runs is true, and the control plane implements        *)
(* StopPromise, for any clients, processes, files and queue capacity.      *)
(***************************************************************************)
EXTENDS Control, TLAPS

-----------------------------------------------------------------------------
(* The inductive invariant *)

Command   == [client : Client, action : Action]
LoopPlace == {"select", "returned", "apply", "request", "await", "reply",
              "flush", "leave"} \cup Action

RunTypeOK ==
  /\ run \in Phase /\ cancelled \in BOOLEAN
  /\ outcome \in {"verified", "handed_off", "problem"}
  /\ torn \in Seq({"passed", "failed", "skipped"})
  /\ tdDef \in [Proc -> Nat] /\ cfg \in [Proc -> Nat]
  /\ handle \in BOOLEAN /\ verdictCh \in Result \cup {None}
  /\ holders \in Nat /\ sealed \in BOOLEAN

LoopTypeOK ==
  /\ cmdCh \in Seq(Command) /\ loop \in LoopPlace
  /\ cur \in Command \cup {NoCommand}
  /\ res \in Result \cup {None}
  /\ diff \in [edits : [Proc -> Edit], added : BOOLEAN, base : [Proc -> Nat]]
  /\ todo \in SUBSET Proc

ConnTypeOK ==
  /\ serving \in [Client -> Action \cup {"none", "waiting", "writing", "closed"}]
  /\ reply \in [Client -> Result \cup {None}]
  /\ ack \in [Client -> Answer \cup {None}]
  /\ flushed \in [Client -> {"pending", "written", "failed"}]
  /\ client \in [Client -> {"new", "asked", "done"}]
  /\ told \in [Client -> Answer \cup {None}]
  /\ accepted \in SUBSET Client /\ journalled \in SUBSET Client

TypeOK == RunTypeOK /\ LoopTypeOK /\ ConnTypeOK

\* The verdict is published from here on, and no longer changes.
Published == run \in {"published", "draining", "returned", "exited"}

\* The way of Run: admission is closed before the workers end, the barrier is
\* sealed after the verdict, every teardown command has a result at the end,
\* and the definitions that teardown read stay the ones in force.
RunInv ==
  /\ run # "up" => cancelled
  /\ sealed <=> run \in {"draining", "returned", "exited"}
  /\ run \in {"up", "swept", "closing"} => torn = <<>>
  /\ run = "tearing" => Len(torn) <= Len(Teardown)
  /\ run = "end" \/ Published => Len(torn) = Len(Teardown)
  /\ run \notin {"up", "swept"} => tdDef = cfg

\* The command in hand, and who asked for it.
LoopInv ==
  /\ loop \in {"select", "returned"} => cur = NoCommand
  /\ loop \notin {"select", "returned"} => cur \in Command
  /\ loop \in Action => cur.action = loop
  /\ loop = "apply" => cur.action = "reload"
  /\ loop \in {"request", "await"} => cur.action = "shutdown"
  /\ loop \in {"request", "await", "flush", "leave"} => cur.client \in accepted
  /\ loop \in Action \cup {"apply"} => cur.client \notin accepted

Queued(c)   == \E i \in 1..Len(cmdCh) : cmdCh[i].client = c
Unqueued(c) == client[c] = "new" \/ serving[c] \in Action
InFlight(c) == Queued(c) \/ (cur.client = c /\ loop \notin {"flush", "leave"})

\* A connection carries one command, which is in one place at a time; while
\* it is on its way the client has not been told anything by the runner.
ConnAt(c) ==
  /\ client[c] = "new" => serving[c] \in {"none", "closed"}
  /\ Unqueued(c) => /\ ~Queued(c) /\ cur.client # c /\ c \notin accepted
                    /\ reply[c] = None /\ ack[c] = None
                    /\ told[c] \in {None, "lost"} /\ flushed[c] = "pending"
  /\ Queued(c) => cur.client # c /\ c \notin accepted
  /\ InFlight(c) => /\ reply[c] = None /\ ack[c] \in {None, "timeout"}
                    /\ told[c] \in {None, "lost", "timeout"}
                    /\ flushed[c] # "written"
  /\ serving[c] = "waiting" => flushed[c] = "pending"
  /\ serving[c] = "writing" => flushed[c] = "pending" /\ ack[c] # None
ConnInv ==
  /\ \A c \in Client : ConnAt(c)
  /\ \A i, j \in 1..Len(cmdCh) : cmdCh[i].client = cmdCh[j].client => i = j

\* The barrier is held for the stop request in hand, and only that request
\* may be unaccounted for.
Holding == \/ loop \in {"request", "await", "flush", "leave"}
           \/ loop = "reply" /\ cur.client \in accepted
PromiseInv ==
  /\ holders = IF Holding THEN 1 ELSE 0
  /\ \A c \in accepted : \/ c \in AccountedFor
                         \/ cur.client = c /\ loop \in {"request", "await", "reply", "flush"}
  /\ \A c \in journalled : c \in accepted /\ flushed[c] = "failed"

\* An answer that is true of the published verdict, or claims nothing.
Warranted(r) ==
  /\ r = "ok" => /\ Published /\ outcome # "problem"
                 /\ torn = [i \in DOMAIN Teardown |-> "passed"]
  /\ r = "teardown" => Published /\ outcome # "problem"
TruthInv ==
  /\ Warranted(verdictCh)
  /\ loop = "reply" /\ cur.client \in accepted => Warranted(res)
  /\ \A c \in accepted : Warranted(reply[c]) /\ Warranted(ack[c]) /\ Warranted(told[c])

\* How far a reload has come: the definitions it has dealt with are replaced,
\* or skipped, and the others as it found them.
Applied(p) == p \in Edited("changed") \ todo /\ ~Skipped(p)
ReloadInv ==
  /\ loop = "apply" \/ (loop = "reply" /\ cur.action = "reload" /\ res # "error") =>
       /\ todo \subseteq Edited("changed") /\ Edited("moved") = {}
       /\ \A p \in Proc : cfg[p] = IF Applied(p) THEN diff.base[p] + 1 ELSE diff.base[p]
  /\ loop = "reply" /\ cur.action = "reload" /\ res # "error" =>
       todo = {} /\ res = ReloadStatus

IndInv == TypeOK /\ RunInv /\ LoopInv /\ ConnInv /\ PromiseInv /\ TruthInv /\ ReloadInv

-----------------------------------------------------------------------------
(* Sequences and commands *)

\* What Head, Tail and Append do to the command channel.
LEMMA ChannelFacts ==
  ASSUME NEW S, NEW q \in Seq(S)
  PROVE  /\ Len(q) \in Nat /\ \A i \in 1..Len(q) : q[i] \in S
         /\ q # <<>> => /\ Head(q) = q[1] /\ Len(q) > 0 /\ Head(q) \in S
                        /\ Tail(q) \in Seq(S) /\ Len(Tail(q)) = Len(q) - 1
                        /\ \A i \in 1..Len(q) - 1 : Tail(q)[i] = q[i + 1]
         /\ \A x \in S : /\ Append(q, x) \in Seq(S)
                         /\ Len(Append(q, x)) = Len(q) + 1
                         /\ Append(q, x)[Len(q) + 1] = x
                         /\ \A i \in 1..Len(q) : Append(q, x)[i] = q[i]
OBVIOUS

-----------------------------------------------------------------------------
(* Types *)

\* The types of Run's own variables and of the barrier.
LEMMA RunTypeNext ==
  ASSUME TypeOK, LoopInv, PromiseInv, [Next]_vars
  PROVE  RunTypeOK'
<1> USE ControlAssumption DEF TypeOK, RunTypeOK, Phase, Result, None
<1>1. CASE Cancel
  BY <1>1 DEF Cancel, stopVars, loopVars, connVars, histVars
<1>2. CASE RunStep
  <2>1. CASE Sweep
    BY <2>1 DEF Sweep, stopVars, loopVars, connVars, histVars
  <2>2. CASE ReadTeardown
    BY <2>2 DEF ReadTeardown, stopVars, loopVars, connVars, histVars
  <2>3. CASE BeginTeardown
    BY <2>3 DEF BeginTeardown, stopVars, loopVars, connVars, histVars
  <2>4. CASE RunTeardown
    <3>1. PICK s \in {"passed", "failed"} : torn' = Append(torn, s)
      BY <2>4 DEF RunTeardown
    <3>2. torn' \in Seq({"passed", "failed", "skipped"})
      BY <3>1, ChannelFacts
    <3> QED  BY <2>4, <3>2 DEF RunTeardown, stopVars
  <2>5. CASE SealTeardown
    BY <2>5 DEF SealTeardown, stopVars, loopVars, connVars, histVars
  <2>6. CASE Publish
    BY <2>6 DEF Publish, Verdict, loopVars, connVars, histVars
  <2>7. CASE Seal
    BY <2>7 DEF Seal, loopVars, connVars, histVars
  <2>8. CASE Return
    BY <2>8 DEF Return, Drained, stopVars, loopVars, connVars, histVars
  <2>9. CASE Exit
    BY <2>9 DEF Exit, stopVars, loopVars, histVars
  <2> QED  BY <1>2, <2>1, <2>2, <2>3, <2>4, <2>5, <2>6, <2>7, <2>8, <2>9 DEF
    RunStep
<1>3. CASE LoopStep
  <2>1. CASE TakeCommand
    BY <2>1 DEF TakeCommand, runVars, stopVars, connVars, histVars
  <2>2. CASE LoopReturns
    BY <2>2 DEF LoopReturns, runVars, stopVars, connVars, histVars
  <2>3. ASSUME NEW p \in Proc, RestartCommand(p) PROVE RunTypeOK'
    BY <2>3 DEF RestartCommand, Finish, runVars, stopVars, connVars, histVars
  <2>4. ASSUME NEW p \in Proc, ReloadApply(p) PROVE RunTypeOK'
    <3>1. UNCHANGED <<run, cancelled, outcome, torn, tdDef, handle, verdictCh,
                      holders, sealed>>
      BY <2>4 DEF ReloadApply, runVars, stopVars
    <3>2. cfg' = cfg \/ cfg' = [cfg EXCEPT ![p] = cfg[p] + 1]
      BY <2>4 DEF ReloadApply
    <3>3. cfg' \in [Proc -> Nat]
      <4>1. cfg \in [Proc -> Nat] /\ cfg[p] + 1 \in Nat
        OBVIOUS
      <4> QED  BY ONLY <3>2, <4>1
    <3> QED  BY <3>1, <3>3
  <2>5. CASE ReloadLoad
    BY <2>5 DEF ReloadLoad, Finish, runVars, stopVars, connVars, histVars
  <2>6. CASE ReloadEnds
    BY <2>6 DEF ReloadEnds, Finish, runVars, stopVars, connVars, histVars
  <2>7. CASE EnterBarrier
    BY <2>7 DEF EnterBarrier, CanEnter, Finish, runVars, connVars
  <2>8. CASE RequestShutdown
    BY <2>8 DEF RequestShutdown, Finish, stopVars, connVars, histVars
  <2>9. CASE AwaitVerdict
    BY <2>9 DEF AwaitVerdict, Finish, runVars, connVars, histVars
  <2>10. CASE AwaitTimeout
    BY <2>10 DEF AwaitTimeout, Finish, runVars, stopVars, connVars, histVars
  <2>11. CASE Reply
    BY <2>11 DEF Reply, runVars, stopVars, histVars
  <2>12. CASE Flush
    BY <2>12 DEF Flush, Undelivered, runVars, stopVars, connVars
  <2>13. CASE Leave
    <3>1. holders = 1
      BY <2>13 DEF Leave, PromiseInv, Holding
    <3> QED  BY <2>13, <3>1 DEF Leave, runVars
  <2> QED  BY <1>3, <2>1, <2>2, <2>3, <2>4, <2>5, <2>6, <2>7, <2>8, <2>9, <2>10,
    <2>11, <2>12, <2>13 DEF LoopStep
<1>4. ASSUME NEW c \in Client, ServerStep(c) PROVE RunTypeOK'
  <2>1. CASE Receive(c)
    BY <2>1 DEF Receive, connRest, runVars, stopVars, histVars
  <2>2. CASE TakeReply(c)
    BY <2>2 DEF TakeReply, connRest, runVars, stopVars, histVars
  <2>3. CASE ReplyTimeout(c)
    BY <2>3 DEF ReplyTimeout, connRest, runVars, stopVars, histVars
  <2>4. CASE WriteAck(c)
    BY <2>4 DEF WriteAck, Written, Delivered, connRest, runVars, stopVars,
      histVars
  <2>5. CASE WriteFails(c)
    BY <2>5 DEF WriteFails, Written, connRest, runVars, stopVars, histVars
  <2> QED  BY <1>4, <2>1, <2>2, <2>3, <2>4, <2>5 DEF ServerStep
<1>5. ASSUME NEW c \in Client, NEW a \in Wants[c], Ask(c, a) PROVE RunTypeOK'
  BY <1>5 DEF Ask, connRest, runVars, stopVars, histVars
<1>6. ASSUME NEW c \in Client, GiveUp(c) PROVE RunTypeOK'
  BY <1>6 DEF GiveUp, connRest, runVars, stopVars, histVars
<1>7. CASE UNCHANGED vars
  BY <1>7 DEF vars, runVars, stopVars, loopVars, connVars, histVars
<1> QED  BY <1>1, <1>2, <1>3, <1>4, <1>5, <1>6, <1>7 DEF Next

\* The types of the command loop's variables.
LEMMA LoopTypeNext ==
  ASSUME TypeOK, LoopInv, [Next]_vars
  PROVE  LoopTypeOK'
<1> USE ControlAssumption DEF TypeOK, RunTypeOK, LoopTypeOK, LoopPlace, Action,
  Command, Result, None, NoCommand, Edit
<1>1. CASE Cancel
  BY <1>1 DEF Cancel, stopVars, loopVars, connVars, histVars
<1>2. CASE RunStep
  <2>1. CASE Sweep
    BY <2>1 DEF Sweep, stopVars, loopVars, connVars, histVars
  <2>2. CASE ReadTeardown
    BY <2>2 DEF ReadTeardown, stopVars, loopVars, connVars, histVars
  <2>3. CASE BeginTeardown
    BY <2>3 DEF BeginTeardown, stopVars, loopVars, connVars, histVars
  <2>4. CASE RunTeardown
    BY <2>4 DEF RunTeardown, stopVars, loopVars, connVars, histVars
  <2>5. CASE SealTeardown
    BY <2>5 DEF SealTeardown, stopVars, loopVars, connVars, histVars
  <2>6. CASE Publish
    BY <2>6 DEF Publish, loopVars, connVars, histVars
  <2>7. CASE Seal
    BY <2>7 DEF Seal, loopVars, connVars, histVars
  <2>8. CASE Return
    BY <2>8 DEF Return, Drained, stopVars, loopVars, connVars, histVars
  <2>9. CASE Exit
    BY <2>9 DEF Exit, stopVars, loopVars, histVars
  <2> QED  BY <1>2, <2>1, <2>2, <2>3, <2>4, <2>5, <2>6, <2>7, <2>8, <2>9 DEF
    RunStep
<1>3. CASE LoopStep
  <2>1. CASE TakeCommand
    <3>1. /\ cur' = Head(cmdCh) /\ cmdCh' = Tail(cmdCh) /\ loop' = Head(cmdCh).action
          /\ cmdCh # <<>> /\ UNCHANGED <<res, diff, todo>>
      BY <2>1 DEF TakeCommand
    <3>2. Head(cmdCh) \in Command /\ Tail(cmdCh) \in Seq(Command)
      <4> HIDE DEF Command
      <4> QED  BY <3>1, ChannelFacts
    <3> QED  BY <3>1, <3>2
  <2>2. CASE LoopReturns
    BY <2>2 DEF LoopReturns, runVars, stopVars, connVars, histVars
  <2>3. ASSUME NEW p \in Proc, RestartCommand(p) PROVE LoopTypeOK'
    BY <2>3 DEF RestartCommand, Finish, runVars, stopVars, connVars, histVars
  <2>4. ASSUME NEW p \in Proc, ReloadApply(p) PROVE LoopTypeOK'
    BY <2>4 DEF ReloadApply, Finish, runVars, stopVars, connVars, histVars
  <2>5. CASE ReloadLoad
    BY <2>5 DEF ReloadLoad, Finish, runVars, stopVars, connVars, histVars
  <2>6. CASE ReloadEnds
    BY <2>6 DEF ReloadEnds, Finish, ReloadStatus, runVars, stopVars, connVars,
      histVars
  <2>7. CASE EnterBarrier
    BY <2>7 DEF EnterBarrier, CanEnter, Finish, runVars, connVars
  <2>8. CASE RequestShutdown
    BY <2>8 DEF RequestShutdown, Finish, stopVars, connVars, histVars
  <2>9. CASE AwaitVerdict
    BY <2>9 DEF AwaitVerdict, Finish, runVars, connVars, histVars
  <2>10. CASE AwaitTimeout
    BY <2>10 DEF AwaitTimeout, Finish, runVars, stopVars, connVars, histVars
  <2>11. CASE Reply
    BY <2>11 DEF Reply, NoDiff, runVars, stopVars, histVars
  <2>12. CASE Flush
    BY <2>12 DEF Flush, Undelivered, runVars, stopVars, connVars
  <2>13. CASE Leave
    BY <2>13 DEF Leave, runVars, connVars, histVars
  <2> QED  BY <1>3, <2>1, <2>2, <2>3, <2>4, <2>5, <2>6, <2>7, <2>8, <2>9, <2>10,
    <2>11, <2>12, <2>13 DEF LoopStep
<1>4. ASSUME NEW c \in Client, ServerStep(c) PROVE LoopTypeOK'
  <2>1. CASE Receive(c)
    <3>1. /\ serving[c] \in Action /\ UNCHANGED <<loop, cur, res, diff, todo>>
          /\ \/ cmdCh' = Append(cmdCh, [client |-> c, action |-> serving[c]])
             \/ UNCHANGED cmdCh
      BY <2>1 DEF Receive, connRest
    <3>2. [client |-> c, action |-> serving[c]] \in Command
      BY <3>1
    <3>3. cmdCh' \in Seq(Command)
      <4> HIDE DEF Command
      <4>1. \A x \in Command : Append(cmdCh, x) \in Seq(Command)
        BY ChannelFacts
      <4> QED  BY <3>1, <3>2, <4>1
    <3> QED  BY <3>1, <3>3
  <2>2. CASE TakeReply(c)
    BY <2>2 DEF TakeReply, connRest, runVars, stopVars, histVars
  <2>3. CASE ReplyTimeout(c)
    BY <2>3 DEF ReplyTimeout, connRest, runVars, stopVars, histVars
  <2>4. CASE WriteAck(c)
    BY <2>4 DEF WriteAck, Written, Delivered, connRest, runVars, stopVars,
      histVars
  <2>5. CASE WriteFails(c)
    BY <2>5 DEF WriteFails, Written, connRest, runVars, stopVars, histVars
  <2> QED  BY <1>4, <2>1, <2>2, <2>3, <2>4, <2>5 DEF ServerStep
<1>5. ASSUME NEW c \in Client, NEW a \in Wants[c], Ask(c, a) PROVE LoopTypeOK'
  BY <1>5 DEF Ask, connRest, runVars, stopVars, histVars
<1>6. ASSUME NEW c \in Client, GiveUp(c) PROVE LoopTypeOK'
  BY <1>6 DEF GiveUp, connRest, runVars, stopVars, histVars
<1>7. CASE UNCHANGED vars
  BY <1>7 DEF vars, runVars, stopVars, loopVars, connVars, histVars
<1> QED  BY <1>1, <1>2, <1>3, <1>4, <1>5, <1>6, <1>7 DEF Next

\* The types of the connections and of the history.
LEMMA ConnTypeNext ==
  ASSUME TypeOK, LoopInv, [Next]_vars
  PROVE  ConnTypeOK'
<1> USE ControlAssumption DEF TypeOK, LoopTypeOK, ConnTypeOK, LoopInv, Action,
  Command, Result, Answer, None
<1>1. CASE Cancel
  BY <1>1 DEF Cancel, stopVars, loopVars, connVars, histVars
<1>2. CASE RunStep
  <2>1. CASE Sweep
    BY <2>1 DEF Sweep, stopVars, loopVars, connVars, histVars
  <2>2. CASE ReadTeardown
    BY <2>2 DEF ReadTeardown, stopVars, loopVars, connVars, histVars
  <2>3. CASE BeginTeardown
    BY <2>3 DEF BeginTeardown, stopVars, loopVars, connVars, histVars
  <2>4. CASE RunTeardown
    BY <2>4 DEF RunTeardown, stopVars, loopVars, connVars, histVars
  <2>5. CASE SealTeardown
    BY <2>5 DEF SealTeardown, stopVars, loopVars, connVars, histVars
  <2>6. CASE Publish
    BY <2>6 DEF Publish, loopVars, connVars, histVars
  <2>7. CASE Seal
    BY <2>7 DEF Seal, loopVars, connVars, histVars
  <2>8. CASE Return
    BY <2>8 DEF Return, Drained, stopVars, loopVars, connVars, histVars
  <2>9. CASE Exit
    BY <2>9 DEF Exit, stopVars, loopVars, histVars
  <2> QED  BY <1>2, <2>1, <2>2, <2>3, <2>4, <2>5, <2>6, <2>7, <2>8, <2>9 DEF
    RunStep
<1>3. CASE LoopStep
  <2>1. CASE TakeCommand
    BY <2>1 DEF TakeCommand, runVars, stopVars, connVars, histVars
  <2>2. CASE LoopReturns
    BY <2>2 DEF LoopReturns, runVars, stopVars, connVars, histVars
  <2>3. ASSUME NEW p \in Proc, RestartCommand(p) PROVE ConnTypeOK'
    BY <2>3 DEF RestartCommand, Finish, runVars, stopVars, connVars, histVars
  <2>4. ASSUME NEW p \in Proc, ReloadApply(p) PROVE ConnTypeOK'
    BY <2>4 DEF ReloadApply, Finish, runVars, stopVars, connVars, histVars
  <2>5. CASE ReloadLoad
    BY <2>5 DEF ReloadLoad, Finish, runVars, stopVars, connVars, histVars
  <2>6. CASE ReloadEnds
    BY <2>6 DEF ReloadEnds, Finish, runVars, stopVars, connVars, histVars
  <2>7. CASE EnterBarrier
    BY <2>7 DEF EnterBarrier, CanEnter, Finish, runVars, connVars
  <2>8. CASE RequestShutdown
    BY <2>8 DEF RequestShutdown, Finish, stopVars, connVars, histVars
  <2>9. CASE AwaitVerdict
    BY <2>9 DEF AwaitVerdict, Finish, runVars, connVars, histVars
  <2>10. CASE AwaitTimeout
    BY <2>10 DEF AwaitTimeout, Finish, runVars, stopVars, connVars, histVars
  <2>11. CASE Reply
    BY <2>11 DEF Reply, runVars, stopVars, histVars
  <2>12. CASE Flush
    BY <2>12 DEF Flush, Undelivered, runVars, stopVars, connVars
  <2>13. CASE Leave
    BY <2>13 DEF Leave, runVars, connVars, histVars
  <2> QED  BY <1>3, <2>1, <2>2, <2>3, <2>4, <2>5, <2>6, <2>7, <2>8, <2>9, <2>10,
    <2>11, <2>12, <2>13 DEF LoopStep
<1>4. ASSUME NEW c \in Client, ServerStep(c) PROVE ConnTypeOK'
  <2>1. CASE Receive(c)
    <3>1. /\ UNCHANGED <<reply, flushed, client, told, accepted, journalled>>
          /\ \/ serving' = [serving EXCEPT ![c] = "waiting"] /\ UNCHANGED ack
             \/ /\ serving' = [serving EXCEPT ![c] = "writing"]
                /\ ack' = [ack EXCEPT ![c] = "busy"]
      BY <2>1 DEF Receive, connRest, histVars
    <3> QED  BY <3>1
  <2>2. CASE TakeReply(c)
    BY <2>2 DEF TakeReply, connRest, runVars, stopVars, histVars
  <2>3. CASE ReplyTimeout(c)
    BY <2>3 DEF ReplyTimeout, connRest, runVars, stopVars, histVars
  <2>4. CASE WriteAck(c)
    BY <2>4 DEF WriteAck, Written, Delivered, connRest, runVars, stopVars,
      histVars
  <2>5. CASE WriteFails(c)
    BY <2>5 DEF WriteFails, Written, connRest, runVars, stopVars, histVars
  <2> QED  BY <1>4, <2>1, <2>2, <2>3, <2>4, <2>5 DEF ServerStep
<1>5. ASSUME NEW c \in Client, NEW a \in Wants[c], Ask(c, a) PROVE ConnTypeOK'
  BY <1>5 DEF Ask, connRest, runVars, stopVars, histVars
<1>6. ASSUME NEW c \in Client, GiveUp(c) PROVE ConnTypeOK'
  BY <1>6 DEF GiveUp, connRest, runVars, stopVars, histVars
<1>7. CASE UNCHANGED vars
  BY <1>7 DEF vars, connVars, histVars
<1> QED  BY <1>1, <1>2, <1>3, <1>4, <1>5, <1>6, <1>7 DEF Next

-----------------------------------------------------------------------------
(* Run *)

\* Run keeps its order, and a definition is replaced only before it is over:
\* Reload looks at admission in the critical section of the replacement.
LEMMA RunNext ==
  ASSUME TypeOK, RunInv, [Next]_vars
  PROVE  RunInv'
<1> USE ControlAssumption DEF TypeOK, RunTypeOK, Phase, RunInv, Published
<1>1. CASE Cancel
  BY <1>1 DEF Cancel, stopVars, loopVars, connVars, histVars
<1>2. CASE RunStep
  <2>1. CASE Sweep
    BY <2>1 DEF Sweep, stopVars, loopVars, connVars, histVars
  <2>2. CASE ReadTeardown
    BY <2>2 DEF ReadTeardown, stopVars, loopVars, connVars, histVars
  <2>3. CASE BeginTeardown
    <3>1. /\ run = "closing" /\ torn = <<>> /\ UNCHANGED <<cancelled, sealed, tdDef, cfg>>
          /\ \/ run' = "end" /\ torn' = [i \in DOMAIN Teardown |-> "skipped"]
             \/ run' = "tearing" /\ torn' = torn
      BY <2>3 DEF BeginTeardown, stopVars
    <3>2. Len([i \in DOMAIN Teardown |-> "skipped"]) = Len(Teardown)
      BY ChannelFacts
    <3> QED  BY <3>1, <3>2, ChannelFacts
  <2>4. CASE RunTeardown
    <3>1. /\ run = "tearing" /\ Len(torn) < Len(Teardown) /\ Len(torn') = Len(torn) + 1
          /\ UNCHANGED <<run, cancelled, outcome, tdDef, sealed, cfg>>
      BY <2>4, ChannelFacts DEF RunTeardown, stopVars
    <3>2. Len(torn) \in Nat /\ Len(Teardown) \in Nat
      BY ChannelFacts
    <3> QED  BY <3>1, <3>2
  <2>5. CASE SealTeardown
    BY <2>5 DEF SealTeardown, stopVars, loopVars, connVars, histVars
  <2>6. CASE Publish
    BY <2>6 DEF Publish, loopVars, connVars, histVars
  <2>7. CASE Seal
    BY <2>7 DEF Seal, loopVars, connVars, histVars
  <2>8. CASE Return
    BY <2>8 DEF Return, Drained, stopVars, loopVars, connVars, histVars
  <2>9. CASE Exit
    BY <2>9 DEF Exit, stopVars, loopVars, histVars
  <2> QED  BY <1>2, <2>1, <2>2, <2>3, <2>4, <2>5, <2>6, <2>7, <2>8, <2>9 DEF
    RunStep
<1>3. CASE LoopStep
  <2>1. CASE TakeCommand
    BY <2>1 DEF TakeCommand, runVars, stopVars, connVars, histVars
  <2>2. CASE LoopReturns
    BY <2>2 DEF LoopReturns, runVars, stopVars, connVars, histVars
  <2>3. ASSUME NEW p \in Proc, RestartCommand(p) PROVE RunInv'
    BY <2>3 DEF RestartCommand, Finish, runVars, stopVars, connVars, histVars
  <2>4. ASSUME NEW p \in Proc, ReloadApply(p) PROVE RunInv'
    <3>1. UNCHANGED <<run, cancelled, torn, tdDef, sealed>>
      BY <2>4 DEF ReloadApply, runVars, stopVars
    <3>2. cancelled => cfg' = cfg
      BY <2>4 DEF ReloadApply, ReloadRefused
    <3> QED  BY <3>1, <3>2
  <2>5. CASE ReloadLoad
    BY <2>5 DEF ReloadLoad, Finish, runVars, stopVars, connVars, histVars
  <2>6. CASE ReloadEnds
    BY <2>6 DEF ReloadEnds, Finish, runVars, stopVars, connVars, histVars
  <2>7. CASE EnterBarrier
    BY <2>7 DEF EnterBarrier, CanEnter, Finish, runVars, connVars
  <2>8. CASE RequestShutdown
    BY <2>8 DEF RequestShutdown, Finish, stopVars, connVars, histVars
  <2>9. CASE AwaitVerdict
    BY <2>9 DEF AwaitVerdict, Finish, runVars, connVars, histVars
  <2>10. CASE AwaitTimeout
    BY <2>10 DEF AwaitTimeout, Finish, runVars, stopVars, connVars, histVars
  <2>11. CASE Reply
    BY <2>11 DEF Reply, runVars, stopVars, histVars
  <2>12. CASE Flush
    BY <2>12 DEF Flush, Undelivered, runVars, stopVars, connVars
  <2>13. CASE Leave
    BY <2>13 DEF Leave, runVars, connVars, histVars
  <2> QED  BY <1>3, <2>1, <2>2, <2>3, <2>4, <2>5, <2>6, <2>7, <2>8, <2>9, <2>10,
    <2>11, <2>12, <2>13 DEF LoopStep
<1>4. ASSUME NEW c \in Client, ServerStep(c) PROVE RunInv'
  <2>1. CASE Receive(c)
    BY <2>1 DEF Receive, connRest, runVars, stopVars, histVars
  <2>2. CASE TakeReply(c)
    BY <2>2 DEF TakeReply, connRest, runVars, stopVars, histVars
  <2>3. CASE ReplyTimeout(c)
    BY <2>3 DEF ReplyTimeout, connRest, runVars, stopVars, histVars
  <2>4. CASE WriteAck(c)
    BY <2>4 DEF WriteAck, Written, Delivered, connRest, runVars, stopVars,
      histVars
  <2>5. CASE WriteFails(c)
    BY <2>5 DEF WriteFails, Written, connRest, runVars, stopVars, histVars
  <2> QED  BY <1>4, <2>1, <2>2, <2>3, <2>4, <2>5 DEF ServerStep
<1>5. ASSUME NEW c \in Client, NEW a \in Wants[c], Ask(c, a) PROVE RunInv'
  BY <1>5 DEF Ask, connRest, runVars, stopVars, histVars
<1>6. ASSUME NEW c \in Client, GiveUp(c) PROVE RunInv'
  BY <1>6 DEF GiveUp, connRest, runVars, stopVars, histVars
<1>7. CASE UNCHANGED vars
  BY <1>7 DEF vars, runVars, stopVars, loopVars, connVars, histVars
<1> QED  BY <1>1, <1>2, <1>3, <1>4, <1>5, <1>6, <1>7 DEF Next


-----------------------------------------------------------------------------
(* The command loop and the connections *)


\* The command that handleCommands takes is of a client whose request was not
\* accepted before.
LEMMA TakenCommand ==
  ASSUME TypeOK, ConnInv, TakeCommand
  PROVE  /\ cur' = Head(cmdCh) /\ cur' \in Command /\ loop' = cur'.action
         /\ loop' \in Action /\ cur'.client \notin accepted
<1> USE DEF TypeOK, LoopTypeOK, ConnTypeOK
<1>1. /\ cur' = Head(cmdCh) /\ loop' = cur'.action /\ cmdCh # <<>>
  BY DEF TakeCommand
<1>2. cur' \in Command /\ cur' = cmdCh[1] /\ Len(cmdCh) > 0 /\ Len(cmdCh) \in Nat
  BY <1>1, ChannelFacts
<1>3. cur'.client \notin accepted
  BY <1>2 DEF ConnInv, ConnAt, Queued, Command
<1> QED  BY <1>1, <1>2, <1>3 DEF Command

\* The loop knows the command in hand until it has replied, and holds the
\* barrier for nobody else.
LEMMA LoopNext ==
  ASSUME TypeOK, LoopInv, ConnInv, [Next]_vars
  PROVE  LoopInv'
<1> USE ControlAssumption DEF TypeOK, LoopTypeOK, LoopPlace, LoopInv, Action,
  Command, NoCommand, None
<1>1. CASE Cancel
  BY <1>1 DEF Cancel, stopVars, loopVars, connVars, histVars
<1>2. CASE RunStep
  <2>1. CASE Sweep
    BY <2>1 DEF Sweep, stopVars, loopVars, connVars, histVars
  <2>2. CASE ReadTeardown
    BY <2>2 DEF ReadTeardown, stopVars, loopVars, connVars, histVars
  <2>3. CASE BeginTeardown
    BY <2>3 DEF BeginTeardown, stopVars, loopVars, connVars, histVars
  <2>4. CASE RunTeardown
    BY <2>4 DEF RunTeardown, stopVars, loopVars, connVars, histVars
  <2>5. CASE SealTeardown
    BY <2>5 DEF SealTeardown, stopVars, loopVars, connVars, histVars
  <2>6. CASE Publish
    BY <2>6 DEF Publish, loopVars, connVars, histVars
  <2>7. CASE Seal
    BY <2>7 DEF Seal, loopVars, connVars, histVars
  <2>8. CASE Return
    BY <2>8 DEF Return, Drained, stopVars, loopVars, connVars, histVars
  <2>9. CASE Exit
    BY <2>9 DEF Exit, stopVars, loopVars, histVars
  <2> QED  BY <1>2, <2>1, <2>2, <2>3, <2>4, <2>5, <2>6, <2>7, <2>8, <2>9 DEF
    RunStep
<1>3. CASE LoopStep
  <2>1. CASE TakeCommand
    BY <2>1, TakenCommand DEF TakeCommand, histVars
  <2>2. CASE LoopReturns
    BY <2>2 DEF LoopReturns, runVars, stopVars, connVars, histVars
  <2>3. ASSUME NEW p \in Proc, RestartCommand(p) PROVE LoopInv'
    BY <2>3 DEF RestartCommand, Finish, runVars, stopVars, connVars, histVars
  <2>4. ASSUME NEW p \in Proc, ReloadApply(p) PROVE LoopInv'
    BY <2>4 DEF ReloadApply, Finish, runVars, stopVars, connVars, histVars
  <2>5. CASE ReloadLoad
    BY <2>5 DEF ReloadLoad, Finish, runVars, stopVars, connVars, histVars
  <2>6. CASE ReloadEnds
    BY <2>6 DEF ReloadEnds, Finish, runVars, stopVars, connVars, histVars
  <2>7. CASE EnterBarrier
    BY <2>7 DEF EnterBarrier, CanEnter, Finish, runVars, connVars
  <2>8. CASE RequestShutdown
    BY <2>8 DEF RequestShutdown, Finish, stopVars, connVars, histVars
  <2>9. CASE AwaitVerdict
    BY <2>9 DEF AwaitVerdict, Finish, runVars, connVars, histVars
  <2>10. CASE AwaitTimeout
    BY <2>10 DEF AwaitTimeout, Finish, runVars, stopVars, connVars, histVars
  <2>11. CASE Reply
    BY <2>11 DEF Reply, runVars, stopVars, histVars
  <2>12. CASE Flush
    BY <2>12 DEF Flush, Undelivered, runVars, stopVars, connVars
  <2>13. CASE Leave
    BY <2>13 DEF Leave, runVars, connVars, histVars
  <2> QED  BY <1>3, <2>1, <2>2, <2>3, <2>4, <2>5, <2>6, <2>7, <2>8, <2>9, <2>10,
    <2>11, <2>12, <2>13 DEF LoopStep
<1>4. ASSUME NEW c \in Client, ServerStep(c) PROVE LoopInv'
  <2>1. CASE Receive(c)
    BY <2>1 DEF Receive, connRest, runVars, stopVars, histVars
  <2>2. CASE TakeReply(c)
    BY <2>2 DEF TakeReply, connRest, runVars, stopVars, histVars
  <2>3. CASE ReplyTimeout(c)
    BY <2>3 DEF ReplyTimeout, connRest, runVars, stopVars, histVars
  <2>4. CASE WriteAck(c)
    BY <2>4 DEF WriteAck, Written, Delivered, connRest, runVars, stopVars,
      histVars
  <2>5. CASE WriteFails(c)
    BY <2>5 DEF WriteFails, Written, connRest, runVars, stopVars, histVars
  <2> QED  BY <1>4, <2>1, <2>2, <2>3, <2>4, <2>5 DEF ServerStep
<1>5. ASSUME NEW c \in Client, NEW a \in Wants[c], Ask(c, a) PROVE LoopInv'
  BY <1>5 DEF Ask, connRest, runVars, stopVars, histVars
<1>6. ASSUME NEW c \in Client, GiveUp(c) PROVE LoopInv'
  BY <1>6 DEF GiveUp, connRest, runVars, stopVars, histVars
<1>7. CASE UNCHANGED vars
  BY <1>7 DEF vars, runVars, stopVars, loopVars, connVars, histVars
<1> QED  BY <1>1, <1>2, <1>3, <1>4, <1>5, <1>6, <1>7 DEF Next

\* A command is in one place at a time: with its handler, in the channel, in
\* the loop's hands, or in the reply channel; and one client's command is
\* never another's.
LEMMA ConnNext ==
  ASSUME TypeOK, LoopInv, ConnInv, [Next]_vars
  PROVE  ConnInv'
<1> USE ControlAssumption DEF TypeOK, LoopTypeOK, ConnTypeOK, LoopInv, ConnInv,
  ConnAt, Queued, Unqueued, InFlight, NoCommand, None, Action, Command
<1>1. CASE Cancel
  BY <1>1 DEF Cancel, stopVars, loopVars, connVars, histVars
<1>2. CASE RunStep
  <2>1. CASE Sweep
    BY <2>1 DEF Sweep, stopVars, loopVars, connVars, histVars
  <2>2. CASE ReadTeardown
    BY <2>2 DEF ReadTeardown, stopVars, loopVars, connVars, histVars
  <2>3. CASE BeginTeardown
    BY <2>3 DEF BeginTeardown, stopVars, loopVars, connVars, histVars
  <2>4. CASE RunTeardown
    BY <2>4 DEF RunTeardown, stopVars, loopVars, connVars, histVars
  <2>5. CASE SealTeardown
    BY <2>5 DEF SealTeardown, stopVars, loopVars, connVars, histVars
  <2>6. CASE Publish
    BY <2>6 DEF Publish, loopVars, connVars, histVars
  <2>7. CASE Seal
    BY <2>7 DEF Seal, loopVars, connVars, histVars
  <2>8. CASE Return
    BY <2>8 DEF Return, Drained, stopVars, loopVars, connVars, histVars
  <2>9. CASE Exit
    BY <2>9 DEF Exit, stopVars, loopVars, histVars
  <2> QED  BY <1>2, <2>1, <2>2, <2>3, <2>4, <2>5, <2>6, <2>7, <2>8, <2>9 DEF
    RunStep
<1>3. CASE LoopStep
  <2>1. CASE TakeCommand
    BY <2>1 DEF TakeCommand, runVars, stopVars, connVars, histVars
  <2>2. CASE LoopReturns
    BY <2>2 DEF LoopReturns, runVars, stopVars, connVars, histVars
  <2>3. ASSUME NEW p \in Proc, RestartCommand(p) PROVE ConnInv'
    BY <2>3 DEF RestartCommand, Finish, runVars, stopVars, connVars, histVars
  <2>4. ASSUME NEW p \in Proc, ReloadApply(p) PROVE ConnInv'
    BY <2>4 DEF ReloadApply, Finish, runVars, stopVars, connVars, histVars
  <2>5. CASE ReloadLoad
    BY <2>5 DEF ReloadLoad, Finish, runVars, stopVars, connVars, histVars
  <2>6. CASE ReloadEnds
    BY <2>6 DEF ReloadEnds, Finish, runVars, stopVars, connVars, histVars
  <2>7. CASE EnterBarrier
    BY <2>7 DEF EnterBarrier, CanEnter, Finish, runVars, connVars
  <2>8. CASE RequestShutdown
    BY <2>8 DEF RequestShutdown, Finish, stopVars, connVars, histVars
  <2>9. CASE AwaitVerdict
    BY <2>9 DEF AwaitVerdict, Finish, runVars, connVars, histVars
  <2>10. CASE AwaitTimeout
    BY <2>10 DEF AwaitTimeout, Finish, runVars, stopVars, connVars, histVars
  <2>11. CASE Reply
    BY <2>11 DEF Reply, runVars, stopVars, histVars
  <2>12. CASE Flush
    BY <2>12 DEF Flush, Undelivered, runVars, stopVars, connVars
  <2>13. CASE Leave
    BY <2>13 DEF Leave, runVars, connVars, histVars
  <2> QED  BY <1>3, <2>1, <2>2, <2>3, <2>4, <2>5, <2>6, <2>7, <2>8, <2>9, <2>10,
    <2>11, <2>12, <2>13 DEF LoopStep
<1>4. ASSUME NEW c \in Client, ServerStep(c) PROVE ConnInv'
  <2>1. CASE Receive(c)
    <3>1. CASE UNCHANGED cmdCh
      BY <2>1, <3>1 DEF Receive, connRest, histVars
    <3>2. CASE cmdCh' = Append(cmdCh, [client |-> c, action |-> serving[c]]) /\ cmdCh' # cmdCh
      <4>1. /\ serving[c] \in Action /\ serving' = [serving EXCEPT ![c] = "waiting"]
            /\ UNCHANGED <<ack, reply, flushed, client, told, loop, cur, accepted>>
        BY <2>1, <3>2 DEF Receive, connRest, histVars
      <4>2. /\ Len(cmdCh) \in Nat /\ Len(cmdCh') = Len(cmdCh) + 1
            /\ \A i \in 1..Len(cmdCh) : cmdCh'[i] = cmdCh[i]
            /\ cmdCh'[Len(cmdCh) + 1].client = c
        <5>1. [client |-> c, action |-> serving[c]] \in Command
          BY <4>1
        <5> HIDE DEF Command
        <5> QED  BY <3>2, <5>1, ChannelFacts
      <4>3. \A d \in Client : Queued(d)' <=> Queued(d) \/ d = c
        BY ONLY <4>2 DEF Queued
      <4>4. /\ ~Queued(c) /\ cur.client # c /\ c \notin accepted
            /\ \A i, j \in 1..Len(cmdCh) : cmdCh[i].client = cmdCh[j].client => i = j
        BY <4>1
      <4>5. \A i, j \in 1..Len(cmdCh') : cmdCh'[i].client = cmdCh'[j].client => i = j
        BY ONLY <4>2, <4>4 DEF Queued
      <4>6. \A d \in Client : ConnAt(d)'
        <5> HIDE DEF Queued
        <5> QED  BY <4>1, <4>3, <4>4
      <4> QED  BY <4>5, <4>6
    <3> QED  BY <2>1, <3>1, <3>2 DEF Receive
  <2>2. CASE TakeReply(c)
    BY <2>2 DEF TakeReply, connRest, runVars, stopVars, histVars
  <2>3. CASE ReplyTimeout(c)
    BY <2>3 DEF ReplyTimeout, connRest, runVars, stopVars, histVars
  <2>4. CASE WriteAck(c)
    BY <2>4 DEF WriteAck, Written, Delivered, connRest, runVars, stopVars,
      histVars
  <2>5. CASE WriteFails(c)
    BY <2>5 DEF WriteFails, Written, connRest, runVars, stopVars, histVars
  <2> QED  BY <1>4, <2>1, <2>2, <2>3, <2>4, <2>5 DEF ServerStep
<1>5. ASSUME NEW c \in Client, NEW a \in Wants[c], Ask(c, a) PROVE ConnInv'
  <2>1. a \in Action
    BY ONLY ControlAssumption, c \in Client, a \in Wants[c] DEF Action
  <2> QED  BY <1>5, <2>1 DEF Ask, connRest, histVars
<1>6. ASSUME NEW c \in Client, GiveUp(c) PROVE ConnInv'
  BY <1>6 DEF GiveUp, connRest, runVars, stopVars, histVars
<1>7. CASE UNCHANGED vars
  BY <1>7 DEF vars, runVars, stopVars, loopVars, connVars, histVars
<1> QED  BY <1>1, <1>2, <1>3, <1>4, <1>5, <1>6, <1>7 DEF Next

\* The barrier counts the stop request in hand, and whoever else was accepted
\* has been answered or recorded: handleCommand leaves after WaitFlushed.
LEMMA PromiseNext ==
  ASSUME TypeOK, LoopInv, ConnInv, PromiseInv, [Next]_vars
  PROVE  PromiseInv'
<1> USE ControlAssumption DEF TypeOK, RunTypeOK, LoopTypeOK, ConnTypeOK,
  LoopInv, Holding, PromiseInv, AccountedFor, NoCommand, None, Action, Command
<1>1. CASE Cancel
  BY <1>1 DEF Cancel, stopVars, loopVars, connVars, histVars
<1>2. CASE RunStep
  <2>1. CASE Sweep
    BY <2>1 DEF Sweep, stopVars, loopVars, connVars, histVars
  <2>2. CASE ReadTeardown
    BY <2>2 DEF ReadTeardown, stopVars, loopVars, connVars, histVars
  <2>3. CASE BeginTeardown
    BY <2>3 DEF BeginTeardown, stopVars, loopVars, connVars, histVars
  <2>4. CASE RunTeardown
    BY <2>4 DEF RunTeardown, stopVars, loopVars, connVars, histVars
  <2>5. CASE SealTeardown
    BY <2>5 DEF SealTeardown, stopVars, loopVars, connVars, histVars
  <2>6. CASE Publish
    BY <2>6 DEF Publish, loopVars, connVars, histVars
  <2>7. CASE Seal
    BY <2>7 DEF Seal, loopVars, connVars, histVars
  <2>8. CASE Return
    BY <2>8 DEF Return, Drained, stopVars, loopVars, connVars, histVars
  <2>9. CASE Exit
    BY <2>9 DEF Exit, stopVars, loopVars, histVars
  <2> QED  BY <1>2, <2>1, <2>2, <2>3, <2>4, <2>5, <2>6, <2>7, <2>8, <2>9 DEF
    RunStep
<1>3. CASE LoopStep
  <2>1. CASE TakeCommand
    BY <2>1, TakenCommand DEF TakeCommand, stopVars, connVars, histVars
  <2>2. CASE LoopReturns
    BY <2>2 DEF LoopReturns, runVars, stopVars, connVars, histVars
  <2>3. ASSUME NEW p \in Proc, RestartCommand(p) PROVE PromiseInv'
    BY <2>3 DEF RestartCommand, Finish, runVars, stopVars, connVars, histVars
  <2>4. ASSUME NEW p \in Proc, ReloadApply(p) PROVE PromiseInv'
    BY <2>4 DEF ReloadApply, Finish, runVars, stopVars, connVars, histVars
  <2>5. CASE ReloadLoad
    BY <2>5 DEF ReloadLoad, Finish, runVars, stopVars, connVars, histVars
  <2>6. CASE ReloadEnds
    BY <2>6 DEF ReloadEnds, Finish, runVars, stopVars, connVars, histVars
  <2>7. CASE EnterBarrier
    BY <2>7 DEF EnterBarrier, CanEnter, Finish, runVars, connVars
  <2>8. CASE RequestShutdown
    BY <2>8 DEF RequestShutdown, Finish, stopVars, connVars, histVars
  <2>9. CASE AwaitVerdict
    BY <2>9 DEF AwaitVerdict, Finish, runVars, connVars, histVars
  <2>10. CASE AwaitTimeout
    BY <2>10 DEF AwaitTimeout, Finish, runVars, stopVars, connVars, histVars
  <2>11. CASE Reply
    BY <2>11 DEF Reply, runVars, stopVars, histVars
  <2>12. CASE Flush
    BY <2>12 DEF Flush, Undelivered, runVars, stopVars, connVars
  <2>13. CASE Leave
    BY <2>13 DEF Leave, runVars, connVars, histVars
  <2> QED  BY <1>3, <2>1, <2>2, <2>3, <2>4, <2>5, <2>6, <2>7, <2>8, <2>9, <2>10,
    <2>11, <2>12, <2>13 DEF LoopStep
<1>4. ASSUME NEW c \in Client, ServerStep(c) PROVE PromiseInv'
  <2>1. CASE Receive(c)
    BY <2>1 DEF Receive, connRest, runVars, stopVars, histVars
  <2>2. CASE TakeReply(c)
    BY <2>2 DEF TakeReply, connRest, runVars, stopVars, histVars
  <2>3. CASE ReplyTimeout(c)
    BY <2>3 DEF ReplyTimeout, connRest, runVars, stopVars, histVars
  <2>4. CASE WriteAck(c)
    <3>1. flushed[c] = "pending"
      BY <2>4 DEF WriteAck, ConnInv, ConnAt
    <3>2. /\ \A d \in Client \ {c} : flushed'[d] = flushed[d]
          /\ UNCHANGED <<holders, loop, cur, accepted, journalled>>
      BY <2>4 DEF WriteAck, Written, connRest, stopVars, histVars
    <3> QED  BY <3>1, <3>2
  <2>5. CASE WriteFails(c)
    <3>1. flushed[c] = "pending"
      BY <2>5 DEF WriteFails, ConnInv, ConnAt
    <3>2. /\ \A d \in Client \ {c} : flushed'[d] = flushed[d]
          /\ UNCHANGED <<holders, loop, cur, accepted, journalled>>
      BY <2>5 DEF WriteFails, Written, connRest, stopVars, histVars
    <3> QED  BY <3>1, <3>2
  <2> QED  BY <1>4, <2>1, <2>2, <2>3, <2>4, <2>5 DEF ServerStep
<1>5. ASSUME NEW c \in Client, NEW a \in Wants[c], Ask(c, a) PROVE PromiseInv'
  BY <1>5 DEF Ask, connRest, runVars, stopVars, histVars
<1>6. ASSUME NEW c \in Client, GiveUp(c) PROVE PromiseInv'
  BY <1>6 DEF GiveUp, connRest, runVars, stopVars, histVars
<1>7. CASE UNCHANGED vars
  BY <1>7 DEF vars, runVars, stopVars, loopVars, connVars, histVars
<1> QED  BY <1>1, <1>2, <1>3, <1>4, <1>5, <1>6, <1>7 DEF Next

\* What is on its way to an accepted client is what endRun published.
LEMMA TruthNext ==
  ASSUME TypeOK, RunInv, LoopInv, ConnInv, PromiseInv, TruthInv, [Next]_vars
  PROVE  TruthInv'
<1> USE ControlAssumption DEF TypeOK, RunTypeOK, LoopTypeOK, ConnTypeOK,
  LoopInv, TruthInv, Warranted, Published, NoCommand, None, Action, Command,
  Phase
<1>1. CASE Cancel
  BY <1>1 DEF Cancel, stopVars, loopVars, connVars, histVars
<1>2. CASE RunStep
  <2>1. CASE Sweep
    BY <2>1 DEF Sweep, stopVars, loopVars, connVars, histVars
  <2>2. CASE ReadTeardown
    BY <2>2 DEF ReadTeardown, stopVars, loopVars, connVars, histVars
  <2>3. CASE BeginTeardown
    BY <2>3 DEF BeginTeardown, stopVars, loopVars, connVars, histVars
  <2>4. CASE RunTeardown
    BY <2>4 DEF RunTeardown, stopVars, loopVars, connVars, histVars
  <2>5. CASE SealTeardown
    BY <2>5 DEF SealTeardown, stopVars, loopVars, connVars, histVars
  <2>6. CASE Publish
    <3>1. /\ run = "end" /\ run' = "published" /\ verdictCh' = Verdict
          /\ Len(torn) = Len(Teardown)
          /\ UNCHANGED <<outcome, torn, loop, cur, res, reply, ack, told, accepted>>
      BY <2>6 DEF Publish, loopVars, connVars, histVars, RunInv
    <3>2. Verdict \in {"ok", "teardown"} => outcome # "problem"
      BY DEF Verdict
    <3>3. Verdict = "ok" => torn = [i \in DOMAIN Teardown |-> "passed"]
      <4> SUFFICES ASSUME Verdict = "ok" PROVE torn = [i \in DOMAIN Teardown |-> "passed"]
        OBVIOUS
      <4>1. \A i \in DOMAIN torn : torn[i] = "passed"
        BY DEF Verdict
      <4>2. DOMAIN torn = DOMAIN Teardown
        BY <3>1
      <4>3. torn = [i \in DOMAIN torn |-> torn[i]]
        OBVIOUS
      <4> QED  BY <4>1, <4>2, <4>3
    <3>4. ~Published /\ Published'
      BY <3>1
    <3>5. Warranted(verdictCh)'
      BY <3>1, <3>2, <3>3, <3>4
    <3>6. \A r \in Answer \cup {None} : Warranted(r) => Warranted(r)'
      BY <3>4
    <3>7. reply \in [Client -> Answer \cup {None}] /\ res \in Answer \cup {None}
      BY DEF Answer
    <3> HIDE DEF Warranted
    <3> QED  BY <3>1, <3>5, <3>6, <3>7
  <2>7. CASE Seal
    BY <2>7 DEF Seal, loopVars, connVars, histVars
  <2>8. CASE Return
    BY <2>8 DEF Return, Drained, stopVars, loopVars, connVars, histVars
  <2>9. CASE Exit
    BY <2>9 DEF Exit, stopVars, loopVars, histVars
  <2> QED  BY <1>2, <2>1, <2>2, <2>3, <2>4, <2>5, <2>6, <2>7, <2>8, <2>9 DEF
    RunStep
<1>3. CASE LoopStep
  <2>1. CASE TakeCommand
    BY <2>1, TakenCommand, SMTT(20) DEF TakeCommand, runVars, stopVars, connVars, histVars
  <2>2. CASE LoopReturns
    BY <2>2 DEF LoopReturns, runVars, stopVars, connVars, histVars
  <2>3. ASSUME NEW p \in Proc, RestartCommand(p) PROVE TruthInv'
    BY <2>3 DEF RestartCommand, Finish, runVars, stopVars, connVars, histVars
  <2>4. ASSUME NEW p \in Proc, ReloadApply(p) PROVE TruthInv'
    BY <2>4 DEF ReloadApply, Finish, runVars, stopVars, connVars, histVars
  <2>5. CASE ReloadLoad
    BY <2>5 DEF ReloadLoad, Finish, runVars, stopVars, connVars, histVars
  <2>6. CASE ReloadEnds
    BY <2>6 DEF ReloadEnds, Finish, runVars, stopVars, connVars, histVars
  <2>7. CASE EnterBarrier
    <3>1. /\ UNCHANGED <<verdictCh, run, outcome, torn, cur, reply, ack, told>>
          /\ cur.client \in Client /\ accepted' \in {accepted, accepted \cup {cur.client}}
          /\ loop' = "reply" => accepted' = accepted /\ cur.client \notin accepted
      BY <2>7 DEF EnterBarrier, Finish, connVars, runVars
    <3>2. /\ reply[cur.client] = None /\ ack[cur.client] \in {None, "timeout"}
          /\ told[cur.client] \in {None, "lost", "timeout"}
      BY <2>7, <3>1 DEF EnterBarrier, ConnInv, ConnAt, InFlight
    <3> QED  BY <3>1, <3>2
  <2>8. CASE RequestShutdown
    BY <2>8 DEF RequestShutdown, Finish, stopVars, connVars, histVars
  <2>9. CASE AwaitVerdict
    BY <2>9 DEF AwaitVerdict, Finish, runVars, connVars, histVars
  <2>10. CASE AwaitTimeout
    BY <2>10 DEF AwaitTimeout, Finish, runVars, stopVars, connVars, histVars
  <2>11. CASE Reply
    BY <2>11 DEF Reply, runVars, stopVars, histVars
  <2>12. CASE Flush
    BY <2>12 DEF Flush, Undelivered, runVars, stopVars, connVars
  <2>13. CASE Leave
    BY <2>13 DEF Leave, runVars, connVars, histVars
  <2> QED  BY <1>3, <2>1, <2>2, <2>3, <2>4, <2>5, <2>6, <2>7, <2>8, <2>9, <2>10,
    <2>11, <2>12, <2>13 DEF LoopStep
<1>4. ASSUME NEW c \in Client, ServerStep(c) PROVE TruthInv'
  <2>1. CASE Receive(c)
    BY <2>1 DEF Receive, connRest, runVars, stopVars, histVars
  <2>2. CASE TakeReply(c)
    BY <2>2 DEF TakeReply, connRest, runVars, stopVars, histVars
  <2>3. CASE ReplyTimeout(c)
    BY <2>3 DEF ReplyTimeout, connRest, runVars, stopVars, histVars
  <2>4. CASE WriteAck(c)
    BY <2>4 DEF WriteAck, Written, Delivered, connRest, runVars, stopVars,
      histVars
  <2>5. CASE WriteFails(c)
    BY <2>5 DEF WriteFails, Written, connRest, runVars, stopVars, histVars
  <2> QED  BY <1>4, <2>1, <2>2, <2>3, <2>4, <2>5 DEF ServerStep
<1>5. ASSUME NEW c \in Client, NEW a \in Wants[c], Ask(c, a) PROVE TruthInv'
  BY <1>5 DEF Ask, connRest, runVars, stopVars, histVars
<1>6. ASSUME NEW c \in Client, GiveUp(c) PROVE TruthInv'
  BY <1>6 DEF GiveUp, connRest, runVars, stopVars, histVars
<1>7. CASE UNCHANGED vars
  BY <1>7 DEF vars, runVars, stopVars, loopVars, connVars, histVars
<1> QED  BY <1>1, <1>2, <1>3, <1>4, <1>5, <1>6, <1>7 DEF Next

\* A reload deals with one changed definition after the other, and nobody else
\* replaces one meanwhile.
LEMMA ReloadNext ==
  ASSUME TypeOK, LoopInv, ConnInv, ReloadInv, [Next]_vars
  PROVE  ReloadInv'
<1> USE ControlAssumption DEF TypeOK, RunTypeOK, LoopTypeOK, LoopInv, ReloadInv,
  Applied, Edited, Skipped, ReloadStatus, NoCommand, None, Action, Command, Edit
<1>1. CASE Cancel
  BY <1>1 DEF Cancel, stopVars, loopVars, connVars, histVars
<1>2. CASE RunStep
  <2>1. CASE Sweep
    BY <2>1 DEF Sweep, stopVars, loopVars, connVars, histVars
  <2>2. CASE ReadTeardown
    BY <2>2 DEF ReadTeardown, stopVars, loopVars, connVars, histVars
  <2>3. CASE BeginTeardown
    BY <2>3 DEF BeginTeardown, stopVars, loopVars, connVars, histVars
  <2>4. CASE RunTeardown
    <3>1. UNCHANGED <<loop, cur, res, diff, todo, cfg>>
      BY ONLY <2>4 DEF RunTeardown, loopVars
    <3> QED  BY <3>1
  <2>5. CASE SealTeardown
    <3>1. UNCHANGED <<loop, cur, res, diff, todo, cfg>>
      BY ONLY <2>5 DEF SealTeardown, loopVars
    <3> QED  BY <3>1
  <2>6. CASE Publish
    BY <2>6 DEF Publish, loopVars, connVars, histVars
  <2>7. CASE Seal
    BY <2>7 DEF Seal, loopVars, connVars, histVars
  <2>8. CASE Return
    BY <2>8, SMTT(20) DEF Return, loopVars
  <2>9. CASE Exit
    BY <2>9 DEF Exit, stopVars, loopVars, histVars
  <2> QED  BY <1>2, <2>1, <2>2, <2>3, <2>4, <2>5, <2>6, <2>7, <2>8, <2>9 DEF
    RunStep
<1>3. CASE LoopStep
  <2>1. CASE TakeCommand
    BY <2>1, TakenCommand
  <2>2. CASE LoopReturns
    BY <2>2 DEF LoopReturns, runVars, stopVars, connVars, histVars
  <2>3. ASSUME NEW p \in Proc, RestartCommand(p) PROVE ReloadInv'
    BY <2>3 DEF RestartCommand, Finish, runVars, stopVars, connVars, histVars
  <2>4. ASSUME NEW p \in Proc, ReloadApply(p) PROVE ReloadInv'
    BY <2>4 DEF ReloadApply, Finish, runVars, stopVars, connVars, histVars
  <2>5. CASE ReloadLoad
    BY <2>5 DEF ReloadLoad, Finish, runVars, stopVars, connVars, histVars
  <2>6. CASE ReloadEnds
    BY <2>6 DEF ReloadEnds, Finish, runVars, stopVars, connVars, histVars
  <2>7. CASE EnterBarrier
    BY <2>7 DEF EnterBarrier, CanEnter, Finish, runVars, connVars
  <2>8. CASE RequestShutdown
    BY <2>8 DEF RequestShutdown, Finish, stopVars, connVars, histVars
  <2>9. CASE AwaitVerdict
    BY <2>9 DEF AwaitVerdict, Finish, runVars, connVars, histVars
  <2>10. CASE AwaitTimeout
    BY <2>10 DEF AwaitTimeout, Finish, runVars, stopVars, connVars, histVars
  <2>11. CASE Reply
    BY <2>11 DEF Reply, runVars, stopVars, histVars
  <2>12. CASE Flush
    BY <2>12 DEF Flush, Undelivered, runVars, stopVars, connVars
  <2>13. CASE Leave
    BY <2>13 DEF Leave, runVars, connVars, histVars
  <2> QED  BY <1>3, <2>1, <2>2, <2>3, <2>4, <2>5, <2>6, <2>7, <2>8, <2>9, <2>10,
    <2>11, <2>12, <2>13 DEF LoopStep
<1>4. ASSUME NEW c \in Client, ServerStep(c) PROVE ReloadInv'
  <2>1. CASE Receive(c)
    BY <2>1 DEF Receive, connRest, runVars, stopVars, histVars
  <2>2. CASE TakeReply(c)
    BY <2>2 DEF TakeReply, connRest, runVars, stopVars, histVars
  <2>3. CASE ReplyTimeout(c)
    BY <2>3 DEF ReplyTimeout, connRest, runVars, stopVars, histVars
  <2>4. CASE WriteAck(c)
    BY <2>4 DEF WriteAck, Written, Delivered, connRest, runVars, stopVars,
      histVars
  <2>5. CASE WriteFails(c)
    BY <2>5 DEF WriteFails, Written, connRest, runVars, stopVars, histVars
  <2> QED  BY <1>4, <2>1, <2>2, <2>3, <2>4, <2>5 DEF ServerStep
<1>5. ASSUME NEW c \in Client, NEW a \in Wants[c], Ask(c, a) PROVE ReloadInv'
  BY <1>5 DEF Ask, connRest, runVars, stopVars, histVars
<1>6. ASSUME NEW c \in Client, GiveUp(c) PROVE ReloadInv'
  BY <1>6 DEF GiveUp, connRest, runVars, stopVars, histVars
<1>7. CASE UNCHANGED vars
  BY <1>7 DEF vars, runVars, stopVars, loopVars, connVars, histVars
<1> QED  BY <1>1, <1>2, <1>3, <1>4, <1>5, <1>6, <1>7 DEF Next

-----------------------------------------------------------------------------
(* Together *)

\* The state in which the daemon starts: a run with a handle, nobody asking.
LEMMA IndInit == Init => IndInv
<1> SUFFICES ASSUME Init PROVE IndInv
  OBVIOUS
<1> USE DEF Init, NoCommand, None
<1>1. RunTypeOK
  <2>1. cfg \in [Proc -> Nat] /\ tdDef \in [Proc -> Nat]
    OBVIOUS
  <2>2. torn \in Seq({"passed", "failed", "skipped"})
    OBVIOUS
  <2> QED  BY <2>1, <2>2 DEF RunTypeOK, Phase, Result
<1>2. LoopTypeOK
  BY DEF LoopTypeOK, LoopPlace, NoDiff, Result, Edit
<1>3. ConnTypeOK
  BY DEF ConnTypeOK, Result, Answer, Action
<1>4. RunInv /\ LoopInv
  BY DEF RunInv, Published, LoopInv, Action
<1>5. ConnInv
  BY ControlAssumption DEF ConnInv, ConnAt, Queued, Unqueued, InFlight, Action
<1>6. PromiseInv /\ TruthInv /\ ReloadInv
  BY DEF PromiseInv, Holding, AccountedFor, TruthInv, Warranted, ReloadInv
<1> QED  BY <1>1, <1>2, <1>3, <1>4, <1>5, <1>6 DEF IndInv, TypeOK

\* No step of Run, of the command loop, of a connection or of a client breaks
\* a part of the invariant.
LEMMA IndNext == IndInv /\ [Next]_vars => IndInv'
  BY RunTypeNext, LoopTypeNext, ConnTypeNext, RunNext, LoopNext, ConnNext,
     PromiseNext, TruthNext, ReloadNext DEF IndInv, TypeOK

\* The inductive invariant holds in every reachable state of the daemon.
THEOREM Inductive == Spec => []IndInv
  BY IndInit, IndNext, PTL DEF Spec

\* Every variable of Run, of the command loop and of the connections keeps its
\* type: the channels hold commands of clients, the answers are the runner's.
THEOREM TypeCorrect == Spec => []TypeOK
<1>1. IndInv => TypeOK
  BY DEF IndInv
<1> QED  BY <1>1, Inductive, PTL

\* A stop client is told "ok" only of a run that is over, verified and torn
\* down completely, and of a teardown failure alone only after a verified
\* termination (endRun, TeardownError, teardownOnly): the answer travels
\* through the verdict channel, the reply, the handler and the wire, and the
\* verdict is published once and no longer changes.
THEOREM StopAnswersTrue == Spec => []ToldTheTruth
<1>1. IndInv => ToldTheTruth
  BY DEF IndInv, TruthInv, Warranted, Published, ToldTheTruth
<1> QED  BY <1>1, Inductive, PTL

\* The definitions that runTeardown read are the ones the last reload left:
\* Reload refuses a replacement once admission is closed, and admission is
\* closed before the teardown definitions are read.
THEOREM TeardownCurrent == Spec => []TeardownIsCurrent
<1>1. IndInv => TeardownIsCurrent
  BY DEF IndInv, RunInv, TeardownIsCurrent
<1> QED  BY <1>1, Inductive, PTL

\* A reload that is not refused replaced exactly what it could and says "ok"
\* only when nothing of the file was left out, even when a shutdown begins
\* between two replacements.
THEOREM ReloadReportsTruth == Spec => []ReloadHonest
<1>1. IndInv => ReloadHonest
  <2> SUFFICES ASSUME IndInv, loop = "reply", cur.action = "reload", res # "error"
               PROVE  ReloadHonest
    BY DEF ReloadHonest
  <2> DEFINE Replaced == {p \in Proc : cfg[p] = diff.base[p] + 1}
  <2>1. /\ todo = {} /\ res = ReloadStatus /\ Edited("moved") = {}
        /\ \A p \in Proc : /\ cfg[p] = IF Applied(p) THEN diff.base[p] + 1 ELSE diff.base[p]
                           /\ diff.base[p] \in Nat /\ diff.edits[p] \in Edit
    BY DEF IndInv, TypeOK, LoopTypeOK, ReloadInv
  <2>2. \A p \in Proc : Applied(p) <=> p \in Edited("changed") /\ ~Skipped(p)
    BY <2>1 DEF Applied
  <2>3. Replaced = {p \in Edited("changed") : ~Skipped(p)}
    BY <2>1, <2>2 DEF Edited
  <2>4. res = "ok" => \A p \in Proc : diff.edits[p] = "same" \/ p \in Replaced
    BY <2>1, <2>3 DEF ReloadStatus, Edited, Edit
  <2> QED  BY <2>3, <2>4 DEF ReloadHonest
<1> QED  BY <1>1, Inductive, PTL

-----------------------------------------------------------------------------
(* The promise of the shutdown acknowledgement *)

\* Every step of the control plane is a step of the promise or changes nothing
\* of it: a request is accepted when the barrier is taken, accounted for when
\* its answer is written or recorded, and Run returns with none pending.
LEMMA PromiseStep ==
  ASSUME IndInv, [Next]_vars
  PROVE  [Promise!Next]_(Promise!vars)
<1> USE DEF AccountedFor, Promise!vars
<1>0. UNCHANGED <<accepted, flushed, journalled>>
        /\ (run \in {"returned", "exited"})' = (run \in {"returned", "exited"})
      => UNCHANGED Promise!vars
  OBVIOUS
<1>1. CASE Cancel
  BY <1>1, <1>0 DEF Cancel, connVars, histVars
<1>2. CASE RunStep
  <2>1. CASE Sweep
    BY <2>1, <1>0 DEF Sweep, connVars, histVars
  <2>2. CASE ReadTeardown
    BY <2>2, <1>0 DEF ReadTeardown, connVars, histVars
  <2>3. CASE BeginTeardown
    BY <2>3, <1>0 DEF BeginTeardown, connVars, histVars
  <2>4. CASE RunTeardown
    BY <2>4, <1>0 DEF RunTeardown, connVars, histVars
  <2>5. CASE SealTeardown
    BY <2>5, <1>0 DEF SealTeardown, connVars, histVars
  <2>6. CASE Publish
    BY <2>6, <1>0 DEF Publish, connVars, histVars
  <2>7. CASE Seal
    BY <2>7, <1>0 DEF Seal, connVars, histVars
  <2>8. CASE Return
    <3>1. /\ holders = 0 /\ run = "draining" /\ run' = "returned"
          /\ UNCHANGED <<accepted, flushed, journalled>>
      BY <2>8 DEF Return, Drained, connVars, histVars
    <3>2. accepted \ AccountedFor = {}
      BY <3>1 DEF IndInv, PromiseInv, Holding
    <3>3. Promise!Return
      BY <3>1, <3>2 DEF Promise!Return
    <3> QED  BY <3>3 DEF Promise!Next
  <2>9. CASE Exit
    BY <2>9, <1>0 DEF Exit, histVars
  <2> QED  BY <1>2, <2>1, <2>2, <2>3, <2>4, <2>5, <2>6, <2>7, <2>8, <2>9 DEF
    RunStep
<1>3. CASE LoopStep
  <2>1. CASE TakeCommand
    BY <2>1, <1>0 DEF TakeCommand, runVars, connVars, histVars
  <2>2. CASE LoopReturns
    BY <2>2, <1>0 DEF LoopReturns, runVars, connVars, histVars
  <2>3. ASSUME NEW p \in Proc, RestartCommand(p) PROVE [Promise!Next]_(Promise!vars)
    BY <2>3, <1>0 DEF RestartCommand, Finish, runVars, connVars, histVars
  <2>4. ASSUME NEW p \in Proc, ReloadApply(p) PROVE [Promise!Next]_(Promise!vars)
    BY <2>4, <1>0 DEF ReloadApply, Finish, runVars, connVars, histVars
  <2>5. CASE ReloadLoad
    BY <2>5, <1>0 DEF ReloadLoad, Finish, runVars, connVars, histVars
  <2>6. CASE ReloadEnds
    BY <2>6, <1>0 DEF ReloadEnds, Finish, runVars, connVars, histVars
  <2>7. CASE EnterBarrier
    <3>1. CASE UNCHANGED accepted
      BY <2>7, <3>1, <1>0 DEF EnterBarrier, runVars, connVars
    <3>2. CASE accepted' = accepted \cup {cur.client} /\ ~sealed
      <4>1. /\ UNCHANGED <<run, flushed, journalled>> /\ cur.client \in Client \ accepted
            /\ run \notin {"returned", "exited"}
        BY <2>7, <3>2 DEF EnterBarrier, runVars, connVars, IndInv, RunInv, LoopInv, Action, Command
      <4>2. flushed[cur.client] # "written" /\ journalled \subseteq accepted
        BY <2>7, <4>1 DEF EnterBarrier, IndInv, ConnInv, ConnAt, InFlight, PromiseInv
      <4>3. PICK d \in Client : d = cur.client
        BY <4>1
      <4>4. Promise!Accept(d)
        BY <3>2, <4>1, <4>2, <4>3 DEF Promise!Accept
      <4> QED  BY <4>4 DEF Promise!Next
    <3> QED  BY <2>7, <3>1, <3>2 DEF EnterBarrier, CanEnter, Finish
  <2>8. CASE RequestShutdown
    BY <2>8, <1>0 DEF RequestShutdown, Finish, connVars, histVars
  <2>9. CASE AwaitVerdict
    BY <2>9, <1>0 DEF AwaitVerdict, Finish, runVars, connVars, histVars
  <2>10. CASE AwaitTimeout
    BY <2>10, <1>0 DEF AwaitTimeout, Finish, runVars, connVars, histVars
  <2>11. CASE Reply
    BY <2>11, <1>0 DEF Reply, runVars, histVars
  <2>12. CASE Flush
    <3>1. /\ UNCHANGED <<run, flushed, accepted>> /\ cur.client \in accepted
          /\ cur.client \in Client /\ flushed[cur.client] \in {"written", "failed"}
          /\ journalled' = IF flushed[cur.client] = "failed"
                           THEN journalled \cup {cur.client} ELSE journalled
      BY <2>12 DEF Flush, Undelivered, runVars, connVars, IndInv, LoopInv, TypeOK, ConnTypeOK, Command
    <3>2. CASE journalled' = journalled
      BY <3>1, <3>2, <1>0
    <3>3. CASE flushed[cur.client] = "failed" /\ cur.client \notin journalled
      <4>1. PICK d \in Client : d = cur.client
        BY <3>1
      <4>2. Promise!Account(d)
        BY <3>1, <3>3, <4>1 DEF Promise!Account
      <4> QED  BY <4>2 DEF Promise!Next
    <3> QED  BY <3>1, <3>2, <3>3
  <2>13. CASE Leave
    BY <2>13, <1>0 DEF Leave, runVars, connVars, histVars
  <2> QED  BY <1>3, <2>1, <2>2, <2>3, <2>4, <2>5, <2>6, <2>7, <2>8, <2>9, <2>10,
    <2>11, <2>12, <2>13 DEF LoopStep
<1>4. ASSUME NEW c \in Client, ServerStep(c) PROVE [Promise!Next]_(Promise!vars)
  <2>1. CASE Receive(c)
    BY <2>1, <1>0 DEF Receive, connRest, runVars, histVars
  <2>2. CASE TakeReply(c)
    BY <2>2, <1>0 DEF TakeReply, connRest, runVars, histVars
  <2>3. CASE ReplyTimeout(c)
    BY <2>3, <1>0 DEF ReplyTimeout, connRest, runVars, histVars
  <2>4. CASE WriteAck(c)
    <3>1. /\ flushed[c] = "pending" /\ UNCHANGED <<run, accepted, journalled>>
          /\ \/ flushed' = [flushed EXCEPT ![c] = "written"]
             \/ flushed' = [flushed EXCEPT ![c] = "failed"]
      BY <2>4 DEF WriteAck, Written, connRest, runVars, histVars, IndInv, ConnInv, ConnAt
    <3>2. /\ flushed \in [Client -> {"pending", "written", "failed"}]
          /\ accepted \subseteq Client /\ c \notin journalled
      BY <3>1 DEF IndInv, TypeOK, ConnTypeOK, PromiseInv
    <3>3. CASE flushed'[c] = "written" /\ c \in accepted
      <4>1. \A d \in accepted : flushed'[d] = "written" <=> flushed[d] = "written" \/ d = c
        BY ONLY <3>1, <3>2, <3>3
      <4>2. c \notin AccountedFor /\ AccountedFor' = AccountedFor \cup {c}
        BY <3>1, <3>2, <3>3, <4>1
      <4>3. Promise!Account(c)
        <5> HIDE DEF AccountedFor
        <5> QED  BY <3>1, <3>3, <4>2 DEF Promise!Account
      <4> QED  BY <4>3 DEF Promise!Next
    <3>4. CASE flushed'[c] # "written" \/ c \notin accepted
      <4>1. \A d \in accepted : flushed'[d] = "written" <=> flushed[d] = "written"
        BY ONLY <3>1, <3>2, <3>4
      <4> QED  BY <3>1, <4>1
    <3> QED  BY <3>3, <3>4
  <2>5. CASE WriteFails(c)
    <3>1. /\ flushed[c] = "pending" /\ UNCHANGED <<run, accepted, journalled>>
          /\ flushed' = [flushed EXCEPT ![c] = "failed"]
      BY <2>5 DEF WriteFails, Written, connRest, runVars, histVars, IndInv, ConnInv, ConnAt
    <3>2. flushed \in [Client -> {"pending", "written", "failed"}]
      BY DEF IndInv, TypeOK, ConnTypeOK
    <3> QED  BY <3>1, <3>2
  <2> QED  BY <1>4, <2>1, <2>2, <2>3, <2>4, <2>5 DEF ServerStep
<1>5. ASSUME NEW c \in Client, NEW a \in Wants[c], Ask(c, a) PROVE [Promise!Next]_(Promise!vars)
  BY <1>5, <1>0 DEF Ask, connRest, runVars, histVars
<1>6. ASSUME NEW c \in Client, GiveUp(c) PROVE [Promise!Next]_(Promise!vars)
  BY <1>6, <1>0 DEF GiveUp, connRest, runVars, histVars
<1>7. CASE UNCHANGED vars
  BY <1>7, <1>0 DEF vars, runVars, connVars, histVars
<1> QED  BY <1>1, <1>2, <1>3, <1>4, <1>5, <1>6, <1>7 DEF Next


\* Control implements StopPromise (ackBarrier, WaitFlushed, endRun): Run never
\* returns while an accepted stop request is neither answered nor recorded.
THEOREM StopPromiseKept == Spec => KeepsPromise
<1>1. Init => Promise!Init
  BY DEF Init, Promise!Init, AccountedFor
<1>2. IndInv /\ [Next]_vars => [Promise!Next]_(Promise!vars)
  BY PromiseStep
<1> QED  BY <1>1, <1>2, Inductive, PTL DEF Spec, KeepsPromise, Promise!Spec
=============================================================================
