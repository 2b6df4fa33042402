-------------------------------- MODULE Events --------------------------------
(***************************************************************************)
(* Events from the goroutines that produce them to the one who observes    *)
(* them: emit and broadcastState, the journal, the server's snapshot, its  *)
(* fan-out to a client's bounded queue, the client's write loop, and the   *)
(* waiter of up --wait-ready and restart --wait.                           *)
(* Sources: internal/runner/broadcast.go, internal/ipc/server.go and       *)
(* ringbuf.go, cmd/proc-compose/helpers.go (waitForProcessesReady).        *)
(*                                                                         *)
(* A behaviour has one observer, chosen at the start: "query" reads the    *)
(* journal, "stream" collects the events of a connection, "up" and         *)
(* "restart" are the waiters of the two commands, "screen" the monitor of  *)
(* module Monitor.  The journal is written only where it is observed, and  *)
(* there no client is connected: emit keeps the error of a write and goes  *)
(* on.                                                                     *)
(*                                                                         *)
(* A process state is its generation and one word for State, Ready and     *)
(* Health; of an entry's size all that counts is whether it is too large   *)
(* for the server's history.  Its text and level, the tunnel URL and       *)
(* executions that are quiet are left out.                                 *)
(***************************************************************************)
EXTENDS Journal

CONSTANTS
  Names,       \* the processes, in the order of their names
  Observers,   \* the observers of an instance
  Metrics,     \* the goroutine of collectMetrics
  History,     \* maxHistory: entries the server keeps
  QueueCap,    \* messages a client's queue holds
  MaxEvents, MaxRuns, MaxChanges, MaxTicks   \* bounds of an instance

Proc == {Names[i] : i \in DOMAIN Names}
Goroutine == Proc \cup {Metrics}

ASSUME EventsAssumption ==
  /\ Observers \subseteq {"query", "stream", "up", "restart", "screen"}
  /\ Names \in Seq(Proc) /\ IsInjective(Names) /\ Metrics \notin Proc /\ "nobody" \notin Goroutine
  /\ {History, QueueCap, MaxRuns} \subseteq Nat \ {0}
  /\ {MaxEvents, MaxChanges} \subseteq [Observers -> Nat] /\ MaxTicks \in Nat

VARIABLES
  watch,
  proc,         \* the state of each process
  changes, ticks,
  \* each goroutine: its place, the process and the message it is about,
  \* whether the client is in the slice it took
  pc, about, item, to,
  lock, sequence, run, lastStates,   \* the runner: logMu, Sequence, RunID
  history, states,                   \* the server
  missed,       \* history: entries no snapshot of the client can have
  client,       \* the observer's connection
  minimum, wait,                     \* the waiter
  \* history: entries read from the connection, the last word read about a
  \* process, the generations in which a process was ready
  heard, last, wasReady

procVars   == <<proc, changes, ticks, wasReady>>
goVars     == <<pc, about, item, to>>
runnerVars == <<lock, sequence, run, lastStates>>
serverVars == <<history, states, missed>>
clientVars == <<client, heard, minimum, wait, last>>
eventVars  == <<watch, procVars, goVars, runnerVars, serverVars, clientVars>>

Nobody == "nobody"
Nothing == [kind |-> "nothing"]
Word == {"starting", "running", "ready", "unhealthy", "restarting",
         "completed", "failed", "exited"}
Up == {"running", "ready", "unhealthy"}
Serving == {"ready", "unhealthy", "completed"}   \* running and Ready, or a task that passed

-----------------------------------------------------------------------------
(* Processes and the goroutines that report on them                        *)

\* The words that may follow within one generation.
Follows ==
  [starting   |-> {"running", "failed", "exited"},
   running    |-> {"ready", "completed", "restarting", "failed", "exited"},
   ready      |-> {"unhealthy", "completed", "restarting", "failed", "exited"},
   unhealthy  |-> {"ready", "restarting", "failed", "exited"},
   restarting |-> {"exited"},
   completed  |-> {}, failed |-> {}, exited |-> {"restarting", "failed"}]

Incarnate(st) == IF st.word \in Up \/ (st.word = "starting" /\ st.gen > 0) THEN {}
                 ELSE {[gen |-> st.gen + 1, word |-> "starting"]}

\* The processes waited for: the one restarted, or all of them.
Want == LET Asked == {p \in Proc : minimum[p] > 0}
        IN IF Asked = {} THEN Proc ELSE Asked

Waiter == watch \in {"up", "restart"}

\* An instance ends with its observer: nothing more is produced once the
\* connection is closed or the waiter has returned.
Observed == client.at # "gone" /\ wait.result = "none"

\* A worker changes the state of its process under st.mu and calls
\* broadcastState.
Change(p) ==
  /\ Waiter \/ watch = "screen"
  /\ pc[p] = "idle" /\ Observed /\ changes < MaxChanges[watch]
  /\ watch = "restart" => minimum[p] > 0
  /\ watch = "screen" => client.at = "open" /\ \A g \in Goroutine : pc[g] = "idle"
  /\ \E st \in {[gen |-> proc[p].gen, word |-> w] : w \in Follows[proc[p].word]}
                 \cup Incarnate(proc[p]) :
       /\ proc' = [proc EXCEPT ![p] = st]
       /\ wasReady' = IF st.word \in {"ready", "completed"}
                      THEN [wasReady EXCEPT ![p] = @ \cup {st.gen}] ELSE wasReady
  /\ changes' = changes + 1 /\ pc' = [pc EXCEPT ![p] = "snap"]
  /\ UNCHANGED <<watch, ticks, about, item, to, runnerVars, serverVars, clientVars>>

\* collectMetrics found p running and reports on it.
Tick(p) ==
  /\ Waiter /\ pc[Metrics] = "idle" /\ ticks < MaxTicks /\ Observed
  /\ watch = "restart" => minimum[p] > 0
  /\ proc[p].word \in Up
  /\ ticks' = ticks + 1
  /\ pc' = [pc EXCEPT ![Metrics] = "snap"] /\ about' = [about EXCEPT ![Metrics] = p]
  /\ UNCHANGED <<watch, proc, changes, wasReady, item, to, runnerVars, serverVars,
                 clientVars>>

\* broadcastState reads the state under st.mu and sends it after the unlock.
TakeState(g) ==
  /\ pc[g] = "snap"
  /\ item' = [item EXCEPT ![g] = [kind |-> "state", proc |-> about[g],
                                  st |-> proc[about[g]]]]
  /\ pc' = [pc EXCEPT ![g] = "push"]
  /\ UNCHANGED <<watch, procVars, about, to, runnerVars, serverVars, clientVars>>

EmitGuard(g) == lock = Nobody

\* An entry is due: a line of output, or a state that changed.
Due(g) == \/ pc[g] = "emit"
          \/ /\ pc[g] = "idle" /\ Observed
             /\ \/ watch = "stream" /\ g \in Proc
                \/ watch = "query" /\ g = Names[1]

\* emit takes logMu, numbers the entry and writes the journal; logMu is
\* held until the rotation is over and the entry has been fanned out.  A line
\* of output, up to 1 MiB, may be too large for the history.
Emit(g) ==
  /\ Due(g) /\ EmitGuard(g)
  /\ sequence < MaxEvents[watch] /\ Len(written) < MaxEvents[watch]
  /\ lock' = g /\ sequence' = sequence + 1
  /\ LET id == [run |-> run, seq |-> sequence + 1]
     IN /\ \E large \in BOOLEAN :
             /\ large => watch = "stream"
             /\ item' = [item EXCEPT ![g] = [kind |-> "log", proc |-> about[g], id |-> id,
                                            large |-> large]]
        /\ IF watch = "query" THEN WriteEvent(id) ELSE UNCHANGED journalVars
  /\ pc' = [pc EXCEPT ![g] = IF watch = "query" THEN "fan" ELSE "push"]
  /\ UNCHANGED <<watch, procVars, about, to, run, lastStates, serverVars, clientVars>>

\* logRing.push: what the history may be once e came.  An entry that exceeds
\* the byte budget by itself is not kept; for another one the oldest make room,
\* at least one of a full ring, and as many as their sizes require.
push(s, e) ==
  IF e.large THEN {s}
  ELSE {Append(SubSeq(s, n, Len(s)), e) : n \in {i \in 1 .. Len(s) + 1 : Len(s) + 1 - i < History}}

\* The server's memory and the slice of clients are taken under one lock.
Pushed(g) ==
  /\ to' = [to EXCEPT ![g] = client.reg]
  /\ pc' = [pc EXCEPT ![g] = "fan"]
  /\ UNCHANGED <<watch, procVars, about, item, runnerVars, clientVars>>

BroadcastLog(g) ==
  /\ pc[g] = "push" /\ item[g].kind = "log"
  /\ history' \in push(history, item[g])
  /\ missed' = IF item[g].large /\ client.at = "off" THEN missed \cup {item[g].id.seq} ELSE missed
  /\ UNCHANGED states
  /\ Pushed(g)

BroadcastState(g) ==
  /\ pc[g] = "push" /\ item[g].kind = "state"
  /\ states' = [states EXCEPT ![item[g].proc] = item[g].st]
  /\ UNCHANGED <<history, missed>>
  /\ Pushed(g)

\* Mutant of TrySend: a full queue loses the message and keeps the client.
LoseMessage(c, m) == IF c.shut \/ Len(c.queue) = QueueCap THEN c
                     ELSE [c EXCEPT !.queue = Append(@, m)]

\* trySend; a client that is full, or closed, is shut down.
TrySend(c, m) == IF c.shut \/ Len(c.queue) = QueueCap THEN [c EXCEPT !.shut = TRUE]
                 ELSE [c EXCEPT !.queue = Append(@, m)]

\* fanOut, after s.mu is released.
FanOut(g) ==
  /\ pc[g] = "fan" /\ wr = "idle"
  /\ client' = IF to[g] THEN TrySend(client, item[g]) ELSE client
  /\ to' = [to EXCEPT ![g] = FALSE]
  /\ IF item[g].kind = "log"
     THEN /\ lock' = Nobody
          /\ pc' = [pc EXCEPT ![g] = "idle"] /\ item' = [item EXCEPT ![g] = Nothing]
     ELSE /\ pc' = [pc EXCEPT ![g] = IF Waiter THEN "idle" ELSE "compare"]
          /\ item' = [item EXCEPT ![g] = IF Waiter THEN Nothing ELSE @]
          /\ UNCHANGED lock
  /\ UNCHANGED <<watch, procVars, about, sequence, run, lastStates, serverVars, heard,
                 minimum, wait, last>>

\* A state that differs from the last one is an entry too, which the waiter
\* would skip.
Compare(g) ==
  /\ pc[g] = "compare" /\ lock = Nobody
  /\ lastStates' = [lastStates EXCEPT ![about[g]] = item[g].st]
  /\ pc' = [pc EXCEPT ![g] = IF lastStates[about[g]] = item[g].st THEN "idle" ELSE "emit"]
  /\ item' = [item EXCEPT ![g] = Nothing]
  /\ UNCHANGED <<watch, procVars, about, to, lock, sequence, run, serverVars, clientVars>>

\* The daemon crashes and the next run opens the journal.
Crash ==
  /\ watch = "query" /\ run < MaxRuns
  /\ run' = run + 1 /\ sequence' = 0 /\ lock' = Nobody
  /\ pc' = [g \in Goroutine |-> "idle"] /\ item' = [g \in Goroutine |-> Nothing]
  /\ history' = <<>>
  /\ Reopen
  /\ UNCHANGED <<watch, procVars, about, to, lastStates, states, missed, clientVars>>

-----------------------------------------------------------------------------
(* The waiter: what it makes of the states it reads                        *)

\* Mutant of Counts: the generation that was asked for is ignored.
AnyGeneration(p, st) == st.word \in Serving

\* satisfied; Health is not looked at.
Counts(p, st) == st.gen >= minimum[p] /\ st.word \in Serving

Current(p, st) == st.gen >= minimum[p]

Waiting == [ready |-> {}, failed |-> FALSE, result |-> "none"]

\* check, for every state of an event, and the verdict on the loop.
Observe(new) ==
  LET Good == {p \in DOMAIN new \cap Want : Counts(p, new[p])}
      bad  == \E p \in DOMAIN new \cap Want : Current(p, new[p]) /\ new[p].word = "failed"
      ready == (wait.ready \ DOMAIN new) \cup Good
  IN [ready |-> ready, failed |-> bad,
      result |-> IF bad THEN "failed" ELSE IF ready = Want THEN "ok" ELSE "none"]

-----------------------------------------------------------------------------
(* The connection                                                          *)

Offline == [at |-> "off", reg |-> FALSE, shut |-> FALSE, queue |-> <<>>,
            snap |-> Nothing]

\* restart --wait: the acknowledgement names the generation to wait for.
AskRestart(p) ==
  /\ watch = "restart" /\ client.at = "off" /\ Want = Proc
  /\ minimum' = [minimum EXCEPT ![p] = proc[p].gen + 1]
  /\ UNCHANGED <<watch, procVars, goVars, runnerVars, serverVars, client, heard, wait, last>>

Snapshot == [kind |-> "snapshot", logs |-> history, states |-> states]

\* handle registers the client and captures the snapshot under one lock.
Connect ==
  /\ watch # "query" /\ client.at = "off"
  /\ watch = "restart" => Want # Proc
  /\ client' = [client EXCEPT !.at = "snap", !.reg = TRUE, !.snap = Snapshot]
  /\ UNCHANGED <<watch, procVars, goVars, runnerVars, serverVars, heard, minimum, wait, last>>

\* The entries and the states of a message.
Entries(m) == CASE m.kind = "snapshot" -> m.logs
                [] m.kind = "log"      -> <<m>>
                [] OTHER               -> <<>>
States(m) == CASE m.kind = "snapshot" -> m.states
               [] m.kind = "state"    -> [p \in {m.proc} |-> m.st]
               [] OTHER               -> <<>>

\* The newest word about each process.
Newest(new, old) == [p \in DOMAIN new \cup DOMAIN old |->
                       IF p \in DOMAIN new THEN new[p] ELSE old[p]]

\* The observer reads a message.
Read(m) ==
  /\ heard' = IF watch = "stream" THEN heard \o Entries(m) ELSE heard
  /\ IF Waiter /\ wait.result = "none" /\ m.kind # "log"
     THEN last' = Newest(States(m), last) /\ wait' = Observe(States(m))
     ELSE UNCHANGED <<last, wait>>

\* writeSnapshot: written in full, or nothing of it and the client is
\* served without it, or a part of it and the client is dropped.
WriteSnapshot ==
  /\ client.at = "snap"
  /\ LET c == [client EXCEPT !.at = "open", !.snap = Nothing]
     IN \/ client' = c /\ Read(client.snap)
        \/ client' = c /\ UNCHANGED <<heard, last, wait>>
        \/ /\ client' = [c EXCEPT !.at = "gone", !.reg = FALSE, !.shut = TRUE]
           /\ UNCHANGED <<heard, last, wait>>
  /\ UNCHANGED <<watch, procVars, goVars, runnerVars, serverVars, minimum>>

\* writeLoop: the next message, also of a queue that was closed.
WriteOne ==
  /\ client.at = "open" /\ client.queue # <<>>
  /\ client' = [client EXCEPT !.queue = Tail(@)]
  /\ Read(Head(client.queue))
  /\ UNCHANGED <<watch, procVars, goVars, runnerVars, serverVars, minimum>>

\* A write fails, or the closed queue is empty: the connection is closed.
WriteEnds ==
  /\ client.at = "open"
  /\ client.queue # <<>> \/ client.shut
  /\ client' = [client EXCEPT !.at = "gone", !.shut = TRUE, !.queue = <<>>]
  /\ wait' = IF wait.result = "none" THEN [wait EXCEPT !.result = "lost"] ELSE wait
  /\ UNCHANGED <<watch, procVars, goVars, runnerVars, serverVars, heard, minimum, last>>

\* drop, when the read of the client's commands ends; Shutdown.
Drop ==
  /\ client.at \in {"open", "gone"} /\ client.reg
  /\ client' = [client EXCEPT !.reg = FALSE, !.shut = TRUE]
  /\ UNCHANGED <<watch, procVars, goVars, runnerVars, serverVars, heard, minimum, wait, last>>

WaitTimeout ==
  /\ Waiter /\ client.at # "off" /\ wait.result = "none"
  /\ wait' = [wait EXCEPT !.result = "timeout"]
  /\ UNCHANGED <<watch, procVars, goVars, runnerVars, serverVars, client, heard, minimum, last>>

-----------------------------------------------------------------------------

\* The monitor joins a run that has an entry of each process.
Before == [i \in DOMAIN Names |->
             [kind |-> "log", proc |-> Names[i], id |-> [run |-> 1, seq |-> i],
              large |-> FALSE]]

\* A run that begins, or one that is under way.
ProcInit ==
  /\ \E st \in {[gen |-> 0, word |-> "starting"], [gen |-> 1, word |-> "ready"]} :
       proc = [p \in Proc |-> st] /\ (~Waiter => st.gen = 1)
  /\ wasReady = [p \in Proc |-> IF proc[p].word = "ready" THEN {1} ELSE {}]
  /\ changes = 0 /\ ticks = 0

EventsInit ==
  /\ JournalInit
  /\ watch \in Observers
  /\ ProcInit
  /\ pc = [g \in Goroutine |-> "idle"] /\ item = [g \in Goroutine |-> Nothing]
  /\ about = [g \in Goroutine |-> g] /\ to = [g \in Goroutine |-> FALSE]
  /\ lock = Nobody /\ run = 1 /\ states = proc /\ lastStates = proc
  /\ history = IF watch = "screen" THEN Before ELSE <<>>
  /\ sequence = Len(history) /\ missed = {}
  /\ client = Offline /\ heard = <<>> /\ last = <<>>
  /\ minimum = [p \in Proc |-> 0] /\ wait = Waiting

\* The steps that also write the journal, and the ones that leave it alone.
WriterStep == (\E g \in Goroutine : Emit(g)) \/ Crash
ServerStep ==
  \/ \E p \in Proc : Change(p) \/ Tick(p) \/ AskRestart(p)
  \/ \E g \in Goroutine : \/ TakeState(g) \/ BroadcastLog(g) \/ BroadcastState(g)
                            \/ FanOut(g) \/ Compare(g)
  \/ Connect \/ WriteEnds \/ Drop \/ WaitTimeout
DeliverStep == WriteSnapshot \/ WriteOne
JournalStep == watch = "query" /\ (RotateStep \/ ReaderStep)

-----------------------------------------------------------------------------
(* Properties                                                              *)

\* A client reads the events of the run in the order of their sequence
\* numbers, without a repetition, across the snapshot and the live stream.
\* All that is missing in between came before it connected and was too large
\* for the history; what came since it reads without a hole, however slowly: a
\* client that cannot keep up is cut off (emit, push, handle, fanOut, trySend).
StreamExact ==
  \A i \in 1 .. Len(heard) - 1 :
    LET a == heard[i].id.seq
        b == heard[i + 1].id.seq
    IN  a < b /\ a + 1 .. b - 1 \subseteq missed

\* A wait that succeeds means that every process really was ready in a
\* generation at least as new as the one that was asked for, and that the
\* newest word read about each is that it is up and ready in such a generation,
\* healthy or not, or has completed: a success that a later word took back does
\* not count, although states are broadcast out of order
\* (waitForProcessesReady).
WaiterSound ==
  wait.result = "ok" =>
    \A p \in Want : /\ \E g \in wasReady[p] : g >= minimum[p]
                    /\ p \in DOMAIN last /\ last[p].word \in Serving
                    /\ last[p].gen >= minimum[p]
=============================================================================
