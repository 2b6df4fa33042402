# A TLA+ verification of proc-compose

proc-compose runs a set of processes described by a YAML file: it starts them
in dependency order, probes their readiness and health, restarts them by
policy, serves a control socket when it runs as a daemon, and on stop
terminates every process group and says whether it could prove that they are
gone. These modules model the supervisor's own logic, `internal/runner` first,
and state what makes it correct. Names follow the Go source. `PROJECT.json`
maps every definition to the lines it models.

## Inventory

| Component | State | Operations | Hard because | What makes it correct |
|---|---|---|---|---|
| Process lifecycle: `lifecycle.go`, `state.go`, `runner.go` | `procState` of each process, its readiness cycle and restart channel; the run's context, `stopping`, `sealing`, the handoff channel | `runProcess`, `runTaskProcess`, `waitForDependency`, `waitBeforeRestart`, probes, `requestRestart`, `Shutdown`, `Run` | one worker, one restart watcher, one prober and one monitor per incarnation, all racing commands and signals | ordered startup, final and current verdicts, nobody stranded, bounded restarts, a cancelled run ends |
| Process groups: `lifecycle.go` (`exec`, registry, sweep), `processgroup*.go`, `exitwatch*.go`, `exitwait_unix.go` | group handles, the registry, pending reaps, the verdict's problems | launch, escalate, withdraw, reap, verify, sweep, forced shutdown | four sources of signals race the reap that frees the number | signals reach only owned groups; no live group is abandoned unkilled; a clean verdict is proof |
| Crash record: `lifecycle.go` (`record*`), `daemon/daemon.go` | entries in memory and in the PID file | pending, tracked, drop, rewrite | a crash or a failed write at any point | the file covers every live group |
| Crash recovery: `recover_unix.go`, `processgroup.go` | classified, pinned groups | classify, repin, signal, conclude | numbers reused since the crash | nothing unproven is signalled; nothing live is called gone |
| Listener attribution: `attest*.go`, `probe.go` | the owner of an answer, per attempt | dial, read the socket table, walk descriptors, place, refuse | procfs is read piece by piece while processes fork and pass sockets on | an answer called ours was ours; readiness is not borrowed from a program the policy refuses |
| Checks and teardown: `check.go`, `teardown.go` | active checks, deadlines | `RunCheck`, `runTeardown` | own deadlines inside a stopping run | joined before Run returns; what runs is the current definition |
| Shutdown acknowledgement: `runner.go`, `ipc/server.go` | barrier, verdict channel | `enter`, `leave`, `sealAndWait`, `endRun` | Run waits for a handler that waits for Run | the verdict is delivered or journalled before exit |
| IPC and events: `ipc/*.go`, `broadcast.go` | clients, queues, latest states | snapshot, broadcast, command, drop | slow clients, order of snapshot and events | a client sees a snapshot, then every later entry or its end |
| Reload: `reload.go` | configuration | replace and restart | races with shutdown | what is answered is what was replaced |
| Sessions: `session/session.go`, `registry` | leases, held ports | acquire, release, rebind, inspect | two supervisors, partial failure, programs outside | exclusive instance, resources and ports; no leaked lease |
| Journal: `logrotate`, `logs/query.go` | current file and copies | write, rotate, page | failing renames, rotation during a query, a crash in between | no line lost that retention keeps; exact pages |
| Verification: `verify/*.go` | attempt, receipt, comparison | run, check, clean up, seal, prune, compare | deadlines, interruption, a service that changes meanwhile | one final verdict per attempt, and an earned one |
| Configuration: `config/*.go` | none | load, wire the proxy, validate, select, plan | closure of dependencies, upstreams computed twice | acyclic, closed selection; the same upstreams everywhere |
| Command line: `cmd/proc-compose` | none | start, stop, wait, attempts | a daemon that dies or is replaced meanwhile | stop never reports an unproven end; a wait is never satisfied by the past |
| Terminal monitor: `monitor/monitor.go` | table, selection, filter, scroll offset | events, keys | the table is sorted under the cursor | what the user looks at does not move by itself |

Not planned: doctor, bootstrap, systemd units and self-update (sequential
I/O), Windows job objects (authority survives the reap there), YAML parsing.

How the parts interact: `Run` starts one worker per process; a worker calls
`exec` for each incarnation; `exec` registers the group under `lifecycleMu`,
the lock it shares with admission, the sweep and restart requests. Dependents
learn of a dependency only through its readiness cycle. The command loop turns
socket commands into `requestRestart`, `Reload` and `Shutdown`. `Run` ends by
sweeping the registry and publishing the verdict that the shutdown command is
waiting for.

## Modules

`Lifecycle` is the worker of each process and what runs beside it. The fields
of `procState` are variables; a readiness cycle is an entry of the sequence
`outcome[p]`, the last one being current, so a dependent that holds an old
cycle holds its index. `pc` is the worker's place in `Run`'s loop, `runProcess`
or `exec`. Every section under `st.mu` or `lifecycleMu` that another goroutine
can tell apart is an action. The restart watcher is modelled with its missing
join: watchers of earlier incarnations that have not left their `select` are
counted in `stale`.

`ProcessGroup` is one execution of `exec` and everything that can touch its
group: escalation, the cancel hook of `os/exec`, forced shutdown, sweep, reap,
verification, record. The kernel is the environment: a leader runs, is a
zombie, is reaped; other members come and go; a descendant may leave the group
with the output pipe; a free number may be given to an unrelated group
(`foreign`). A signal is judged by whom it reaches (`stray`) and by whether it
was SIGKILL (`killed`).

The two are views of one program. `Lifecycle` reduces `exec` to its result;
`ProcessGroup` reduces the worker to executions that follow one another under
one name.

`Control` is the control plane of the daemon: the command loop, reload, the
shutdown request, and the end of Run with sweep, teardown, verdict, barrier and
exit. Per client it follows a command from the socket to the flushed answer;
`Up` is the part of the program that still runs. `StopPromise` is its abstract
specification: a stop request is pending, accounted for (answered or
journalled), and Run is not over while one is pending. `Control` implements it
under the mapping at its end.

`Recovery` is what remains of a daemon that crashed: the PID file, the stop
command, crash recovery over pidfds, and the next start. The kernel is again
the environment: members fork and exit, numbers are reused between any two
system calls, the machine may have been rebooted.

`Attest` is one process with a probe and one program that wants its port. The
sockets and who holds them are the environment; the socket table, the group's
members, their descriptors and everybody else's are read in separate steps.

`Journal` is the rotated file and the paged query, a step per rename and open.
`Events` puts the producers, the server and one observer above it; `Monitor`
is the terminal monitor as that observer.

`Config` is pure: Load, selection and plan as operators, one action that
applies them. `Session` adds leases and ports of two supervisors to it,
`Attempt` the verification attempts made on a session, and `Compare` the
comparison of two series of attempts. An acquisition takes the instance first,
as a step of its own, then what is behind it one item at a time: `todo` is the
set of items that are left, and `Rank` the order in which `Acquire` takes them
(resources, the proxy's port, pinned ports, ports that may move; by process
name within a kind). `Identity` gives the resource that a label names, since two
labels may name one. `SameLeases` and `References` are what `Resolve` looks at
when an edited configuration is reloaded under the same plan, `SameStack` what the
runner then refuses to change.

The instances run `Attest`, `Config`, `Session`, `Attempt` and `Compare` beside
other modules; `AttestSpec`, `ConfigSpec`, `PortsSpec`, `VerifySpec` and
`CompareSpec` are their specifications alone, which the proofs speak of.

What the models merge or leave out:

- `Lifecycle`: the generation guard of a probe is implied by the join before
  the next incarnation; `resetReady` and the following `restarts++` are one
  step; `procCancel` is merged with `exec`'s return; the transient state
  "exited" before an automatic restart is not shown; a second shutdown or
  signal changes nothing and is not an action; no check is active
  (`activeChecks = 0`); a refused restart request changes nothing. Health
  checks are modelled for `health_action: restart`, whose only effect on the
  lifecycle is the failure they record; the number of failures is not counted.
- `ProcessGroup`: listing a group's members is atomic; `Track` does not fail on
  Unix; nobody else reaps the leader; teardown-phase groups are left out; the
  PID file may vanish only at the moment a launch is recorded.

- `Control`: workers and groups end in one step, which may leave a problem;
  waits that are bounded well above the write they wait for do not time out.
- `Recovery`: one recorded group; a membership scan is atomic and sees every
  member or fails; the second daemon is not stopped.
- `Attest`: a leader, a worker and one outside program; numbers are not reused;
  `OwnerProven` speaks of sockets whose holder did not change while it was
  looked for, and excludes a more specific listener opened after the dial, which
  no reader of procfs can tell. A descriptor directory that cannot be read
  contributes nothing and hides nothing from the walk (attest_linux.go:119-122);
  of the ways to miss a holder the model has those that the code notices. `cmd`
  and `log` probes and the count of failures are in `Lifecycle`.
- `Journal`: events have one size; filters and byte limits are left out. The
  query's second look at the names is one step. `cursor` is the client's, which
  keeps it when a query fails; the query in hand goes on from `After`, nothing
  once the cursor was lost. A page that reports a gap flags its events, and the
  next one when it is empty.
- `Events`: one observer per behaviour; the journal is written only where it is
  observed. Text, level and the tunnel URL are left out. Of an entry's size all
  that counts is whether it exceeds the 256 KiB that the history may hold;
  otherwise any number of the oldest entries may make room for it.
- `Config`: commands, directories, prefixes and URL variables are left out; the
  ports of a process are its `http` port.
- `Attempt`: the stack is one service; error codes are reduced to "some error";
  a timer may fire at any point of the wait it bounds.
- `Compare`: output is what the runner records, whole lines without their ends
  (`Recorded`), so two runs that differ only in the carriage returns at the ends
  of lines, or in the newline at the end, are the same. A carriage return on the
  last byte of the 64 KiB read buffer, which the code keeps, and the shift of the
  cut to a character boundary are left out. Errors that compare does not look at
  are one flag.

`MCLifecycle`, `MCProcessGroup`, `MCControl`, `MCRecovery`, `MCEvents` and
`MCVerify` give the constants values for TLC. `MCRecovery` and `MCVerify` also
hold several modules side by side; a variable `scenario` says which part of the
instance a behaviour plays.
`LifecycleProofs`, `ProcessGroupProofs`, `ControlProofs`, `RecoveryProofs`,
`SessionProofs` (Config and Session), `AttemptProofs` (Attempt and Compare),
`AttestProofs` and `EventsProofs` (Events, Journal, Monitor) hold the
theorems. Operators that a comment calls a mutant are deliberate errors, used only to show that each
property can fail.

## Runs

| Run | Instance | Shows |
|---|---|---|
| `lifecycle_pair` | db (polled probe, `on-failure`, one restart) and api, which depends on it; one restart request, shutdown, signal | order of startup, final verdicts, bounded restarts |
| `lifecycle_job` | api (log probe, `always`, one restart, restarting health check) and a task that depends on it, with fairness; handoff | readiness is current also where waits are released without a verdict; waits on a process with limited restarts end, a cancelled run ends, an idle daemon stops |
| `lifecycle_restart` | two services that exit cleanly, one request, with fairness | fails: an acknowledged restart can be lost |
| `lifecycle_stop` | two tasks in a row that never fail | fails: a stop can fail a task |
| `group_restart` | two executions of one process, handoff | whom signals reach, record and sweep |
| `group_check` | one check with all faults (failing enumeration, observation and record writes) | nothing live is sealed unkilled; the verdict |
| `group_stray` | one check without faults | fails: a signal can follow the reap of a handed-off check |
| `control` | one client that stops, one with any command; a service, a task, a teardown command; four configuration files; a command queue of one; with fairness | true answers, honest reloads, the promise of `StopPromise`, exit |
| `recovery` | scenario `recover`: a leader, two children, two strangers that inherit numbers; scenario `answer`: eleven worlds of a process and a program on its port | recovery signals and reports only what it can prove; no probe passes on a program the policy refuses |
| `events` | two processes, a journal of two copies, a history of two, a queue of one; observers query, stream, up, restart, screen; entries too large for the history | journal and pages, stream, waiters, monitor |
| `session_reload` | one stack with a proxy that reloads an edited configuration | fails: a reload can move an upstream away from where the proxy looks |
| `verify` | scenarios `load` (every graph of three processes; every naming of two ports under a merge), `ports` and `verify` (two supervisors), `compare` (two sides, up to two repetitions, runs of every kind) | selection, upstreams, leases, attempts, receipts, comparison |

The properties:

- `DependencyOrder`: no incarnation before each dependency was ready once.
  `VerdictsFinal`: a published verdict never changes. `EndedIsSettled` and
  `OverIsOver`: a verdict "over" is published when, and only when, the worker
  is done. `ReadyIsCurrent`: advertised readiness was earned by the present
  generation. `PendingKeepsAlive`: a pending request keeps an otherwise idle
  stack up. `RestartsBounded`: an unrequested restart never exceeds the limit.
- `SignalsReachOwn`: no signal of a managed process reaches a stranger.
  `KilledBeforeSealed`: authority over a live group is not given up before
  SIGKILL, except where the leader could not be observed. `VerdictSound`: when
  Run returns, a live group is named in the verdict. `EscapesReported`: so is a
  descendant that left the group. `RecordCoversLive`: a crash finds every live
  group on disk. `SweepIsLast`: nothing starts behind the sweep.
- `ToldTheTruth`: "ok" is told only after a verified end and passed teardowns.
  `TeardownIsCurrent`: a reload never changes what the teardown phase runs
  under its feet. `ReloadHonest`: the answer to a reload matches what was
  replaced, also when a shutdown cut in. `KeepsPromise`: the refinement.
  `CancelledExits`: no wait of Run and its handlers is circular.
- `OnlyOwnSignalled`, `SuccessMeansGone`, `NobodyForgotten`: recovery signals
  members only, a successful stop leaves none, and while one lives its record
  stays or somebody was told. `OwnerProven`: an answer attributed to the
  process, to another or to nobody really was. `ForeignRefused`: no
  probe or health check passes on a program that the owner policy refuses, when
  it held the socket throughout and the socket was read without a gap; an answer
  recorded as own was a member's. An answer that cannot be attributed, one of
  another user's program for instance, is taken under every policy.
- `JournalWhole`, `PagesExact`: no hole and no repetition in the files and over
  the pages of a query. `StreamExact`: none in what a client reads, but for
  entries that came before it connected and were too large for the history.
  `WaiterSound`: a wait succeeds on the generation it asked for, and no newer
  word has taken its success back; a process that is ready but unhealthy counts.
  `ViewSteady`: selection and scrolled view stay put.
- `SelectionExact`: cycle detection, closure and levels against the transitive
  closure. `UpstreamsAgree`: the upstreams Load wires, the session pins and the
  preflight looks at are the same. `UpstreamsPinned`: an upstream of the proxy in
  force listens on its preferred port, where the proxy looks. `NoTrespass`: a granted plan owns all it
  uses, a refused one nothing. `PassedIsEarned`, `OneOwner`, `ReceiptsHonest`:
  a pass was earned and is on disk, no two runners work on one session, and
  receipts are never lost or unreadable. `CompareHonest`: "same" and "different"
  are true of what the checks did, and only a comparison that ran to its end is
  judged.

Bounds. Two processes are the smallest stack with a dependency; a chain adds
no new kind of step because a wait involves two processes only. One automatic
restart and one request give three incarnations, enough for a watcher of the
first to meet the third. Two executions under one name are needed for an older
group to be replaced in the registry; more only repeat that. `MaxRequests`
bounds the accepted requests; nothing else is cut off. The proofs below hold
without these bounds.

Two clients are enough for a second command to meet a shutdown at every step of
the first, with a queue of one so that it fills. One recorded group suffices
because recovery treats groups one after the other; two strangers reuse a
leader's and a member's number. Two journal copies of one event are the
smallest in which a rotation shifts and drops; three or four events turn it over
completely. Three processes give every dependency graph with a cycle through
others; three ports let two named ports and the proxy compete. Two supervisors
and three attempt ids, drawn in any order, let a receipt be older than one that
is retained. Two generations distinguish a restarted service.

Fairness (`FairSpec`) is weak and covers what the Go scheduler and timers
guarantee: each worker, watcher, prober and monitor, and Run itself, moves when
it can. A worker that waits for a command which never exits is not assumed to
move, except after cancellation, when the escalation ends the command or the
handoff ends the wait. Nothing is assumed of requests, shutdown, signals or a
command's own exit. `ready_timeout` is taken to be finite; with a negative
value a dependent may wait for ever, as documented. So may one whose dependency
is never ready and restarts for ever, which is the default of a restart policy
(`max_restarts: 0`; docs/configuration.md:392-395): `WaitersReleased` speaks of
stacks in which every process that restarts has a limit (`LimitedRestarts`).
`Control`'s is weak too:
Run, the command loop and the handler of each connection move while the daemon
is up, which the scheduler and the bounded writes guarantee. Nothing is assumed
of clients, reloads, signals or of the way the stack ends.

## Disagreements with the documentation

1. `lifecycle_restart`: the watcher of an incarnation that has ended can take
   a restart request from `restartCh` and drop it; the acknowledged generation
   never starts although the daemon stays up.
2. `lifecycle_stop`: `runTaskProcess` looks at the context only. A task refused
   between `closeAdmission` and `cancel` is reported as failed, and so are its
   dependents.
3. `group_stray`: `finishHandoff` starts the reap without `Withdraw`. The sweep
   has done that before it releases a managed process, but a check is released
   by its own deadline, so a later sweep or forced shutdown can signal a number
   that is no longer its own.

4. `session_reload`: `Resolve` (session.go:183) accepts a reload when resources,
   merge port and named ports are unchanged. It does not look at the upstreams
   again, so a port that was free to move when it was acquired can become an
   upstream's, and the upstream is started on the moved number while the proxy
   uses the preferred one.

Related behaviour, not stated as runs: with `merge.client_process: merge-port`,
Load finds no such process yet and detects the client (config.go:1095); the
session, which recomputes the upstreams from the loaded configuration, takes
`merge-port` for the client and pins no port of the real one, so
`UpstreamsAgree` fails. A handed-off check whose run ends
without cancellation is never swept (`sweepGroups` returns early), so
`VerdictSound` covers checks only when a sweep ran; a requested restart is not
stopped by `errTreeUnconfirmed`. A second client whose stop is still queued when
Run ends may never be answered; it is not an accepted request. A reload that a
shutdown refuses midway leaves the definitions replaced so far, and says so with
an error. A stop that cannot verify removes the PID file after saying NOT
verified. `stopDaemon` removes the PID file of a daemon it has seen go without
holding the session lease, which `preflightCheck`'s comment avoids. `attempts`
calls an attempt abandoned when it completed between the read of its receipt
and the test of its lease, and active when its terminal write failed and the
same process runs a later repetition. `InstanceHeld` takes the lease to test it,
so a supervisor that acquires just then is refused. A service that restarts
between the last ready poll and the baseline snapshot is checked in an
incarnation never seen ready. A worker forked after the membership was listed,
whose parent exits, counts as a foreign holder for one attempt. The monitor's
scroll offset also grows with lines the filter hides. A line whose entry exceeds
256 KiB when encoded is shown to the clients that are connected and is missing
from every later snapshot (ringbuf.go:36-38), without a mark. `Compare` says that
an attempt must have run its check to be compared, but looks only for one that
was not run (compare.go:151-153); a check whose command cannot be started is
recorded as failed (operation.go:731-733), so when neither side can start it the
comparison is `comparable`, with `outcomes_equal: true` and exit code 0.

## Proofs

TLAPS checks these for every value of the constants allowed by
`LifecycleAssumption`, `ControlAssumption`, `ConfigAssumption`,
`SessionAssumption`, `AttemptAssumption`, `CompareAssumption`,
`JournalAssumption` and `EventsAssumption` (types; limits that are not zero),
`ProcessGroupAssumption` (checks are executions, names are given, flags are
Boolean) and `RecoveryAssumption` (the leader is one of the group's own
processes, which have different numbers). The theorems about `Attest` hold for
any set of worlds. Every inductive
invariant was an invariant of a TLC run before it was proved. Each step lemma
has one case per action.

`LifecycleProofs`: `TypeCorrect`, `VerdictsAreFinal`, `OrderedStartup`,
`NobodyStranded`, `EndsAreReal`, `ReadinessIsCurrent`, `RestartsArePaidFor`,
`RequestsKeepAlive`. `DependencyOrder` alone says nothing of a worker in the
middle of its waits, so the invariant (`DepInv`) adds that the dependencies
already passed were ready and that a held cycle exists. `LifeInv` adds, per
process, that an incarnation starts on a fresh cycle and a polling prober lives
only within its incarnation: that is what makes a late verdict impossible.
`HandoffInv` ties every release without a verdict to the sweep. `PaidInv`
accounts for every restart by the limit or by an accepted request.

`ProcessGroupProofs`: `TypeCorrect`, `SignalsAreOwn`, `SweepComesLast`,
`RecordIsComplete`, `SealedAfterKill`, `EscapesAreReported`, `VerdictIsProof`.
The invariant `IndInv` has four parts. `LaunchInv`: `lifecycleMu` separates
launches from each other and from the sweep. `OwnerInv`: a number is reused only
after the reap, and for a managed process the reap follows the withdrawal; where
a worker may start a reap through the handoff, the sweep has withdrawn first,
because a group with authority is registered or before the sweep. `HandleInv`:
no handle is closed while someone may still ask it for the group's state, so
"empty" means empty. `CoverInv`: a group that runs or is about to has an entry
in memory and on disk; a failed write leaves a superset. The second invariant
(`OutcomeInv`) stands on the first: `TurnInv` (a process has one execution in
`exec`), `KillInv` (a live group behind the escalation was sent SIGKILL or could
not be observed), `EscapeInv` (an escaped descendant is noticed by the scan, then
reported), `AccountInv` (a live group is registered, before the sweep, or named
in the verdict).

`ControlProofs`: `TypeCorrect`, `StopAnswersTrue`, `TeardownCurrent`,
`ReloadReportsTruth` and the refinement `StopPromiseKept`. `RunInv` orders the
phases of Run, `LoopInv` those of the command loop, `ConnInv` what a connection
may be waiting for; `PromiseInv` says that the barrier is held for the stop
in hand and that no other accepted stop is unaccounted for, `TruthInv` that "ok" is written only from a verified end,
`ReloadInv` what a reload in progress has replaced so far. For the refinement,
the initial states map to initial states and each step to a step of
`StopPromise` or a stutter.

`RecoveryProofs`: `RecoverySignalsOwn`, `StopSuccessIsProof`,
`LiveMembersRemembered`. `KernelInv` says who can hold which number, `ProofInv`
what a successful comparison with the record proves, `PinInv` that a pinned
handle keeps meaning the process it was opened for, `SessionInv` what the PID
file holds while a member lives.

`AttemptProofs`: `RunnersHoldTheSession`, `VerdictsAreEarned`,
`ReceiptsTellTheTruth`. A lease is taken only when free, so one supervisor at a
time is granted the session (`LeaseInv`). A plan closes with the instance held
only when authority was withdrawn, and a live runner left by a timed-out cleanup
makes the next acquisition of the same process fail (`SupervisorInv`). Ids are
not given twice, and nobody prunes while another holds the session
(`ReceiptInv`, `LookInv`).

`AttestProofs`: `AttributionIsProof`, `ForeignAnswersAreRefused`. The history is kept of the
socket that answered, from the reading of the table on. A listed member that
holds it was a member when listed, or only the outside program holds it
(`ClaimInv`); whoever held it throughout and is a member was listed and found
(`WalkInv`); where nothing was hidden the claim is owned, foreign or unseen, and
the outside program is placed in its session (`PlacesOK`, `RowOK`).

`EventsProofs`: `StreamHasNoHole`, `WaitsAreSatisfied`, of the specification in
`Monitor`. What a client has read, or the snapshot it is about to read, and its
queue are one piece of consecutive entries, but for those that came before it
connected and were too large for the history (`missed`); unless the client was cut
off the piece ends with the newest entry, or with the one before it while that one
is with the goroutine that holds `logMu` (`LockInv`, `HistoryInv`, `ClientInv`).
The history itself has to be such a piece only until the client connects, and it
stays one because the oldest entries leave it first (`PushEntry`). Whatever is
said of a process, by the server, on its way or as read, is that it is ready, or
was and is unhealthy, in a generation in which it was ready (`FactInv`, `HandInv`,
`QueueInv`), and a process counts as long as the newest word read says that it is
up and ready (`ReadyInv`). States may overtake each other; neither argument needs
their order.

The third theorem there, `JournalIsWhole`, is about `Journal`. `FilesInv`: a
file has at most one name. `WriterInv`: the open file is the last one created
and is where the writer's place in the rotation says (`Where`), and nothing is
behind it under another name. `CutInv`: the names, in the order a reader takes
them, cut what was written into adjacent pieces, every copy is full, and a piece
was dropped only when all the copies behind it were. A step of the rotation moves
one piece to the next name, and a rollback moves it back. `Retained` folds over
the files, so `PiecesMeet` and `WholeFollows` show with a least number, instead
of an induction theorem, that adjacent pieces make one suffix.

The fourth, `PagesAreExact`, is about the query of `Journal`. Events are numbered
in the order they are written, also across a crash (`NumberInv`); they go to the
newest file, so an older file has the earlier ones (`BookInv`); an older name is
of an older file, and no file newer than a kept one is gone (`DirInv`). A rename
keeps the age of a name, so when the names that were observed still hold, the
pinned files are in the order of their age and are all that are kept
(`CheckPages`). The fold over them is joined with a least number (`JoinAll`),
which gives that what is scanned rises and misses nothing that was pinned
(`PinnedIs`). What links one page to the next is the file of the last event that
was returned (`LastInv`): pinned again, it still has that event; not pinned, it is
older than everything that is. Hence a page without a cursor, after the cursor
was lost, is still later than all that was returned (`PageIsLater`), and
`PagesMeet` says where the numbers of two pages must join. `LastInv` is the part
that `PagesExact` does not say and without which it is not inductive.

The fifth, `ViewStaysSteady`, is about `Monitor`. One goroutine at a time reports,
with the newest line in its hands (`SoloInv`), so the lines in the history, the
snapshot, the queue and the ring are numbered upwards, across the snapshot and the
stream (`KeptInv`, `Feed`). The place of a process in the table is the number of those
above it, which gives that the sort exists and lists the table (`SortedIs`); so
`Captured` is found again and the tracked name stays highlighted (`ViewInv`,
`Rebuilt`). A line that arrives moves a full ring and the scroll offset by one each;
the numbers say that a line which left the ring is not in it again
(`ScrollIsSteady`). Without them, "unless that line left the ring" would not be
enough: a repeated line would make the page jump.

`SessionProofs`: `UpstreamsAreTheWired` and `SessionsDoNotTrespass`. The first is
about Load for every file that can be parsed (`IsFile`) whose
`merge.client_process` is not the proxy, for which it is false (see the related
behaviour above): adding the proxy to the processes changes neither who is detected,
nor who is served, nor where (`Kept`, `FirstIgnores`). The second holds for any
supervisors, sessions, labels that `Identity` knows, reloads and outside
programs. `PlanInv` says of each place of an acquisition which leases and ports
the plan has taken and that the items left name others; `Books` that the plan's
account is the lease table's and the port table's. A plan only ever changes what
is free or its own, so the books of the others stay.

`VerdictIsAboutTheRuns`, in `AttemptProofs`, is about `Compare`. Lemmas about
single results come first: one that was not cut is the outcome of its run, and
captures that prove a difference are never of one stream. The invariant says
that the sides take turns (`TurnInv`), that all attempts are made unless a run
ended the comparison (`CountInv`), and that the verdict is drawn once from all of
them (`VerdictInv`): without it, "false" and "true" could be about a side without an
attempt. That the check ran in every attempt is not among what is proved: it is
false (see the related behaviour above).

Only model-checked: `SelectionExact`, whose closure is a recursive function; and
`NoTrespass` where verification attempts acquire the ports (`SessionsDoNotTrespass`
is about supervisors that acquire once). The
induction theorems of the library cannot be instantiated by the installed
provers, so what a recursive definition computes has to be argued with least
numbers by hand, which was done where the property is worth it. Liveness stays
with TLC, since the prover does not reason about fairness.

## Plan

1. Proofs: `NoTrespass` under verification attempts.
2. `Recovery` together with `Session`: a start that races a stop.
3. Several checks at once (`activeChecks`, `checksClosed`) with `ProcessGroup`.
4. `cmd` probes, and their process groups.

## Not modelled

Doctor, bootstrap, systemd units and self-update inspect, generate or download
files in sequence. On Windows a job object keeps authority over a tree across
the reap of its leader, so the ownership protocol modelled here is not needed
there. YAML parsing, diagnostics with positions, the JSON schema, route scanning
and URL rewriting are text processing; so are the drawing of the monitor and the
human output of the commands. `why` and the diagnosis of an attempt only read.
`/health` answers from a snapshot. A `cmd` probe's command, the metrics and the
tunnel URL have no effect on what is stated here.

## Checking

`tlc -config Lifecycle_pair.cfg MCLifecycle` and so on for the other
configurations; `tlapm LifecycleProofs.tla` and so on for the other modules of
proofs.
The largest runs, `events` and `recovery`, have about 3.5 and 2.6 million
states and take two to three minutes with two workers.
