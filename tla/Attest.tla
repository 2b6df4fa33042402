------------------------------- MODULE Attest --------------------------------
(***************************************************************************)
(* Who answered a probe: the http and tcp readiness probes and health      *)
(* checks of one process, the attribution of the connection each attempt   *)
(* dials to the process that holds its server side, and the policies that  *)
(* refuse the answer of a foreign process or of another live session.      *)
(* Sources: internal/runner/attest.go, attest_linux.go, probe.go and       *)
(* lifecycle.go (buildReadinessCallbacks, handleProbeResult).              *)
(*                                                                         *)
(* Attribution is a walk over procfs: the socket table, the members of the *)
(* group, their descriptors and everybody else's are read one after the    *)
(* other while processes listen, accept, fork, leave their group and exit. *)
(* The process has a leader and one worker; one program outside its group  *)
(* wants the same port.  The failures that make a process unhealthy are    *)
(* counted in module Lifecycle.                                            *)
(***************************************************************************)
EXTENDS Naturals, FiniteSets, Sequences

VARIABLES
  world,    \* the outside program, the addresses, the policies, and the bounds
  side,     \* where each program is: its group, another's, or nowhere
  holders,  \* who holds each socket; a listener nobody holds is closed
  row,      \* the server side of the probe's connection
  inc,      \* the incarnation: generation, context, group, verdicts
  probe,    \* the goroutine of the probe
  truth     \* history: who really held the socket that answered

attestVars == <<world, side, holders, row, inc, probe, truth>>

Listening == {"own", "their"}
Socket == Listening \cup {"conn"}
Program == {"leader", "worker", "other"}
Outside == {"same", "alien"}
Alive(p) == side[p] \in Outside \cup {"member"}
Members == {p \in Program : side[p] = "member"}

\* What a behaviour is about: the program outside, where it belongs, and the
\* policies of the process; rank orders the addresses of the two listeners.
World ==
  [user : Outside, home : {"none", "own", "recorded", "leased"}, live : BOOLEAN,
   root : BOOLEAN, reject : BOOLEAN, cross : BOOLEAN, kind : {"tcp", "http"},
   shared : BOOLEAN, remote : BOOLEAN, rank : [Listening -> Nat],
   dials : Nat, incarnations : Nat]

NoRow == [at |-> "none", via |-> "none"]
NoOwner == [result |-> "none", reason |-> "none", pid |-> "none", scope |-> "none"]
Unattributable(why) == [NoOwner EXCEPT !.result = "unattributable", !.reason = why]
NoTruth == [answer |-> "none", steady |-> {}, seen |-> {}, clean |-> FALSE]
NoPass == [clean |-> FALSE, owned |-> FALSE, member |-> FALSE, outsider |-> FALSE,
           crossed |-> FALSE]
Incarnation(g) ==
  [gen |-> g, at |-> "starting", ctx |-> TRUE, group |-> FALSE, ready |-> FALSE,
   failed |-> FALSE, owner |-> NoOwner, healthOwner |-> NoOwner, passed |-> NoPass]
NoProbe == [pc |-> "off", health |-> FALSE, dials |-> 0, inodes |-> {}, members |-> {},
            found |-> {}, owner |-> NoOwner]

-----------------------------------------------------------------------------
(* The system: sockets and the programs that hold them.                    *)

\* Closing the listener whose queue holds the connection resets it; closing
\* the accepted socket leaves a row without an identity.
Remains(r, h) == IF r.at = "queued" /\ h[r.via] = {} THEN [r EXCEPT !.at = "absent"]
                 ELSE IF r.at = "accepted" /\ h["conn"] = {} THEN [r EXCEPT !.at = "closed"]
                 ELSE r

\* The socket that answered, watched from the moment the table was read.
Watched(t, h, s) ==
  IF t.answer = "none" THEN t
  ELSE [t EXCEPT !.steady = {p \in @ : p \in h[t.answer] /\ s[p] = side[p]},
                 !.seen = @ \cup {<<p, s[p]>> : p \in h[t.answer]}]

Becomes(h, s) == /\ holders' = h /\ side' = s
                 /\ row' = Remains(row, h) /\ truth' = Watched(truth, h, s)
                 /\ UNCHANGED world

\* Two listeners share a port when both asked for it (SO_REUSEPORT).
Listens(p, s) ==
  /\ Alive(p) /\ holders[s] = {} /\ s = IF p = "other" THEN "their" ELSE "own"
  /\ world.shared \/ \A l \in Listening : holders[l] = {}
  /\ Becomes([holders EXCEPT ![s] = {p}], side)
  /\ UNCHANGED <<inc, probe>>

Accepts(p) ==
  /\ row.at = "queued" /\ p \in holders[row.via]
  /\ row' = [row EXCEPT !.at = "accepted"]
  /\ holders' = [holders EXCEPT !["conn"] = {p}]
  /\ UNCHANGED <<world, side, inc, probe, truth>>

ServerCloses ==
  /\ row.at = "accepted"
  /\ Becomes([holders EXCEPT !["conn"] = {}], side)
  /\ UNCHANGED <<inc, probe>>

\* The leader forks; the worker inherits what it holds.
Forks ==
  /\ side["leader"] = "member" /\ side["worker"] = "absent"
  /\ Becomes([s \in Socket |-> IF "leader" \in holders[s] THEN holders[s] \cup {"worker"}
                               ELSE holders[s]],
             [side EXCEPT !["worker"] = "member"])
  /\ UNCHANGED <<inc, probe>>

\* The worker becomes a session of its own and leaves the group.
Daemonizes ==
  /\ side["worker"] = "member"
  /\ Becomes(holders, [side EXCEPT !["worker"] = "same"])
  /\ UNCHANGED <<inc, probe>>

Without(ps) == [s \in Socket |-> holders[s] \ ps]
Gone(ps) == [p \in Program |-> IF p \in ps THEN "gone" ELSE side[p]]

ProgramExits(p) ==
  /\ Alive(p)
  /\ Becomes(Without({p}), Gone({p}))
  /\ UNCHANGED <<inc, probe>>

\* The supervisor of the other session dies.
SessionDies ==
  /\ world.live
  /\ world' = [world EXCEPT !.live = FALSE]
  /\ UNCHANGED <<side, holders, row, inc, probe, truth>>

-----------------------------------------------------------------------------
(* The incarnation                                                         *)

\* exec registers the group and onStart starts the probe.
Starts ==
  /\ inc.at = "starting"
  /\ inc' = [inc EXCEPT !.at = "running", !.group = TRUE]
  /\ Becomes(holders, [side EXCEPT !["leader"] = "member"])
  /\ probe' = [NoProbe EXCEPT !.pc = "dial", !.dials = probe.dials]

\* A restart, or a shutdown.
Cancels ==
  /\ inc.ctx /\ inc.at = "running"
  /\ inc' = [inc EXCEPT !.ctx = FALSE]
  /\ UNCHANGED <<world, side, holders, row, probe, truth>>

\* exec returns: the leader exited or the context was cancelled, the group
\* was torn down and forgotten; procCancel follows.
ExecReturns ==
  /\ inc.at = "running" /\ (side["leader"] = "gone" \/ ~inc.ctx)
  /\ inc' = [inc EXCEPT !.at = "ended", !.group = FALSE]
  /\ Becomes(Without(Members), Gone(Members))
  /\ UNCHANGED probe

ProcCancel ==
  /\ inc.at = "ended" /\ inc.ctx
  /\ inc' = [inc EXCEPT !.ctx = FALSE]
  /\ UNCHANGED <<world, side, holders, row, probe, truth>>

\* probes.Wait: the next incarnation starts when the probe has returned.  A
\* worker that left the group lives on.
NextIncarnation ==
  /\ inc.at = "ended" /\ ~inc.ctx /\ probe.pc = "off" /\ inc.gen < world.incarnations
  /\ inc' = Incarnation(inc.gen + 1)
  /\ Becomes(holders, [side EXCEPT !["leader"] = "absent",
                                  !["worker"] = IF Alive("worker") THEN @ ELSE "absent"])
  /\ UNCHANGED probe

-----------------------------------------------------------------------------
(* Attribution: attributeProbe, step by step                               *)

\* The most specific listeners on the probed port, as the kernel chooses.
listenerSockets(h) ==
  {s \in Listening : /\ h[s] # {}
                     /\ \A l \in Listening : h[l] # {} => world.rank[s] <= world.rank[l]}

\* The sockets that may have answered: the row of the connection when it has
\* an identity, else the listeners whose queue may hold it.
answeringSockets(r, h) == CASE r.at = "accepted" -> {"conn"}
                            [] r.at = "queued"   -> listenerSockets(h)
                            [] OTHER             -> {}

Answered(p, why) == [p EXCEPT !.pc = "asked", !.owner = Unattributable(why)]

\* The attempt is over, and its connection closed.
Over(p, pc) ==
  /\ probe' = [p EXCEPT !.pc = pc, !.owner = NoOwner, !.inodes = {}]
  /\ row' = NoRow /\ truth' = NoTruth
  /\ holders' = [holders EXCEPT !["conn"] = {}]
  /\ UNCHANGED <<world, side>>

\* tcpOnce and the DialContext of httpOnce: nobody listens, a listener takes
\* the connection, or it leads out of this network namespace.
Dial ==
  LET p == [probe EXCEPT !.dials = @ + 1]
  IN  /\ probe.pc = "dial" /\ probe.dials < world.dials
      /\ \/ Over(p, "failed")
         \/ /\ inc.ctx
            /\ \/ \E s \in listenerSockets(holders) : row' = [at |-> "queued", via |-> s]
               \/ world.remote /\ row' = [at |-> "absent", via |-> "none"]
            /\ probe' = [p EXCEPT !.pc = "group", !.owner = NoOwner, !.inodes = {}]
            /\ holders' = [holders EXCEPT !["conn"] = {}] /\ truth' = NoTruth
            /\ UNCHANGED <<world, side>>
      /\ UNCHANGED inc

\* attribute: the group registered under the name.
ReadGroup ==
  /\ probe.pc = "group"
  /\ probe' = IF inc.group THEN [probe EXCEPT !.pc = "table"] ELSE Answered(probe, "no_group")
  /\ UNCHANGED <<world, side, holders, row, inc, truth>>

\* attributePGID: the two socket tables.
ReadTable ==
  LET ids == answeringSockets(row, holders)
      answer == IF row.at = "accepted" THEN "conn" ELSE row.via
  IN  /\ probe.pc = "table"
      /\ \/ /\ probe' = Answered(probe, "unreadable")
            /\ UNCHANGED truth
         \/ /\ ids = {}
            /\ probe' = Answered(probe, row.at)
            /\ UNCHANGED truth
         \/ /\ ids # {}
            /\ probe' = [probe EXCEPT !.pc = "members", !.inodes = ids]
            /\ truth' = [answer |-> answer, steady |-> holders[answer], clean |-> ids = {answer},
                         seen |-> {<<p, side[p]>> : p \in holders[answer]}]
      /\ UNCHANGED <<world, side, holders, row, inc>>

\* findHolders: the members first.
ListGroup ==
  /\ probe.pc = "members"
  /\ \/ probe' = Answered(probe, "membership") /\ truth' = [truth EXCEPT !.clean = FALSE]
     \/ probe' = [probe EXCEPT !.pc = "fds", !.members = Members] /\ UNCHANGED truth
  /\ UNCHANGED <<world, side, holders, row, inc>>

\* collectHolders over the programs ps.  Another user's descriptors are
\* read only as root, and its program is never named.
collectHolders(ps, member) ==
  {[socket |-> s, pid |-> p, member |-> member, sameUser |-> member \/ side[p] # "alien"] :
     s \in probe.inodes,
     p \in {q \in ps : Alive(q) /\ (member \/ side[q] # "alien" \/ world.root)}}

Holding(hs) == {h \in hs : h.pid \in holders[h.socket]}
Sockets(hs) == {h.socket : h \in hs}
First(hs) == (CHOOSE h \in hs : TRUE).pid

\* Mutant of classifyHolders: one of the listeners is ours.
AnyIsOurs(inodes, hs) ==
  LET ours == {h \in hs : h.member}
  IN  IF ours # {} THEN [NoOwner EXCEPT !.result = "owned", !.pid = First(ours)]
      ELSE Unattributable("unseen")

\* A claim needs every socket that may have answered.
classifyHolders(inodes, hs) ==
  LET ours == {h \in hs : h.member}
      theirs == {h \in hs : h.sameUser /\ h.socket \notin Sockets(ours)}
  IN  IF Sockets(ours) = inodes THEN [NoOwner EXCEPT !.result = "owned", !.pid = First(ours)]
      ELSE IF Sockets(theirs) = inodes
      THEN [NoOwner EXCEPT !.result = "foreign", !.pid = First(theirs)]
      ELSE Unattributable(IF ours \cup theirs # {} THEN "shared" ELSE "unseen")

Classified(p, hs) ==
  LET o == classifyHolders(p.inodes, hs)
  IN  [p EXCEPT !.pc = IF o.result = "foreign" THEN "place" ELSE "asked", !.owner = o,
                !.members = {}, !.found = {}]

ReadMembers ==
  LET hs == Holding(collectHolders(probe.members, TRUE))
  IN  /\ probe.pc = "fds"
      /\ probe' = IF Sockets(hs) = probe.inodes THEN Classified(probe, hs)
                  ELSE [probe EXCEPT !.pc = "walk", !.found = hs]
      /\ UNCHANGED <<world, side, holders, row, inc, truth>>

\* Every other program, when some socket has no member that holds it.
WalkOthers ==
  LET hs == Holding(collectHolders(Program \ probe.members, FALSE))
  IN  /\ probe.pc = "walk"
      /\ \/ probe' = Classified(probe, probe.found \cup hs) /\ UNCHANGED truth
         \/ probe' = Classified(probe, probe.found) /\ truth' = [truth EXCEPT !.clean = FALSE]
      /\ UNCHANGED <<world, side, holders, row, inc>>

\* This run's own session, and the other one while its supervisor is proven
\* live: who is in a group the session recorded, and whether it leases the
\* port.
Discover ==
  {[own |-> TRUE, leases |-> FALSE,
    group |-> Members \cup (IF world.home = "own" THEN {"other"} ELSE {})]}
  \cup (IF world.live
        THEN {[own |-> FALSE, leases |-> world.home = "leased",
               group |-> IF world.home = "recorded" THEN {"other"} ELSE {}]}
        ELSE {})

\* A session that recorded the holder's group, else one that leases the port.
placeAnswer(sessions, pid) ==
  LET recorded == {s \in sessions : pid \in s.group}
      leasing == {s \in sessions : s.leases}
      claim == IF recorded # {} THEN recorded ELSE leasing
  IN  CASE claim = {}                -> "outside_session"
        [] \E s \in claim : s.own   -> "none"
        [] OTHER                     -> "cross_session"

\* placeForeign; a runtime directory that cannot be read lists no session.
PlaceForeign ==
  /\ probe.pc = "place"
  /\ \/ /\ probe' = [probe EXCEPT !.pc = "asked",
                                  !.owner.scope = placeAnswer(Discover, probe.owner.pid)]
        /\ UNCHANGED truth
     \/ /\ probe' = [probe EXCEPT !.pc = "asked", !.owner.scope = placeAnswer({}, probe.owner.pid)]
        /\ truth' = [truth EXCEPT !.clean = FALSE]
  /\ UNCHANGED <<world, side, holders, row, inc>>

-----------------------------------------------------------------------------
(* The attempt                                                             *)

\* The connection is enough for tcp.
TcpOnce == world.kind = "tcp" /\ probe' = [probe EXCEPT !.pc = "judge"]

\* http needs the answer of a server that accepted it; after a redirect the
\* last connection counts.
HttpOnce == world.kind = "http" /\ row.at = "accepted"
              /\ \E pc \in {"judge", "dial"} : probe' = [probe EXCEPT !.pc = pc]

Responds ==
  /\ probe.pc = "asked"
  /\ TcpOnce \/ HttpOnce
  /\ UNCHANGED <<world, side, holders, row, inc, truth>>

\* Any other status, no answer in time, a connection that was reset.
NoResponse ==
  /\ probe.pc = "asked" /\ world.kind = "http"
  /\ Over(probe, "failed")
  /\ UNCHANGED inc

\* Mutant of refusalOf: reject refuses what was placed against a session.
PlacedOnly(o) ==
  o.result = "foreign" /\ ((world.reject /\ o.scope # "none")
                             \/ (world.cross /\ o.scope = "cross_session"))

refusalOf(o) ==
  o.result = "foreign" /\ (world.reject \/ (world.cross /\ o.scope = "cross_session"))

\* What really was on the socket when its answer was taken.
Passing ==
  [clean    |-> truth.clean,
   owned    |-> probe.owner.result = "owned",
   member   |-> \E x \in truth.seen : x[2] = "member",
   outsider |-> \E p \in truth.steady : side[p] = "same",
   crossed  |-> "other" \in truth.steady /\ side["other"] = "same" /\ world.live
                  /\ world.home \in {"recorded", "leased"}]

\* A refusal is kept for its incarnation, also for one that has exited.
recordRefusedOwner(o) == IF inc.ready THEN inc ELSE [inc EXCEPT !.owner = o]

\* handleProbeResult: an accepted answer is latched with its owner while the
\* context is live.
Latched(o) == [inc EXCEPT !.ready = TRUE, !.owner = o, !.passed = Passing]

\* ownerCheck.accept: a refused answer is a failed attempt.
JudgeReadiness ==
  /\ probe.pc = "judge" /\ ~probe.health
  /\ IF refusalOf(probe.owner)
     THEN inc' = recordRefusedOwner(probe.owner) /\ Over(probe, "failed")
     ELSE IF inc.failed \/ ~inc.ctx THEN Over(probe, "off") /\ UNCHANGED inc
     ELSE inc' = Latched(probe.owner) /\ Over([probe EXCEPT !.health = TRUE], "wait")

\* Dropped when the incarnation has ended.
recordHealthOwner(o) ==
  IF ~inc.ctx \/ inc.at # "running" THEN inc ELSE [inc EXCEPT !.healthOwner = o]

\* monitorHealth: the owner is recorded, refused or not; recordHealth drops
\* what comes after the incarnation's end.
JudgeHealth ==
  LET recorded == recordHealthOwner(probe.owner)
  IN  /\ probe.pc = "judge" /\ probe.health
      /\ inc' = IF ~inc.ctx \/ inc.at # "running" \/ refusalOf(probe.owner) THEN recorded
                ELSE [recorded EXCEPT !.passed = Passing]
      /\ Over(probe, "wait")

\* A failed attempt is followed by another one, or by the deadline, which
\* fails the incarnation; a failed health check by the next.
AttemptFails ==
  /\ probe.pc = "failed"
  /\ \/ probe' = [probe EXCEPT !.pc = "wait"] /\ UNCHANGED inc
     \/ /\ ~probe.health
        /\ probe' = [probe EXCEPT !.pc = "off"]
        /\ inc' = IF inc.ctx /\ ~inc.ready THEN [inc EXCEPT !.failed = TRUE, !.ctx = FALSE] ELSE inc
  /\ UNCHANGED <<world, side, holders, row, truth>>

\* The pause between two attempts, or between two health checks.
Pause ==
  /\ probe.pc = "wait"
  /\ probe' = [probe EXCEPT !.pc = IF inc.ctx /\ probe.dials < world.dials THEN "dial" ELSE "off"]
  /\ UNCHANGED <<world, side, holders, row, inc, truth>>

-----------------------------------------------------------------------------
AttestInit(worlds) ==
  /\ world \in worlds \cap World
  /\ side = [p \in Program |-> IF p = "other" THEN world.user ELSE "absent"]
  /\ holders = [s \in Socket |-> {}]
  /\ row = NoRow /\ inc = Incarnation(1) /\ probe = NoProbe /\ truth = NoTruth

AttestNext ==
  \/ \E p \in Program : Accepts(p) \/ ProgramExits(p) \/ \E s \in Listening : Listens(p, s)
  \/ ServerCloses \/ Forks \/ Daemonizes \/ SessionDies
  \/ Starts \/ Cancels \/ ExecReturns \/ ProcCancel \/ NextIncarnation
  \/ Dial \/ ReadGroup \/ ReadTable \/ ListGroup \/ ReadMembers \/ WalkOthers \/ PlaceForeign
  \/ Responds \/ NoResponse \/ JudgeReadiness \/ JudgeHealth \/ AttemptFails \/ Pause

AttestSpec(worlds) == AttestInit(worlds) /\ [][AttestNext]_attestVars

-----------------------------------------------------------------------------
(* Properties                                                              *)

\* An attribution is never a guess, although it is put together from reads
\* that processes change in between: an answer is called owned only when a
\* member of the group held the socket that answered, foreign only when no
\* member held it from the reading of the table on, and held by nobody
\* visible only when no program of this user did; unless a more specific
\* listener was opened after the connection (answeringSockets, findHolders,
\* classifyHolders).
OwnerProven ==
  probe.pc \in {"place", "asked", "judge"} /\ truth.answer \in probe.inodes =>
    LET o == probe.owner
    IN  /\ o.result = "owned" => \E x \in truth.seen : x[2] = "member"
        /\ o.result = "foreign" => \A p \in truth.steady : side[p] # "member"
        /\ o.reason = "unseen" /\ truth.clean => \A p \in truth.steady : side[p] = "alien"

\* What the owner policy promises of readiness and health, of answers whose
\* socket was read without a gap.  No probe passes on the answer of a program
\* of this user that held the socket throughout under foreign_listener:
\* reject, or of one in another live session under verify's default; and an
\* answer that was recorded as the process's own came from one of its members.
\* An answer nobody of this user is seen to hold, that of another user's
\* program for one, is taken under every policy (accept, monitorHealth,
\* refusalOf).
ForeignRefused ==
  inc.passed.clean =>
    /\ inc.passed.owned => inc.passed.member
    /\ ~inc.passed.member => /\ world.reject => ~inc.passed.outsider
                             /\ world.cross => ~inc.passed.crossed
=============================================================================
