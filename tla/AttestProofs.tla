---------------------------- MODULE AttestProofs ----------------------------
(***************************************************************************)
(* Proofs about Attest: for any set of worlds, whatever the programs do    *)
(* between two reads of procfs, an attribution is true of the socket that  *)
(* answered, and a probe passes only where the policy allows.              *)
(***************************************************************************)
EXTENDS Attest, TLAPS

\* The probe is between the reading of the table and its judgement.
Reading == {"members", "fds", "walk"}
Judging == {"place", "asked", "judge"}

\* The records of the model.
RecordsOK ==
  /\ DOMAIN world = {"user", "home", "live", "root", "reject", "cross", "kind", "shared",
                     "remote", "rank", "dials", "incarnations"}
  /\ DOMAIN row = DOMAIN NoRow
  /\ DOMAIN truth = DOMAIN NoTruth
  /\ DOMAIN probe = DOMAIN NoProbe
  /\ DOMAIN probe.owner = DOMAIN NoOwner
  /\ DOMAIN inc = DOMAIN Incarnation(1)

\* Who may be where and hold what: the process listens on its own listener,
\* the outside program on the other, a connection belongs to one of the two,
\* and only the living hold sockets.
PlacesOK(h, s) ==
  /\ h \in [Socket -> SUBSET Program]
  /\ s \in [Program -> {"absent", "member", "same", "alien", "gone"}]
  /\ s["leader"] \in {"absent", "member", "gone"}
  /\ s["worker"] \in {"absent", "member", "same", "gone"}
  /\ s["other"] \in {"same", "alien", "gone"}
  /\ \A k \in Socket : \A p \in h[k] : s[p] \in {"member", "same", "alien"}
  /\ "other" \notin h["own"] /\ h["their"] \subseteq {"other"}
  /\ "other" \in h["conn"] => h["conn"] = {"other"}

\* exec has returned: the leader is not a member any more.
EndedInv == inc.at = "ended" => side["leader"] # "member"

\* A connection that can still be attributed has a holder.
RowOK(r, h) ==
  /\ r.at \in {"none", "queued", "accepted", "absent", "closed"}
  /\ r.at \in {"queued", "accepted"} => r.via \in Listening
  /\ r.at = "queued" => h[r.via] # {}
  /\ r.at = "accepted" => h["conn"] # {}

\* The history is of the socket that answered, and up to date.
TruthOK(t, r, h, s) ==
  /\ t.answer \in Socket
  /\ t.answer = "conn" => r.at \in {"accepted", "closed"}
  /\ t.steady \subseteq h[t.answer]
  /\ \A p \in h[t.answer] : <<p, s[p]>> \in t.seen

WatchInv ==
  /\ truth.answer = "none" => truth = NoTruth /\ probe.inodes = {} /\ probe.pc \notin Reading
  /\ truth.answer # "none" => TruthOK(truth, row, holders, side)
  /\ truth.answer # "none" => probe.pc \in Reading \cup Judging \cup {"dial"}
  /\ truth.answer # "none" /\ truth.clean => probe.inodes = {truth.answer}
  /\ inc.at = "starting" => probe.pc = "off"

\* A member held the socket that answered, or only the outside program does.
MemberSeen == \E x \in truth.seen : x[2] = "member"
OtherHolds == truth.answer \in {"their", "conn"} /\ holders[truth.answer] \subseteq {"other"}

\* What the walk over procfs has found so far.
WalkInv ==
  /\ probe.pc = "members" /\ side["worker"] \in {"absent", "member"} =>
       MemberSeen \/ OtherHolds
  /\ probe.pc = "fds" =>
       /\ probe.members \subseteq {"leader", "worker"}
       /\ "worker" \in probe.members => MemberSeen \/ OtherHolds
  /\ probe.pc \in {"fds", "walk"} =>
       \A p \in truth.steady : side[p] = "member" => p \in probe.members
  /\ probe.pc = "walk" =>
       /\ \A h \in probe.found : /\ h.member /\ h.socket \in probe.inodes
                                 /\ h.socket = truth.answer => MemberSeen
       /\ truth.answer \in probe.inodes /\ truth.steady \cap probe.members # {} =>
            \E h \in probe.found : h.socket = truth.answer

\* The outside program serves another live session.
Crossing == /\ "other" \in truth.steady /\ side["other"] = "same"
            /\ world.live /\ world.home \in {"recorded", "leased"}

\* The claim that was made: where nothing was hidden it says who answered,
\* and the outside program is placed in its session.
ClaimInv ==
  /\ OwnerProven
  /\ probe.pc = "place" => probe.owner.result = "foreign"
  /\ probe.pc \in Judging /\ truth.clean =>
       /\ probe.owner.result \in {"owned", "foreign"} \/ probe.owner.reason = "unseen"
       /\ probe.owner.result = "foreign" /\ "other" \in truth.steady => probe.owner.pid = "other"
       /\ probe.pc # "place" /\ probe.owner.result = "foreign" /\ Crossing =>
            probe.owner.scope = "cross_session"

IndInv ==
  /\ RecordsOK /\ PlacesOK(holders, side) /\ RowOK(row, holders)
  /\ EndedInv /\ WatchInv /\ WalkInv /\ ClaimInv /\ ForeignRefused

-----------------------------------------------------------------------------
(* The environment: programs move, and the history keeps up.               *)

\* What remains of a connection still has a holder.
LEMMA RowFollows ==
  ASSUME NEW h, NEW s, PlacesOK(h, s), DOMAIN row = DOMAIN NoRow, RowOK(row, holders),
         row' = Remains(row, h)
  PROVE  DOMAIN row' = DOMAIN NoRow /\ RowOK(row', h)
<1> USE DEF RowOK, NoRow, Listening
<1>1. CASE row.at = "queued" /\ h[row.via] = {}
  BY <1>1 DEF Remains
<1>2. CASE row.at = "accepted" /\ h["conn"] = {}
  BY <1>2 DEF Remains
<1>3. CASE ~(row.at = "queued" /\ h[row.via] = {}) /\ ~(row.at = "accepted" /\ h["conn"] = {})
  BY <1>3 DEF Remains
<1> QED
  BY <1>1, <1>2, <1>3

\* The history of the answering socket after programs have moved.
LEMMA TruthFollows ==
  ASSUME NEW h, NEW s, PlacesOK(holders, side), PlacesOK(h, s),
         DOMAIN truth = DOMAIN NoTruth, DOMAIN row = DOMAIN NoRow,
         truth.answer # "none", TruthOK(truth, row, holders, side), Becomes(h, s)
  PROVE  /\ DOMAIN truth' = DOMAIN NoTruth
         /\ truth'.answer = truth.answer /\ truth'.clean = truth.clean
         /\ TruthOK(truth', row', h, s)
         /\ truth'.steady \subseteq truth.steady
         /\ \A p \in truth'.steady : s[p] = side[p]
         /\ truth.seen \subseteq truth'.seen
<1>1. truth' = [truth EXCEPT !.steady = {p \in truth.steady : p \in h[truth.answer] /\ s[p] = side[p]},
                             !.seen = truth.seen \cup {<<p, s[p]>> : p \in h[truth.answer]}]
  BY DEF Becomes, Watched
<1>2. truth'.steady = {p \in truth.steady : p \in h[truth.answer] /\ s[p] = side[p]}
  BY <1>1 DEF NoTruth
<1>3. truth'.seen = truth.seen \cup {<<p, s[p]>> : p \in h[truth.answer]}
  BY <1>1 DEF NoTruth
<1>4. truth'.answer = truth.answer /\ truth'.clean = truth.clean /\ DOMAIN truth' = DOMAIN NoTruth
  BY <1>1 DEF NoTruth
<1>5. truth.answer = "conn" => row'.at \in {"accepted", "closed"}
  BY DEF TruthOK, Becomes, Remains, NoRow
<1>6. TruthOK(truth', row', h, s)
  BY <1>2, <1>3, <1>4, <1>5 DEF TruthOK
<1> QED
  BY <1>2, <1>3, <1>4, <1>6

\* Programs move while the probe stays where it is.
LEMMA EnvironmentStep ==
  ASSUME IndInv, NEW h, NEW s, PlacesOK(h, s), Becomes(h, s), UNCHANGED probe,
         DOMAIN inc' = DOMAIN inc, inc'.passed = inc.passed, inc'.at = "starting" => inc.at = "starting",
         inc'.at = "ended" => s["leader"] # "member",
         \A k \in {"their", "conn"} : holders[k] \subseteq {"other"} => h[k] \subseteq {"other"},
         s["worker"] \in {"absent", "member"} => side["worker"] \in {"absent", "member"}
  PROVE  IndInv'
<1>0. /\ holders' = h /\ side' = s /\ world' = world /\ row' = Remains(row, h)
      /\ probe' = probe
  BY DEF Becomes
<1>1. RecordsOK' /\ PlacesOK(holders, side)' /\ RowOK(row, holders)'
  <2>1. DOMAIN row' = DOMAIN NoRow /\ RowOK(row', h)
    BY <1>0, RowFollows DEF IndInv, RecordsOK
  <2>2. DOMAIN truth' = DOMAIN NoTruth
    <3>1. CASE truth.answer = "none"
      BY <3>1 DEF IndInv, RecordsOK, Becomes, Watched
    <3>2. CASE truth.answer # "none"
      BY <3>2, TruthFollows DEF IndInv, RecordsOK, WatchInv
    <3> QED
      BY <3>1, <3>2
  <2> QED
    BY <1>0, <2>1, <2>2 DEF IndInv, RecordsOK
<1>4. EndedInv'
  BY <1>0 DEF EndedInv
<1>2. CASE truth.answer = "none"
  <2>1. truth' = truth
    BY <1>2 DEF Becomes, Watched
  <2>2. truth = NoTruth /\ probe.inodes = {} /\ probe.pc \notin Reading
    BY <1>2 DEF IndInv, WatchInv
  <2>3. WatchInv'
    BY <1>0, <1>2, <2>1, <2>2 DEF IndInv, WatchInv
  <2>4. WalkInv'
    BY <1>0, <2>2 DEF WalkInv, Reading
  <2>5. ClaimInv'
    BY <1>0, <2>1, <2>2 DEF IndInv, ClaimInv, OwnerProven, NoTruth
  <2>6. ForeignRefused'
    BY <1>0 DEF IndInv, ForeignRefused
  <2> QED
    BY <1>1, <1>4, <2>3, <2>4, <2>5, <2>6 DEF IndInv
<1>3. CASE truth.answer # "none"
  <2>1. /\ truth'.answer = truth.answer /\ truth'.clean = truth.clean
        /\ TruthOK(truth', row', h, s)
        /\ truth'.steady \subseteq truth.steady
        /\ \A p \in truth'.steady : s[p] = side[p]
        /\ truth.seen \subseteq truth'.seen
    BY <1>3, TruthFollows DEF IndInv, RecordsOK, WatchInv
  <2>2. MemberSeen => MemberSeen'
    BY <2>1 DEF MemberSeen
  <2>3. OtherHolds => OtherHolds'
    BY <1>0, <2>1 DEF OtherHolds
  <2>4. WatchInv'
    BY <1>0, <1>3, <2>1 DEF IndInv, WatchInv
  <2>5. WalkInv'
    BY <1>0, <2>1, <2>2, <2>3 DEF IndInv, WalkInv
  <2>6. OwnerProven'
    BY <1>0, <2>1 DEF IndInv, ClaimInv, OwnerProven
  <2>7. Crossing' => Crossing
    BY <1>0, <2>1 DEF Crossing
  <2>8. ClaimInv'
    BY <1>0, <2>1, <2>6, <2>7 DEF IndInv, ClaimInv
  <2>9. ForeignRefused'
    BY <1>0 DEF IndInv, ForeignRefused
  <2> QED
    BY <1>1, <1>4, <2>4, <2>5, <2>8, <2>9 DEF IndInv
<1> QED
  BY <1>2, <1>3

\* A program listens.
LEMMA ListensStep ==
  ASSUME IndInv, NEW p \in Program, NEW k \in Listening, Listens(p, k)
  PROVE  IndInv'
<1> DEFINE h == [holders EXCEPT ![k] = {p}]
<1>1. PlacesOK(holders, side)
  BY DEF IndInv
<1>2. p \in {"leader", "worker", "other"} /\ k = IF p = "other" THEN "their" ELSE "own"
  BY DEF Listens, Program
<1>3. h = [l \in Socket |-> IF l = k THEN {p} ELSE holders[l]]
  BY <1>1 DEF PlacesOK
<1>4. PlacesOK(h, side)
  <2>1. side[p] \in {"member", "same", "alien"}
    BY DEF Listens, Alive, Outside
  <2> QED
    BY <1>1, <1>2, <1>3, <2>1 DEF PlacesOK, Socket, Listening, Program
<1>5. \A l \in {"their", "conn"} : holders[l] \subseteq {"other"} => h[l] \subseteq {"other"}
  BY <1>2, <1>3 DEF Socket, Listening
<1>6. Becomes(h, side) /\ UNCHANGED <<inc, probe>>
  BY DEF Listens
<1> HIDE DEF h
<1> QED
  BY <1>4, <1>5, <1>6, EnvironmentStep DEF IndInv, EndedInv

\* Sockets are closed and programs exit: the holders become fewer.
LEMMA ClosingStep ==
  ASSUME IndInv, NEW h, NEW s, h \in [Socket -> SUBSET Program],
         \A k \in Socket : h[k] \subseteq holders[k],
         s \in [Program -> {"absent", "member", "same", "alien", "gone"}],
         \A p \in Program : s[p] = side[p] \/ s[p] = "gone",
         \A k \in Socket : \A p \in h[k] : s[p] = side[p],
         Becomes(h, s), UNCHANGED probe, inc'.at = "ended" => s["leader"] # "member",
         DOMAIN inc' = DOMAIN inc, inc'.passed = inc.passed,
         inc'.at = "starting" => inc.at = "starting"
  PROVE  IndInv'
<1>1. PlacesOK(holders, side)
  BY DEF IndInv
<1>2. PlacesOK(h, s)
  <2>1. "other" \in h["conn"] => h["conn"] = {"other"}
    BY <1>1 DEF PlacesOK, Socket
  <2> QED
    BY <1>1, <2>1 DEF PlacesOK, Socket, Listening, Program
<1>3. \A k \in {"their", "conn"} : holders[k] \subseteq {"other"} => h[k] \subseteq {"other"}
  BY DEF Socket, Listening
<1>4. s["worker"] \in {"absent", "member"} => side["worker"] \in {"absent", "member"}
  BY DEF Program
<1> QED
  BY <1>2, <1>3, <1>4, EnvironmentStep

\* A server closes, a program exits and exec returns: the holders become fewer.
LEMMA ExitSteps ==
  ASSUME IndInv,
         ServerCloses \/ (\E p \in Program : ProgramExits(p)) \/ ExecReturns
  PROVE  IndInv'
<1>1. PlacesOK(holders, side) /\ DOMAIN inc = DOMAIN Incarnation(1)
  BY DEF IndInv, RecordsOK
<1>2. CASE ServerCloses
  <2> DEFINE h == [holders EXCEPT !["conn"] = {}]
  <2>1. h = [l \in Socket |-> IF l = "conn" THEN {} ELSE holders[l]]
    BY <1>1 DEF PlacesOK
  <2>2. h \in [Socket -> SUBSET Program] /\ \A k \in Socket : h[k] \subseteq holders[k]
    BY <1>1, <2>1 DEF PlacesOK
  <2>3. Becomes(h, side) /\ UNCHANGED <<inc, probe>>
    BY <1>2 DEF ServerCloses
  <2> HIDE DEF h
  <2> QED
    BY <1>1, <2>2, <2>3, ClosingStep DEF PlacesOK, IndInv, EndedInv
<1>3. ASSUME NEW ps, Becomes(Without(ps), Gone(ps)), UNCHANGED probe,
             DOMAIN inc' = DOMAIN inc, inc'.passed = inc.passed,
             inc'.at = "starting" => inc.at = "starting",
             inc'.at = "ended" => Gone(ps)["leader"] # "member"
      PROVE  IndInv'
  <2> DEFINE h == Without(ps)
             s == Gone(ps)
  <2>1. h \in [Socket -> SUBSET Program] /\ \A k \in Socket : h[k] \subseteq holders[k]
    BY <1>1 DEF PlacesOK, Without
  <2>2. /\ s \in [Program -> {"absent", "member", "same", "alien", "gone"}]
        /\ \A p \in Program : s[p] = side[p] \/ s[p] = "gone"
        /\ \A k \in Socket : \A p \in h[k] : s[p] = side[p]
    BY <1>1, <2>1 DEF PlacesOK, Without, Gone
  <2> HIDE DEF h, s
  <2> QED
    BY <1>3, <2>1, <2>2, ClosingStep DEF h, s
<1>4. ASSUME NEW p \in Program, ProgramExits(p) PROVE IndInv'
  <2>1. inc.at = "ended" => Gone({p})["leader"] # "member"
    BY DEF Gone, IndInv, EndedInv, Program
  <2> QED
    BY <1>3, <1>4, <2>1 DEF ProgramExits
<1>5. CASE ExecReturns
  <2>1. inc' = [inc EXCEPT !.at = "ended", !.group = FALSE]
    BY <1>5 DEF ExecReturns
  <2>2. DOMAIN inc' = DOMAIN inc /\ inc'.passed = inc.passed /\ inc'.at = "ended"
    BY <1>1, <2>1 DEF Incarnation
  <2>3. Gone(Members)["leader"] # "member"
    BY DEF Gone, Members, Program
  <2> QED
    BY <1>3, <1>5, <2>2, <2>3 DEF ExecReturns
<1> QED
  BY <1>2, <1>4, <1>5

\* The worker is forked, or leaves the group.
LEMMA WorkerSteps ==
  ASSUME IndInv, Forks \/ Daemonizes
  PROVE  IndInv'
<1>1. PlacesOK(holders, side)
  BY DEF IndInv
<1>2. CASE Forks
  <2> DEFINE h == [k \in Socket |-> IF "leader" \in holders[k] THEN holders[k] \cup {"worker"}
                                    ELSE holders[k]]
             s == [side EXCEPT !["worker"] = "member"]
  <2>1. s = [p \in Program |-> IF p = "worker" THEN "member" ELSE side[p]]
    BY <1>1 DEF PlacesOK
  <2>2. PlacesOK(h, s)
    <3>1. h \in [Socket -> SUBSET Program]
      BY <1>1 DEF PlacesOK, Program
    <3>2. \A k \in Socket : \A p \in h[k] : s[p] \in {"member", "same", "alien"}
      BY <1>1, <2>1 DEF PlacesOK, Program
    <3>3. "other" \notin h["own"] /\ h["their"] \subseteq {"other"}
      BY <1>1 DEF PlacesOK, Socket, Listening
    <3>4. "other" \in h["conn"] => h["conn"] = {"other"}
      BY <1>1 DEF PlacesOK, Socket
    <3> QED
      BY <1>1, <2>1, <3>1, <3>2, <3>3, <3>4 DEF PlacesOK, Program
  <2>3. \A k \in {"their", "conn"} : holders[k] \subseteq {"other"} => h[k] \subseteq {"other"}
    BY DEF Socket, Listening
  <2>4. side["worker"] = "absent" /\ Becomes(h, s) /\ UNCHANGED <<inc, probe>>
    BY <1>2 DEF Forks
  <2>5. inc.at = "ended" => s["leader"] # "member"
    BY <2>1 DEF IndInv, EndedInv, Program
  <2> HIDE DEF h, s
  <2> QED
    BY <2>2, <2>3, <2>4, <2>5, EnvironmentStep
<1>3. CASE Daemonizes
  <2> DEFINE s == [side EXCEPT !["worker"] = "same"]
  <2>1. s = [p \in Program |-> IF p = "worker" THEN "same" ELSE side[p]]
    BY <1>1 DEF PlacesOK
  <2>2. PlacesOK(holders, s)
    BY <1>1, <2>1 DEF PlacesOK, Program
  <2>3. Becomes(holders, s) /\ UNCHANGED <<inc, probe>> /\ s["worker"] = "same"
    BY <1>3, <2>1 DEF Daemonizes, Program
  <2>4. inc.at = "ended" => s["leader"] # "member"
    BY <2>1 DEF IndInv, EndedInv, Program
  <2> HIDE DEF s
  <2> QED
    BY <2>2, <2>3, <2>4, EnvironmentStep
<1> QED
  BY <1>2, <1>3

\* A server accepts the connection; a session dies.
LEMMA AcceptStep ==
  ASSUME IndInv, NEW p \in Program, Accepts(p)
  PROVE  IndInv'
<1>0. PlacesOK(holders, side) /\ DOMAIN row = DOMAIN NoRow /\ row.at = "queued"
        /\ row.via \in Listening /\ p \in holders[row.via]
  BY DEF IndInv, RecordsOK, RowOK, Accepts
<1>1. row'.at = "accepted" /\ row'.via = row.via /\ DOMAIN row' = DOMAIN NoRow
  BY <1>0 DEF Accepts, NoRow
<1>2. holders' = [k \in Socket |-> IF k = "conn" THEN {p} ELSE holders[k]]
  BY <1>0 DEF Accepts, PlacesOK
<1>3. UNCHANGED <<world, side, inc, probe, truth>>
  BY DEF Accepts
<1>4. RecordsOK'
  BY <1>1, <1>3 DEF IndInv, RecordsOK
<1>5. PlacesOK(holders, side)'
  BY <1>0, <1>2, <1>3 DEF PlacesOK, Socket, Listening
<1>6. RowOK(row, holders)'
  BY <1>0, <1>1, <1>2 DEF RowOK, Socket
<1>7. truth.answer # "none" =>
        truth.answer \in Listening /\ holders'[truth.answer] = holders[truth.answer]
  BY <1>0, <1>2 DEF IndInv, WatchInv, TruthOK, Socket, Listening
<1>8. WatchInv'
  BY <1>1, <1>3, <1>7 DEF IndInv, WatchInv, TruthOK, Listening
<1>9. OtherHolds => OtherHolds'
  BY <1>3, <1>7 DEF OtherHolds
<1>10. WalkInv'
  BY <1>3, <1>9 DEF IndInv, WalkInv, MemberSeen
<1>11. ClaimInv' /\ ForeignRefused' /\ EndedInv'
  BY <1>3 DEF IndInv, EndedInv, ClaimInv, OwnerProven, Crossing, ForeignRefused
<1> QED
  BY <1>4, <1>5, <1>6, <1>8, <1>10, <1>11 DEF IndInv

\* When the other session ends, nothing crosses any more.
LEMMA SessionDiesStep ==
  ASSUME IndInv, SessionDies
  PROVE  IndInv'
<1>1. /\ DOMAIN world' = DOMAIN world /\ ~world'.live /\ world'.home = world.home
      /\ world'.reject = world.reject /\ world'.cross = world.cross
  BY DEF SessionDies, IndInv, RecordsOK
<1>2. UNCHANGED <<side, holders, row, inc, probe, truth>>
  BY DEF SessionDies
<1>3. RecordsOK' /\ PlacesOK(holders, side)' /\ RowOK(row, holders)' /\ WatchInv' /\ WalkInv'
  BY <1>1, <1>2 DEF IndInv, RecordsOK, WatchInv, WalkInv, MemberSeen, OtherHolds
<1>4. ~Crossing'
  BY <1>1 DEF Crossing
<1>5. ClaimInv'
  BY <1>2, <1>4 DEF IndInv, ClaimInv, OwnerProven
<1>6. ForeignRefused' /\ EndedInv'
  BY <1>1, <1>2 DEF IndInv, EndedInv, ForeignRefused
<1> QED
  BY <1>3, <1>5, <1>6 DEF IndInv

-----------------------------------------------------------------------------
(* The incarnation, and the attempts that are over.                        *)

\* A probe that asks nothing has nothing to prove.
LEMMA QuietStep ==
  ASSUME RecordsOK', PlacesOK(holders, side)', RowOK(row, holders)', ForeignRefused', EndedInv',
         truth' = NoTruth, probe'.inodes = {}, probe'.pc \notin Reading \cup {"place"},
         inc'.at = "starting" => probe'.pc = "off"
  PROVE  IndInv'
<1>1. truth'.answer = "none" /\ ~truth'.clean
  BY DEF NoTruth
<1>2. WatchInv'
  BY <1>1 DEF WatchInv
<1>3. WalkInv'
  BY DEF WalkInv, Reading
<1>4. ClaimInv'
  BY <1>1 DEF ClaimInv, OwnerProven
<1> QED
  BY <1>2, <1>3, <1>4 DEF IndInv

\* Outside an attempt there is no history.
LEMMA IdleHasNoHistory ==
  ASSUME IndInv, probe.pc \notin Reading \cup Judging \cup {"dial"}
  PROVE  truth = NoTruth /\ probe.inodes = {}
BY DEF IndInv, WatchInv

\* An incarnation starts, or the next one begins: no probe is under way.
LEMMA IncarnationSteps ==
  ASSUME IndInv, Starts \/ NextIncarnation
  PROVE  IndInv'
<1>1. probe.pc = "off"
  BY DEF IndInv, WatchInv, Starts, NextIncarnation
<1>2. truth = NoTruth /\ probe.inodes = {}
  BY <1>1, IdleHasNoHistory DEF Reading, Judging
<1>3. PlacesOK(holders, side) /\ DOMAIN inc = DOMAIN Incarnation(1)
        /\ DOMAIN row = DOMAIN NoRow /\ RowOK(row, holders) /\ ForeignRefused
  BY DEF IndInv, RecordsOK
<1>4. ASSUME NEW s, PlacesOK(holders, s), Becomes(holders, s)
      PROVE  /\ PlacesOK(holders, side)' /\ RowOK(row, holders)' /\ DOMAIN row' = DOMAIN NoRow
             /\ truth' = NoTruth /\ world' = world
  <2>1. holders' = holders /\ side' = s /\ world' = world /\ row' = Remains(row, holders)
    BY <1>4 DEF Becomes
  <2>2. truth' = truth
    BY <1>2, <1>4 DEF Becomes, Watched, NoTruth
  <2>3. DOMAIN row' = DOMAIN NoRow /\ RowOK(row', holders)
    BY <1>3, <1>4, <2>1, RowFollows
  <2> QED
    BY <1>2, <1>4, <2>1, <2>2, <2>3
<1>5. CASE Starts
  <2> DEFINE s == [side EXCEPT !["leader"] = "member"]
  <2>1. s = [p \in Program |-> IF p = "leader" THEN "member" ELSE side[p]]
    BY <1>3 DEF PlacesOK
  <2>2. PlacesOK(holders, s)
    BY <1>3, <2>1 DEF PlacesOK, Program
  <2>3. Becomes(holders, s)
    BY <1>5 DEF Starts
  <2> HIDE DEF s
  <2>4. /\ PlacesOK(holders, side)' /\ RowOK(row, holders)' /\ DOMAIN row' = DOMAIN NoRow
        /\ truth' = NoTruth /\ world' = world
    BY <1>4, <2>2, <2>3
  <2>5. DOMAIN inc' = DOMAIN Incarnation(1) /\ inc'.passed = inc.passed /\ inc'.at = "running"
    BY <1>3, <1>5 DEF Starts, Incarnation
  <2>6. probe' = [NoProbe EXCEPT !.pc = "dial", !.dials = probe.dials]
    BY <1>5 DEF Starts
  <2>7. /\ DOMAIN probe' = DOMAIN NoProbe /\ probe'.owner = NoOwner
        /\ probe'.inodes = {} /\ probe'.pc = "dial"
    BY <2>6 DEF NoProbe
  <2>8. RecordsOK'
    BY <2>4, <2>5, <2>7 DEF IndInv, RecordsOK
  <2>9. ForeignRefused'
    BY <1>3, <2>4, <2>5 DEF ForeignRefused
  <2>10. EndedInv'
    BY <2>5 DEF EndedInv
  <2> QED
    BY <2>4, <2>5, <2>7, <2>8, <2>9, <2>10, QuietStep DEF Reading
<1>6. CASE NextIncarnation
  <2> DEFINE s == [side EXCEPT !["leader"] = "absent",
                               !["worker"] = IF Alive("worker") THEN @ ELSE "absent"]
  <2>1. s = [p \in Program |->
               IF p = "leader" THEN "absent"
               ELSE IF p = "worker" /\ ~Alive("worker") THEN "absent" ELSE side[p]]
    BY <1>3 DEF PlacesOK, Program
  <2>2. PlacesOK(holders, s)
    BY <1>3, <1>6, <2>1 DEF PlacesOK, Program, Alive, Outside, NextIncarnation, IndInv, EndedInv
  <2>3. Becomes(holders, s)
    BY <1>6 DEF NextIncarnation
  <2> HIDE DEF s
  <2>4. /\ PlacesOK(holders, side)' /\ RowOK(row, holders)' /\ DOMAIN row' = DOMAIN NoRow
        /\ truth' = NoTruth /\ world' = world
    BY <1>4, <2>2, <2>3
  <2>5. DOMAIN inc' = DOMAIN Incarnation(1) /\ ~inc'.passed.clean
    BY <1>6 DEF NextIncarnation, Incarnation, NoPass
  <2>6. probe' = probe
    BY <1>6 DEF NextIncarnation
  <2>7. RecordsOK'
    BY <2>4, <2>5, <2>6 DEF IndInv, RecordsOK
  <2>8. ForeignRefused' /\ EndedInv'
    BY <1>6, <2>5 DEF ForeignRefused, EndedInv, NextIncarnation, Incarnation
  <2> QED
    BY <1>1, <1>2, <2>4, <2>6, <2>7, <2>8, QuietStep DEF Reading
<1> QED
  BY <1>5, <1>6

\* Only the context of the incarnation is touched.
LEMMA CancelSteps ==
  ASSUME IndInv, Cancels \/ ProcCancel
  PROVE  IndInv'
<1>1. inc' = [inc EXCEPT !.ctx = FALSE] /\ UNCHANGED <<world, side, holders, row, probe, truth>>
  BY DEF Cancels, ProcCancel
<1>2. DOMAIN inc' = DOMAIN inc /\ inc'.passed = inc.passed /\ inc'.at = inc.at
  BY <1>1 DEF IndInv, RecordsOK, Incarnation
<1>3. RecordsOK' /\ PlacesOK(holders, side)' /\ RowOK(row, holders)' /\ WatchInv' /\ WalkInv'
  BY <1>1, <1>2 DEF IndInv, RecordsOK, WatchInv, WalkInv, MemberSeen, OtherHolds
<1>4. ClaimInv' /\ ForeignRefused' /\ EndedInv'
  BY <1>1, <1>2 DEF IndInv, EndedInv, ClaimInv, OwnerProven, Crossing, ForeignRefused
<1> QED
  BY <1>3, <1>4 DEF IndInv

\* The attempt ends and its connection is closed.
LEMMA OverStep ==
  ASSUME IndInv, NEW p, DOMAIN p = DOMAIN NoProbe, NEW c \in {"failed", "off", "wait"},
         Over(p, c), probe.pc # "off", DOMAIN inc' = DOMAIN inc, inc'.at = inc.at, ForeignRefused'
  PROVE  IndInv'
<1>1. probe' = [p EXCEPT !.pc = c, !.owner = NoOwner, !.inodes = {}]
  BY DEF Over
<1>2. /\ DOMAIN probe' = DOMAIN NoProbe /\ probe'.owner = NoOwner
      /\ probe'.inodes = {} /\ probe'.pc = c
  BY <1>1 DEF NoProbe
<1>3. /\ row' = NoRow /\ truth' = NoTruth /\ world' = world /\ side' = side
      /\ holders' = [holders EXCEPT !["conn"] = {}]
  BY DEF Over
<1>4. holders' = [k \in Socket |-> IF k = "conn" THEN {} ELSE holders[k]]
  BY <1>3 DEF IndInv, PlacesOK
<1>5. PlacesOK(holders, side)'
  BY <1>3, <1>4 DEF IndInv, PlacesOK, Socket, Listening
<1>6. RowOK(row, holders)'
  BY <1>3 DEF RowOK, NoRow
<1>7. RecordsOK'
  BY <1>2, <1>3 DEF IndInv, RecordsOK
<1>8. inc'.at # "starting" /\ EndedInv'
  BY <1>3 DEF IndInv, WatchInv, EndedInv
<1> QED
  BY <1>2, <1>3, <1>5, <1>6, <1>7, <1>8, QuietStep DEF Reading

\* The places between two attempts.
LEMMA PauseSteps ==
  ASSUME IndInv, AttemptFails \/ Pause
  PROVE  IndInv'
<1>1. probe.pc \in {"failed", "wait"}
  BY DEF AttemptFails, Pause
<1>2. truth = NoTruth /\ probe.inodes = {} /\ inc.at # "starting"
  BY <1>1, IdleHasNoHistory DEF Reading, Judging, IndInv, WatchInv
<1>3. UNCHANGED <<world, side, holders, row, truth>>
  BY DEF AttemptFails, Pause
<1>4. PICK c \in {"wait", "off", "dial"} : probe' = [probe EXCEPT !.pc = c]
  BY DEF AttemptFails, Pause
<1>5. DOMAIN probe = DOMAIN NoProbe
  BY DEF IndInv, RecordsOK
<1>6. /\ DOMAIN probe' = DOMAIN NoProbe /\ probe'.owner = probe.owner
      /\ probe'.inodes = {} /\ probe'.pc = c
  BY <1>2, <1>4, <1>5 DEF NoProbe
<1>7. inc' = inc \/ inc' = [inc EXCEPT !.failed = TRUE, !.ctx = FALSE]
  BY DEF AttemptFails, Pause
<1>8. DOMAIN inc' = DOMAIN inc /\ inc'.passed = inc.passed /\ inc'.at = inc.at
  BY <1>7 DEF IndInv, RecordsOK, Incarnation
<1>9. RecordsOK' /\ PlacesOK(holders, side)' /\ RowOK(row, holders)' /\ ForeignRefused' /\ EndedInv'
  BY <1>3, <1>6, <1>8 DEF IndInv, EndedInv, RecordsOK, ForeignRefused
<1> QED
  BY <1>2, <1>3, <1>6, <1>8, <1>9, QuietStep DEF Reading

\* Every dial begins a history of its own, or the attempt is over.
LEMMA DialStep ==
  ASSUME IndInv, Dial
  PROVE  IndInv'
<1> DEFINE p == [probe EXCEPT !.dials = @ + 1]
<1>1. probe.pc = "dial" /\ UNCHANGED inc
  BY DEF Dial
<1>2. DOMAIN p = DOMAIN NoProbe
  BY DEF IndInv, RecordsOK, NoProbe
<1>3. CASE Over(p, "failed")
  <2>1. ForeignRefused'
    BY <1>1, <1>3 DEF IndInv, ForeignRefused, Over
  <2> QED
    BY <1>1, <1>2, <1>3, <2>1, OverStep
<1>4. CASE /\ \/ \E s \in listenerSockets(holders) : row' = [at |-> "queued", via |-> s]
              \/ world.remote /\ row' = [at |-> "absent", via |-> "none"]
           /\ probe' = [p EXCEPT !.pc = "group", !.owner = NoOwner, !.inodes = {}]
           /\ holders' = [holders EXCEPT !["conn"] = {}] /\ truth' = NoTruth
           /\ UNCHANGED <<world, side>>
  <2>1. /\ DOMAIN probe' = DOMAIN NoProbe /\ probe'.owner = NoOwner
        /\ probe'.inodes = {} /\ probe'.pc = "group"
    BY <1>2, <1>4 DEF NoProbe
  <2>2. holders' = [k \in Socket |-> IF k = "conn" THEN {} ELSE holders[k]]
    BY <1>4 DEF IndInv, PlacesOK
  <2>3. PlacesOK(holders, side)'
    BY <1>4, <2>2 DEF IndInv, PlacesOK, Socket, Listening
  <2>4. DOMAIN row' = DOMAIN NoRow /\ RowOK(row, holders)'
    <3>1. ASSUME NEW s \in listenerSockets(holders), row' = [at |-> "queued", via |-> s]
          PROVE  DOMAIN row' = DOMAIN NoRow /\ RowOK(row, holders)'
      BY <2>2, <3>1 DEF listenerSockets, RowOK, NoRow, Socket, Listening
    <3>2. ASSUME row' = [at |-> "absent", via |-> "none"]
          PROVE  DOMAIN row' = DOMAIN NoRow /\ RowOK(row, holders)'
      BY <3>2 DEF RowOK, NoRow
    <3> QED
      BY <1>4, <3>1, <3>2
  <2>5. RecordsOK'
    BY <1>1, <1>4, <2>1, <2>4 DEF IndInv, RecordsOK
  <2>6. ForeignRefused' /\ EndedInv' /\ inc'.at # "starting"
    BY <1>1, <1>4 DEF IndInv, EndedInv, ForeignRefused, WatchInv
  <2> QED
    BY <1>4, <2>1, <2>3, <2>4, <2>5, <2>6, QuietStep DEF Reading
<1> QED
  BY <1>3, <1>4 DEF Dial

-----------------------------------------------------------------------------
(* The walk over procfs.                                                   *)

\* A step of the probe that touches neither the programs nor the history of
\* its incarnation.
LEMMA GroupStep ==
  ASSUME IndInv, ReadGroup
  PROVE  IndInv'
<1>1. probe.pc = "group" /\ UNCHANGED <<world, side, holders, row, inc, truth>>
  BY DEF ReadGroup
<1>2. truth = NoTruth /\ probe.inodes = {} /\ inc.at # "starting"
  BY <1>1, IdleHasNoHistory DEF Reading, Judging, IndInv, WatchInv
<1>3. DOMAIN probe = DOMAIN NoProbe /\ DOMAIN probe.owner = DOMAIN NoOwner
  BY DEF IndInv, RecordsOK
<1>4. /\ DOMAIN probe' = DOMAIN NoProbe /\ DOMAIN probe'.owner = DOMAIN NoOwner
      /\ probe'.inodes = {} /\ probe'.pc \in {"table", "asked"}
  BY <1>2, <1>3 DEF ReadGroup, Answered, Unattributable, NoProbe, NoOwner
<1>5. RecordsOK' /\ PlacesOK(holders, side)' /\ RowOK(row, holders)' /\ ForeignRefused' /\ EndedInv'
  BY <1>1, <1>4 DEF IndInv, EndedInv, RecordsOK, ForeignRefused
<1> QED
  BY <1>1, <1>2, <1>4, <1>5, QuietStep DEF Reading

\* The tables name sockets on the port, or say why nobody can be named.
LEMMA TableStep ==
  ASSUME IndInv, ReadTable
  PROVE  IndInv'
<1> DEFINE ids == answeringSockets(row, holders)
           answer == IF row.at = "accepted" THEN "conn" ELSE row.via
<1>1. probe.pc = "table" /\ UNCHANGED <<world, side, holders, row, inc>>
  BY DEF ReadTable
<1>2. truth = NoTruth /\ probe.inodes = {} /\ inc.at # "starting"
  BY <1>1, IdleHasNoHistory DEF Reading, Judging, IndInv, WatchInv
<1>3. DOMAIN probe = DOMAIN NoProbe /\ PlacesOK(holders, side) /\ RowOK(row, holders)
  BY DEF IndInv, RecordsOK
<1>4. ASSUME NEW why, probe' = Answered(probe, why), UNCHANGED truth PROVE IndInv'
  <2>1. /\ DOMAIN probe' = DOMAIN NoProbe /\ DOMAIN probe'.owner = DOMAIN NoOwner
        /\ probe'.inodes = {} /\ probe'.pc = "asked"
    BY <1>2, <1>3, <1>4 DEF Answered, Unattributable, NoProbe, NoOwner
  <2>2. RecordsOK' /\ PlacesOK(holders, side)' /\ RowOK(row, holders)' /\ ForeignRefused' /\ EndedInv'
    BY <1>1, <1>4, <2>1 DEF IndInv, EndedInv, RecordsOK, ForeignRefused
  <2> QED
    BY <1>1, <1>2, <1>4, <2>1, <2>2, QuietStep DEF Reading
<1>5. CASE /\ ids # {}
           /\ probe' = [probe EXCEPT !.pc = "members", !.inodes = ids]
           /\ truth' = [answer |-> answer, steady |-> holders[answer], clean |-> ids = {answer},
                        seen |-> {<<p, side[p]>> : p \in holders[answer]}]
  <2>1. row.at \in {"accepted", "queued"}
    BY <1>5 DEF answeringSockets
  <2>2. /\ answer \in Socket /\ holders[answer] # {} /\ holders[answer] \subseteq Program
        /\ answer = "conn" => row.at = "accepted"
    BY <1>3, <2>1 DEF RowOK, PlacesOK, Socket, Listening
  <2> HIDE DEF answer, ids
  <2>3. /\ DOMAIN probe' = DOMAIN NoProbe /\ probe'.owner = probe.owner
        /\ probe'.inodes = ids /\ probe'.pc = "members"
    BY <1>3, <1>5 DEF NoProbe
  <2>4. /\ DOMAIN truth' = DOMAIN NoTruth /\ truth'.answer = answer
        /\ truth'.steady = holders[answer] /\ truth'.clean = (ids = {answer})
        /\ truth'.seen = {<<p, side[p]>> : p \in holders[answer]}
    BY <1>5 DEF NoTruth
  <2>5. RecordsOK'
    BY <1>1, <2>3, <2>4 DEF IndInv, RecordsOK
  <2>6. answer # "none"
    BY <2>2 DEF Socket, Listening
  <2>7. WatchInv'
    BY <1>1, <1>2, <2>2, <2>3, <2>4, <2>6 DEF WatchInv, TruthOK, Reading
  <2>8. side["worker"] \in {"absent", "member"} => MemberSeen' \/ OtherHolds'
    <3>1. SUFFICES ASSUME side["worker"] \in {"absent", "member"}, ~OtherHolds' PROVE MemberSeen'
      OBVIOUS
    <3>2. PICK p \in holders[answer] : p # "other"
      BY <1>1, <1>3, <2>2, <2>4, <3>1 DEF OtherHolds, PlacesOK, Socket, Listening, Program
    <3>3. side[p] = "member"
      BY <1>3, <2>2, <3>1, <3>2 DEF PlacesOK, Program
    <3>4. <<p, "member">> \in truth'.seen
      BY <2>4, <3>2, <3>3
    <3> QED
      BY <3>4 DEF MemberSeen
  <2>9. WalkInv'
    BY <1>1, <2>3, <2>8 DEF WalkInv
  <2>10. ClaimInv' /\ ForeignRefused' /\ EndedInv'
    BY <1>1, <2>3 DEF IndInv, EndedInv, ClaimInv, OwnerProven, ForeignRefused, Judging
  <2> QED
    BY <1>1, <1>3, <2>5, <2>7, <2>9, <2>10 DEF IndInv
<1> QED
  BY <1>4, <1>5 DEF ReadTable

\* What stays when only the probe, and whether anything was hidden, changes.
LEMMA SameHistory ==
  ASSUME IndInv, UNCHANGED <<world, side, holders, row, inc>>,
         truth' = truth \/ truth' = [truth EXCEPT !.clean = FALSE]
  PROVE  /\ DOMAIN truth' = DOMAIN NoTruth /\ PlacesOK(holders, side)' /\ RowOK(row, holders)'
         /\ truth'.answer = truth.answer /\ truth'.steady = truth.steady
         /\ truth'.seen = truth.seen /\ (truth'.clean => truth.clean)
         /\ MemberSeen' = MemberSeen /\ OtherHolds' = OtherHolds /\ Crossing' = Crossing
         /\ ForeignRefused' /\ EndedInv'
<1>1. /\ DOMAIN truth' = DOMAIN NoTruth /\ truth'.answer = truth.answer
      /\ truth'.steady = truth.steady /\ truth'.seen = truth.seen /\ (truth'.clean => truth.clean)
  BY DEF IndInv, RecordsOK, NoTruth
<1>2. MemberSeen' = MemberSeen /\ OtherHolds' = OtherHolds /\ Crossing' = Crossing
  BY <1>1 DEF MemberSeen, OtherHolds, Crossing
<1>3. PlacesOK(holders, side)' /\ RowOK(row, holders)' /\ ForeignRefused' /\ EndedInv'
  BY DEF IndInv, EndedInv, ForeignRefused
<1> QED
  BY <1>1, <1>2, <1>3

\* The step goes on with the same history.
LEMMA SameWatch ==
  ASSUME IndInv, UNCHANGED <<world, side, holders, row, inc>>,
         truth' = truth \/ truth' = [truth EXCEPT !.clean = FALSE],
         truth.answer # "none", probe'.inodes = probe.inodes,
         probe'.pc \in Reading \cup Judging \cup {"dial"}
  PROVE  WatchInv'
<1>1. /\ truth'.answer = truth.answer /\ truth'.steady = truth.steady
      /\ truth'.seen = truth.seen /\ (truth'.clean => truth.clean)
  BY SameHistory
<1>2. inc.at # "starting"
  BY DEF IndInv, WatchInv, Reading, Judging
<1> QED
  BY <1>1, <1>2 DEF IndInv, WatchInv, TruthOK

\* The members are listed, or the attribution gives up.
LEMMA ListStep ==
  ASSUME IndInv, ListGroup
  PROVE  IndInv'
<1>1. probe.pc = "members" /\ UNCHANGED <<world, side, holders, row, inc>>
  BY DEF ListGroup
<1>2. truth.answer # "none" /\ DOMAIN probe = DOMAIN NoProbe
        /\ DOMAIN probe.owner = DOMAIN NoOwner
  BY <1>1 DEF IndInv, RecordsOK, WatchInv, Reading
<1>3. CASE probe' = Answered(probe, "membership") /\ truth' = [truth EXCEPT !.clean = FALSE]
  <2>1. /\ DOMAIN probe' = DOMAIN NoProbe /\ DOMAIN probe'.owner = DOMAIN NoOwner
        /\ probe'.inodes = probe.inodes /\ probe'.pc = "asked"
        /\ probe'.owner.result = "unattributable" /\ probe'.owner.reason = "membership"
    BY <1>2, <1>3 DEF Answered, Unattributable, NoProbe, NoOwner
  <2>2. ~truth'.clean
    BY <1>3 DEF IndInv, RecordsOK, NoTruth
  <2>3. WatchInv'
    BY <1>1, <1>2, <1>3, <2>1, SameWatch DEF Judging
  <2>4. WalkInv' /\ ClaimInv'
    BY <2>1, <2>2 DEF WalkInv, ClaimInv, OwnerProven
  <2>5. DOMAIN truth' = DOMAIN NoTruth /\ PlacesOK(holders, side)' /\ RowOK(row, holders)'
        /\ ForeignRefused' /\ EndedInv'
    BY <1>1, <1>3, SameHistory
  <2> QED
    BY <1>1, <2>1, <2>3, <2>4, <2>5 DEF IndInv, RecordsOK
<1>4. CASE probe' = [probe EXCEPT !.pc = "fds", !.members = Members] /\ UNCHANGED truth
  <2>1. /\ DOMAIN probe' = DOMAIN NoProbe /\ probe'.owner = probe.owner
        /\ probe'.inodes = probe.inodes /\ probe'.pc = "fds" /\ probe'.members = Members
    BY <1>2, <1>4 DEF NoProbe
  <2>2. PlacesOK(holders, side)
    BY DEF IndInv
  <2>3. Members \subseteq {"leader", "worker"}
    BY <2>2 DEF Members, PlacesOK, Program
  <2>4. truth.steady \subseteq Program
    BY <1>2, <2>2 DEF IndInv, WatchInv, TruthOK, PlacesOK
  <2>5. MemberSeen' = MemberSeen /\ OtherHolds' = OtherHolds
    BY <1>1, <1>4, SameHistory
  <2>6. "worker" \in Members => MemberSeen \/ OtherHolds
    BY <1>1 DEF IndInv, WalkInv, Members
  <2>7. WalkInv'
    BY <1>1, <1>4, <2>1, <2>3, <2>4, <2>5, <2>6 DEF WalkInv, Members
  <2>8. WatchInv'
    BY <1>1, <1>2, <1>4, <2>1, SameWatch DEF Reading
  <2>9. ClaimInv'
    BY <2>1 DEF ClaimInv, OwnerProven, Judging
  <2> QED
    BY <1>1, <1>4, <2>1, <2>7, <2>8, <2>9 DEF IndInv, EndedInv, RecordsOK, ForeignRefused
<1> QED
  BY <1>3, <1>4 DEF ListGroup

\* An answer is taken only where it was attributed.
LEMMA RespondsStep ==
  ASSUME IndInv, Responds
  PROVE  IndInv'
<1>1. probe.pc = "asked" /\ UNCHANGED <<world, side, holders, row, inc, truth>>
  BY DEF Responds
<1>2. PICK c \in {"judge", "dial"} : probe' = [probe EXCEPT !.pc = c]
  BY DEF Responds, TcpOnce, HttpOnce
<1>3. DOMAIN probe = DOMAIN NoProbe
  BY DEF IndInv, RecordsOK
<1>4. /\ DOMAIN probe' = DOMAIN NoProbe /\ probe'.owner = probe.owner
      /\ probe'.inodes = probe.inodes /\ probe'.pc = c
  BY <1>2, <1>3 DEF NoProbe
<1>5. WatchInv'
  BY <1>1, <1>4 DEF IndInv, WatchInv, TruthOK, Reading, Judging
<1>6. WalkInv'
  BY <1>4 DEF WalkInv
<1>7. ClaimInv'
  BY <1>1, <1>4 DEF IndInv, ClaimInv, OwnerProven, Crossing, Judging
<1> QED
  BY <1>1, <1>4, <1>5, <1>6, <1>7 DEF IndInv, EndedInv, RecordsOK, ForeignRefused

-----------------------------------------------------------------------------
(* The claim.                                                              *)

Ours(hs) == {h \in hs : h.member}
Theirs(hs) == {h \in hs : h.sameUser /\ h.socket \notin Sockets(Ours(hs))}

\* What each claim of classifyHolders rests on.
LEMMA ClaimsMean ==
  ASSUME NEW ids, NEW hs
  PROVE  LET o == classifyHolders(ids, hs)
         IN  /\ DOMAIN o = DOMAIN NoOwner
             /\ o.result = "owned" => Sockets(Ours(hs)) = ids
             /\ o.result = "foreign" => Sockets(Theirs(hs)) = ids /\ o.pid = First(Theirs(hs))
             /\ o.reason = "unseen" => Ours(hs) \cup Theirs(hs) = {}
             /\ \/ o.result \in {"owned", "foreign"} \/ o.reason = "unseen"
                \/ /\ Ours(hs) \cup Theirs(hs) # {}
                   /\ Sockets(Ours(hs)) # ids /\ Sockets(Theirs(hs)) # ids
<1> DEFINE ours == Ours(hs)
           theirs == Theirs(hs)
           o == classifyHolders(ids, hs)
<1>1. o = IF Sockets(ours) = ids THEN [NoOwner EXCEPT !.result = "owned", !.pid = First(ours)]
          ELSE IF Sockets(theirs) = ids
          THEN [NoOwner EXCEPT !.result = "foreign", !.pid = First(theirs)]
          ELSE Unattributable(IF ours \cup theirs # {} THEN "shared" ELSE "unseen")
  BY DEF classifyHolders, Ours, Theirs
<1> HIDE DEF ours, theirs, o
<1> QED
  BY <1>1 DEF NoOwner, Unattributable, ours, theirs, o

\* The probe after its claim.
LEMMA ClassifiedIs ==
  ASSUME NEW hs, DOMAIN probe = DOMAIN NoProbe, probe' = Classified(probe, hs)
  PROVE  /\ DOMAIN probe' = DOMAIN NoProbe
         /\ probe'.owner = classifyHolders(probe.inodes, hs)
         /\ probe'.inodes = probe.inodes
         /\ probe'.pc = IF probe'.owner.result = "foreign" THEN "place" ELSE "asked"
BY DEF Classified, NoProbe

\* A claim made of enough: the holders found among the members are members
\* that were seen with the socket, and nobody was missed who held it
\* throughout.
LEMMA ClaimStep ==
  ASSUME IndInv, UNCHANGED <<world, side, holders, row, inc>>,
         truth' = truth \/ truth' = [truth EXCEPT !.clean = FALSE],
         probe.pc \in Reading, NEW hs, probe' = Classified(probe, hs),
         \A h \in hs : h.member /\ h.socket = truth.answer => MemberSeen,
         \A h \in hs : h.socket \in probe.inodes,
         \A h \in hs : ~h.member => h.pid \in holders[h.socket],
         truth.answer \in probe.inodes =>
           \A p \in truth.steady : side[p] = "member" => truth.answer \in Sockets(Ours(hs)),
         truth'.clean =>
           \A p \in truth.steady : side[p] # "alien" => Ours(hs) \cup Theirs(hs) # {}
  PROVE  IndInv'
<1> DEFINE o == classifyHolders(probe.inodes, hs)
<1>1. DOMAIN probe = DOMAIN NoProbe /\ truth.answer # "none"
  BY DEF IndInv, RecordsOK, WatchInv
<1>2. /\ DOMAIN probe' = DOMAIN NoProbe /\ probe'.owner = o /\ probe'.inodes = probe.inodes
      /\ probe'.pc = IF o.result = "foreign" THEN "place" ELSE "asked"
  BY <1>1, ClassifiedIs
<1>3. /\ DOMAIN o = DOMAIN NoOwner
      /\ o.result = "owned" => Sockets(Ours(hs)) = probe.inodes
      /\ o.result = "foreign" =>
           Sockets(Theirs(hs)) = probe.inodes /\ o.pid = First(Theirs(hs))
      /\ o.reason = "unseen" => Ours(hs) \cup Theirs(hs) = {}
      /\ \/ o.result \in {"owned", "foreign"} \/ o.reason = "unseen"
         \/ /\ Ours(hs) \cup Theirs(hs) # {}
            /\ Sockets(Ours(hs)) # probe.inodes /\ Sockets(Theirs(hs)) # probe.inodes
  BY ClaimsMean
<1> HIDE DEF o
<1>4. /\ DOMAIN truth' = DOMAIN NoTruth /\ PlacesOK(holders, side)' /\ RowOK(row, holders)'
      /\ truth'.answer = truth.answer /\ truth'.steady = truth.steady
      /\ truth'.seen = truth.seen /\ (truth'.clean => truth.clean)
      /\ MemberSeen' = MemberSeen /\ ForeignRefused' /\ EndedInv'
  BY SameHistory
<1>5. WatchInv'
  BY <1>1, <1>2, SameWatch DEF Judging
<1>6. WalkInv'
  BY <1>2 DEF WalkInv
<1>7. OwnerProven'
  <2>1. SUFFICES ASSUME truth.answer \in probe.inodes
                 PROVE  /\ o.result = "owned" => MemberSeen
                        /\ o.result = "foreign" => \A p \in truth.steady : side[p] # "member"
                        /\ o.reason = "unseen" /\ truth'.clean =>
                             \A p \in truth.steady : side[p] = "alien"
    BY <1>2, <1>4 DEF OwnerProven, MemberSeen
  <2>2. o.result = "owned" => MemberSeen
    BY <1>3, <2>1 DEF Sockets, Ours
  <2>3. o.result = "foreign" => truth.answer \notin Sockets(Ours(hs))
    BY <1>3, <2>1 DEF Sockets, Theirs
  <2> QED
    BY <1>3, <2>1, <2>2, <2>3
<1>8. ASSUME truth'.clean
      PROVE  /\ o.result \in {"owned", "foreign"} \/ o.reason = "unseen"
             /\ o.result = "foreign" /\ "other" \in truth.steady => o.pid = "other"
  <2>1. probe.inodes = {truth.answer} /\ TruthOK(truth, row, holders, side)
    BY <1>1, <1>4, <1>8 DEF IndInv, WatchInv
  <2>2. \A h \in hs : h.socket = truth.answer
    BY <2>1
  <2>3. o.result \in {"owned", "foreign"} \/ o.reason = "unseen"
    <3>1. SUFFICES ASSUME Ours(hs) \cup Theirs(hs) # {}, Sockets(Ours(hs)) # probe.inodes,
                          Sockets(Theirs(hs)) # probe.inodes
                   PROVE  FALSE
      BY <1>3
    <3>2. Ours(hs) # {} => Sockets(Ours(hs)) = {truth.answer}
      BY <2>2 DEF Sockets, Ours
    <3>3. Theirs(hs) # {} => Sockets(Theirs(hs)) = {truth.answer}
      BY <2>2 DEF Sockets, Theirs
    <3> QED
      BY <2>1, <3>1, <3>2, <3>3
  <2>4. ASSUME o.result = "foreign", "other" \in truth.steady PROVE o.pid = "other"
    <3>1. holders[truth.answer] = {"other"}
      BY <2>1, <2>4 DEF IndInv, TruthOK, PlacesOK, Socket, Listening
    <3>2. Theirs(hs) # {}
      BY <1>3, <2>1, <2>4 DEF Sockets
    <3>3. \A h \in Theirs(hs) : ~h.member
      BY DEF Theirs, Ours, Sockets
    <3>4. \A h \in Theirs(hs) : h.pid = "other"
      BY <2>2, <3>1, <3>3 DEF Theirs
    <3> QED
      BY <1>3, <2>4, <3>2, <3>4 DEF First
  <2> QED
    BY <2>3, <2>4
<1>9. ClaimInv'
  BY <1>2, <1>4, <1>7, <1>8 DEF ClaimInv
<1> QED
  BY <1>2, <1>3, <1>4, <1>5, <1>6, <1>9 DEF IndInv, RecordsOK

\* What the two walks find.
LEMMA MembersFound ==
  ASSUME NEW ps, NEW h
  PROVE  h \in Holding(collectHolders(ps, TRUE)) <=>
           \E k \in probe.inodes : \E p \in ps :
             /\ Alive(p) /\ p \in holders[k]
             /\ h = [socket |-> k, pid |-> p, member |-> TRUE, sameUser |-> TRUE]
<1> DEFINE Visible == {q \in ps : Alive(q) /\ (TRUE \/ side[q] # "alien" \/ world.root)}
<1>1. h \in collectHolders(ps, TRUE) <=>
        \E k \in probe.inodes : \E p \in Visible :
          h = [socket |-> k, pid |-> p, member |-> TRUE, sameUser |-> TRUE \/ side[p] # "alien"]
  BY DEF collectHolders
<1>2. \A p : (TRUE \/ side[p] # "alien") = TRUE
  OBVIOUS
<1>3. h \in collectHolders(ps, TRUE) <=>
        \E k \in probe.inodes : \E p \in ps :
          /\ Alive(p)
          /\ h = [socket |-> k, pid |-> p, member |-> TRUE, sameUser |-> TRUE]
  BY ONLY <1>1, <1>2
<1>4. h \in Holding(collectHolders(ps, TRUE)) <=>
        h \in collectHolders(ps, TRUE) /\ h.pid \in holders[h.socket]
  BY ONLY DEF Holding
<1>5. ASSUME NEW k, NEW p, h = [socket |-> k, pid |-> p, member |-> TRUE, sameUser |-> TRUE]
      PROVE  h.pid = p /\ h.socket = k
  BY ONLY <1>5
<1> QED
  BY ONLY <1>3, <1>4, <1>5, Zenon

FoundOutside(h, k, p) ==
  /\ Alive(p) /\ (side[p] # "alien" \/ world.root) /\ p \in holders[k]
  /\ h = [socket |-> k, pid |-> p, member |-> FALSE, sameUser |-> side[p] # "alien"]

\* What a walk collects of programs that are not members.
LEMMA OthersAre ==
  ASSUME NEW ps, NEW h
  PROVE  h \in Holding(collectHolders(ps, FALSE)) <=>
           \E k \in probe.inodes : \E p \in ps : FoundOutside(h, k, p)
<1> DEFINE Visible == {q \in ps : Alive(q) /\ (FALSE \/ side[q] # "alien" \/ world.root)}
<1>1. h \in collectHolders(ps, FALSE) <=>
        \E k \in probe.inodes : \E p \in Visible :
          h = [socket |-> k, pid |-> p, member |-> FALSE, sameUser |-> FALSE \/ side[p] # "alien"]
  BY DEF collectHolders
<1>2. \A p : (FALSE \/ side[p] # "alien") = (side[p] # "alien")
  OBVIOUS
<1>3. h \in collectHolders(ps, FALSE) <=>
        \E k \in probe.inodes : \E p \in ps :
          /\ Alive(p) /\ (side[p] # "alien" \/ world.root)
          /\ h = [socket |-> k, pid |-> p, member |-> FALSE, sameUser |-> side[p] # "alien"]
  BY ONLY <1>1, <1>2
<1>4. h \in Holding(collectHolders(ps, FALSE)) <=>
        h \in collectHolders(ps, FALSE) /\ h.pid \in holders[h.socket]
  BY ONLY DEF Holding
<1>5. ASSUME NEW k, NEW p,
             h = [socket |-> k, pid |-> p, member |-> FALSE, sameUser |-> side[p] # "alien"]
      PROVE  h.pid = p /\ h.socket = k
  BY ONLY <1>5
<1> QED
  BY ONLY <1>3, <1>4, <1>5, Zenon DEF FoundOutside

\* A walk over ps finds who holds a socket of the probe, but for another user's.
LEMMA OthersFound ==
  ASSUME NEW ps
  PROVE  LET hs == Holding(collectHolders(ps, FALSE))
         IN  /\ \A h \in hs : ~h.member /\ h.socket \in probe.inodes
                                 /\ h.pid \in holders[h.socket]
             /\ \A k \in probe.inodes : \A p \in ps :
                  Alive(p) /\ side[p] # "alien" /\ p \in holders[k] =>
                    \E h \in hs : h.socket = k /\ h.sameUser
<1> DEFINE hs == Holding(collectHolders(ps, FALSE))
<1>1. ASSUME NEW h \in hs
      PROVE  ~h.member /\ h.socket \in probe.inodes /\ h.pid \in holders[h.socket]
  <2>0. h \in Holding(collectHolders(ps, FALSE))
    BY ONLY <1>1
  <2> HIDE DEF hs
  <2>1. PICK k \in probe.inodes : \E p \in ps : FoundOutside(h, k, p)
    BY <2>0, OthersAre
  <2> QED
    BY ONLY <2>1 DEF FoundOutside
<1>2. ASSUME NEW k \in probe.inodes, NEW p \in ps, Alive(p), side[p] # "alien", p \in holders[k]
      PROVE  \E h \in hs : h.socket = k /\ h.sameUser
  <2> DEFINE h == [socket |-> k, pid |-> p, member |-> FALSE, sameUser |-> side[p] # "alien"]
  <2>1. h \in hs
    <3>1. FoundOutside(h, k, p)
      BY <1>2 DEF FoundOutside
    <3> HIDE DEF h
    <3> QED
      BY <3>1, OthersAre
  <2>2. h.socket = k /\ h.sameUser
    BY <1>2
  <2> HIDE DEF h, hs
  <2> QED
    BY <2>1, <2>2
<1> QED
  BY <1>1, <1>2

\* A socket of the probe that a member holds is found.
LEMMA MembersStep ==
  ASSUME IndInv, ReadMembers
  PROVE  IndInv'
<1> DEFINE hs == Holding(collectHolders(probe.members, TRUE))
<1>1. probe.pc = "fds" /\ UNCHANGED <<world, side, holders, row, inc, truth>>
  BY DEF ReadMembers
<1>2. /\ DOMAIN probe = DOMAIN NoProbe /\ truth.answer # "none"
      /\ TruthOK(truth, row, holders, side) /\ PlacesOK(holders, side)
  BY <1>1 DEF IndInv, RecordsOK, WatchInv, Reading
<1>3. \A h : h \in hs <=>
        \E k \in probe.inodes : \E p \in probe.members :
          /\ Alive(p) /\ p \in holders[k]
          /\ h = [socket |-> k, pid |-> p, member |-> TRUE, sameUser |-> TRUE]
  BY MembersFound
<1> HIDE DEF hs
<1>4. \A h \in hs : h.member /\ h.socket \in probe.inodes /\ h.pid \in probe.members
                      /\ h.pid \in holders[h.socket]
  BY <1>3
<1>5. /\ probe.members \subseteq {"leader", "worker"}
      /\ "worker" \in probe.members => MemberSeen \/ OtherHolds
      /\ \A p \in truth.steady : side[p] = "member" => p \in probe.members
  BY <1>1 DEF IndInv, WalkInv
<1>6. \A h \in hs : h.socket = truth.answer => MemberSeen
  <2>1. SUFFICES ASSUME NEW h \in hs, h.socket = truth.answer PROVE MemberSeen
    OBVIOUS
  <2>2. h.pid \in holders[truth.answer] /\ h.pid \in {"leader", "worker"}
    BY <1>4, <1>5, <2>1
  <2>3. CASE h.pid = "leader"
    <3>1. side["leader"] = "member"
      BY <1>2, <2>2, <2>3 DEF PlacesOK, TruthOK
    <3>2. <<"leader", "member">> \in truth.seen
      BY <1>2, <2>2, <2>3, <3>1 DEF TruthOK
    <3> QED
      BY <3>2 DEF MemberSeen
  <2>4. CASE h.pid = "worker"
    <3>1. ~OtherHolds
      BY <2>2, <2>4 DEF OtherHolds
    <3> QED
      BY <1>4, <1>5, <2>4, <3>1
  <2> QED
    BY <2>2, <2>3, <2>4
<1>7. truth.answer \in probe.inodes =>
        \A p \in truth.steady \cap probe.members : \E h \in hs : h.socket = truth.answer
  <2>1. SUFFICES ASSUME truth.answer \in probe.inodes, NEW p \in truth.steady \cap probe.members
                 PROVE  \E h \in hs : h.socket = truth.answer
    OBVIOUS
  <2>2. p \in holders[truth.answer] /\ Alive(p)
    BY <1>2 DEF TruthOK, PlacesOK, Alive, Outside
  <2>3. [socket |-> truth.answer, pid |-> p, member |-> TRUE, sameUser |-> TRUE] \in hs
    BY <1>3, <2>1, <2>2
  <2> QED
    BY <2>3
<1>8. CASE Sockets(hs) = probe.inodes /\ probe' = Classified(probe, hs)
  <2>1. Ours(hs) = hs
    BY <1>4 DEF Ours
  <2>2. truth.answer \in probe.inodes =>
          \A p \in truth.steady : side[p] = "member" => truth.answer \in Sockets(Ours(hs))
    BY <1>5, <1>7, <2>1 DEF Sockets
  <2>3. truth.clean => \A p \in truth.steady : side[p] # "alien" => Ours(hs) \cup Theirs(hs) # {}
    <3>1. truth.clean => probe.inodes # {}
      BY <1>2 DEF IndInv, WatchInv
    <3>2. truth.clean => hs # {}
      BY <1>8, <3>1 DEF Sockets
    <3> QED
      BY <2>1, <3>2
  <2>4. probe.pc \in Reading
    BY <1>1 DEF Reading
  <2> QED
    BY <1>1, <1>4, <1>6, <1>8, <2>2, <2>3, <2>4, ClaimStep
<1>9. CASE probe' = [probe EXCEPT !.pc = "walk", !.found = hs]
  <2>1. /\ DOMAIN probe' = DOMAIN NoProbe /\ probe'.owner = probe.owner /\ probe'.found = hs
        /\ probe'.inodes = probe.inodes /\ probe'.pc = "walk" /\ probe'.members = probe.members
    BY <1>2, <1>9 DEF NoProbe
  <2>2. WatchInv'
    BY <1>1, <1>2, <2>1, SameWatch DEF Reading
  <2>3. MemberSeen' = MemberSeen
    BY <1>1 DEF MemberSeen
  <2>4. WalkInv'
    BY <1>1, <1>4, <1>5, <1>6, <1>7, <2>1, <2>3 DEF WalkInv
  <2>5. ClaimInv'
    BY <2>1 DEF ClaimInv, OwnerProven, Judging
  <2> QED
    BY <1>1, <2>1, <2>2, <2>4, <2>5 DEF IndInv, EndedInv, RecordsOK, ForeignRefused
<1> QED
  BY <1>8, <1>9 DEF ReadMembers, hs

\* What the walk over all programs found is classified truthfully.
LEMMA WalkStep ==
  ASSUME IndInv, WalkOthers
  PROVE  IndInv'
<1> DEFINE hs == Holding(collectHolders(Program \ probe.members, FALSE))
<1>1. probe.pc = "walk" /\ UNCHANGED <<world, side, holders, row, inc>>
  BY DEF WalkOthers
<1>2. /\ truth.answer # "none" /\ probe.pc \in Reading
      /\ TruthOK(truth, row, holders, side) /\ PlacesOK(holders, side)
  BY <1>1 DEF IndInv, WatchInv, Reading
<1>3. \A h \in hs : ~h.member /\ h.socket \in probe.inodes /\ h.pid \in holders[h.socket]
  BY OthersFound
<1>4. ASSUME NEW k \in probe.inodes, NEW p \in Program \ probe.members,
             Alive(p), side[p] # "alien", p \in holders[k]
      PROVE  \E h \in hs : h.socket = k /\ h.sameUser
  BY <1>4, OthersFound
<1> HIDE DEF hs
<1>5. /\ \A h \in probe.found : h.member /\ (h.socket = truth.answer => MemberSeen)
      /\ truth.answer \in probe.inodes /\ truth.steady \cap probe.members # {} =>
           \E h \in probe.found : h.socket = truth.answer
      /\ \A p \in truth.steady : side[p] = "member" => p \in probe.members
  BY <1>1 DEF IndInv, WalkInv
<1>6. ASSUME NEW all, probe.found \subseteq all, all \subseteq probe.found \cup hs
      PROVE  /\ \A h \in all : h.member /\ h.socket = truth.answer => MemberSeen
             /\ \A h \in all : ~h.member => h.pid \in holders[h.socket]
             /\ truth.answer \in probe.inodes =>
                  \A p \in truth.steady : side[p] = "member" => truth.answer \in Sockets(Ours(all))
  <2>1. \A h \in all : h.member => h \in probe.found
    BY <1>3, <1>6
  <2>2. \A h \in all : ~h.member => h \in hs
    BY <1>5, <1>6
  <2>3. truth.answer \in probe.inodes =>
          \A p \in truth.steady : side[p] = "member" => truth.answer \in Sockets(Ours(all))
    BY <1>5, <1>6 DEF Sockets, Ours
  <2> QED
    BY <1>3, <1>5, <2>1, <2>2, <2>3
<1>7. CASE probe' = Classified(probe, probe.found \cup hs) /\ UNCHANGED truth
  <2> DEFINE all == probe.found \cup hs
  <2>1. ASSUME truth.clean, NEW p \in truth.steady, side[p] # "alien"
        PROVE  Ours(all) \cup Theirs(all) # {}
    <3>1. truth.answer \in probe.inodes
      BY <1>2, <2>1 DEF IndInv, WatchInv
    <3>2. CASE p \in probe.members
      BY <1>5, <2>1, <3>1, <3>2 DEF Ours
    <3>3. CASE p \notin probe.members
      <4>1. p \in Program /\ p \in holders[truth.answer] /\ Alive(p)
        BY <1>2 DEF TruthOK, PlacesOK, Alive, Outside
      <4>2. PICK x \in hs : x.socket = truth.answer /\ x.sameUser
        BY <1>4, <2>1, <3>1, <3>3, <4>1
      <4>3. x \in Theirs(all) \/ Ours(all) # {}
        BY <4>2 DEF Theirs, Sockets
      <4> QED
        BY <4>3
    <3> QED
      BY <3>2, <3>3
  <2>2. \A h \in all : h.socket \in probe.inodes
    BY <1>1, <1>3 DEF IndInv, WalkInv
  <2> HIDE DEF all
  <2>3. /\ \A h \in all : h.member /\ h.socket = truth.answer => MemberSeen
        /\ \A h \in all : ~h.member => h.pid \in holders[h.socket]
        /\ truth.answer \in probe.inodes =>
             \A p \in truth.steady : side[p] = "member" => truth.answer \in Sockets(Ours(all))
    BY <1>6 DEF all
  <2> QED
    BY <1>1, <1>2, <1>7, <2>1, <2>2, <2>3, ClaimStep DEF all
<1>8. CASE probe' = Classified(probe, probe.found) /\ truth' = [truth EXCEPT !.clean = FALSE]
  <2>1. ~truth'.clean
    BY <1>8 DEF IndInv, RecordsOK, NoTruth
  <2>2. \A h \in probe.found : h.socket \in probe.inodes
    BY <1>1 DEF IndInv, WalkInv
  <2>3. /\ \A h \in probe.found : h.member /\ h.socket = truth.answer => MemberSeen
        /\ \A h \in probe.found : ~h.member => h.pid \in holders[h.socket]
        /\ truth.answer \in probe.inodes =>
             \A p \in truth.steady : side[p] = "member" => truth.answer \in Sockets(Ours(probe.found))
    BY <1>6
  <2> QED
    BY <1>1, <1>2, <1>8, <2>1, <2>2, <2>3, ClaimStep
<1> QED
  BY <1>7, <1>8 DEF WalkOthers, hs

\* The outside program of another live session is placed there.
LEMMA PlacedAcross ==
  ASSUME PlacesOK(holders, side), world.live, world.home \in {"recorded", "leased"}
  PROVE  placeAnswer(Discover, "other") = "cross_session"
<1> DEFINE a == [own |-> TRUE, leases |-> FALSE, group |-> Members]
           b == [own |-> FALSE, leases |-> world.home = "leased",
                 group |-> IF world.home = "recorded" THEN {"other"} ELSE {}]
<1>1. "other" \notin Members
  BY DEF PlacesOK, Members
<1>2. Discover = {a, b}
  BY DEF Discover
<1>3. "other" \notin a.group /\ a.own /\ ~a.leases
  BY <1>1
<1>4. /\ ~b.own /\ ("other" \in b.group <=> world.home = "recorded")
      /\ b.leases <=> world.home = "leased"
  OBVIOUS
<1> HIDE DEF a, b
<1>5. {s \in {a, b} : "other" \in s.group} = IF world.home = "recorded" THEN {b} ELSE {}
  BY <1>3, <1>4
<1>6. {s \in {a, b} : s.leases} = IF world.home = "leased" THEN {b} ELSE {}
  BY <1>3, <1>4
<1> QED
  BY <1>2, <1>4, <1>5, <1>6 DEF placeAnswer

\* A foreign program that crosses is placed in its session, where nothing is hidden.
LEMMA PlaceStep ==
  ASSUME IndInv, PlaceForeign
  PROVE  IndInv'
<1>1. probe.pc = "place" /\ UNCHANGED <<world, side, holders, row, inc>>
  BY DEF PlaceForeign
<1>2. /\ DOMAIN probe = DOMAIN NoProbe /\ DOMAIN probe.owner = DOMAIN NoOwner
      /\ DOMAIN truth = DOMAIN NoTruth /\ probe.owner.result = "foreign" /\ PlacesOK(holders, side)
  BY <1>1 DEF IndInv, RecordsOK, ClaimInv
<1>3. truth' = truth \/ truth' = [truth EXCEPT !.clean = FALSE]
  BY DEF PlaceForeign
<1>4. PICK c : /\ probe' = [probe EXCEPT !.pc = "asked", !.owner.scope = c]
               /\ c = placeAnswer(Discover, probe.owner.pid) \/ truth' = [truth EXCEPT !.clean = FALSE]
  BY DEF PlaceForeign
<1>5. /\ DOMAIN probe' = DOMAIN NoProbe /\ probe'.inodes = probe.inodes /\ probe'.pc = "asked"
      /\ probe'.owner = [probe.owner EXCEPT !.scope = c]
  BY <1>2, <1>4 DEF NoProbe
<1>6. /\ DOMAIN probe'.owner = DOMAIN NoOwner /\ probe'.owner.result = "foreign"
      /\ probe'.owner.pid = probe.owner.pid /\ probe'.owner.reason = probe.owner.reason
      /\ probe'.owner.scope = c
  BY <1>2, <1>5 DEF NoOwner
<1>7. /\ DOMAIN truth' = DOMAIN NoTruth /\ PlacesOK(holders, side)' /\ RowOK(row, holders)'
      /\ truth'.answer = truth.answer /\ truth'.steady = truth.steady
      /\ truth'.seen = truth.seen /\ (truth'.clean => truth.clean)
      /\ Crossing' = Crossing /\ ForeignRefused' /\ EndedInv'
  BY <1>1, <1>3, SameHistory
<1>8. WatchInv'
  <2>1. CASE truth.answer # "none"
    BY <1>1, <1>3, <1>5, <2>1, SameWatch DEF Judging
  <2>2. CASE truth.answer = "none"
    <3>1. truth = NoTruth /\ probe.inodes = {} /\ inc.at # "starting"
      BY <1>1, <2>2 DEF IndInv, WatchInv
    <3>2. truth' = NoTruth
      BY <1>3, <3>1 DEF NoTruth
    <3> QED
      BY <1>1, <1>5, <2>2, <3>1, <3>2 DEF WatchInv, Reading, NoTruth
  <2> QED
    BY <2>1, <2>2
<1>9. WalkInv'
  BY <1>5 DEF WalkInv
<1>10. OwnerProven'
  BY <1>1, <1>5, <1>6, <1>7 DEF IndInv, ClaimInv, OwnerProven
<1>11. truth'.clean /\ Crossing => c = "cross_session"
  <2>1. SUFFICES ASSUME truth'.clean, Crossing PROVE c = "cross_session"
    OBVIOUS
  <2>2. c = placeAnswer(Discover, probe.owner.pid)
    BY <1>2, <1>4, <2>1 DEF NoTruth
  <2>3. probe.owner.pid = "other"
    BY <1>1, <1>2, <1>7, <2>1 DEF IndInv, ClaimInv, Crossing, Judging
  <2> QED
    BY <1>2, <2>1, <2>2, <2>3, PlacedAcross DEF Crossing
<1>12. ClaimInv'
  BY <1>1, <1>2, <1>5, <1>6, <1>7, <1>10, <1>11 DEF IndInv, ClaimInv, Judging
<1> QED
  BY <1>1, <1>5, <1>6, <1>7, <1>8, <1>9, <1>12 DEF IndInv, RecordsOK

-----------------------------------------------------------------------------
(* The judgement.                                                          *)

\* An answer that is not refused and not of a member was not called own, and
\* not given by somebody it should have been refused for.
LEMMA AcceptedIsAdmitted ==
  ASSUME IndInv, probe.pc = "judge", ~refusalOf(probe.owner),
         Passing.clean, ~Passing.member
  PROVE  /\ ~Passing.owned
         /\ world.reject => ~Passing.outsider
         /\ world.cross => ~Passing.crossed
<1>1. /\ Passing.clean = truth.clean
      /\ Passing.owned = (probe.owner.result = "owned")
      /\ Passing.member = MemberSeen
      /\ Passing.outsider = (\E p \in truth.steady : side[p] = "same")
      /\ Passing.crossed = Crossing
  BY DEF Passing, MemberSeen, Crossing
<1>2. truth.answer # "none" /\ truth.answer \in probe.inodes
  BY <1>1 DEF IndInv, WatchInv, NoTruth
<1>3. /\ probe.owner.result \in {"owned", "foreign"} \/ probe.owner.reason = "unseen"
      /\ probe.owner.result = "foreign" /\ Crossing => probe.owner.scope = "cross_session"
  BY <1>1 DEF IndInv, ClaimInv, Judging
<1>4. probe.owner.result # "owned"
  BY <1>1, <1>2 DEF IndInv, ClaimInv, OwnerProven, MemberSeen
<1>5. (\E p \in truth.steady : side[p] = "same") => probe.owner.result = "foreign"
  BY <1>1, <1>2, <1>3, <1>4 DEF IndInv, ClaimInv, OwnerProven
<1>6. Crossing => \E p \in truth.steady : side[p] = "same"
  BY DEF Crossing
<1>7. ~Passing.owned
  BY <1>1, <1>4
<1>8. (world.reject => ~Passing.outsider) /\ (world.cross => ~Passing.crossed)
  BY <1>1, <1>3, <1>5, <1>6 DEF refusalOf
<1> QED
  BY <1>7, <1>8

\* A probe passes for a program only where the policy allows it.
LEMMA JudgeSteps ==
  ASSUME IndInv, JudgeReadiness \/ JudgeHealth
  PROVE  IndInv'
<1>1. /\ probe.pc = "judge" /\ DOMAIN probe = DOMAIN NoProbe
      /\ DOMAIN inc = DOMAIN Incarnation(1) /\ ForeignRefused
  BY DEF IndInv, RecordsOK, JudgeReadiness, JudgeHealth
<1>2. \E p, c : Over(p, c) /\ DOMAIN p = DOMAIN NoProbe /\ c \in {"failed", "off", "wait"}
  <2>1. DOMAIN [probe EXCEPT !.health = TRUE] = DOMAIN NoProbe
    BY <1>1 DEF NoProbe
  <2>2. CASE JudgeReadiness
    BY <1>1, <2>1, <2>2 DEF JudgeReadiness
  <2>3. CASE JudgeHealth
    BY <1>1, <2>3 DEF JudgeHealth
  <2> QED
    BY <2>2, <2>3
<1>3. PICK p, c : Over(p, c) /\ DOMAIN p = DOMAIN NoProbe /\ c \in {"failed", "off", "wait"}
  BY <1>2
<1>4. world' = world
  BY <1>3 DEF Over
<1>5. /\ DOMAIN inc' = DOMAIN inc /\ inc'.at = inc.at
      /\ \/ inc'.passed = inc.passed
         \/ inc'.passed = Passing /\ ~refusalOf(probe.owner)
  <2>1. CASE JudgeReadiness
    BY <1>1, <2>1 DEF JudgeReadiness, recordRefusedOwner, Latched, Incarnation
  <2>2. CASE JudgeHealth
    <3>1. /\ DOMAIN recordHealthOwner(probe.owner) = DOMAIN inc
          /\ recordHealthOwner(probe.owner).at = inc.at
          /\ recordHealthOwner(probe.owner).passed = inc.passed
      BY <1>1 DEF recordHealthOwner, Incarnation
    <3> QED
      BY <1>1, <2>2, <3>1 DEF JudgeHealth, Incarnation
  <2> QED
    BY <2>1, <2>2
<1>6. ForeignRefused'
  <2>1. CASE inc'.passed = inc.passed
    BY <1>1, <1>4, <2>1 DEF ForeignRefused
  <2>2. CASE inc'.passed = Passing /\ ~refusalOf(probe.owner)
    BY <1>1, <1>4, <2>2, AcceptedIsAdmitted DEF ForeignRefused
  <2> QED
    BY <1>5, <2>1, <2>2
<1> QED
  BY <1>1, <1>3, <1>5, <1>6, OverStep

\* Without an answer the attempt is over.
LEMMA NoResponseStep ==
  ASSUME IndInv, NoResponse
  PROVE  IndInv'
<1>1. /\ probe.pc = "asked" /\ DOMAIN probe = DOMAIN NoProbe
      /\ Over(probe, "failed") /\ UNCHANGED <<inc, world>>
  BY DEF IndInv, RecordsOK, NoResponse, Over
<1>2. ForeignRefused'
  BY <1>1 DEF IndInv, ForeignRefused
<1> QED
  BY <1>1, <1>2, OverStep

-----------------------------------------------------------------------------
\* At first nothing was asked and nothing was claimed.
LEMMA InitInv ==
  ASSUME NEW worlds, AttestInit(worlds)
  PROVE  IndInv
<1>1. /\ world \in World /\ holders = [k \in Socket |-> {}]
      /\ side = [p \in Program |-> IF p = "other" THEN world.user ELSE "absent"]
      /\ row = NoRow /\ inc = Incarnation(1) /\ probe = NoProbe /\ truth = NoTruth
  BY DEF AttestInit
<1>2. world.user \in Outside
  BY <1>1 DEF World
<1>3. RecordsOK
  BY <1>1 DEF RecordsOK, World, NoProbe
<1>4. PlacesOK(holders, side)
  BY <1>1, <1>2 DEF PlacesOK, Socket, Listening, Program, Outside
<1>5. RowOK(row, holders)
  BY <1>1 DEF RowOK, NoRow
<1>6. /\ probe.pc = "off" /\ probe.inodes = {} /\ truth.answer = "none" /\ ~truth.clean
      /\ inc.at = "starting" /\ ~inc.passed.clean
  BY <1>1 DEF NoProbe, NoTruth, Incarnation, NoPass
<1>7. EndedInv /\ WatchInv /\ WalkInv /\ ClaimInv /\ ForeignRefused
  BY <1>1, <1>6 DEF EndedInv, WatchInv, WalkInv, ClaimInv, OwnerProven, ForeignRefused, Reading
<1> QED
  BY <1>3, <1>4, <1>5, <1>7 DEF IndInv

\* Every step, of the programs or of the probe, keeps the claims true.
LEMMA NextInv ==
  ASSUME IndInv, [AttestNext]_attestVars
  PROVE  IndInv'
<1>1. CASE UNCHANGED attestVars
  BY <1>1 DEF attestVars, IndInv, RecordsOK, EndedInv, WatchInv, WalkInv, MemberSeen, OtherHolds,
              ClaimInv, OwnerProven, Crossing, ForeignRefused
<1>2. ASSUME NEW p \in Program, Accepts(p) PROVE IndInv'
  BY <1>2, AcceptStep
<1>3. ASSUME NEW p \in Program, ProgramExits(p) PROVE IndInv'
  BY <1>3, ExitSteps
<1>4. ASSUME NEW p \in Program, NEW k \in Listening, Listens(p, k) PROVE IndInv'
  BY <1>4, ListensStep
<1>5. CASE ServerCloses \/ ExecReturns
  BY <1>5, ExitSteps
<1>6. CASE Forks \/ Daemonizes
  BY <1>6, WorkerSteps
<1>7. CASE SessionDies
  BY <1>7, SessionDiesStep
<1>8. CASE Starts \/ NextIncarnation
  BY <1>8, IncarnationSteps
<1>9. CASE Cancels \/ ProcCancel
  BY <1>9, CancelSteps
<1>10. CASE Dial
  BY <1>10, DialStep
<1>11. CASE ReadGroup \/ ReadTable \/ ListGroup \/ ReadMembers \/ WalkOthers \/ PlaceForeign
  BY <1>11, GroupStep, TableStep, ListStep, MembersStep, WalkStep, PlaceStep
<1>12. CASE Responds \/ NoResponse \/ JudgeReadiness \/ JudgeHealth
  BY <1>12, RespondsStep, NoResponseStep, JudgeSteps
<1>13. CASE AttemptFails \/ Pause
  BY <1>13, PauseSteps
<1> QED
  BY <1>1, <1>2, <1>3, <1>4, <1>5, <1>6, <1>7, <1>8, <1>9, <1>10, <1>11, <1>12, <1>13 DEF AttestNext

\* The invariant holds in every world.
THEOREM Inductive ==
  ASSUME NEW worlds
  PROVE  AttestSpec(worlds) => []IndInv
<1>1. AttestInit(worlds) => IndInv
  BY InitInv
<1>2. IndInv /\ [AttestNext]_attestVars => IndInv'
  BY NextInv
<1> QED
  BY <1>1, <1>2, PTL DEF AttestSpec

\* An answer is attributed only to whoever really held the socket, although
\* the tables, the members and the descriptors are read one after the other
\* (attributePGID, findHolders, classifyHolders).
THEOREM AttributionIsProof ==
  ASSUME NEW worlds
  PROVE  AttestSpec(worlds) => []OwnerProven
<1>1. IndInv => OwnerProven
  BY DEF IndInv, ClaimInv
<1> QED
  BY <1>1, Inductive, PTL

\* No probe or health check passes on a steady, visible answer that the policy
\* refuses, and what was recorded as own was given by a member; answers that
\* cannot be attributed are taken (refusalOf, accept, monitorHealth).
THEOREM ForeignAnswersAreRefused ==
  ASSUME NEW worlds
  PROVE  AttestSpec(worlds) => []ForeignRefused
<1>1. IndInv => ForeignRefused
  BY DEF IndInv
<1> QED
  BY <1>1, Inductive, PTL
=============================================================================
