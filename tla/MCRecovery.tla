----------------------------- MODULE MCRecovery -----------------------------
(***************************************************************************)
(* An instance of Recovery and Attest for TLC: the two places where a      *)
(* process is identified by what procfs says of it.  A run plays one       *)
(* scenario:                                                               *)
(*   recover  a leader, two children born at some time, a stranger that    *)
(*            gets the leader's number and one that gets a child's         *)
(*   answer   a process and a program that wants its port                  *)
(***************************************************************************)
EXTENDS Recovery, Attest, TLC

CONSTANTS kid, late, heir, squatter

VARIABLE scenario

Pids == (lead :> 100) @@ (kid :> 101) @@ (late :> 102)
        @@ (heir :> 100) @@ (squatter :> 101)

-----------------------------------------------------------------------------
(* answer: a port of one's own, one that is shared by every order of the    *)
(* two addresses, another user's program with and without root, a program  *)
(* of the same session, of another one, and behind a port it leases; an    *)
(* http probe that is redirected, a second attempt, a second incarnation.  *)

Plain ==
  [user |-> "same", home |-> "none", live |-> FALSE, root |-> FALSE, reject |-> TRUE,
   cross |-> FALSE, kind |-> "tcp", shared |-> FALSE, remote |-> FALSE,
   rank |-> [own |-> 0, their |-> 0], dials |-> 1, incarnations |-> 1]
Session(h) == [Plain EXCEPT !.home = h, !.live = h # "own", !.reject = FALSE, !.cross = TRUE]

Worlds ==
  {[Plain EXCEPT !.shared = TRUE, !.rank.own = r[1], !.rank.their = r[2]] :
     r \in {<<0, 0>>, <<0, 1>>, <<1, 0>>}}
  \cup {[Plain EXCEPT !.user = "alien", !.root = r, !.shared = TRUE] : r \in BOOLEAN}
  \cup {Session(h) : h \in {"recorded", "leased", "own"}}
  \cup {[Plain EXCEPT !.home = "own", !.remote = TRUE],
        [Plain EXCEPT !.kind = "http", !.dials = 2],
        [Plain EXCEPT !.incarnations = 2, !.dials = 2]}

-----------------------------------------------------------------------------
MCInit ==
  \/ scenario = "recover" /\ Init /\ AttestInit({Plain})
  \/ scenario = "answer" /\ Init /\ host = "rebooted" /\ AttestInit(Worlds)

MCNext ==
  /\ \/ scenario = "recover" /\ Next /\ UNCHANGED attestVars
     \/ scenario = "answer" /\ AttestNext /\ UNCHANGED vars
  /\ UNCHANGED scenario
=============================================================================
