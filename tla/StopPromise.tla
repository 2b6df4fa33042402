----------------------------- MODULE StopPromise -----------------------------
(***************************************************************************)
(* What the daemon promises to whoever asks it to stop: every accepted     *)
(* request is accounted for, by an answer written to the client or by an   *)
(* entry in the event journal, and the run is not over before that.        *)
(***************************************************************************)

CONSTANT Client

VARIABLES pending,    \* accepted and not yet accounted for
          accounted,  \* answered, or recorded as undelivered
          over        \* Run has returned

vars == <<pending, accounted, over>>

Init == /\ pending = {}
        /\ accounted = {}
        /\ over = FALSE

Accept(c) ==
  /\ ~over
  /\ c \notin pending \cup accounted
  /\ pending' = pending \cup {c}
  /\ UNCHANGED <<accounted, over>>

Account(c) ==
  /\ c \in pending
  /\ pending' = pending \ {c}
  /\ accounted' = accounted \cup {c}
  /\ UNCHANGED over

Return ==
  /\ pending = {}
  /\ over' = TRUE
  /\ UNCHANGED <<pending, accounted>>

Next == \/ \E c \in Client : Accept(c) \/ Account(c)
        \/ Return

Spec == Init /\ [][Next]_vars
=============================================================================
