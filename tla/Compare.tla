------------------------------ MODULE Compare -------------------------------
(***************************************************************************)
(* compare: one check run against two worktrees, the sides taking turns,   *)
(* and the verdict drawn from what the attempts recorded.                  *)
(* Sources: internal/verify/compare.go, recordCheck and finishVerdict of    *)
(* operation.go, the size limit of result.go, and the recording of output  *)
(* in internal/runner: readOutput of broadcast.go and check.go.            *)
(*                                                                         *)
(* A run is what really happened in one attempt: how far it came, the end  *)
(* and the streams of the check, and what else went wrong.  A result is    *)
(* what compare gets to see of it.  The attempts themselves are modelled   *)
(* in Attempt.  A stream is a sequence of characters; a carriage return    *)
(* before a newline or before the end of the stream is one with it.        *)
(***************************************************************************)
EXTENDS Integers, Sequences

CONSTANTS
  Runs,      \* the runs of the check that may happen
  Repeats,   \* the values of --repeat
  Cap        \* MaxOutputBytes

\* The characters that end a line, with and without a carriage return.
Newline == 0
ReturnNewline == 1

ASSUME CompareAssumption ==
  /\ Cap \in Nat /\ Repeats \subseteq Nat \ {0}
  /\ \A run \in Runs :
       /\ run.startup \in {"not_run", "failed", "passed"}
       /\ run.check \in {"not_run", "canceled", "unstarted", "exited", "handed_off"}
       /\ run.check = "not_run" <=> run.startup # "passed"
       /\ {run.stdout, run.stderr} \subseteq Seq(Nat)
       /\ {run.refused, run.late, run.interrupt, run.cancelled, run.cleanup, run.persisted,
           run.erred, run.large} \subseteq BOOLEAN
       /\ run.environment \in {"none", "ineligible", "unverified"}
       /\ run.check = "canceled" => run.interrupt
       /\ run.interrupt => run.cancelled

VARIABLES
  left,      \* attempts left to make
  made,      \* the attempts of each side: the run, and the result
  verdict    \* status and outcomes_equal

compareVars == <<left, made, verdict>>

Sides == {"baseline", "candidate"}
Pending == [status |-> "none", equal |-> "none"]

-----------------------------------------------------------------------------
(* What an attempt records of a run of the check.                          *)

\* The reader hands on whole lines, without their ends; the capture writes each
\* with a newline, also the last one that had none.
Recorded(stream) ==
  LET lines == [i \in DOMAIN stream |->
                 IF stream[i] = ReturnNewline THEN Newline ELSE stream[i]]
  IN  IF stream = <<>> \/ lines[Len(stream)] = Newline THEN lines ELSE Append(lines, Newline)

\* cappedBuffer
Captured(stream) ==
  SubSeq(Recorded(stream), 1, IF Len(Recorded(stream)) < Cap THEN Len(Recorded(stream)) ELSE Cap)

\* recordCheck: a check that could not be started has failed, one that ended
\* by a signal has no code.
CheckStatus(run) ==
  CASE run.check = "not_run"    -> "not_run"
    [] run.check = "handed_off" -> "unverified"
    [] run.check = "unstarted"  -> "failed"
    [] run.check \in {"canceled", "exited"} /\ run.interrupt -> "interrupted"
    [] run.check = "exited" /\ ~run.interrupt /\ run.late  -> "timed_out"
    [] run.check = "exited" /\ ~run.interrupt /\ ~run.late ->
         IF run.code = 0 THEN "passed" ELSE "failed"

\* finishVerdict; erred stands for the errors compare does not look at: a lost
\* service, a teardown process that failed, a missing journal.
AttemptStatus(run) ==
  IF run.interrupt THEN "interrupted"
  ELSE IF /\ ~run.refused /\ ~run.erred /\ CheckStatus(run) = "passed"
          /\ run.environment = "none" /\ run.cleanup /\ run.persisted
  THEN "passed" ELSE "failed"

\* Encode empties both streams of a result that would grow too large.
ResultOf(run) ==
  [startup |-> run.startup, status |-> AttemptStatus(run), check |-> CheckStatus(run),
   code |-> run.code,
   stdout |-> IF run.large THEN <<>> ELSE Captured(run.stdout),
   stderr |-> IF run.large THEN <<>> ELSE Captured(run.stderr),
   truncated |-> run.large \/ Len(Recorded(run.stdout)) > Cap \/ Len(Recorded(run.stderr)) > Cap,
   cleanup |-> run.cleanup, persisted |-> run.persisted, environment |-> run.environment]

-----------------------------------------------------------------------------
(* The judgement *)

Results(side) == {made[side][i].result : i \in DOMAIN made[side]}

\* The fields of outcomeKey.
Key(r) == <<r.status, r.check, r.code, r.stdout, r.stderr>>

\* summaries: each repetition against the first.
Consistent(side) ==
  \A i \in DOMAIN made[side] : Key(made[side][i].result) = Key(made[side][1].result)

Differences ==
  \E i \in DOMAIN made["baseline"] \cap DOMAIN made["candidate"] :
    Key(made["baseline"][i].result) # Key(made["candidate"][i].result)

\* The bytes decide, whether they are all or not.
BytesDiffer(x, y, truncated) == x # y

captureDiffers(x, y, truncated) ==
  LET n == IF Len(x) < Len(y) THEN Len(x) ELSE Len(y)
  IN  IF truncated THEN SubSeq(x, 1, n) # SubSeq(y, 1, n) ELSE x # y

FieldDiffers(field, b, k) ==
  IF field \in {"stdout", "stderr"}
  THEN captureDiffers(b[field], k[field], b.truncated \/ k.truncated)
  ELSE b[field] # k[field]

provenDifference ==
  /\ Results("baseline") # {} /\ Results("candidate") # {}
  /\ \E field \in {"status", "check", "code", "stdout", "stderr"} :
       \A b \in Results("baseline"), k \in Results("candidate") : FieldDiffers(field, b, k)

judge ==
  LET truncated == \E side \in Sides : \E r \in Results(side) : r.truncated
  IN  IF provenDifference THEN "false"
      ELSE IF truncated \/ \E side \in Sides : ~Consistent(side) THEN "null"
      ELSE IF Differences THEN "false" ELSE "true"

-----------------------------------------------------------------------------
(* The loop of Compare *)

\* Every second repetition starts with the other side.
Turn ==
  LET done == Len(made["baseline"]) + Len(made["candidate"])
      swapped == (done \div 2) % 2 = 1
  IN  IF (done % 2 = 0) # swapped THEN "baseline" ELSE "candidate"

\* The comparison is interrupted by an attempt that was, or when the context is
\* found cancelled after it.
Interrupts(run) == AttemptStatus(run) = "interrupted" \/ run.cancelled

CompareRuns ==
  /\ left > 0
  /\ \E run \in Runs :
       /\ made' = [made EXCEPT ![Turn] = Append(@, [run |-> run, result |-> ResultOf(run)])]
       /\ left' = IF Interrupts(run) \/ run.refused THEN 0 ELSE left - 1
  /\ UNCHANGED verdict

\* What an attempt has to have done to be compared; a check that could not be
\* started is not "not_run".
Eligible(r) ==
  /\ r.startup = "passed" /\ r.check # "not_run" /\ r.cleanup /\ r.persisted
  /\ r.environment = "none"

Attempts == UNION {{made[side][i] : i \in DOMAIN made[side]} : side \in Sides}

\* The end of Compare; a refused attempt ended it at once.
Judgement ==
  CASE \E e \in Attempts : Interrupts(e.run) -> [status |-> "interrupted", equal |-> "null"]
    [] \A e \in Attempts : ~Interrupts(e.run) /\ ~e.run.refused /\ Eligible(e.result) ->
         [status |-> "comparable", equal |-> judge]
    [] OTHER -> [status |-> "not_comparable", equal |-> "null"]

CompareJudges ==
  /\ left = 0 /\ verdict = Pending
  /\ verdict' = Judgement
  /\ UNCHANGED <<left, made>>

CompareInit ==
  /\ left \in {2 * n : n \in Repeats}
  /\ made = [side \in Sides |-> <<>>]
  /\ verdict = Pending

\* Nothing is compared.
CompareOff == left = 0 /\ made = [side \in Sides |-> <<>>] /\ verdict = [Pending EXCEPT !.status = "off"]

CompareNext == CompareRuns \/ CompareJudges

CompareSpec == CompareInit /\ [][CompareNext]_compareVars

-----------------------------------------------------------------------------
(* Properties *)

Happened(side) == {made[side][i].run : i \in DOMAIN made[side]}

\* What the check did, line by line, and how the attempt ended.
Outcome(run) ==
  <<AttemptStatus(run), CheckStatus(run), run.code, Recorded(run.stdout), Recorded(run.stderr)>>

\* The verdict is about what the checks did, not about what was kept of their
\* output: false when some field really differs between every run of the one
\* side and every run of the other, true when all runs really had the same
\* outcome, and null only when an output was cut or a side disagrees with
\* itself.  A check that could not be started has failed, with the outcome that
\* implies.  Only comparisons that ran to their end are judged, with as many
\* attempts of one side as of the other (judge, provenDifference,
\* captureDiffers).
CompareHonest ==
  LET b == Happened("baseline")
      k == Happened("candidate")
  IN  /\ verdict.equal = "false" =>
           \E i \in 1..5 : \A x \in b, y \in k : Outcome(x)[i] # Outcome(y)[i]
      /\ verdict.equal = "true" => \A x, y \in b \cup k : Outcome(x) = Outcome(y)
      /\ verdict = [status |-> "comparable", equal |-> "null"] =>
           \/ \E x \in b \cup k :
                x.large \/ Len(Recorded(x.stdout)) > Cap \/ Len(Recorded(x.stderr)) > Cap
           \/ \E side \in Sides : \E x, y \in Happened(side) : Outcome(x) # Outcome(y)
      /\ verdict.status = "comparable" =>
           b # {} /\ Len(made["baseline"]) = Len(made["candidate"])
=============================================================================
