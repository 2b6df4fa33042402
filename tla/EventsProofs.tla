---------------------------- MODULE EventsProofs ----------------------------
(***************************************************************************)
(* Proofs about Events and Journal, under the specification of Monitor     *)
(* that their run uses: what a client reads has no hole but for entries    *)
(* too large for the history, a wait that succeeds was satisfied, the      *)
(* journal is whole, the pages of a query are exact and the view of the    *)
(* monitor stays put, for any processes, any number of events, changes and *)
(* runs, any queue, history and ring, any number and size of copies and    *)
(* any page.                                                               *)
(***************************************************************************)
EXTENDS Monitor, TLAPS, NaturalsInduction, WellFoundedInduction, SequenceTheorems,
        FiniteSetTheorems, FunctionTheorems

-----------------------------------------------------------------------------
(* The stream                                                              *)

Entry == [kind : {"log"}, proc : Goroutine, id : [run : Nat, seq : Nat], large : BOOLEAN]

\* Entry k comes next after entry n: those in between are of m.
Skips(m, n, k) == n < k /\ \A x \in Nat : n < x /\ x < k => x \in m

Consecutive(s, m) == \A i \in 1 .. Len(s) - 1 : Skips(m, s[i].id.seq, s[i + 1].id.seq)

\* b goes on where a ends.
Links(a, b, m) == a # <<>> /\ b # <<>> => Skips(m, a[Len(a)].id.seq, b[1].id.seq)

\* a and b, one after the other, are one piece; nothing follows it up to n.
Piece(a, b, m) == Consecutive(a, m) /\ Consecutive(b, m) /\ Links(a, b, m)
Ends(s, n, m)  == s # <<>> => Skips(m, s[Len(s)].id.seq, n + 1)
EndsAt(a, b, n, m) == IF b = <<>> THEN Ends(a, n, m) ELSE Ends(b, n, m)

\* The newest entry is not in the history yet; it is not in the queue of a
\* client that is to get it.
Pushing == \E g \in Goroutine : pc[g] = "push"
Pending == \E g \in Goroutine : pc[g] = "push" \/ (pc[g] = "fan" /\ to[g])
Kept    == IF Pushing THEN sequence - 1 ELSE sequence
Sent    == IF Pending THEN sequence - 1 ELSE sequence

StreamTypeOK ==
  /\ {sequence, run} \subseteq Nat
  /\ pc \in [Goroutine -> {"idle", "push", "fan"}]
  /\ about \in [Goroutine -> Goroutine]
  /\ item \in [Goroutine -> Entry \cup {Nothing}]
  /\ to \in [Goroutine -> BOOLEAN]
  /\ history \in Seq(Entry)
  /\ missed \subseteq Nat

\* logMu: one goroutine at a time has an entry in its hands, the newest.
LockInv ==
  \A g \in Goroutine :
    pc[g] # "idle" => lock = g /\ item[g] \in Entry /\ item[g].id.seq = sequence

\* What a client that connects gets has every entry that was not too large.
HistoryInv == client.at = "off" => Consecutive(history, missed) /\ Ends(history, Kept, missed)

\* What was read before the queue c.queue comes: h, or first the snapshot.
First(c, h) == IF c.at = "snap" THEN c.snap.logs ELSE h

\* What the client has and will read is one piece, and is not behind unless
\* the client was cut off.
ClientIs(c, h, n, m) ==
  /\ DOMAIN c = {"at", "reg", "shut", "queue", "snap"}
  /\ c.at \in {"off", "snap", "open", "gone"} /\ {c.reg, c.shut} \subseteq BOOLEAN
  /\ c.queue \in Seq(Entry) /\ h \in Seq(Entry) /\ Consecutive(h, m)
  /\ c.at = "off" => c.queue = <<>> /\ ~c.reg /\ ~c.shut
  /\ c.at \in {"off", "snap"} => h = <<>>
  /\ c.at = "snap" => c.snap.kind = "snapshot" /\ c.snap.logs \in Seq(Entry)
  /\ c.at \in {"snap", "open"} =>
       /\ Piece(First(c, h), c.queue, m)
       /\ ~c.shut => c.reg /\ EndsAt(First(c, h), c.queue, n, m)

ClientInv ==
  /\ ClientIs(client, heard, Sent, missed)
  /\ client.at = "off" => \A g \in Goroutine : ~to[g]

Streaming == watch = "stream" /\ StreamTypeOK /\ LockInv /\ HistoryInv /\ ClientInv

StreamInv == Streaming \/ (watch # "stream" /\ heard = <<>>)

-----------------------------------------------------------------------------
(* The waiter                                                              *)

State == [gen : Nat, word : Word]

\* What may be said of p: that it is ready in a generation in which it was.
Fact(was, p) == {st \in State : st.word \in Serving => st.gen \in was[p]}
Facts(was) == {m \in [kind : {"state"}, proc : Proc, st : State] : m.st \in Fact(was, m.proc)}
IsReport(was, f) == DOMAIN f \subseteq Proc /\ \A p \in DOMAIN f : f[p] \in Fact(was, p)

\* What the runner and the server keep.
FactInv ==
  /\ DOMAIN wasReady = Proc
  /\ DOMAIN proc = Proc /\ DOMAIN states = Proc
  /\ \A p \in Proc : {proc[p], states[p]} \subseteq Fact(wasReady, p)

\* What is in the hands of a goroutine.
HandInv ==
  /\ DOMAIN pc = Goroutine /\ DOMAIN about = Goroutine /\ DOMAIN item = Goroutine
  /\ \A g \in Goroutine :
       /\ pc[g] \in {"idle", "snap", "push", "fan"}
       /\ g \in Proc => about[g] = g
       /\ pc[g] = "snap" => about[g] \in Proc
       /\ pc[g] \in {"push", "fan"} => item[g] \in Facts(wasReady)

\* What the client will read, and has read.
QueueInv ==
  /\ DOMAIN client = {"at", "reg", "shut", "queue", "snap"}
  /\ client.queue \in Seq(Facts(wasReady))
  /\ client.at = "snap" => client.snap.kind = "snapshot" /\ IsReport(wasReady, client.snap.states)
  /\ IsReport(wasReady, last)

\* The processes counted as ready are, by the newest word read about them.
Told(p) == p \in DOMAIN last /\ Counts(p, last[p])
ReadyInv ==
  /\ DOMAIN wait = {"ready", "failed", "result"}
  /\ client.at = "off" => wait = Waiting
  /\ wait.result = "none" => wait.ready \subseteq Want /\ \A p \in wait.ready : Told(p)
  /\ wait.result = "ok" => \A p \in Want : Told(p)

Awaiting == Waiter /\ FactInv /\ HandInv /\ QueueInv /\ ReadyInv

WaitInv == Awaiting \/ (~Waiter /\ DOMAIN wait = {"ready", "failed", "result"} /\ wait.result # "ok")


-----------------------------------------------------------------------------
(* Steps.  A step of Monitor is a step of Events, or leaves it alone.      *)

EventStep == WriterStep \/ ServerStep \/ DeliverStep

\* A step of Monitor is a step of the events, or leaves them alone.
LEMMA StepsAre ==
  ASSUME [Next]_vars
  PROVE  EventStep \/ UNCHANGED eventVars
BY DEF Next, vars, EventStep, Reading

\* Without changes of the processes the stream has entries only.
LEMMA StreamSteps ==
  ASSUME watch = "stream", StreamTypeOK, EventStep
  PROVE  \/ \E g \in Goroutine : Emit(g) \/ BroadcastLog(g) \/ FanOut(g)
         \/ Connect \/ WriteEnds \/ Drop \/ WriteSnapshot \/ WriteOne
<1>1. ~Waiter
  BY DEF Waiter
<1>2. \A g \in Goroutine : pc[g] \notin {"snap", "compare"}
  BY DEF StreamTypeOK
<1>3. ASSUME NEW g \in Goroutine PROVE item[g].kind # "state"
  <2>1. item[g] \in Entry \/ item[g] = Nothing
    BY DEF StreamTypeOK
  <2>2. \A e \in Entry : e.kind = "log"
    BY DEF Entry
  <2>3. Nothing.kind = "nothing"
    BY DEF Nothing
  <2> QED
    BY <2>1, <2>2, <2>3
<1>4. ASSUME NEW p \in Proc PROVE ~Change(p) /\ ~Tick(p) /\ ~AskRestart(p)
  BY <1>1 DEF Change, Tick, AskRestart
<1>5. ASSUME NEW g \in Goroutine PROVE ~TakeState(g) /\ ~Compare(g) /\ ~BroadcastState(g)
  BY <1>2, <1>3 DEF TakeState, Compare, BroadcastState
<1>6. ~WaitTimeout /\ ~Crash
  BY <1>1 DEF WaitTimeout, Crash
<1> QED
  BY <1>4, <1>5, <1>6 DEF EventStep, WriterStep, ServerStep, DeliverStep

-----------------------------------------------------------------------------
(* Sequences of entries                                                    *)

\* The entries of a sequence are numbered.
LEMMA Numbered ==
  ASSUME NEW s \in Seq(Entry)
  PROVE  \A i \in 1 .. Len(s) : s[i] \in Entry /\ s[i].id.seq \in Nat
<1>1. \A i \in 1 .. Len(s) : s[i] \in Entry
  OBVIOUS
<1>2. \A e \in Entry : e.id.seq \in Nat
  BY DEF Entry
<1> QED
  BY <1>1, <1>2

\* An entry that follows the last one goes on with the piece.
LEMMA AppendEntry ==
  ASSUME NEW s \in Seq(Entry), NEW e \in Entry, NEW m
  PROVE  /\ Append(s, e) \in Seq(Entry) /\ Append(s, e) # <<>>
         /\ Append(s, e)[Len(Append(s, e))] = e
         /\ s # <<>> => Append(s, e)[1] = s[1]
         /\ s = <<>> => Append(s, e)[1] = e
         /\ Consecutive(s, m) /\ Links(s, <<e>>, m) => Consecutive(Append(s, e), m)
<1>1. /\ Append(s, e) \in Seq(Entry) /\ Len(Append(s, e)) = Len(s) + 1 /\ Len(s) \in Nat
      /\ \A i \in 1 .. Len(s) : Append(s, e)[i] = s[i]
      /\ Append(s, e)[Len(s) + 1] = e
  OBVIOUS
<1>2. s # <<>> => Len(s) >= 1
  OBVIOUS
<1>3. ASSUME Consecutive(s, m), Links(s, <<e>>, m) PROVE Consecutive(Append(s, e), m)
  <2>1. SUFFICES ASSUME NEW i \in 1 .. Len(s)
                 PROVE  Skips(m, Append(s, e)[i].id.seq, Append(s, e)[i + 1].id.seq)
    BY <1>1 DEF Consecutive
  <2>2. CASE i < Len(s)
    <3>1. i \in 1 .. Len(s) - 1 /\ i + 1 \in 1 .. Len(s)
      BY <1>1, <2>2
    <3> QED
      BY <1>1, <1>3, <3>1 DEF Consecutive
  <2>3. CASE i = Len(s)
    <3>1. s # <<>> /\ <<e>>[1] = e /\ <<e>> # <<>>
      BY <2>3
    <3> QED
      BY <1>1, <1>3, <2>3, <3>1 DEF Links
  <2> QED
    BY <1>1, <2>2, <2>3
<1>4. Append(s, e) # <<>> /\ Append(s, e)[Len(Append(s, e))] = e
  BY <1>1
<1>5. (s # <<>> => Append(s, e)[1] = s[1]) /\ (s = <<>> => Append(s, e)[1] = e)
  BY <1>1, <1>2
<1> QED
  BY <1>1, <1>3, <1>4, <1>5

\* The rest of a piece is one, and begins with the next entry.
LEMMA TailEntry ==
  ASSUME NEW s \in Seq(Entry), s # <<>>, NEW m
  PROVE  /\ Tail(s) \in Seq(Entry) /\ Head(s) \in Entry /\ Head(s) = s[1]
         /\ Tail(s) # <<>> =>
              /\ Tail(s)[Len(Tail(s))] = s[Len(s)]
              /\ Consecutive(s, m) => Skips(m, s[1].id.seq, Tail(s)[1].id.seq)
         /\ Tail(s) = <<>> => s[Len(s)] = s[1]
         /\ Consecutive(s, m) => Consecutive(Tail(s), m)
<1>1. /\ Tail(s) \in Seq(Entry) /\ Len(Tail(s)) = Len(s) - 1 /\ Len(s) \in Nat /\ Len(s) >= 1
      /\ \A i \in 1 .. Len(Tail(s)) : Tail(s)[i] = s[i + 1]
      /\ Head(s) \in Entry /\ Head(s) = s[1]
  OBVIOUS
<1>2. Tail(s) # <<>> => Len(Tail(s)) >= 1
  BY <1>1
<1>3. Tail(s) = <<>> => Len(s) = 1
  BY <1>1
<1>4. ASSUME Consecutive(s, m) PROVE Consecutive(Tail(s), m)
  <2>1. SUFFICES ASSUME NEW i \in 1 .. Len(Tail(s)) - 1
                 PROVE  Skips(m, Tail(s)[i].id.seq, Tail(s)[i + 1].id.seq)
    BY DEF Consecutive
  <2>2. i + 1 \in 1 .. Len(s) - 1 /\ Tail(s)[i] = s[i + 1] /\ Tail(s)[i + 1] = s[(i + 1) + 1]
    BY <1>1
  <2> QED
    BY <1>4, <2>2 DEF Consecutive
<1>5. ASSUME Consecutive(s, m), Tail(s) # <<>> PROVE Skips(m, s[1].id.seq, Tail(s)[1].id.seq)
  <2>1. 1 \in 1 .. Len(s) - 1 /\ Tail(s)[1] = s[1 + 1]
    BY <1>1, <1>2, <1>5
  <2> QED
    BY <1>5, <2>1 DEF Consecutive
<1>6. Tail(s) # <<>> => Tail(s)[Len(Tail(s))] = s[Len(s)]
  BY <1>1, <1>2
<1> QED
  BY <1>1, <1>3, <1>4, <1>5, <1>6

\* What is left of the history when the oldest make room.
LEMMA Suffix ==
  ASSUME NEW s \in Seq(Entry), NEW n \in 1 .. Len(s) + 1
  PROVE  /\ SubSeq(s, n, Len(s)) \in Seq(Entry)
         /\ Len(SubSeq(s, n, Len(s))) = Len(s) + 1 - n
         /\ \A i \in 1 .. Len(s) + 1 - n : /\ SubSeq(s, n, Len(s))[i] = s[n + i - 1]
                                         /\ n + i - 1 \in 1 .. Len(s)
<1>1. Len(s) \in Nat /\ n \in Nat /\ Len(s) + 1 - n \in Nat
  OBVIOUS
<1>2. SubSeq(s, n, Len(s)) = [i \in 1 .. Len(s) + 1 - n |-> s[n + i - 1]]
  BY <1>1
<1>3. \A i \in 1 .. Len(s) + 1 - n : n + i - 1 \in 1 .. Len(s)
  BY <1>1
<1>4. \A i \in 1 .. Len(s) : s[i] \in Entry
  OBVIOUS
<1>5. SubSeq(s, n, Len(s)) \in [1 .. Len(s) + 1 - n -> Entry]
  BY <1>2, <1>3, <1>4
<1>6. SubSeq(s, n, Len(s)) \in Seq(Entry)
  BY <1>1, <1>5
<1>7. Len(SubSeq(s, n, Len(s))) = Len(s) + 1 - n
  BY <1>1, <1>2
<1> QED
  BY <1>2, <1>3, <1>6, <1>7

\* The history stays one piece that ends with the new entry, unless the entry
\* is too large: then the history stays as it is.
LEMMA PushEntry ==
  ASSUME NEW s \in Seq(Entry), NEW e \in Entry, NEW t \in push(s, e), NEW m
  PROVE  /\ t \in Seq(Entry)
         /\ e.large => t = s
         /\ ~e.large => t # <<>> /\ t[Len(t)] = e
         /\ ~e.large /\ Consecutive(s, m) /\ Links(s, <<e>>, m) => Consecutive(t, m)
<1>1. CASE e.large
  BY <1>1 DEF push
<1>2. CASE ~e.large
  <2>1. PICK n \in 1 .. Len(s) + 1 : t = Append(SubSeq(s, n, Len(s)), e)
    BY <1>2 DEF push
  <2> DEFINE r == SubSeq(s, n, Len(s))
  <2>2. /\ r \in Seq(Entry) /\ Len(r) = Len(s) + 1 - n /\ Len(s) \in Nat
        /\ \A i \in 1 .. Len(r) : r[i] = s[n + i - 1] /\ n + i - 1 \in 1 .. Len(s)
    BY Suffix
  <2> HIDE DEF r
  <2>3. ASSUME Consecutive(s, m) PROVE Consecutive(r, m)
    <3>1. SUFFICES ASSUME NEW i \in 1 .. Len(r) - 1 PROVE Skips(m, r[i].id.seq, r[i + 1].id.seq)
      BY DEF Consecutive
    <3>2. /\ i \in 1 .. Len(r) /\ i + 1 \in 1 .. Len(r) /\ n + (i + 1) - 1 = (n + i - 1) + 1
          /\ n + i - 1 \in 1 .. Len(s) - 1
      BY <2>2
    <3> QED
      BY <2>2, <2>3, <3>2 DEF Consecutive
  <2>4. ASSUME Links(s, <<e>>, m) PROVE Links(r, <<e>>, m)
    <3>1. SUFFICES ASSUME r # <<>> PROVE Skips(m, r[Len(r)].id.seq, <<e>>[1].id.seq)
      BY DEF Links
    <3>2. Len(r) \in Nat /\ Len(r) # 0
      BY <2>2, <3>1
    <3>3. PICK i \in 1 .. Len(r) : i = Len(r) /\ n + i - 1 = Len(s)
      BY <2>2, <3>2
    <3>4. r[i] = s[n + i - 1] /\ n + i - 1 \in 1 .. Len(s)
      BY <2>2
    <3>5. r[Len(r)] = s[Len(s)] /\ s # <<>> /\ <<e>> # <<>>
      BY <2>2, <3>3, <3>4
    <3> QED
      BY <2>4, <3>5 DEF Links
  <2>5. t = Append(r, e)
    BY <2>1 DEF r
  <2> QED
    BY <1>2, <2>2, <2>3, <2>4, <2>5, AppendEntry
<1> QED
  BY <1>1, <1>2

\* Entry n + 1 came, and is the next one or is of m.
LEMMA SkipsOn ==
  ASSUME NEW m, NEW n \in Nat, NEW k \in Nat
  PROVE  /\ Skips(m, n, n + 1)
         /\ Skips(m, n, k) => Skips(m \cup {k}, n, k + 1)
         /\ \A w : m \subseteq w /\ Skips(m, n, k) => Skips(w, n, k)
BY DEF Skips

\* More may be missing.
LEMMA MoreMissed ==
  ASSUME NEW s \in Seq(Entry), NEW m, NEW w, m \subseteq w, Consecutive(s, m)
  PROVE  Consecutive(s, w)
BY DEF Consecutive, Skips

\* A message that joins the queue, and one that leaves it.
LEMMA PieceGrows ==
  ASSUME NEW a \in Seq(Entry), NEW b \in Seq(Entry), NEW e \in Entry, NEW n \in Int, NEW m,
         Piece(a, b, m), EndsAt(a, b, n, m), e.id.seq = n + 1
  PROVE  Piece(a, Append(b, e), m) /\ EndsAt(a, Append(b, e), n + 1, m)
<1>1. <<e>>[1] = e /\ <<e>> # <<>>
  OBVIOUS
<1>2. Links(b, <<e>>, m)
  BY <1>1 DEF EndsAt, Ends, Links
<1>3. Consecutive(b, m) /\ Links(a, b, m) /\ Consecutive(a, m)
  BY DEF Piece
<1>4. /\ Append(b, e) \in Seq(Entry) /\ Append(b, e) # <<>>
      /\ Append(b, e)[Len(Append(b, e))] = e /\ Consecutive(Append(b, e), m)
      /\ b # <<>> => Append(b, e)[1] = b[1]
      /\ b = <<>> => Append(b, e)[1] = e
  BY <1>2, <1>3, AppendEntry
<1>5. Links(a, Append(b, e), m)
  BY <1>3, <1>4 DEF Links, EndsAt, Ends
<1>6. Skips(m, e.id.seq, (n + 1) + 1)
  BY DEF Skips
<1> QED
  BY <1>3, <1>4, <1>5, <1>6 DEF Piece, EndsAt, Ends

\* Reading an entry off the queue breaks no piece.
LEMMA PieceMoves ==
  ASSUME NEW a \in Seq(Entry), NEW b \in Seq(Entry), b # <<>>, NEW m, Piece(a, b, m), NEW n
  PROVE  /\ a \o <<Head(b)>> \in Seq(Entry) /\ Tail(b) \in Seq(Entry) /\ Head(b) \in Entry
         /\ Piece(a \o <<Head(b)>>, Tail(b), m)
         /\ EndsAt(a, b, n, m) => EndsAt(a \o <<Head(b)>>, Tail(b), n, m)
<1> DEFINE e == Head(b)
           t == Tail(b)
           s == Append(a, e)
<1>1. /\ t \in Seq(Entry) /\ e \in Entry /\ e = b[1] /\ Consecutive(t, m)
      /\ t # <<>> => t[Len(t)] = b[Len(b)] /\ Skips(m, e.id.seq, t[1].id.seq)
      /\ t = <<>> => b[Len(b)] = e
  BY TailEntry DEF Piece
<1>2. a \o <<e>> = s
  BY <1>1
<1>3. Consecutive(a, m) /\ Links(a, <<e>>, m)
  <2>1. <<e>>[1] = e
    OBVIOUS
  <2> QED
    BY <1>1, <2>1 DEF Piece, Links
<1>4. s \in Seq(Entry) /\ s # <<>> /\ s[Len(s)] = e /\ Consecutive(s, m)
  BY <1>1, <1>3, AppendEntry
<1> HIDE DEF e, t, s
<1>5. Piece(s, t, m)
  BY <1>1, <1>4 DEF Piece, Links
<1>6. EndsAt(a, b, n, m) => EndsAt(s, t, n, m)
  BY <1>1, <1>4 DEF EndsAt, Ends
<1> QED
  BY <1>1, <1>2, <1>4, <1>5, <1>6 DEF e, t

\* A client that never got the snapshot starts with its queue.
LEMMA PieceStarts ==
  ASSUME NEW a \in Seq(Entry), NEW b \in Seq(Entry), NEW n, NEW m
  PROVE  /\ Piece(a, b, m) => Piece(<<>>, b, m)
         /\ EndsAt(a, b, n, m) => EndsAt(<<>>, b, n, m)
         /\ Consecutive(a, m) => Piece(a, <<>>, m)
         /\ Ends(a, n, m) => EndsAt(a, <<>>, n, m)
BY DEF Piece, Links, Consecutive, EndsAt, Ends

-----------------------------------------------------------------------------
(* The stream, step by step                                                *)

\* An entry is numbered only when nobody has one in hand.
LEMMA EmitStream ==
  ASSUME Streaming, NEW g \in Goroutine, Emit(g)
  PROVE  Streaming'
<1> USE EventsAssumption
<1>1. /\ lock = Nobody /\ lock' = g /\ sequence' = sequence + 1 /\ watch' = watch /\ run' = run
      /\ pc' = [pc EXCEPT ![g] = "push"] /\ sequence \in Nat
      /\ UNCHANGED <<about, to, history, missed, client, heard>>
  BY DEF Emit, EmitGuard, Streaming, StreamTypeOK, procVars, serverVars, clientVars
<1>0. PICK large \in BOOLEAN :
        item' = [item EXCEPT ![g] = [kind |-> "log", proc |-> about[g],
                                     id |-> [run |-> run, seq |-> sequence + 1],
                                     large |-> large]]
  BY DEF Emit
<1>2. \A h \in Goroutine : pc[h] = "idle"
  BY <1>1 DEF Streaming, LockInv, Nobody
<1>3. ~Pushing /\ ~Pending
  BY <1>2 DEF Pushing, Pending
<1>4. /\ pc' = [h \in Goroutine |-> IF h = g THEN "push" ELSE "idle"]
      /\ pc'[g] = "push"
  BY <1>1, <1>2 DEF Streaming, StreamTypeOK
<1>5. Pushing' /\ Pending'
  BY <1>4 DEF Pushing, Pending
<1>6. item'[g] \in Entry /\ item'[g].id.seq = sequence'
  <2>1. item'[g] = [kind |-> "log", proc |-> about[g],
                    id |-> [run |-> run, seq |-> sequence + 1], large |-> large]
    BY <1>0 DEF Streaming, StreamTypeOK
  <2> QED
    BY <1>1, <2>1 DEF Streaming, StreamTypeOK, Entry
<1>7. StreamTypeOK'
  <2>1. item' \in [Goroutine -> Entry \cup {Nothing}]
    BY <1>0, <1>6 DEF Streaming, StreamTypeOK
  <2>2. pc' \in [Goroutine -> {"idle", "push", "fan"}]
    BY <1>4
  <2> QED
    BY <1>1, <2>1, <2>2 DEF Streaming, StreamTypeOK
<1>8. LockInv'
  BY <1>1, <1>4, <1>6 DEF LockInv
<1>9. Kept' = Kept /\ Sent' = Sent
  BY <1>1, <1>3, <1>5 DEF Kept, Sent
<1>10. HistoryInv'
  BY <1>1, <1>9 DEF Streaming, HistoryInv
<1>11. ClientInv'
  BY <1>1, <1>9 DEF Streaming, ClientInv
<1> QED
  BY <1>1, <1>7, <1>8, <1>10, <1>11 DEF Streaming

\* The goroutine that has the entry in hand is the only one that moves it.
LEMMA OnlyHolder ==
  ASSUME Streaming, NEW g \in Goroutine, pc[g] # "idle"
  PROVE  /\ \A h \in Goroutine : h # g => pc[h] = "idle"
         /\ item[g] \in Entry /\ item[g].id.seq = sequence /\ sequence \in Nat
BY DEF Streaming, LockInv, StreamTypeOK

\* The newest entry is pushed to the history, and its clients are chosen.
LEMMA PushStream ==
  ASSUME Streaming, NEW g \in Goroutine, BroadcastLog(g)
  PROVE  Streaming'
<1> USE EventsAssumption
<1>1. /\ pc[g] = "push" /\ watch' = watch /\ history' \in push(history, item[g])
      /\ missed' = IF item[g].large /\ client.at = "off" THEN missed \cup {item[g].id.seq} ELSE missed
      /\ to' = [to EXCEPT ![g] = client.reg] /\ pc' = [pc EXCEPT ![g] = "fan"]
      /\ UNCHANGED <<about, item, lock, sequence, run, client, heard>>
  BY DEF BroadcastLog, Pushed, runnerVars, clientVars
<1>2. /\ \A h \in Goroutine : h # g => pc[h] = "idle"
      /\ item[g] \in Entry /\ item[g].id.seq = sequence /\ sequence \in Nat
  BY <1>1, OnlyHolder
<1>3. Pushing /\ Pending
  BY <1>1 DEF Pushing, Pending
<1>4. pc' = [h \in Goroutine |-> IF h = g THEN "fan" ELSE "idle"]
  BY <1>1, <1>2 DEF Streaming, StreamTypeOK
<1>5. ~Pushing' /\ Kept = sequence - 1 /\ Kept' = sequence
  <2>1. ~Pushing'
    BY <1>4 DEF Pushing
  <2> QED
    BY <1>1, <1>3, <2>1 DEF Kept
<1>6. history \in Seq(Entry) /\ history' \in Seq(Entry) /\ missed' \subseteq Nat
  <2>1. history \in Seq(Entry) /\ missed \subseteq Nat
    BY DEF Streaming, StreamTypeOK
  <2>2. history' \in Seq(Entry)
    BY <1>1, <1>2, <2>1, PushEntry
  <2> QED
    BY <1>1, <1>2, <2>1, <2>2
<1>7. HistoryInv'
  <2>1. SUFFICES ASSUME client.at = "off"
                 PROVE  Consecutive(history', missed') /\ Ends(history', sequence, missed')
    BY <1>1, <1>5 DEF HistoryInv
  <2>2. Consecutive(history, missed) /\ Ends(history, sequence - 1, missed)
    BY <1>5, <2>1 DEF Streaming, HistoryInv
  <2>3. \A i \in 1 .. Len(history) : history[i] \in Entry /\ history[i].id.seq \in Nat
    BY <1>6, Numbered
  <2>4. history # <<>> => /\ history[Len(history)].id.seq \in Nat
                          /\ Skips(missed, history[Len(history)].id.seq, sequence)
    <3>1. history # <<>> => Len(history) \in 1 .. Len(history)
      BY <1>6
    <3>2. (sequence - 1) + 1 = sequence
      BY <1>2
    <3> QED
      BY <2>2, <2>3, <3>1, <3>2 DEF Ends
  <2>5. CASE item[g].large
    <3>1. history' = history /\ missed' = missed \cup {sequence}
      BY <1>1, <1>2, <1>6, <2>1, <2>5, PushEntry
    <3>2. Consecutive(history', missed')
      BY <1>6, <2>2, <3>1, MoreMissed
    <3>3. Ends(history', sequence, missed')
      BY <1>2, <2>4, <3>1, SkipsOn DEF Ends
    <3> QED
      BY <3>2, <3>3
  <2>6. CASE ~item[g].large
    <3>1. missed' = missed
      BY <1>1, <2>6
    <3>2. Links(history, <<item[g]>>, missed)
      <4>1. <<item[g]>>[1] = item[g]
        OBVIOUS
      <4> QED
        BY <1>2, <2>4, <4>1 DEF Links
    <3>3. Consecutive(history', missed) /\ history' # <<>> /\ history'[Len(history')] = item[g]
      BY <1>1, <1>2, <1>6, <2>2, <2>6, <3>2, PushEntry
    <3>4. Ends(history', sequence, missed)
      BY <1>2, <3>3, SkipsOn DEF Ends
    <3> QED
      BY <3>1, <3>3, <3>4
  <2> QED
    BY <2>5, <2>6
<1>8. client.reg \in BOOLEAN
  BY DEF Streaming, ClientInv, ClientIs
<1>9. StreamTypeOK'
  BY <1>1, <1>4, <1>6, <1>8 DEF Streaming, StreamTypeOK
<1>10. LockInv'
  BY <1>1, <1>4 DEF Streaming, LockInv
<1>11. client.reg => Sent' = Sent
  <2>1. client.reg => Pending'
    BY <1>1, <1>4 DEF Pending, Streaming, StreamTypeOK
  <2> QED
    BY <1>1, <1>3, <2>1 DEF Sent
<1>12. client.at = "off" => \A h \in Goroutine : ~to'[h]
  BY <1>1 DEF Streaming, StreamTypeOK, ClientInv, ClientIs
<1>13. ClientIs(client, heard, Sent', missed')
  <2>1. ClientIs(client, heard, Sent, missed)
    BY DEF Streaming, ClientInv
  <2>2. CASE client.at = "off"
    <3>1. Consecutive(<<>>, missed')
      BY DEF Consecutive
    <3> QED
      BY <2>1, <2>2, <3>1 DEF ClientIs
  <2>3. CASE client.at # "off"
    <3>1. missed' = missed
      BY <1>1, <2>3
    <3> QED
      BY <1>11, <2>1, <2>3, <3>1 DEF ClientIs
  <2> QED
    BY <2>2, <2>3
<1>14. ClientInv'
  BY <1>1, <1>12, <1>13 DEF ClientInv
<1> QED
  BY <1>1, <1>7, <1>9, <1>10, <1>14 DEF Streaming

\* trySend: the entry joins the queue, or the client is cut off.
LEMMA SendStream ==
  ASSUME NEW c, NEW h, NEW n \in Int, NEW e \in Entry, NEW m, ClientIs(c, h, n, m),
         c.at # "off", e.id.seq = n + 1
  PROVE  ClientIs(TrySend(c, e), h, n + 1, m) /\ TrySend(c, e).at = c.at
<1> DEFINE d == TrySend(c, e)
<1>1. CASE c.shut \/ Len(c.queue) = QueueCap
  <2>1. /\ DOMAIN d = DOMAIN c /\ d.at = c.at /\ d.reg = c.reg /\ d.shut = TRUE
        /\ d.queue = c.queue /\ d.snap = c.snap
    BY <1>1 DEF ClientIs, TrySend
  <2> HIDE DEF d
  <2>2. First(d, h) = First(c, h)
    BY <2>1 DEF First
  <2>3. ClientIs(d, h, n + 1, m)
    BY <2>1, <2>2 DEF ClientIs
  <2> QED
    BY <2>1, <2>3 DEF d
<1>2. CASE ~(c.shut \/ Len(c.queue) = QueueCap)
  <2>1. /\ DOMAIN d = DOMAIN c /\ d.at = c.at /\ d.reg = c.reg /\ d.shut = c.shut
        /\ d.queue = Append(c.queue, e) /\ d.snap = c.snap
    BY <1>2 DEF ClientIs, TrySend
  <2> HIDE DEF d
  <2>2. First(d, h) = First(c, h)
    BY <2>1 DEF First
  <2>3. Append(c.queue, e) \in Seq(Entry) /\ c.queue \in Seq(Entry)
    BY DEF ClientIs
  <2>4. ASSUME c.at \in {"snap", "open"}
        PROVE  /\ Piece(First(c, h), Append(c.queue, e), m)
               /\ EndsAt(First(c, h), Append(c.queue, e), n + 1, m)
    <3>1. First(c, h) \in Seq(Entry)
      BY <2>4 DEF ClientIs, First
    <3>2. Piece(First(c, h), c.queue, m) /\ EndsAt(First(c, h), c.queue, n, m)
      BY <1>2, <2>4 DEF ClientIs
    <3> QED
      BY <2>3, <3>1, <3>2, PieceGrows
  <2>5. ClientIs(d, h, n + 1, m)
    BY <1>2, <2>1, <2>2, <2>3, <2>4 DEF ClientIs
  <2> QED
    BY <2>1, <2>5 DEF d
<1> QED
  BY <1>1, <1>2

\* The client that is to get the entry gets it, or is cut off.
LEMMA FanStream ==
  ASSUME Streaming, NEW g \in Goroutine, FanOut(g)
  PROVE  Streaming'
<1> USE EventsAssumption
<1>1. /\ pc[g] = "fan" /\ watch' = watch
      /\ client' = IF to[g] THEN TrySend(client, item[g]) ELSE client
      /\ to' = [to EXCEPT ![g] = FALSE]
      /\ UNCHANGED <<about, sequence, run, history, missed, heard>>
  BY DEF FanOut, serverVars
<1>2. /\ \A h \in Goroutine : h # g => pc[h] = "idle"
      /\ item[g] \in Entry /\ item[g].id.seq = sequence /\ sequence \in Nat
  BY <1>1, OnlyHolder
<1>3. /\ pc' = [pc EXCEPT ![g] = "idle"] /\ item' = [item EXCEPT ![g] = Nothing]
      /\ lock' = Nobody
  <2>1. item[g].kind = "log"
    BY <1>2 DEF Entry
  <2> QED
    BY <2>1 DEF FanOut
<1>4. pc' = [h \in Goroutine |-> "idle"]
  BY <1>2, <1>3 DEF Streaming, StreamTypeOK
<1>5. ~Pushing /\ ~Pushing' /\ ~Pending' /\ (Pending <=> to[g])
  BY <1>1, <1>2, <1>4 DEF Pushing, Pending
<1>6. LockInv'
  BY <1>4 DEF LockInv
<1>8. item' \in [Goroutine -> Entry \cup {Nothing}] /\ to' \in [Goroutine -> BOOLEAN]
  BY <1>1, <1>3 DEF Streaming, StreamTypeOK
<1>9. StreamTypeOK'
  BY <1>1, <1>4, <1>8 DEF Streaming, StreamTypeOK
<1>10. ClientIs(client, heard, Sent, missed) /\ Sent' = sequence
  BY <1>1, <1>5 DEF Streaming, ClientInv, Sent
<1>11. ClientIs(client', heard, sequence, missed) /\ client'.at = client.at
  <2>1. CASE to[g]
    <3>1. client' = TrySend(client, item[g]) /\ Sent = sequence - 1
      BY <1>1, <1>5, <2>1 DEF Sent
    <3>2. client.at # "off"
      BY <2>1 DEF Streaming, ClientInv
    <3>3. PICK n \in Int : n = sequence - 1 /\ item[g].id.seq = n + 1 /\ sequence = n + 1
      BY <1>2
    <3>4. ClientIs(client, heard, n, missed)
      BY <1>10, <3>1, <3>3
    <3>5. /\ ClientIs(TrySend(client, item[g]), heard, n + 1, missed)
          /\ TrySend(client, item[g]).at = client.at
      BY <1>2, <3>2, <3>3, <3>4, SendStream
    <3> QED
      BY <3>1, <3>3, <3>5
  <2>2. CASE ~to[g]
    BY <1>1, <1>5, <1>10, <2>2 DEF Sent
  <2> QED
    BY <2>1, <2>2
<1>7. HistoryInv'
  <2>1. Kept' = Kept
    BY <1>1, <1>5 DEF Kept
  <2> QED
    BY <1>1, <1>11, <2>1 DEF Streaming, HistoryInv
<1>12. client'.at = "off" => \A h \in Goroutine : ~to'[h]
  BY <1>1, <1>11 DEF Streaming, StreamTypeOK, ClientInv
<1>13. ClientInv'
  BY <1>1, <1>10, <1>11, <1>12 DEF ClientInv
<1> QED
  BY <1>1, <1>6, <1>7, <1>9, <1>13 DEF Streaming

\* handle: the snapshot is taken with the registration, so that the queue goes
\* on where the snapshot ends; an entry that is on its way comes by the queue.
LEMMA ConnectStream ==
  ASSUME Streaming, Connect
  PROVE  Streaming'
<1>1. /\ client.at = "off" /\ watch' = watch
      /\ client' = [client EXCEPT !.at = "snap", !.reg = TRUE, !.snap = Snapshot]
      /\ UNCHANGED <<pc, about, item, to, lock, sequence, run, history, missed, heard>>
  BY DEF Connect, goVars, runnerVars, serverVars
<1>2. ClientIs(client, heard, Sent, missed) /\ \A g \in Goroutine : ~to[g]
  BY <1>1 DEF Streaming, ClientInv
<1>3. Pending <=> Pushing
  BY <1>2 DEF Pending, Pushing
<1>4. Kept = Sent /\ Kept' = Kept /\ Sent' = Sent
  BY <1>1, <1>3 DEF Kept, Sent, Pending, Pushing
<1>5. /\ DOMAIN client' = DOMAIN client /\ client'.at = "snap" /\ client'.reg = TRUE
      /\ client'.shut = FALSE /\ client'.queue = <<>>
      /\ client'.snap.kind = "snapshot" /\ client'.snap.logs = history
  BY <1>1, <1>2 DEF ClientIs, Snapshot
<1>6. /\ history \in Seq(Entry) /\ <<>> \in Seq(Entry)
      /\ Piece(history, <<>>, missed) /\ EndsAt(history, <<>>, Sent, missed)
  BY <1>1, <1>4, PieceStarts DEF Streaming, StreamTypeOK, HistoryInv
<1>7. First(client', heard) = history /\ heard = <<>>
  BY <1>1, <1>2, <1>5 DEF First, ClientIs
<1>8. ClientIs(client', heard, Sent, missed)
  BY <1>2, <1>5, <1>6, <1>7 DEF ClientIs
<1>9. ClientInv'
  BY <1>1, <1>4, <1>5, <1>8 DEF ClientInv
<1>10. StreamTypeOK' /\ LockInv' /\ HistoryInv'
  BY <1>1, <1>4, <1>5 DEF Streaming, StreamTypeOK, LockInv, HistoryInv
<1> QED
  BY <1>1, <1>9, <1>10 DEF Streaming

\* What happens at the client's end leaves the server alone.
LEMMA ClientMoves ==
  ASSUME Streaming, watch' = watch, client'.at # "off", UNCHANGED <<goVars, runnerVars, serverVars>>,
         ClientIs(client', heard', Sent, missed)
  PROVE  Streaming'
<1>1. UNCHANGED <<pc, about, item, to, lock, sequence, run, history, missed>>
  BY DEF goVars, runnerVars, serverVars
<1>2. Kept' = Kept /\ Sent' = Sent
  BY <1>1 DEF Kept, Sent, Pending, Pushing
<1>3. ClientInv'
  BY <1>1, <1>2 DEF ClientInv
<1>4. StreamTypeOK' /\ LockInv' /\ HistoryInv'
  BY <1>1, <1>2 DEF Streaming, StreamTypeOK, LockInv, HistoryInv
<1> QED
  BY <1>3, <1>4 DEF Streaming

\* A snapshot is read before what was queued behind it.
LEMMA WriteSnapshotStream ==
  ASSUME Streaming, WriteSnapshot
  PROVE  Streaming'
<1>1. /\ client.at = "snap" /\ watch' = watch
      /\ UNCHANGED <<goVars, runnerVars, serverVars>>
  BY DEF WriteSnapshot
<1>2. ClientIs(client, heard, Sent, missed) /\ watch = "stream"
  BY DEF Streaming, ClientInv
<1> DEFINE c == [client EXCEPT !.at = "open", !.snap = Nothing]
           kept == client.snap.logs
<1>3. /\ DOMAIN c = DOMAIN client /\ c.at = "open" /\ c.reg = client.reg
      /\ c.shut = client.shut /\ c.queue = client.queue
  BY <1>2 DEF ClientIs
<1>4. /\ heard = <<>> /\ kept \in Seq(Entry) /\ client.snap.kind = "snapshot"
      /\ Piece(kept, client.queue, missed)
      /\ ~client.shut => client.reg /\ EndsAt(kept, client.queue, Sent, missed)
      /\ client.queue \in Seq(Entry) /\ <<>> \in Seq(Entry)
      /\ {client.reg, client.shut} \subseteq BOOLEAN
      /\ DOMAIN client = {"at", "reg", "shut", "queue", "snap"}
  BY <1>1, <1>2 DEF ClientIs, First
<1>5. CASE client' = c /\ Read(client.snap)
  <2>1. Entries(client.snap) = kept
    BY <1>4 DEF Entries
  <2>2. heard' = kept
    <3>1. heard' = <<>> \o kept
      BY <1>2, <1>4, <1>5, <2>1 DEF Read
    <3> QED
      BY ONLY <3>1, <1>4
  <2>3. First(client', heard') = kept
    BY <1>3, <1>5, <2>2 DEF First
  <2> HIDE DEF c, kept
  <2>4. ClientIs(client', heard', Sent, missed)
    BY <1>3, <1>4, <1>5, <2>2, <2>3 DEF ClientIs, Piece
  <2> QED
    BY <1>1, <1>3, <1>5, <2>4, ClientMoves
<1>6. CASE client' = c /\ heard' = heard
  <2>1. First(client', heard') = <<>>
    BY <1>3, <1>4, <1>6 DEF First
  <2>2. /\ Piece(<<>>, client.queue, missed)
        /\ ~client.shut => EndsAt(<<>>, client.queue, Sent, missed)
    BY <1>4, PieceStarts
  <2> HIDE DEF c, kept
  <2>3. ClientIs(client', heard', Sent, missed)
    BY <1>3, <1>4, <1>6, <2>1, <2>2 DEF ClientIs, Piece
  <2> QED
    BY <1>1, <1>3, <1>6, <2>3, ClientMoves
<1>7. CASE client' = [c EXCEPT !.at = "gone", !.reg = FALSE, !.shut = TRUE] /\ heard' = heard
  <2>1. /\ DOMAIN client' = DOMAIN client /\ client'.at = "gone" /\ client'.reg = FALSE
        /\ client'.shut = TRUE /\ client'.queue = client.queue
    BY <1>2, <1>7 DEF ClientIs
  <2>2. Consecutive(heard, missed)
    BY <1>2 DEF ClientIs
  <2>3. ClientIs(client', heard', Sent, missed)
    BY <1>4, <1>7, <2>1, <2>2 DEF ClientIs
  <2> QED
    BY <1>1, <2>1, <2>3, ClientMoves
<1> QED
  BY <1>5, <1>6, <1>7 DEF WriteSnapshot

\* The queue is read in its order.
LEMMA WriteOneStream ==
  ASSUME Streaming, WriteOne
  PROVE  Streaming'
<1> DEFINE m == Head(client.queue)
<1>1. /\ client.at = "open" /\ client.queue # <<>> /\ watch' = watch /\ watch = "stream"
      /\ client' = [client EXCEPT !.queue = Tail(@)]
      /\ UNCHANGED <<goVars, runnerVars, serverVars>>
      /\ heard' = heard \o Entries(m)
  BY DEF WriteOne, Read, Streaming
<1>2. ClientIs(client, heard, Sent, missed)
  BY DEF Streaming, ClientInv
<1>3. /\ heard \in Seq(Entry) /\ client.queue \in Seq(Entry) /\ Piece(heard, client.queue, missed)
      /\ ~client.shut => client.reg /\ EndsAt(heard, client.queue, Sent, missed)
      /\ DOMAIN client = {"at", "reg", "shut", "queue", "snap"}
      /\ {client.reg, client.shut} \subseteq BOOLEAN
  BY <1>1, <1>2 DEF ClientIs, First
<1>4. /\ heard \o <<m>> \in Seq(Entry) /\ Tail(client.queue) \in Seq(Entry) /\ m \in Entry
      /\ Piece(heard \o <<m>>, Tail(client.queue), missed)
      /\ ~client.shut => EndsAt(heard \o <<m>>, Tail(client.queue), Sent, missed)
  BY <1>1, <1>3, PieceMoves
<1>5. heard' = heard \o <<m>>
  <2>1. m.kind = "log"
    BY <1>4 DEF Entry
  <2> QED
    BY <1>1, <2>1 DEF Entries
<1>6. /\ DOMAIN client' = DOMAIN client /\ client'.at = "open" /\ client'.reg = client.reg
      /\ client'.shut = client.shut /\ client'.queue = Tail(client.queue)
  BY <1>1, <1>3
<1> HIDE DEF m
<1>7. First(client', heard') = heard \o <<m>>
  BY <1>5, <1>6 DEF First
<1>8. ClientIs(client', heard', Sent, missed)
  BY <1>3, <1>4, <1>5, <1>6, <1>7 DEF ClientIs, Piece
<1> QED
  BY <1>1, <1>6, <1>8, ClientMoves

\* A connection that ends, or is dropped, does not change what was read.
LEMMA EndStream ==
  ASSUME Streaming, WriteEnds \/ Drop
  PROVE  Streaming'
<1>1. ClientIs(client, heard, Sent, missed)
  BY DEF Streaming, ClientInv
<1>2. CASE WriteEnds
  <2>1. /\ DOMAIN client' = DOMAIN client /\ client'.at = "gone" /\ client'.reg = client.reg
        /\ client'.shut = TRUE /\ client'.queue = <<>> /\ heard' = heard /\ watch' = watch
        /\ UNCHANGED <<goVars, runnerVars, serverVars>>
    BY <1>1, <1>2 DEF WriteEnds, ClientIs
  <2>2. <<>> \in Seq(Entry) /\ {client.reg, TRUE} \subseteq BOOLEAN
    BY <1>1 DEF ClientIs
  <2>3. ClientIs(client', heard', Sent, missed)
    BY <1>1, <2>1, <2>2 DEF ClientIs
  <2> QED
    BY <2>1, <2>3, ClientMoves
<1>3. CASE Drop
  <2>1. /\ DOMAIN client' = DOMAIN client /\ client'.at = client.at /\ client'.reg = FALSE
        /\ client'.shut = TRUE /\ client'.queue = client.queue /\ heard' = heard
        /\ watch' = watch /\ client.at \in {"open", "gone"}
        /\ UNCHANGED <<goVars, runnerVars, serverVars>>
    BY <1>1, <1>3 DEF Drop, ClientIs
  <2>2. First(client', heard') = First(client, heard)
    BY <2>1 DEF First
  <2>3. ClientIs(client', heard', Sent, missed)
    BY <1>1, <2>1, <2>2 DEF ClientIs
  <2> QED
    BY <2>1, <2>3, ClientMoves
<1> QED
  BY <1>2, <1>3

\* Only a stream observer hears entries.
LEMMA SilentSteps ==
  ASSUME watch # "stream", heard = <<>>, EventStep
  PROVE  watch' # "stream" /\ heard' = <<>>
<1>1. \A m : Read(m) => heard' = heard
  BY DEF Read
<1>2. watch' = watch
  BY DEF EventStep, WriterStep, ServerStep, DeliverStep, Emit, Crash, Change, Tick, AskRestart,
         TakeState, BroadcastLog, BroadcastState, Pushed, FanOut, Compare, Connect, WriteEnds,
         Drop, WaitTimeout, WriteSnapshot, WriteOne
<1>3. heard' = heard
  <2>1. DeliverStep => heard' = heard
    BY <1>1 DEF DeliverStep, WriteSnapshot, WriteOne
  <2>2. WriterStep \/ ServerStep => heard' = heard
    BY DEF WriterStep, ServerStep, Emit, Crash, Change, Tick, AskRestart,
           TakeState, BroadcastLog, BroadcastState, Pushed, FanOut, Compare, Connect, WriteEnds,
           Drop, WaitTimeout, clientVars
  <2> QED
    BY <2>1, <2>2 DEF EventStep
<1> QED
  BY <1>2, <1>3

\* Every step keeps the stream of a client in one piece.
LEMMA StreamNext == StreamInv /\ [Next]_vars => StreamInv'
<1>1. SUFFICES ASSUME StreamInv, EventStep \/ UNCHANGED eventVars
               PROVE  StreamInv'
  BY StepsAre
<1>2. CASE UNCHANGED eventVars
  <2>1. UNCHANGED <<watch, pc, about, item, to, lock, sequence, run, history, missed,
                   client, heard>>
    BY <1>2 DEF eventVars, goVars, runnerVars, serverVars, clientVars
  <2>2. Kept' = Kept /\ Sent' = Sent
    BY <2>1 DEF Kept, Sent, Pending, Pushing
  <2> QED
    BY <1>1, <2>1, <2>2 DEF StreamInv, Streaming, StreamTypeOK, LockInv, HistoryInv, ClientInv
<1>3. CASE EventStep /\ Streaming
  <2>1. \/ \E g \in Goroutine : Emit(g) \/ BroadcastLog(g) \/ FanOut(g)
        \/ Connect \/ WriteEnds \/ Drop \/ WriteSnapshot \/ WriteOne
    BY <1>3, StreamSteps DEF Streaming
  <2>2. Streaming'
    BY <1>3, <2>1, EmitStream, PushStream, FanStream, ConnectStream, EndStream,
       WriteSnapshotStream, WriteOneStream
  <2> QED
    BY <2>2 DEF StreamInv
<1>4. CASE EventStep /\ ~Streaming
  BY <1>1, <1>4, SilentSteps DEF StreamInv
<1> QED
  BY <1>1, <1>2, <1>3, <1>4

\* At first nothing was logged and nobody listens.
LEMMA StreamInit == Init => StreamInv
<1>1. SUFFICES ASSUME EventsInit PROVE StreamInv
  BY DEF Init
<1>2. heard = <<>>
  BY <1>1 DEF EventsInit
<1>3. CASE watch = "stream"
  <2>1. /\ pc = [g \in Goroutine |-> "idle"] /\ item = [g \in Goroutine |-> Nothing]
        /\ about = [g \in Goroutine |-> g] /\ to = [g \in Goroutine |-> FALSE]
        /\ run = 1 /\ history = <<>> /\ sequence = Len(history) /\ missed = {}
        /\ client = Offline
    BY <1>1, <1>3 DEF EventsInit
  <2>2. StreamTypeOK
    BY <2>1 DEF StreamTypeOK
  <2>3. LockInv
    BY <2>1 DEF LockInv
  <2>4. Consecutive(<<>>, missed) /\ \A n : Ends(<<>>, n, missed)
    BY DEF Consecutive, Ends
  <2>5. HistoryInv
    BY <2>1, <2>4 DEF HistoryInv
  <2>6. ClientInv
    BY <1>2, <2>1, <2>4 DEF ClientInv, ClientIs, Offline
  <2> QED
    BY <1>3, <2>2, <2>3, <2>5, <2>6 DEF StreamInv, Streaming
<1> QED
  BY <1>2, <1>3 DEF StreamInv

\* A client reads the entries of the run in their order and without a
\* repetition, and what it does not get in between came before it connected and
\* was too large for the history: the snapshot and the registration are one step
\* of handle, emit numbers, keeps and fans out an entry under one lock, the
\* history drops its oldest entries first, and trySend cuts off a client that it
\* cannot serve.
THEOREM StreamHasNoHole == Spec => []StreamExact
<1>1. StreamInv => StreamExact
  <2>1. ASSUME Streaming PROVE StreamExact
    <3>1. heard \in Seq(Entry) /\ Consecutive(heard, missed)
      BY <2>1 DEF Streaming, ClientInv, ClientIs
    <3>2. \A i \in 1 .. Len(heard) : heard[i] \in Entry /\ heard[i].id.seq \in Nat
      BY <3>1, Numbered
    <3>3. SUFFICES ASSUME NEW i \in 1 .. Len(heard) - 1
                   PROVE  /\ heard[i].id.seq < heard[i + 1].id.seq
                          /\ heard[i].id.seq + 1 .. heard[i + 1].id.seq - 1 \subseteq missed
      BY DEF StreamExact
    <3>4. i \in 1 .. Len(heard) /\ i + 1 \in 1 .. Len(heard)
      BY <3>1
    <3>5. Skips(missed, heard[i].id.seq, heard[i + 1].id.seq)
      BY <3>1 DEF Consecutive
    <3>6. PICK a \in Nat, b \in Nat : a = heard[i].id.seq /\ b = heard[i + 1].id.seq
      BY <3>2, <3>4
    <3>7. a < b /\ a + 1 .. b - 1 \subseteq missed
      BY <3>5, <3>6 DEF Skips
    <3> QED
      BY <3>6, <3>7
  <2>2. heard = <<>> => StreamExact
    BY DEF StreamExact
  <2> QED
    BY <2>1, <2>2 DEF StreamInv
<1> QED
  BY <1>1, StreamInit, StreamNext, PTL DEF Spec

-----------------------------------------------------------------------------
(* The waiter, step by step                                                *)

\* The steps of the events while a waiter is connected.
LEMMA WaitSteps ==
  ASSUME Awaiting, EventStep
  PROVE  \/ \E p \in Proc : Change(p) \/ Tick(p) \/ AskRestart(p)
         \/ \E g \in Goroutine : TakeState(g) \/ BroadcastState(g) \/ FanOut(g)
         \/ Connect \/ WriteEnds \/ Drop \/ WaitTimeout \/ WriteSnapshot \/ WriteOne
<1>1. watch \in {"up", "restart"}
  BY DEF Awaiting, Waiter
<1>2. \A g \in Goroutine : pc[g] \notin {"emit", "compare"}
  BY DEF Awaiting, HandInv
<1>3. \A g \in Goroutine : pc[g] = "push" => item[g].kind = "state"
  BY DEF Awaiting, HandInv, Facts
<1>4. ASSUME NEW g \in Goroutine PROVE ~Emit(g) /\ ~BroadcastLog(g) /\ ~Compare(g)
  BY <1>1, <1>2, <1>3 DEF Emit, Due, BroadcastLog, Compare
<1>5. ~Crash
  BY <1>1 DEF Crash
<1> QED
  BY <1>4, <1>5 DEF EventStep, WriterStep, ServerStep, DeliverStep

\* A fact stays one when a process becomes ready in more generations.
LEMMA FactsGrow ==
  ASSUME NEW w, NEW v, \A p \in Proc : w[p] \subseteq v[p]
  PROVE  /\ \A p \in Proc : Fact(w, p) \subseteq Fact(v, p)
         /\ Facts(w) \subseteq Facts(v)
         /\ \A f : IsReport(w, f) => IsReport(v, f)
         /\ Seq(Facts(w)) \subseteq Seq(Facts(v))
<1>1. \A p \in Proc : Fact(w, p) \subseteq Fact(v, p)
  BY DEF Fact
<1>2. Facts(w) \subseteq Facts(v)
  BY <1>1 DEF Facts
<1>3. \A f : IsReport(w, f) => IsReport(v, f)
  BY <1>1 DEF IsReport
<1>4. Seq(Facts(w)) \subseteq Seq(Facts(v))
  BY <1>2
<1> QED
  BY <1>1, <1>2, <1>3, <1>4

\* The words and generations of a process.
LEMMA WordsFollow ==
  ASSUME NEW s \in State
  PROVE  /\ \A w \in Follows[s.word] : [gen |-> s.gen, word |-> w] \in State
         /\ Incarnate(s) \subseteq State
<1>1. s.gen \in Nat /\ s.word \in Word
  BY DEF State
<1>2. Follows[s.word] \subseteq Word
  BY <1>1 DEF Follows, Word
<1>3. [gen |-> s.gen + 1, word |-> "starting"] \in State
  BY <1>1 DEF State, Word
<1> QED
  BY <1>1, <1>2, <1>3 DEF State, Incarnate

\* setState: the history of readiness is kept with the state.
LEMMA ChangeWait ==
  ASSUME Awaiting, NEW p \in Proc, Change(p)
  PROVE  Awaiting'
<1>1. /\ pc[p] = "idle" /\ watch' = watch /\ pc' = [pc EXCEPT ![p] = "snap"]
      /\ UNCHANGED <<about, item, states, client, minimum, wait, last>>
  BY DEF Change, serverVars, clientVars
<1>2. PICK st \in {[gen |-> proc[p].gen, word |-> w] : w \in Follows[proc[p].word]}
                    \cup Incarnate(proc[p]) :
        /\ proc' = [proc EXCEPT ![p] = st]
        /\ wasReady' = IF st.word \in {"ready", "completed"}
                       THEN [wasReady EXCEPT ![p] = @ \cup {st.gen}] ELSE wasReady
  BY DEF Change
<1>3. st \in State
  <2>1. proc[p] \in State
    BY DEF Awaiting, FactInv, Fact
  <2> QED
    BY <1>2, <2>1, WordsFollow
<1>4. DOMAIN wasReady' = Proc /\ \A q \in Proc : wasReady[q] \subseteq wasReady'[q]
  BY <1>2 DEF Awaiting, FactInv
<1>5. st \in Fact(wasReady', p)
  <2>1. proc[p] \in Fact(wasReady, p) /\ proc[p].word \in Word
    BY DEF Awaiting, FactInv, Fact, State
  <2>2. CASE st.word \in {"ready", "completed"}
    BY <1>2, <1>3, <2>2 DEF Awaiting, FactInv, Fact
  <2>3. CASE st.word = "unhealthy"
    <3>1. st \notin Incarnate(proc[p])
      BY <2>3 DEF Incarnate
    <3>2. st.gen = proc[p].gen /\ "unhealthy" \in Follows[proc[p].word]
      BY <1>2, <2>3, <3>1
    <3>3. proc[p].word = "ready"
      BY <2>1, <3>2 DEF Follows, Word
    <3> QED
      BY <1>3, <1>4, <2>1, <3>2, <3>3 DEF Fact, Serving
  <2>4. CASE st.word \notin Serving
    BY <1>3, <2>4 DEF Fact
  <2> QED
    BY <2>2, <2>3, <2>4 DEF Serving
<1>6. /\ \A q \in Proc : Fact(wasReady, q) \subseteq Fact(wasReady', q)
      /\ Facts(wasReady) \subseteq Facts(wasReady')
      /\ \A f : IsReport(wasReady, f) => IsReport(wasReady', f)
      /\ Seq(Facts(wasReady)) \subseteq Seq(Facts(wasReady'))
  BY <1>4, FactsGrow
<1>7. FactInv'
  <2>1. DOMAIN proc' = Proc /\ \A q \in Proc : proc'[q] \in Fact(wasReady', q)
    BY <1>2, <1>5, <1>6 DEF Awaiting, FactInv
  <2> QED
    BY <1>1, <1>4, <1>6, <2>1 DEF Awaiting, FactInv
<1>8. HandInv'
  BY <1>1, <1>6 DEF Awaiting, HandInv
<1>9. QueueInv'
  BY <1>1, <1>6 DEF Awaiting, QueueInv
<1>10. ReadyInv'
  BY <1>1 DEF Awaiting, ReadyInv, Want, Told, Counts
<1>11. Waiter'
  BY <1>1 DEF Awaiting, Waiter
<1> QED
  BY <1>7, <1>8, <1>9, <1>10, <1>11 DEF Awaiting

\* collectMetrics, and broadcastState that reads the state and lets go of it.
LEMMA ReportWait ==
  ASSUME Awaiting, (\E p \in Proc : Tick(p)) \/ (\E g \in Goroutine : TakeState(g))
  PROVE  Awaiting'
<1>1. UNCHANGED <<watch, proc, wasReady, states, client, minimum, wait, last>>
  BY DEF Tick, TakeState, procVars, serverVars, clientVars
<1>2. Waiter' /\ FactInv' /\ QueueInv'
  BY <1>1 DEF Awaiting, Waiter, FactInv, QueueInv
<1>3. ReadyInv'
  BY <1>1 DEF Awaiting, ReadyInv, Want, Told, Counts
<1>4. ASSUME NEW p \in Proc, Tick(p) PROVE HandInv'
  <2>1. Metrics \in Goroutine /\ Metrics \notin Proc
    BY EventsAssumption DEF Goroutine
  <2> QED
    BY <1>1, <1>4, <2>1 DEF Awaiting, HandInv, Tick
<1>5. ASSUME NEW g \in Goroutine, TakeState(g) PROVE HandInv'
  <2> DEFINE m == [kind |-> "state", proc |-> about[g], st |-> proc[about[g]]]
  <2>1. about[g] \in Proc /\ proc[about[g]] \in Fact(wasReady, about[g])
    BY <1>5 DEF TakeState, Awaiting, HandInv, FactInv
  <2>2. m \in Facts(wasReady)
    BY <2>1 DEF Facts, Fact
  <2>3. /\ item' = [item EXCEPT ![g] = m] /\ pc' = [pc EXCEPT ![g] = "push"] /\ about' = about
    BY <1>5 DEF TakeState
  <2> HIDE DEF m
  <2> QED
    BY <1>1, <2>2, <2>3 DEF Awaiting, HandInv
<1> QED
  BY <1>2, <1>3, <1>4, <1>5 DEF Awaiting

\* A broadcast about a state carries a fact.
LEMMA PushWait ==
  ASSUME Awaiting, NEW g \in Goroutine, BroadcastState(g)
  PROVE  Awaiting'
<1>1. /\ UNCHANGED <<watch, proc, wasReady, about, item, client, minimum, wait, last>>
      /\ pc[g] = "push" /\ pc' = [pc EXCEPT ![g] = "fan"]
      /\ states' = [states EXCEPT ![item[g].proc] = item[g].st]
  BY DEF BroadcastState, Pushed, procVars, clientVars
<1>2. item[g].proc \in Proc /\ item[g].st \in Fact(wasReady, item[g].proc)
  BY <1>1 DEF Awaiting, HandInv, Facts
<1>3. FactInv'
  BY <1>1, <1>2 DEF Awaiting, FactInv
<1>4. HandInv'
  BY <1>1 DEF Awaiting, HandInv
<1>5. Waiter' /\ QueueInv'
  BY <1>1 DEF Awaiting, Waiter, QueueInv
<1>6. ReadyInv'
  BY <1>1 DEF Awaiting, ReadyInv, Want, Told, Counts
<1> QED
  BY <1>3, <1>4, <1>5, <1>6 DEF Awaiting

\* So does what the client is sent.
LEMMA FanWait ==
  ASSUME Awaiting, NEW g \in Goroutine, FanOut(g)
  PROVE  Awaiting'
<1>1. /\ UNCHANGED <<watch, proc, wasReady, about, states, minimum, wait, last>>
      /\ pc[g] = "fan" /\ client' = IF to[g] THEN TrySend(client, item[g]) ELSE client
  BY DEF FanOut, procVars, serverVars
<1>2. item[g] \in Facts(wasReady) /\ item[g].kind = "state"
  BY <1>1 DEF Awaiting, HandInv, Facts
<1>3. pc' = [pc EXCEPT ![g] = "idle"]
  BY <1>2 DEF FanOut, Awaiting
<1>4. item' = [item EXCEPT ![g] = Nothing]
  BY <1>2 DEF FanOut, Awaiting
<1>5. HandInv'
  BY <1>1, <1>3, <1>4 DEF Awaiting, HandInv
<1>6. /\ DOMAIN client' = DOMAIN client /\ client'.at = client.at /\ client'.snap = client.snap
      /\ client'.queue \in {client.queue, Append(client.queue, item[g])}
  BY <1>1 DEF TrySend, Awaiting, QueueInv
<1>7. client'.queue \in Seq(Facts(wasReady))
  BY <1>2, <1>6 DEF Awaiting, QueueInv
<1>8. QueueInv'
  BY <1>1, <1>6, <1>7 DEF Awaiting, QueueInv
<1>9. ReadyInv'
  BY <1>1, <1>6 DEF Awaiting, ReadyInv, Want, Told, Counts
<1>10. Waiter' /\ FactInv'
  BY <1>1 DEF Awaiting, Waiter, FactInv
<1> QED
  BY <1>5, <1>8, <1>9, <1>10 DEF Awaiting

\* The steps of the client leave the producers alone.
LEMMA ProducersStay ==
  ASSUME Awaiting, UNCHANGED <<watch, procVars, goVars, serverVars>>
  PROVE  Waiter' /\ FactInv' /\ HandInv' /\ wasReady' = wasReady
BY DEF procVars, goVars, serverVars, Awaiting, Waiter, FactInv, HandInv

\* The generation is asked for before the connection, while nothing counts.
LEMMA AskWait ==
  ASSUME Awaiting, NEW p \in Proc, AskRestart(p)
  PROVE  Awaiting'
<1>1. /\ UNCHANGED <<watch, procVars, goVars, serverVars, client, wait, last>>
      /\ client.at = "off"
  BY DEF AskRestart
<1>2. wait = Waiting
  BY <1>1 DEF Awaiting, ReadyInv
<1>3. ReadyInv'
  BY <1>1, <1>2 DEF ReadyInv, Waiting
<1>4. Waiter' /\ FactInv' /\ HandInv' /\ wasReady' = wasReady
  BY <1>1, ProducersStay
<1>5. QueueInv'
  BY <1>1, <1>4 DEF Awaiting, QueueInv
<1> QED
  BY <1>3, <1>4, <1>5 DEF Awaiting

\* The snapshot a waiter begins with consists of facts.
LEMMA ConnectWait ==
  ASSUME Awaiting, Connect
  PROVE  Awaiting'
<1>1. /\ UNCHANGED <<watch, procVars, goVars, serverVars, minimum, wait, last>>
      /\ client' = [client EXCEPT !.at = "snap", !.reg = TRUE, !.snap = Snapshot]
  BY DEF Connect
<1>2. Waiter' /\ FactInv' /\ HandInv' /\ wasReady' = wasReady
  BY <1>1, ProducersStay
<1>3. /\ DOMAIN client' = DOMAIN client /\ client'.at = "snap" /\ client'.queue = client.queue
      /\ client'.snap.kind = "snapshot" /\ client'.snap.states = states
  BY <1>1 DEF Snapshot, Awaiting, QueueInv
<1>4. IsReport(wasReady, states)
  BY DEF Awaiting, FactInv, IsReport
<1>5. QueueInv'
  BY <1>1, <1>2, <1>3, <1>4 DEF Awaiting, QueueInv
<1>6. ReadyInv'
  BY <1>1, <1>3 DEF Awaiting, ReadyInv, Want, Told, Counts
<1> QED
  BY <1>2, <1>5, <1>6 DEF Awaiting

\* A connection that ends, is dropped, or a timeout gives no success.
LEMMA EndWait ==
  ASSUME Awaiting, WriteEnds \/ Drop \/ WaitTimeout
  PROVE  Awaiting'
<1>1. UNCHANGED <<watch, procVars, goVars, serverVars, minimum, last>>
  BY DEF WriteEnds, Drop, WaitTimeout
<1>2. Waiter' /\ FactInv' /\ HandInv' /\ wasReady' = wasReady
  BY <1>1, ProducersStay
<1>3. /\ DOMAIN client' = DOMAIN client
      /\ client'.at \notin {"off", "snap"} \/ client' = client
      /\ client'.queue = client.queue \/ client'.queue = <<>>
  BY DEF WriteEnds, Drop, WaitTimeout, Awaiting, QueueInv
<1>4. QueueInv'
  <2>1. client.queue \in Seq(Facts(wasReady))
    BY DEF Awaiting, QueueInv
  <2>2. <<>> \in Seq(Facts(wasReady))
    OBVIOUS
  <2>3. client'.queue \in Seq(Facts(wasReady))
    BY <1>3, <2>1, <2>2, Zenon
  <2> QED
    BY <1>1, <1>2, <1>3, <2>3 DEF Awaiting, QueueInv
<1>5. /\ DOMAIN wait' = {"ready", "failed", "result"}
      /\ wait' = wait \/ wait'.result \in {"lost", "timeout"}
      /\ client'.at = "off" => wait' = wait /\ client.at = "off"
  BY DEF WriteEnds, Drop, WaitTimeout, Awaiting, QueueInv, ReadyInv
<1>6. ReadyInv'
  BY <1>1, <1>5 DEF Awaiting, ReadyInv, Want, Told, Counts
<1> QED
  BY <1>2, <1>4, <1>6 DEF Awaiting

\* check: the newest word about each process decides; a process counts only
\* as long as the newest word says so.
LEMMA ReadWait ==
  ASSUME Awaiting, NEW m, Read(m), minimum' = minimum, client.at # "off", client'.at # "off",
         m.kind # "log" => IsReport(wasReady, States(m))
  PROVE  ReadyInv' /\ IsReport(wasReady, last')
<1> DEFINE new == States(m)
<1>1. Want' = Want
  BY DEF Want
<1>2. CASE ~(wait.result = "none" /\ m.kind # "log")
  <2>1. last' = last /\ wait' = wait
    BY <1>2 DEF Read
  <2> QED
    BY <1>1, <2>1 DEF Awaiting, QueueInv, ReadyInv, Told, Counts
<1>3. CASE wait.result = "none" /\ m.kind # "log"
  <2>1. last' = Newest(new, last) /\ wait' = Observe(new)
    BY <1>3 DEF Read, Awaiting
  <2>2. IsReport(wasReady, new) /\ IsReport(wasReady, last)
    BY <1>3 DEF Awaiting, QueueInv
  <2>3. wait.ready \subseteq Want /\ \A p \in wait.ready : Told(p)
    BY <1>3 DEF Awaiting, ReadyInv
  <2> HIDE DEF new
  <2>4. /\ DOMAIN last' = DOMAIN new \cup DOMAIN last
        /\ \A p \in DOMAIN last' : last'[p] = IF p \in DOMAIN new THEN new[p] ELSE last[p]
    BY <2>1 DEF Newest
  <2>5. IsReport(wasReady, last')
    BY <2>2, <2>4 DEF IsReport
  <2>6. wait'.ready = (wait.ready \ DOMAIN new)
                        \cup {p \in DOMAIN new \cap Want : Counts(p, new[p])}
    BY <2>1 DEF Observe
  <2>7. /\ DOMAIN wait' = {"ready", "failed", "result"}
        /\ wait'.result = "ok" => wait'.ready = Want
    BY <2>1 DEF Observe
  <2>8. wait'.ready \subseteq Want
    BY <2>3, <2>6
  <2>9. ASSUME NEW p \in wait'.ready PROVE Told(p)'
    <3>1. p \in DOMAIN last' /\ Counts(p, last'[p])
      BY <2>3, <2>4, <2>6, <2>9 DEF Told
    <3> QED
      BY <3>1 DEF Told, Counts
  <2>10. ReadyInv'
    BY <1>1, <2>7, <2>8, <2>9 DEF ReadyInv
  <2> QED
    BY <2>5, <2>10
<1> QED
  BY <1>2, <1>3

\* What the waiter counts from the snapshot, it was told.
LEMMA WriteSnapshotWait ==
  ASSUME Awaiting, WriteSnapshot
  PROVE  Awaiting'
<1>1. /\ UNCHANGED <<watch, procVars, goVars, serverVars, minimum>> /\ client.at = "snap"
  BY DEF WriteSnapshot
<1>2. Waiter' /\ FactInv' /\ HandInv' /\ wasReady' = wasReady
  BY <1>1, ProducersStay
<1>3. /\ DOMAIN client' = DOMAIN client /\ client'.at \in {"open", "gone"}
      /\ client'.queue = client.queue
  BY DEF WriteSnapshot, Awaiting, QueueInv
<1>4. CASE UNCHANGED <<last, wait>>
  <2>1. QueueInv'
    BY <1>2, <1>3, <1>4 DEF Awaiting, QueueInv
  <2>2. ReadyInv'
    BY <1>1, <1>3, <1>4 DEF Awaiting, ReadyInv, Want, Told, Counts
  <2> QED
    BY <1>2, <2>1, <2>2 DEF Awaiting
<1>5. CASE Read(client.snap)
  <2>1. IsReport(wasReady, States(client.snap))
    BY <1>1 DEF Awaiting, QueueInv, States
  <2>2. ReadyInv' /\ IsReport(wasReady, last')
    BY <1>1, <1>3, <1>5, <2>1, ReadWait
  <2>3. QueueInv'
    BY <1>2, <1>3, <2>2 DEF Awaiting, QueueInv
  <2> QED
    BY <1>2, <2>2, <2>3 DEF Awaiting
<1> QED
  BY <1>4, <1>5 DEF WriteSnapshot

\* What it counts from one event, it was told.
LEMMA WriteOneWait ==
  ASSUME Awaiting, WriteOne
  PROVE  Awaiting'
<1>1. /\ UNCHANGED <<watch, procVars, goVars, serverVars, minimum>> /\ client.at = "open"
      /\ client.queue # <<>> /\ client' = [client EXCEPT !.queue = Tail(@)]
      /\ Read(Head(client.queue))
  BY DEF WriteOne
<1>2. Waiter' /\ FactInv' /\ HandInv' /\ wasReady' = wasReady
  BY <1>1, ProducersStay
<1>3. /\ DOMAIN client' = DOMAIN client /\ client'.at = "open"
      /\ client'.queue = Tail(client.queue)
  BY <1>1 DEF Awaiting, QueueInv
<1>4. Head(client.queue) \in Facts(wasReady) /\ Tail(client.queue) \in Seq(Facts(wasReady))
  <2>1. client.queue \in Seq(Facts(wasReady))
    BY DEF Awaiting, QueueInv
  <2> QED
    BY ONLY <1>1, <2>1
<1>5. IsReport(wasReady, States(Head(client.queue)))
  BY <1>4 DEF Facts, States, IsReport
<1>6. ReadyInv' /\ IsReport(wasReady, last')
  BY <1>1, <1>3, <1>5, ReadWait
<1>7. QueueInv'
  BY <1>2, <1>3, <1>4, <1>6 DEF Awaiting, QueueInv
<1> QED
  BY <1>2, <1>6, <1>7 DEF Awaiting

\* Nobody else waits.
LEMMA IdleSteps ==
  ASSUME ~Waiter, DOMAIN wait = {"ready", "failed", "result"}, wait.result # "ok", EventStep
  PROVE  ~Waiter' /\ DOMAIN wait' = {"ready", "failed", "result"} /\ wait'.result # "ok"
<1>1. watch' = watch
  BY DEF EventStep, WriterStep, ServerStep, DeliverStep, Emit, Crash, Change, Tick, AskRestart,
         TakeState, BroadcastLog, BroadcastState, Pushed, FanOut, Compare, Connect, WriteEnds,
         Drop, WaitTimeout, WriteSnapshot, WriteOne
<1>2. \A m : Read(m) => wait' = wait
  BY DEF Read
<1>3. DeliverStep => wait' = wait
  BY <1>2 DEF DeliverStep, WriteSnapshot, WriteOne
<1>4. CASE WriteEnds \/ WaitTimeout
  BY <1>1, <1>4 DEF WriteEnds, WaitTimeout, Waiter
<1>5. WriterStep \/ ServerStep => wait' = wait \/ WriteEnds \/ WaitTimeout
  BY DEF WriterStep, ServerStep, Emit, Crash, Change, Tick, AskRestart,
         TakeState, BroadcastLog, BroadcastState, Pushed, FanOut, Compare, Connect,
         Drop, clientVars
<1> QED
  BY <1>1, <1>3, <1>4, <1>5 DEF EventStep, Waiter

\* Every step keeps to facts what the waiter is told.
LEMMA WaitNext == WaitInv /\ [Next]_vars => WaitInv'
<1>1. SUFFICES ASSUME WaitInv, EventStep \/ UNCHANGED eventVars
               PROVE  WaitInv'
  BY StepsAre
<1>2. CASE UNCHANGED eventVars
  <2>1. UNCHANGED <<watch, proc, wasReady, pc, about, item, states, client, minimum, wait, last>>
    BY <1>2 DEF eventVars, procVars, goVars, serverVars, clientVars
  <2>2. CASE Awaiting
    <3>1. Waiter' /\ FactInv' /\ HandInv' /\ QueueInv'
      BY <2>1, <2>2 DEF Awaiting, Waiter, FactInv, HandInv, QueueInv
    <3>2. ReadyInv'
      BY <2>1, <2>2 DEF Awaiting, ReadyInv, Want, Told, Counts
    <3> QED
      BY <3>1, <3>2 DEF WaitInv, Awaiting
  <2> QED
    BY <1>1, <2>1, <2>2 DEF WaitInv, Waiter
<1>3. CASE EventStep /\ Awaiting
  <2>1. \/ \E p \in Proc : Change(p) \/ Tick(p) \/ AskRestart(p)
        \/ \E g \in Goroutine : TakeState(g) \/ BroadcastState(g) \/ FanOut(g)
        \/ Connect \/ WriteEnds \/ Drop \/ WaitTimeout \/ WriteSnapshot \/ WriteOne
    BY <1>3, WaitSteps
  <2>2. Awaiting'
    BY <1>3, <2>1, ChangeWait, ReportWait, AskWait, PushWait, FanWait, ConnectWait, EndWait,
       WriteSnapshotWait, WriteOneWait
  <2> QED
    BY <2>2 DEF WaitInv
<1>4. CASE EventStep /\ ~Awaiting
  BY <1>1, <1>4, IdleSteps DEF WaitInv
<1> QED
  BY <1>1, <1>2, <1>3, <1>4

\* At first the waiter was told nothing.
LEMMA WaitInit == Init => WaitInv
<1>1. SUFFICES ASSUME EventsInit PROVE WaitInv
  BY DEF Init
<1>2. /\ ProcInit /\ pc = [g \in Goroutine |-> "idle"] /\ item = [g \in Goroutine |-> Nothing]
      /\ about = [g \in Goroutine |-> g] /\ states = proc /\ client = Offline /\ last = <<>>
      /\ wait = Waiting
  BY <1>1 DEF EventsInit
<1>3. DOMAIN wait = {"ready", "failed", "result"} /\ wait.result = "none" /\ wait.ready = {}
  BY <1>2 DEF Waiting
<1>4. FactInv
  <2>1. PICK st \in {[gen |-> 0, word |-> "starting"], [gen |-> 1, word |-> "ready"]} :
          proc = [p \in Proc |-> st]
    BY <1>2 DEF ProcInit
  <2>2. wasReady = [p \in Proc |-> IF proc[p].word = "ready" THEN {1} ELSE {}]
    BY <1>2 DEF ProcInit
  <2>3. ASSUME NEW p \in Proc PROVE st \in Fact(wasReady, p)
    <3>1. wasReady[p] = IF st.word = "ready" THEN {1} ELSE {}
      BY <2>1, <2>2
    <3> QED
      BY <2>1, <3>1 DEF Fact, State, Word, Serving
  <2> QED
    BY <1>2, <2>1, <2>2, <2>3 DEF FactInv
<1>5. HandInv
  BY <1>2 DEF HandInv
<1>6. QueueInv
  <2>1. IsReport(wasReady, <<>>) /\ <<>> \in Seq(Facts(wasReady))
    BY DEF IsReport
  <2> QED
    BY <1>2, <2>1 DEF QueueInv, Offline
<1>7. ReadyInv
  BY <1>2, <1>3 DEF ReadyInv
<1> QED
  BY <1>3, <1>4, <1>5, <1>6, <1>7 DEF WaitInv, Awaiting

\* A wait that succeeds was satisfied: the states may be broadcast in another
\* order than they were taken, but every one of them was true when it was
\* taken, and check takes back a process whose newest word no longer counts.
THEOREM WaitsAreSatisfied == Spec => []WaiterSound
<1>1. WaitInv => WaiterSound
  <2>1. SUFFICES ASSUME Awaiting, wait.result = "ok", NEW p \in Want
                 PROVE  /\ \E g \in wasReady[p] : g >= minimum[p]
                        /\ p \in DOMAIN last /\ last[p].word \in Serving
                        /\ last[p].gen >= minimum[p]
    BY DEF WaitInv, WaiterSound
  <2>2. p \in DOMAIN last /\ Counts(p, last[p])
    BY <2>1 DEF Awaiting, ReadyInv, Told
  <2>3. last[p] \in Fact(wasReady, p)
    BY <2>1, <2>2 DEF Awaiting, QueueInv, IsReport
  <2> QED
    BY <2>2, <2>3 DEF Counts, Fact
<1> QED
  BY <1>1, WaitInit, WaitNext, PTL DEF Spec

-----------------------------------------------------------------------------
(* Sequences that are cut in pieces                                        *)

\* Every set of numbers has a least one.
LEMMA LeastNumber ==
  ASSUME NEW S, S \subseteq Nat, S # {}
  PROVE  \E i \in S : \A j \in S : i <= j
<1> DEFINE less == {pair \in Nat \X Nat : pair[1] < pair[2]}
<1>1. less = OpToRel(<, Nat)
  BY DEF OpToRel
<1>2. IsWellFoundedOn(less, Nat)
  BY <1>1, NatLessThanWellFounded
<1> HIDE DEF less
<1>3. PICK i \in S : \A j \in S : ~(<<j, i>> \in less)
  BY <1>2, WFMin
<1>4. ASSUME NEW j \in S PROVE i <= j
  <2>1. <<j, i>> \notin less
    BY <1>3
  <2> QED  BY <2>1 DEF less
<1> QED  BY <1>4

\* FlattenSeq builds the concatenation from the left.
LEMMA FlattenedIs ==
  ASSUME NEW N \in Nat \ {0}, NEW parts, NEW whole,
         parts = [i \in 1 .. N |-> parts[i]],
         whole = [i \in 1 .. N |-> IF i = 1 THEN parts[i] ELSE whole[i - 1] \o parts[i]]
  PROVE  FlattenSeq(parts) = whole[N]
<1> DEFINE F(f) == [i \in 1 .. N |-> IF i = 1 THEN parts[i] ELSE f[i - 1] \o parts[i]]
           g == CHOOSE f : f = F(f)
<1>1. Len(parts) = N
  OBVIOUS
<1>2. FlattenSeq(parts) = g[N]
  BY <1>1 DEF FlattenSeq
<1>3. g = F(g)
  OBVIOUS
<1> HIDE DEF g
<1>4. ASSUME NEW i \in 1 .. N
      PROVE  /\ g[i] = IF i = 1 THEN parts[i] ELSE g[i - 1] \o parts[i]
             /\ whole[i] = IF i = 1 THEN parts[i] ELSE whole[i - 1] \o parts[i]
  <2>1. g[i] = F(g)[i] /\ whole[i] = F(whole)[i]
    BY <1>3
  <2> QED  BY <2>1
<1> HIDE DEF F
<1> DEFINE Bad == {i \in 1 .. N : g[i] # whole[i]}
<1>5. ASSUME Bad # {} PROVE FALSE
  <2>1. Bad \subseteq Nat
    OBVIOUS
  <2>2. PICK i \in Bad : \A j \in Bad : i <= j
    BY <1>5, <2>1, LeastNumber
  <2>3. i \in 1 .. N /\ i \in Nat /\ ~(i <= i - 1) /\ (i # 1 => i - 1 \in 1 .. N)
    OBVIOUS
  <2>4. i - 1 \notin Bad
    BY <2>2, <2>3
  <2>5. i # 1 => g[i - 1] = whole[i - 1]
    BY <2>3, <2>4
  <2> HIDE DEF Bad
  <2> HIDE DEF F
  <2>6. g[i] = whole[i]
    <3>1. CASE i = 1
      BY <1>4, <2>3, <3>1, Zenon
    <3>2. CASE i # 1
      <4>1. g[i] = g[i - 1] \o parts[i] /\ whole[i] = whole[i - 1] \o parts[i]
        BY <1>4, <2>3, <3>2, Zenon
      <4> QED  BY <2>5, <3>2, <4>1, Zenon
    <3> QED  BY <3>1, <3>2
  <2> QED  BY <2>2, <2>6 DEF Bad
<1>6. N \in 1 .. N
  OBVIOUS
<1> QED  BY <1>2, <1>5, <1>6

\* The pieces of a sequence, one after the other, make up the whole.
LEMMA PiecesFlatten ==
  ASSUME NEW E, NEW w \in Seq(E), NEW N \in Nat \ {0}, NEW c \in [0 .. N -> 0 .. Len(w)],
         \A i \in 1 .. N : c[i - 1] <= c[i],
         NEW parts, parts = [i \in 1 .. N |-> parts[i]],
         \A i \in 1 .. N : parts[i] = SubSeq(w, c[i - 1] + 1, c[i])
  PROVE  c[0] <= c[N] /\ FlattenSeq(parts) = SubSeq(w, c[0] + 1, c[N])
<1> DEFINE whole == [i \in 1 .. N |-> SubSeq(w, c[0] + 1, c[i])]
<1>1. Len(w) \in Nat
  BY LenProperties
<1>2. ASSUME NEW i \in 1 .. N
      PROVE  /\ i - 1 \in 0 .. N /\ c[i] \in Nat /\ c[i] <= Len(w) 
             /\ c[i - 1] \in Nat /\ c[i - 1] <= c[i]
  <2>1. i - 1 \in 0 .. N /\ i \in 0 .. N
    OBVIOUS
  <2> QED  BY <1>1, <2>1
<1>3. c[0] \in Nat
  BY <1>1
<1> DEFINE Bad == {i \in 0 .. N : c[0] > c[i]}
<1>4. ASSUME Bad # {} PROVE FALSE
  <2>1. Bad \subseteq Nat
    OBVIOUS
  <2>2. PICK i \in Bad : \A j \in Bad : i <= j
    BY <1>4, <2>1, LeastNumber
  <2>3. i # 0 /\ i \in 1 .. N
    BY <1>3
  <2>4. i - 1 \notin Bad /\ i - 1 \in 0 .. N
    BY <2>2, <2>3
  <2>5. c[0] <= c[i - 1]
    BY <1>2, <1>3, <2>3, <2>4
  <2> QED  BY <1>2, <1>3, <2>3, <2>5
<1>5. ASSUME NEW i \in 0 .. N PROVE c[0] <= c[i]
  <2>1. c[i] \in Nat
    BY <1>1
  <2>2. i \notin Bad
    BY <1>4
  <2> QED  BY <1>3, <2>1, <2>2
<1> HIDE DEF Bad
<1>6. ASSUME NEW i \in 1 .. N
      PROVE  SubSeq(w, c[0] + 1, c[i])
               = IF i = 1 THEN parts[i] ELSE SubSeq(w, c[0] + 1, c[i - 1]) \o parts[i]
  <2>1. parts[i] = SubSeq(w, c[i - 1] + 1, c[i])
    BY Zenon
  <2>2. CASE i = 1
    BY <2>1, <2>2
  <2>3. CASE i # 1
    <3>1. c[0] <= c[i - 1]
      BY <1>2, <1>5
    <3> DEFINE a == c[0]  b == c[i - 1]  d == c[i]
    <3>2. a \in Nat /\ b \in Nat /\ d \in Nat /\ a <= b /\ b <= d /\ d <= Len(w)
      BY <1>2, <1>3, <3>1
    <3> HIDE DEF a, b, d
    <3>3. a + 1 \in 1 .. Len(w) + 1 /\ b \in (a + 1) - 1 .. Len(w) /\ d \in b .. Len(w)
      BY <1>1, <3>2
    <3>4. SubSeq(w, a + 1, b) \o SubSeq(w, b + 1, d) = SubSeq(w, a + 1, d)
      BY <3>3, ConcatAdjacentSubSeq
    <3> QED  BY <2>1, <2>3, <3>4 DEF a, b, d
  <2> QED  BY <2>2, <2>3
<1>7. whole = [i \in 1 .. N |-> IF i = 1 THEN parts[i] ELSE whole[i - 1] \o parts[i]]
  <2> DEFINE at(i) == SubSeq(w, c[0] + 1, c[i])
  <2>1. ASSUME NEW i \in 1 .. N PROVE i # 1 => i - 1 \in 1 .. N
    OBVIOUS
  <2>2. \A i \in 1 .. N : whole[i] = at(i)
    BY Zenon
  <2>3. \A i \in 1 .. N : at(i) = IF i = 1 THEN parts[i] ELSE at(i - 1) \o parts[i]
    BY <1>6, Zenon
  <2>4. whole = [i \in 1 .. N |-> at(i)]
    BY Zenon
  <2> HIDE DEF whole, at
  <2>5. \A i \in 1 .. N : at(i) = IF i = 1 THEN parts[i] ELSE whole[i - 1] \o parts[i]
    BY <2>1, <2>2, <2>3, Zenon
  <2> QED  BY <2>4, <2>5
<1>8. FlattenSeq(parts) = whole[N]
  <2> HIDE DEF whole
  <2>1. \A v : v = [i \in 1 .. N |-> IF i = 1 THEN parts[i] ELSE v[i - 1] \o parts[i]]
                => FlattenSeq(parts) = v[N]
    BY FlattenedIs, Zenon
  <2> QED  BY <1>7, <2>1, Zenon
<1>9. whole[N] = SubSeq(w, c[0] + 1, c[N]) /\ N \in 0 .. N
  <2>1. N \in 1 .. N /\ N \in 0 .. N
    OBVIOUS
  <2> QED  BY <2>1, Zenon
<1> HIDE DEF whole
<1> QED  BY <1>5, <1>8, <1>9, Zenon

-----------------------------------------------------------------------------
(* The files of the journal                                                *)

EventId == [run : Nat, seq : Nat]

Part(n) == IF Exists(n) THEN content[dir[n]] ELSE <<>>

\* A file has one name.
FilesInv ==
  /\ written \in Seq(EventId) /\ content \in Seq(Seq(EventId))
  /\ dir \in [Name -> 0 .. Len(content)]
  /\ \A m, n \in Name : m # n /\ Exists(m) => dir[m] # dir[n]

\* The name of the open file, behind which there is none.
Where == IF displaced # NoName THEN displaced
         ELSE CASE wr \in {"free", "shift"} -> Staging
                [] wr = "open" -> 1
                [] OTHER -> Live

WriterInv ==
  /\ wr \in {"idle", "restore", "stage", "free", "shift", "open"}
  /\ displaced \in {NoName, Staging, 1}
  /\ displaced # NoName => wr \in {"idle", "restore"}
  /\ dir[Where] = handle /\ handle # Absent
  /\ \A n \in {Staging, Live} \ {Where} : ~Exists(n)
  /\ size = Len(content[handle])
  /\ wr # "idle" => size >= MaxSize
  /\ wr = "shift" => slot \in 1 .. MaxFiles /\ ~Exists(slot)

\* The file holds the events from a to b, and is full unless it is live.
Holds(n, a, b) ==
  /\ a \in Nat /\ b \in Nat /\ a <= b /\ b <= Len(written)
  /\ Part(n) = SubSeq(written, a + 1, b)
  /\ Exists(n) /\ n # Live => b - a >= MaxSize

\* Copy n ends at e[n], the staged file at m.
Cut(e, m) ==
  /\ \A n \in 1 .. MaxFiles : Holds(n, e[n + 1], e[n])
  /\ Holds(Staging, e[1], m) /\ Holds(Live, m, Len(written))
  /\ e[MaxFiles + 1] = 0 \/ Len(written) - e[MaxFiles + 1] >= MaxFiles * MaxSize

CutInv == \E e \in [1 .. MaxFiles + 1 -> Nat], m \in Nat : Cut(e, m)

\* The constants, and the names they give.
LEMMA NamesAre ==
  /\ MaxFiles \in Nat \ {0} /\ MaxSize \in Nat \ {0}
  /\ Live = 0 /\ Staging = MaxFiles + 1 /\ NoName = MaxFiles + 2 /\ Absent = 0
  /\ {Live, Staging} \cup 1 .. MaxFiles = Name
  /\ Live \notin 1 .. MaxFiles /\ Staging \notin 1 .. MaxFiles /\ 1 \in 1 .. MaxFiles
  /\ Live # Staging /\ NoName \notin Name
BY JournalAssumption DEF Live, Staging, NoName, Absent, Name

\* A file that is not there ends where it begins.
LEMMA AbsentIsEmpty ==
  ASSUME NEW n, NEW a, NEW b, written \in Seq(EventId), Holds(n, a, b), ~Exists(n)
  PROVE  a = b
<1>1. Len(SubSeq(written, a + 1, b)) = 0
  BY DEF Holds, Part
<1>2. \A i \in a + 1 .. b : written[i] \in EventId
  BY LenProperties DEF Holds
<1> QED  BY <1>1, <1>2, SubSeqProperties DEF Holds

\* What a file has, a file of that length has.
LEMMA LengthOfFile ==
  ASSUME NEW n, NEW a, NEW b, written \in Seq(EventId), Holds(n, a, b), Exists(n)
  PROVE  Len(content[dir[n]]) = b - a
<1>1. content[dir[n]] = SubSeq(written, a + 1, b)
  BY DEF Holds, Part
<1>2. \A i \in a + 1 .. b : written[i] \in EventId
  BY LenProperties DEF Holds
<1> QED  BY <1>1, <1>2, SubSeqProperties DEF Holds

\* A rename moves one file and leaves the others.
LEMMA RenameMoves ==
  ASSUME FilesInv, NEW x \in Name, NEW y \in Name, x # y, Exists(x), ~Exists(y),
         Rename(x, y), UNCHANGED <<content, written>>
  PROVE  /\ FilesInv'
         /\ Exists(y)' /\ ~Exists(x)' /\ Part(y)' = Part(x) /\ Part(x)' = <<>>
         /\ dir'[y] = dir[x]
         /\ \A n \in Name \ {x, y} : (Exists(n)' <=> Exists(n)) /\ Part(n)' = Part(n)
<1>1. dir' = [dir EXCEPT ![y] = dir[x], ![x] = Absent] /\ dir \in [Name -> 0 .. Len(content)]
  BY DEF Rename, FilesInv
<1>2. /\ dir'[y] = dir[x] /\ dir'[x] = Absent
      /\ \A n \in Name \ {x, y} : dir'[n] = dir[n]
  BY <1>1
<1>3. dir' \in [Name -> 0 .. Len(content)]
  <2>1. Len(content) \in Nat
    BY LenProperties DEF FilesInv
  <2> QED  BY <1>1, <2>1 DEF Absent
<1>4. ASSUME NEW m \in Name, NEW n \in Name, m # n, dir'[m] # Absent PROVE dir'[m] # dir'[n]
  BY <1>2, <1>4 DEF FilesInv, Exists
<1>5. FilesInv'
  BY <1>3, <1>4 DEF FilesInv, Exists
<1> QED  BY <1>2, <1>5 DEF Exists, Part

\* What a name holds, after a step that changes no event.
LEMMA HoldsMoved ==
  ASSUME NEW x, NEW y, NEW a, NEW b, Holds(x, a, b), Part(y)' = Part(x), written' = written,
         y # Live => b - a >= MaxSize
  PROVE  Holds(y, a, b)'
BY DEF Holds

\* A name without a file holds nothing, from any place on.
LEMMA HoldsNothing ==
  ASSUME NEW x, NEW a \in Nat, a <= Len(written'), ~Exists(x)'
  PROVE  Holds(x, a, a)'
<1>1. SubSeq(written', a + 1, a) = <<>>
  BY SubSeqEmpty
<1> QED  BY <1>1 DEF Holds, Part

\* A file that is not touched holds what it held.
LEMMA HoldsStill ==
  ASSUME NEW x, NEW a, NEW b, Holds(x, a, b), Part(x)' = Part(x), Exists(x)' <=> Exists(x),
         written' = written
  PROVE  Holds(x, a, b)'
BY DEF Holds

\* Every end is a place in what was written.
LEMMA CutBounds ==
  ASSUME NEW e \in [1 .. MaxFiles + 1 -> Nat], NEW m \in Nat, Cut(e, m)
  PROVE  /\ m <= Len(written) /\ \A n \in 1 .. MaxFiles + 1 : e[n] <= Len(written)
         /\ Holds(1, e[2], e[1])
<1>1. ASSUME NEW n \in 1 .. MaxFiles + 1 PROVE e[n] <= Len(written)
  <2>1. CASE n = 1
    BY <2>1 DEF Cut, Holds
  <2>2. CASE n # 1
    <3>1. n - 1 \in 1 .. MaxFiles /\ n \in Nat /\ (n - 1) + 1 = n
      BY <2>2, NamesAre
    <3>2. Holds(n - 1, e[n], e[n - 1])
      BY <3>1 DEF Cut
    <3> QED  BY <3>2 DEF Holds
  <2> QED  BY <2>1, <2>2
<1>2. Holds(1, e[2], e[1])
  <2>1. 1 \in 1 .. MaxFiles /\ 1 + 1 = 2
    BY NamesAre
  <2>2. Holds(1, e[1 + 1], e[1])
    BY <2>1 DEF Cut
  <2> QED  BY <2>1, <2>2
<1> QED  BY <1>1, <1>2 DEF Cut, Holds

\* The live file is set aside.
LEMMA LiveToStaging ==
  ASSUME FilesInv, CutInv, Exists(Live), ~Exists(Staging), Len(content[dir[Live]]) >= MaxSize,
         Rename(Live, Staging), UNCHANGED <<content, written>>
  PROVE  CutInv'
<1>1. PICK e \in [1 .. MaxFiles + 1 -> Nat], m \in Nat : Cut(e, m)
  BY DEF CutInv
<1>2. PICK l \in Nat : l = Len(written) /\ l = Len(written')
  BY LenProperties DEF FilesInv
<1>3. /\ ~Exists(Live)' /\ Part(Staging)' = Part(Live)
      /\ \A n \in Name \ {Live, Staging} : (Exists(n)' <=> Exists(n)) /\ Part(n)' = Part(n)
  BY NamesAre, RenameMoves
<1>4. Holds(Live, m, l) /\ Holds(Staging, e[1], m)
  BY <1>1, <1>2 DEF Cut
<1>5. e[1] = m
  BY <1>4, AbsentIsEmpty DEF FilesInv
<1>6. l - m >= MaxSize
  BY <1>4, LengthOfFile DEF FilesInv
<1>7. Holds(Staging, e[1], l)'
  BY <1>3, <1>4, <1>5, <1>6, HoldsMoved
<1>8. Holds(Live, l, l)'
  BY <1>2, <1>3, HoldsNothing
<1>9. ASSUME NEW n \in 1 .. MaxFiles PROVE Holds(n, e[n + 1], e[n])'
  <2>1. n \in Name \ {Live, Staging} /\ Holds(n, e[n + 1], e[n])
    BY <1>1, NamesAre DEF Cut
  <2> QED  BY <1>3, <2>1, HoldsStill
<1>10. Cut(e, l)'
  BY <1>1, <1>2, <1>7, <1>8, <1>9 DEF Cut
<1> QED  BY <1>10 DEF CutInv

\* The file that was set aside becomes the newest copy.
LEMMA StagingToCopy ==
  ASSUME FilesInv, CutInv, Exists(Staging), ~Exists(1), Rename(Staging, 1),
         UNCHANGED <<content, written>>
  PROVE  CutInv'
<1>1. PICK e \in [1 .. MaxFiles + 1 -> Nat], m \in Nat : Cut(e, m)
  BY DEF CutInv
<1> DEFINE d == [e EXCEPT ![1] = m]
<1>0. PICK l \in Nat : l = Len(written) /\ l = Len(written')
  BY LenProperties DEF FilesInv
<1>2. /\ ~Exists(Staging)' /\ Part(1)' = Part(Staging)
      /\ \A n \in Name \ {Staging, 1} : (Exists(n)' <=> Exists(n)) /\ Part(n)' = Part(n)
  BY NamesAre, RenameMoves
<1>3. Holds(Staging, e[1], m) /\ Holds(Live, m, l) /\ Holds(1, e[2], e[1])
  BY <1>1, <1>0, CutBounds DEF Cut
<1>4. e[1] = e[2]
  BY <1>3, AbsentIsEmpty DEF FilesInv
<1>5. d \in [1 .. MaxFiles + 1 -> Nat] /\ d[1] = m /\ \A n \in 2 .. MaxFiles + 1 : d[n] = e[n]
  BY NamesAre
<1>6. Holds(1, e[2], m)'
  <2>1. m - e[1] >= MaxSize
    BY <1>3, NamesAre DEF Holds
  <2> QED  BY <1>2, <1>3, <1>4, <2>1, HoldsMoved
<1>7. Holds(Staging, m, m)'
  BY <1>1, <1>2, CutBounds, HoldsNothing
<1>8. Holds(Live, m, l)'
  BY <1>2, <1>3, NamesAre, HoldsStill
<1>9. ASSUME NEW n \in 1 .. MaxFiles PROVE Holds(n, d[n + 1], d[n])'
  <2>1. d[n + 1] = e[n + 1]
    BY <1>5
  <2>2. CASE n = 1
    BY <1>5, <1>6, <2>1, <2>2
  <2>3. CASE n # 1
    <3>1. n \in Name \ {Staging, 1} /\ Holds(n, e[n + 1], e[n])
      BY <1>1, <2>3, NamesAre DEF Cut
    <3>2. d[n] = e[n]
      BY <1>5, <2>3
    <3> QED  BY <1>2, <2>1, <3>1, <3>2, HoldsStill
  <2> QED  BY <2>2, <2>3
<1>10. d[MaxFiles + 1] = e[MaxFiles + 1]
  BY <1>5, NamesAre
<1> HIDE DEF d
<1>11. Cut(d, m)'
  BY <1>1, <1>0, <1>5, <1>7, <1>8, <1>9, <1>10 DEF Cut
<1> QED  BY <1>5, <1>11 DEF CutInv

\* The file that was set aside goes back.
LEMMA StagingToLive ==
  ASSUME FilesInv, CutInv, Exists(Staging), ~Exists(Live), Rename(Staging, Live),
         UNCHANGED <<content, written>>
  PROVE  CutInv'
<1>1. PICK e \in [1 .. MaxFiles + 1 -> Nat], m \in Nat : Cut(e, m)
  BY DEF CutInv
<1>2. PICK l \in Nat : l = Len(written) /\ l = Len(written')
  BY LenProperties DEF FilesInv
<1>3. /\ ~Exists(Staging)' /\ Part(Live)' = Part(Staging)
      /\ \A n \in Name \ {Staging, Live} : (Exists(n)' <=> Exists(n)) /\ Part(n)' = Part(n)
  BY NamesAre, RenameMoves
<1>4. Holds(Live, m, l) /\ Holds(Staging, e[1], m)
  BY <1>1, <1>2 DEF Cut
<1>5. m = l
  BY <1>4, AbsentIsEmpty DEF FilesInv
<1>6. Holds(Live, e[1], l)'
  BY <1>3, <1>4, <1>5, HoldsMoved
<1>7. e[1] \in Nat /\ e[1] <= l
  BY <1>4, <1>5 DEF Holds
<1>8. Holds(Staging, e[1], e[1])'
  BY <1>2, <1>3, <1>7, HoldsNothing
<1>9. ASSUME NEW n \in 1 .. MaxFiles PROVE Holds(n, e[n + 1], e[n])'
  <2>1. n \in Name \ {Live, Staging} /\ Holds(n, e[n + 1], e[n])
    BY <1>1, NamesAre DEF Cut
  <2> QED  BY <1>3, <2>1, HoldsStill
<1>10. Cut(e, e[1])'
  BY <1>1, <1>2, <1>6, <1>8, <1>9 DEF Cut
<1> QED  BY <1>7, <1>10 DEF CutInv

\* The newest copy goes back.
LEMMA CopyToLive ==
  ASSUME FilesInv, CutInv, Exists(1), ~Exists(Live), ~Exists(Staging), Rename(1, Live),
         UNCHANGED <<content, written>>
  PROVE  CutInv'
<1>1. PICK e \in [1 .. MaxFiles + 1 -> Nat], m \in Nat : Cut(e, m)
  BY DEF CutInv
<1>2. PICK l \in Nat : l = Len(written) /\ l = Len(written')
  BY LenProperties DEF FilesInv
<1> DEFINE d == [e EXCEPT ![1] = e[2]]
<1>3. 1 \in Name /\ Live \in Name /\ Staging \in Name \ {1, Live}
  BY NamesAre
<1>4. /\ ~Exists(1)' /\ Part(Live)' = Part(1)
      /\ \A n \in Name \ {1, Live} : (Exists(n)' <=> Exists(n)) /\ Part(n)' = Part(n)
  BY <1>3, NamesAre, RenameMoves
<1>5. Holds(Live, m, l) /\ Holds(Staging, e[1], m) /\ Holds(1, e[2], e[1])
  BY <1>1, <1>2, CutBounds DEF Cut
<1>6. m = l /\ e[1] = l
  BY <1>5, AbsentIsEmpty DEF FilesInv
<1>7. Holds(Live, e[2], l)'
  BY <1>4, <1>5, <1>6, HoldsMoved
<1>8. e[2] \in Nat /\ e[2] <= l
  BY <1>5, <1>6 DEF Holds
<1>9. Holds(Staging, e[2], e[2])' /\ Holds(1, e[2], e[2])'
  BY <1>2, <1>3, <1>4, <1>8, HoldsNothing
<1>10. d \in [1 .. MaxFiles + 1 -> Nat] /\ d[1] = e[2] /\ \A n \in 2 .. MaxFiles + 1 : d[n] = e[n]
  BY <1>8, NamesAre
<1>11. ASSUME NEW n \in 1 .. MaxFiles PROVE Holds(n, d[n + 1], d[n])'
  <2>1. d[n + 1] = e[n + 1]
    BY <1>10
  <2>2. CASE n = 1
    BY <1>9, <1>10, <2>1, <2>2
  <2>3. CASE n # 1
    <3>1. n \in Name \ {1, Live} /\ Holds(n, e[n + 1], e[n])
      BY <1>1, <2>3, NamesAre DEF Cut
    <3>2. d[n] = e[n]
      BY <1>10, <2>3
    <3> QED  BY <1>4, <2>1, <3>1, <3>2, HoldsStill
  <2> QED  BY <2>2, <2>3
<1>12. d[MaxFiles + 1] = e[MaxFiles + 1]
  BY <1>10, NamesAre
<1> HIDE DEF d
<1>13. Cut(d, e[2])'
  BY <1>1, <1>2, <1>7, <1>9, <1>10, <1>11, <1>12 DEF Cut
<1> QED  BY <1>8, <1>10, <1>13 DEF CutInv

\* A copy makes room for the next one.
LEMMA ShiftCopy ==
  ASSUME FilesInv, CutInv, NEW k \in 2 .. MaxFiles, Exists(k - 1), ~Exists(k), Rename(k - 1, k),
         UNCHANGED <<content, written>>
  PROVE  CutInv'
<1>1. PICK e \in [1 .. MaxFiles + 1 -> Nat], m \in Nat : Cut(e, m)
  BY DEF CutInv
<1>2. PICK l \in Nat : l = Len(written) /\ l = Len(written')
  BY LenProperties DEF FilesInv
<1> DEFINE d == [e EXCEPT ![k] = e[k - 1]]
<1>3. /\ k \in Nat /\ k - 1 \in 1 .. MaxFiles /\ k \in 1 .. MaxFiles /\ k - 1 # k
      /\ (k - 1) + 1 = k /\ k + 1 \in 1 .. MaxFiles + 1 /\ k + 1 # k
      /\ {k, k - 1} \subseteq Name /\ {Live, Staging} \subseteq Name \ {k, k - 1}
  <2>1. MaxFiles \in Nat
    BY NamesAre
  <2>2. /\ k \in Nat /\ k - 1 \in 1 .. MaxFiles /\ k \in 1 .. MaxFiles /\ k - 1 # k
        /\ (k - 1) + 1 = k /\ k + 1 \in 1 .. MaxFiles + 1 /\ k + 1 # k
    BY <2>1
  <2> QED  BY <2>2, NamesAre
<1>4. /\ ~Exists(k - 1)' /\ Part(k)' = Part(k - 1)
      /\ \A n \in Name \ {k - 1, k} : (Exists(n)' <=> Exists(n)) /\ Part(n)' = Part(n)
  BY <1>3, RenameMoves
<1>5. Holds(k, e[k + 1], e[k]) /\ Holds(k - 1, e[k], e[k - 1])
  BY <1>1, <1>3 DEF Cut
<1>6. e[k + 1] = e[k]
  BY <1>5, AbsentIsEmpty DEF FilesInv
<1>7. e[k - 1] \in Nat /\ e[k - 1] <= Len(written) /\ e[k - 1] - e[k] >= MaxSize
  BY <1>3, <1>5, NamesAre DEF Holds
<1>8. Holds(k, e[k + 1], e[k - 1])'
  BY <1>4, <1>5, <1>6, <1>7, HoldsMoved
<1>9. Holds(k - 1, e[k - 1], e[k - 1])'
  BY <1>4, <1>7, HoldsNothing
<1>10. d \in [1 .. MaxFiles + 1 -> Nat] /\ d[k] = e[k - 1]
       /\ \A n \in 1 .. MaxFiles + 1 : n # k => d[n] = e[n]
  <2>1. k \in 1 .. MaxFiles + 1
    BY <1>3, NamesAre
  <2> QED  BY <1>7, <2>1
<1>11. ASSUME NEW n \in 1 .. MaxFiles PROVE Holds(n, d[n + 1], d[n])'
  <2>1. n + 1 \in 1 .. MaxFiles + 1 /\ n \in 1 .. MaxFiles + 1
    BY NamesAre
  <2>2. CASE n = k
    BY <1>3, <1>8, <1>10, <2>2
  <2>3. CASE n = k - 1
    <3>1. d[n + 1] = e[k - 1] /\ d[n] = e[k - 1]
      BY <1>3, <1>10, <2>1, <2>3
    <3> QED  BY <1>9, <2>3, <3>1
  <2>4. CASE n # k /\ n # k - 1
    <3>1. n \in Name \ {k - 1, k} /\ Holds(n, e[n + 1], e[n])
      BY <1>1, <2>4, NamesAre DEF Cut
    <3>2. d[n] = e[n] /\ d[n + 1] = e[n + 1]
      BY <1>3, <1>10, <2>1, <2>4
    <3> QED  BY <1>4, <3>1, <3>2, HoldsStill
  <2> QED  BY <2>2, <2>3, <2>4
<1>12. d[MaxFiles + 1] = e[MaxFiles + 1]
  BY <1>3, <1>10, NamesAre
<1>13. Holds(Staging, d[1], m)' /\ Holds(Live, m, l)'
  <2>1. 1 # k /\ 1 \in 1 .. MaxFiles + 1
    BY NamesAre
  <2>2. d[1] = e[1]
    BY <1>10, <2>1
  <2>3. Holds(Staging, e[1], m) /\ Holds(Live, m, l)
    BY <1>1, <1>2 DEF Cut
  <2> QED  BY <1>3, <1>4, <2>2, <2>3, HoldsStill
<1> HIDE DEF d
<1>14. Cut(d, m)'
  BY <1>1, <1>2, <1>11, <1>12, <1>13 DEF Cut
<1> QED  BY <1>10, <1>14 DEF CutInv

\* The copies that follow the oldest are full, when all are there.
LEMMA CopiesAreFull ==
  ASSUME NEW e \in [1 .. MaxFiles + 1 -> Nat], NEW m \in Nat, Cut(e, m),
         \A n \in 1 .. MaxFiles : Exists(n), Exists(Staging)
  PROVE  m - e[MaxFiles] >= MaxFiles * MaxSize
<1>1. MaxFiles \in Nat \ {0} /\ MaxSize \in Nat
  BY NamesAre
<1> DEFINE Bad == {j \in 0 .. MaxFiles - 1 : e[MaxFiles - j] - e[MaxFiles] < j * MaxSize}
<1>2. ASSUME Bad # {} PROVE FALSE
  <2>1. Bad \subseteq Nat
    OBVIOUS
  <2>2. PICK j \in Bad : \A i \in Bad : j <= i
    BY <1>2, <2>1, LeastNumber
  <2> DEFINE n == MaxFiles - j
  <2>3. j \in 0 .. MaxFiles - 1 /\ e[n] - e[MaxFiles] < j * MaxSize
    OBVIOUS
  <2>4. e[MaxFiles] \in Nat
    BY <1>1
  <2>5. j # 0
    BY <1>1, <2>3, <2>4
  <2>6. /\ j - 1 \in 0 .. MaxFiles - 1 /\ n \in 1 .. MaxFiles /\ n + 1 \in 1 .. MaxFiles + 1
        /\ n + 1 = MaxFiles - (j - 1)
    BY <1>1, <2>3, <2>5
  <2>7. j - 1 \notin Bad
    BY <2>2, <2>3
  <2> HIDE DEF n
  <2>8. e[n] - e[n + 1] >= MaxSize
    <3>1. Holds(n, e[n + 1], e[n]) /\ n # Live
      BY <2>6, NamesAre DEF Cut
    <3> QED  BY <2>6, <3>1 DEF Holds
  <2>9. ~(e[n + 1] - e[MaxFiles] < (j - 1) * MaxSize)
    BY <2>6, <2>7
  <2>10. e[n] \in Nat /\ e[n + 1] \in Nat
    BY <1>1, <2>6
  <2> DEFINE most == j * MaxSize  less == (j - 1) * MaxSize
  <2>11. most = less + MaxSize /\ most \in Nat /\ less \in Nat
    BY <1>1, <2>3, <2>5
  <2>12. e[n] - e[MaxFiles] < most /\ ~(e[n + 1] - e[MaxFiles] < less)
    BY <2>3, <2>9
  <2> HIDE DEF most, less, Bad
  <2>13. \A i, k, o, p, q \in Nat : i - k >= MaxSize /\ ~(k - o < q) /\ p = q + MaxSize => ~(i - o < p)
    BY <1>1
  <2> QED  BY <2>4, <2>8, <2>10, <2>11, <2>12, <2>13
<1>3. e[1] - e[MaxFiles] >= (MaxFiles - 1) * MaxSize
  <2>1. MaxFiles - 1 \in 0 .. MaxFiles - 1 /\ MaxFiles - (MaxFiles - 1) = 1
    BY <1>1
  <2>2. MaxFiles - 1 \notin Bad
    BY <1>2
  <2>3. ~(e[1] - e[MaxFiles] < (MaxFiles - 1) * MaxSize)
    BY <2>1, <2>2
  <2>4. e[1] \in Nat /\ e[MaxFiles] \in Nat /\ (MaxFiles - 1) * MaxSize \in Nat
    BY <1>1
  <2> QED  BY <2>3, <2>4
<1>4. m - e[1] >= MaxSize
  BY NamesAre DEF Cut, Holds
<1>5. MaxFiles * MaxSize = (MaxFiles - 1) * MaxSize + MaxSize
  BY <1>1
<1>6. e[1] \in Nat /\ e[MaxFiles] \in Nat /\ (MaxFiles - 1) * MaxSize \in Nat
  BY <1>1
<1> DEFINE all == MaxFiles * MaxSize  most == (MaxFiles - 1) * MaxSize
<1>7. all = most + MaxSize /\ most \in Nat /\ e[1] - e[MaxFiles] >= most
  BY <1>3, <1>5, <1>6
<1> HIDE DEF all, most, Bad
<1>8. m - e[MaxFiles] >= all
  BY <1>1, <1>4, <1>6, <1>7
<1> QED  BY <1>8 DEF all

\* The oldest copy is dropped when enough is kept without it.
LEMMA DropOldest ==
  ASSUME FilesInv, CutInv, \A n \in 1 .. MaxFiles : Exists(n), Exists(Staging),
         dir' = [dir EXCEPT ![MaxFiles] = Absent], UNCHANGED <<content, written>>
  PROVE  FilesInv' /\ CutInv'
<1>1. PICK e \in [1 .. MaxFiles + 1 -> Nat], m \in Nat : Cut(e, m)
  BY DEF CutInv
<1>2. PICK l \in Nat : l = Len(written) /\ l = Len(written')
  BY LenProperties DEF FilesInv
<1> DEFINE d == [e EXCEPT ![MaxFiles + 1] = e[MaxFiles]]
<1>3. MaxFiles \in Name /\ MaxFiles \in 1 .. MaxFiles /\ MaxFiles + 1 \in 1 .. MaxFiles + 1
      /\ MaxFiles # MaxFiles + 1 /\ {Live, Staging} \subseteq Name \ {MaxFiles}
  BY NamesAre
<1>4. dir'[MaxFiles] = Absent /\ \A n \in Name \ {MaxFiles} : dir'[n] = dir[n]
  BY <1>3 DEF FilesInv
<1>5. FilesInv'
  <2>1. dir' \in [Name -> 0 .. Len(content)]
    <3>1. Len(content) \in Nat
      BY LenProperties DEF FilesInv
    <3>2. Absent \in 0 .. Len(content)
      BY <3>1 DEF Absent
    <3> QED  BY <3>2 DEF FilesInv
  <2>2. ASSUME NEW j \in Name, NEW n \in Name, j # n, dir'[j] # Absent PROVE dir'[j] # dir'[n]
    BY <1>4, <2>2 DEF FilesInv, Exists
  <2> QED  BY <2>1, <2>2 DEF FilesInv, Exists
<1>6. /\ ~Exists(MaxFiles)'
      /\ \A n \in Name \ {MaxFiles} : (Exists(n)' <=> Exists(n)) /\ Part(n)' = Part(n)
  BY <1>4 DEF Exists, Part
<1>7. e[MaxFiles] \in Nat /\ e[MaxFiles] <= l
  BY <1>1, <1>2, <1>3, CutBounds, NamesAre
<1>8. /\ d \in [1 .. MaxFiles + 1 -> Nat] /\ d[MaxFiles + 1] = e[MaxFiles]
      /\ \A n \in 1 .. MaxFiles : d[n] = e[n]
  BY <1>3, <1>7, NamesAre
<1>9. Holds(MaxFiles, e[MaxFiles], e[MaxFiles])'
  BY <1>2, <1>6, <1>7, HoldsNothing
<1>10. ASSUME NEW n \in 1 .. MaxFiles PROVE Holds(n, d[n + 1], d[n])'
  <2>1. CASE n = MaxFiles
    BY <1>3, <1>8, <1>9, <2>1
  <2>2. CASE n # MaxFiles
    <3>1. n + 1 \in 1 .. MaxFiles /\ n \in Name \ {MaxFiles}
      BY <2>2, NamesAre
    <3>2. Holds(n, e[n + 1], e[n])
      BY <1>1 DEF Cut
    <3> QED  BY <1>6, <1>8, <3>1, <3>2, HoldsStill
  <2> QED  BY <2>1, <2>2
<1>11. Holds(Staging, d[1], m)' /\ Holds(Live, m, l)'
  <2>1. Holds(Staging, e[1], m) /\ Holds(Live, m, l) /\ d[1] = e[1]
    BY <1>1, <1>2, <1>8, NamesAre DEF Cut
  <2> QED  BY <1>3, <1>6, <2>1, HoldsStill
<1>12. l - d[MaxFiles + 1] >= MaxFiles * MaxSize
  <2>1. m - e[MaxFiles] >= MaxFiles * MaxSize
    BY <1>1, CopiesAreFull
  <2>2. m <= l /\ MaxFiles * MaxSize \in Nat
    BY <1>1, <1>2, CutBounds, NamesAre
  <2> QED  BY <1>7, <1>8, <2>1, <2>2
<1> HIDE DEF d
<1>13. Cut(d, m)'
  BY <1>2, <1>10, <1>11, <1>12 DEF Cut
<1> QED  BY <1>5, <1>8, <1>13 DEF CutInv

\* What is before the end of a sequence stays when it grows.
LEMMA GrowsBehind ==
  ASSUME NEW E, NEW w \in Seq(E), NEW x \in E, NEW a \in Nat, NEW b \in Nat, a <= b, b <= Len(w)
  PROVE  /\ SubSeq(Append(w, x), a + 1, b) = SubSeq(w, a + 1, b)
         /\ SubSeq(Append(w, x), a + 1, Len(w) + 1) = Append(SubSeq(w, a + 1, Len(w)), x)
<1> DEFINE v == Append(w, x)  l == Len(w)
<1>1. l \in Nat /\ \A i \in 1 .. l : w[i] \in E
  BY LenProperties
<1>2. v \in Seq(E) /\ Len(v) = l + 1 /\ v[l + 1] = x /\ \A i \in 1 .. l : v[i] = w[i]
  BY AppendProperties
<1> HIDE DEF v, l
<1>3. ASSUME NEW c \in Nat, a <= c, c <= l PROVE SubSeq(v, a + 1, c) = SubSeq(w, a + 1, c)
  <2> DEFINE s == SubSeq(v, a + 1, c)  t == SubSeq(w, a + 1, c)
  <2>1. \A i \in a + 1 .. c : v[i] = w[i] /\ w[i] \in E
    BY <1>1, <1>2, <1>3
  <2>2. /\ t \in Seq(E) /\ Len(t) = IF a + 1 <= c THEN c - (a + 1) + 1 ELSE 0
        /\ \A i \in 1 .. c - (a + 1) + 1 : t[i] = w[a + 1 + i - 1]
    BY <2>1, SubSeqProperties
  <2>3. /\ s \in Seq(E) /\ Len(s) = IF a + 1 <= c THEN c - (a + 1) + 1 ELSE 0
        /\ \A i \in 1 .. c - (a + 1) + 1 : s[i] = v[a + 1 + i - 1]
    BY <2>1, SubSeqProperties
  <2> HIDE DEF s, t
  <2>4. Len(s) = Len(t) /\ \A i \in 1 .. Len(s) : s[i] = t[i]
    BY <1>3, <2>1, <2>2, <2>3
  <2>5. s = t
    BY <2>2, <2>3, <2>4, SeqEqual
  <2> QED  BY <2>5 DEF s, t
<1>4. SubSeq(v, a + 1, l + 1) = SubSeq(v, a + 1, l) \o <<x>>
  <2>1. l + 1 \in 1 .. Len(v) /\ a + 1 \in 1 .. Len(v) /\ l + 1 \in a + 1 .. Len(v) /\ (l + 1) - 1 = l
    BY <1>1, <1>2 DEF l
  <2>2. SubSeq(v, a + 1, l + 1) = SubSeq(v, a + 1, (l + 1) - 1) \o <<v[l + 1]>>
    BY <1>2, <2>1, SubSeqRecursiveSecond
  <2> QED  BY <1>2, <2>1, <2>2
<1>5. SubSeq(w, a + 1, l) \in Seq(E)
  BY <1>1, SubSeqProperties
<1>6. Append(SubSeq(w, a + 1, l), x) = SubSeq(w, a + 1, l) \o <<x>>
  BY <1>5, AppendIsConcat
<1>7. SubSeq(v, a + 1, b) = SubSeq(w, a + 1, b) /\ SubSeq(v, a + 1, l) = SubSeq(w, a + 1, l)
  BY <1>1, <1>3 DEF l
<1> QED  BY <1>4, <1>6, <1>7 DEF v, l

\* An event is written to the newest file.
LEMMA AppendEvent ==
  ASSUME FilesInv, WriterInv, CutInv, NEW id \in EventId, dir' = dir,
         content' = [content EXCEPT ![handle] = Append(@, id)], written' = Append(written, id)
  PROVE  /\ FilesInv' /\ CutInv'
         /\ Len(content'[handle]) = Len(content[handle]) + 1
<1>1. PICK e \in [1 .. MaxFiles + 1 -> Nat], m \in Nat : Cut(e, m)
  BY DEF CutInv
<1>2. PICK l \in Nat : l = Len(written)
  BY LenProperties DEF FilesInv
<1>3. /\ written \in Seq(EventId) /\ content \in Seq(Seq(EventId))
      /\ dir \in [Name -> 0 .. Len(content)]
  BY DEF FilesInv
<1>4. Where \in {Live, Staging, 1} /\ Where \in Name /\ dir[Where] = handle /\ handle # Absent
  BY NamesAre DEF WriterInv, Where
<1>5. handle \in 1 .. Len(content) /\ Len(content) \in Nat
  <2>1. Len(content) \in Nat /\ dir[Where] \in 0 .. Len(content)
    BY <1>3, <1>4, LenProperties
  <2> QED  BY <1>4, <2>1 DEF Absent
<1>6. content[handle] \in Seq(EventId)
  BY <1>3, <1>5, ElementOfSeq
<1>7. /\ content' \in Seq(Seq(EventId)) /\ Len(content') = Len(content)
      /\ \A i \in 1 .. Len(content) :
           content'[i] = IF i = handle THEN Append(content[handle], id) ELSE content[i]
  <2>1. Append(content[handle], id) \in Seq(EventId)
    BY <1>6, AppendProperties
  <2>2. content' = [content EXCEPT ![handle] = Append(content[handle], id)]
    BY Zenon
  <2> QED  BY <1>3, <1>5, <2>1, <2>2, ExceptSeq
<1>8. FilesInv' /\ Len(written') = l + 1 /\ Len(content'[handle]) = Len(content[handle]) + 1
  <2>1. written' \in Seq(EventId) /\ Len(written') = l + 1
    BY <1>2, <1>3, AppendProperties
  <2>2. Len(content'[handle]) = Len(content[handle]) + 1
    BY <1>5, <1>6, <1>7, AppendProperties
  <2>3. dir' \in [Name -> 0 .. Len(content')]
    BY <1>3, <1>7
  <2>4. \A j, n \in Name : j # n /\ dir'[j] # Absent => dir'[j] # dir'[n]
    BY Zenon DEF FilesInv, Exists
  <2>5. content' \in Seq(Seq(EventId))
    BY <1>7
  <2>6. FilesInv'
    BY <2>1, <2>3, <2>4, <2>5, Zenon DEF FilesInv, Exists
  <2> QED  BY <2>1, <2>2, <2>6
<1>9. ASSUME NEW n \in Name, n # Where PROVE (Exists(n)' <=> Exists(n)) /\ Part(n)' = Part(n)
  <2>1. Exists(n)' <=> Exists(n)
    BY DEF Exists
  <2>2. CASE Exists(n)
    <3>1. dir[n] \in 0 .. Len(content) /\ dir[n] # Absent /\ dir[n] # handle
      BY <1>3, <1>4, <1>9, <2>2 DEF FilesInv, Exists
    <3>2. dir[n] \in 1 .. Len(content)
      BY <1>5, <3>1 DEF Absent
    <3> DEFINE i == dir[n]
    <3>3. i \in 1 .. Len(content) /\ i # handle /\ dir'[n] = i
      BY <3>1, <3>2
    <3> HIDE DEF i
    <3>4. content'[i] = content[i]
      BY <1>7, <3>3
    <3>5. Part(n)' = content'[i]
      BY <2>1, <2>2, <3>3, Zenon DEF Part
    <3>6. Part(n) = content[i]
      BY <2>2, Zenon DEF Part, i
    <3> QED  BY <2>1, <3>4, <3>5, <3>6, Zenon
  <2>3. CASE ~Exists(n)
    <3>1. Part(n) = <<>>
      BY <2>3, Zenon DEF Part
    <3>2. Part(n)' = <<>>
      BY <2>1, <2>3, Zenon DEF Part
    <3> QED  BY <2>1, <3>1, <3>2, Zenon
  <2> QED  BY <2>2, <2>3
<1>10. /\ Exists(Where) /\ \A n : Exists(n)' <=> Exists(n)
       /\ \A n : n = Where => Part(n)' = Append(Part(n), id)
  <2>1. content'[handle] = Append(content[handle], id)
    BY <1>5, <1>7
  <2>2. Exists(Where) /\ \A n : Exists(n)' <=> Exists(n)
    BY <1>4 DEF Exists
  <2>3. ASSUME NEW n, n = Where PROVE Part(n)' = Append(Part(n), id)
    <3>1. dir[n] = handle /\ dir'[n] = handle /\ Exists(n) /\ Exists(n)'
      BY <1>4, <2>2, <2>3
    <3>2. Part(n)' = content'[handle] /\ Part(n) = content[handle]
      BY <3>1, Zenon DEF Part
    <3> QED  BY <2>1, <3>2
  <2> QED  BY <2>2, <2>3, Zenon
<1>11. ASSUME NEW n \in {Staging, Live}, n # Where PROVE ~Exists(n)
  BY <1>11 DEF WriterInv
<1>12. ASSUME NEW n \in Name, n # Where, NEW a, NEW b, Holds(n, a, b) PROVE Holds(n, a, b)'
  <2>1. SubSeq(written', a + 1, b) = SubSeq(written, a + 1, b)
    BY <1>3, <1>12, GrowsBehind DEF Holds
  <2>2. /\ a \in Nat /\ b \in Nat /\ a <= b /\ b <= l /\ Part(n) = SubSeq(written, a + 1, b)
        /\ Exists(n) /\ n # Live => b - a >= MaxSize
    BY <1>2, <1>12 DEF Holds
  <2>3. b <= Len(written')
    BY <1>8, <2>2
  <2>4. Part(n)' = SubSeq(written', a + 1, b) /\ (Exists(n)' /\ n # Live => b - a >= MaxSize)
    BY <1>9, <1>12, <2>1, <2>2, Zenon
  <2> QED  BY <2>2, <2>3, <2>4, Zenon DEF Holds
<1>13. ASSUME NEW n, n = Where, NEW a, Holds(n, a, l) PROVE a \in Nat /\ Holds(n, a, l + 1)'
  <2>1. a \in Nat /\ a <= l /\ Part(n) = SubSeq(written, a + 1, l)
    BY <1>13 DEF Holds
  <2>2. SubSeq(written', a + 1, l + 1) = Append(SubSeq(written, a + 1, l), id)
    <3> DEFINE longer == Append(written, id)
    <3>1. a <= a /\ a <= Len(written)
      BY <1>2, <2>1
    <3>2. SubSeq(longer, a + 1, Len(written) + 1) = Append(SubSeq(written, a + 1, Len(written)), id)
      BY <1>3, <2>1, <3>1, GrowsBehind, Zenon
    <3>3. written' = longer
      OBVIOUS
    <3> QED  BY <1>2, <3>2, <3>3, Zenon
  <2>3. Part(n)' = SubSeq(written', a + 1, l + 1)
    BY <1>10, <1>13, <2>1, <2>2
  <2>4. n # Live => l - a >= MaxSize
    BY <1>10, <1>13 DEF Holds
  <2>5. l + 1 \in Nat /\ a <= l + 1 /\ l + 1 <= Len(written')
    BY <1>8, <2>1
  <2>6. n # Live => (l + 1) - a >= MaxSize
    BY <2>1, <2>4, NamesAre
  <2> QED  BY <2>1, <2>3, <2>5, <2>6, Zenon DEF Holds
<1>14. ASSUME NEW n, ~Exists(n) PROVE Holds(n, l + 1, l + 1)'
  <2>1. ~Exists(n)'
    BY <1>10, <1>14
  <2>2. l + 1 \in Nat /\ l + 1 <= Len(written')
    BY <1>8
  <2> QED  BY <2>1, <2>2, HoldsNothing
<1>15. /\ Holds(Staging, e[1], m) /\ Holds(Live, m, l) /\ Holds(1, e[2], e[1])
       /\ \A n \in 1 .. MaxFiles : Holds(n, e[n + 1], e[n])
  BY <1>1, <1>2, CutBounds DEF Cut
<1>16. ASSUME NEW n \in 2 .. MaxFiles PROVE Holds(n, e[n + 1], e[n])'
  <2>1. MaxFiles \in Nat
    BY NamesAre
  <2>2. n \in 1 .. MaxFiles /\ n # 1
    BY <2>1
  <2>3. n \in Name /\ n # Staging /\ n # Live
    BY <2>1, <2>2 DEF Name, Staging, Live
  <2>4. n # Where
    BY <1>4, <2>2, <2>3, Zenon
  <2>5. Holds(n, e[n + 1], e[n])
    BY <1>15, <2>2, Zenon
  <2> QED  BY <1>12, <2>3, <2>4, <2>5, Zenon
<1>17. ASSUME NEW d \in [1 .. MaxFiles + 1 -> Nat], d[MaxFiles + 1] = e[MaxFiles + 1]
       PROVE  d[MaxFiles + 1] = 0 \/ Len(written') - d[MaxFiles + 1] >= MaxFiles * MaxSize
  <2>1. e[MaxFiles + 1] = 0 \/ l - e[MaxFiles + 1] >= MaxFiles * MaxSize
    BY <1>1, <1>2 DEF Cut
  <2>2. e[MaxFiles + 1] \in Nat /\ MaxFiles * MaxSize \in Nat
    BY NamesAre
  <2> QED  BY <1>8, <1>17, <2>1, <2>2
<1>18. CutInv'
  <2>1. CASE Where = Live
    <3>1. Holds(Live, m, l + 1)'
      BY <1>13, <1>15, <2>1
    <3>2. Holds(Staging, e[1], m)' /\ Holds(1, e[2], e[1])'
      BY <1>12, <1>15, <2>1, NamesAre
    <3>3. ASSUME NEW n \in 1 .. MaxFiles PROVE Holds(n, e[n + 1], e[n])'
      BY <1>16, <3>2, NamesAre
    <3>4. Cut(e, m)'
      BY <1>8, <1>17, <3>1, <3>2, <3>3 DEF Cut
    <3> QED  BY <3>4 DEF CutInv
  <2>2. CASE Where = Staging
    <3>1. ~Exists(Live)
      BY <1>11, <2>2, NamesAre
    <3>2. m = l
      BY <1>3, <1>15, <3>1, AbsentIsEmpty
    <3>3. Holds(Staging, e[1], l + 1)' /\ Holds(Live, l + 1, l + 1)'
      BY <1>13, <1>14, <1>15, <2>2, <3>1, <3>2
    <3>4. Holds(1, e[2], e[1])'
      BY <1>12, <1>15, <2>2, NamesAre
    <3>5. ASSUME NEW n \in 1 .. MaxFiles PROVE Holds(n, e[n + 1], e[n])'
      BY <1>16, <3>4, NamesAre
    <3>6. Cut(e, l + 1)'
      BY <1>8, <1>17, <3>3, <3>5 DEF Cut
    <3> QED  BY <3>6 DEF CutInv
  <2>3. CASE Where = 1
    <3>1. ~Exists(Live) /\ ~Exists(Staging)
      BY <1>11, <2>3, NamesAre
    <3>2. m = l /\ e[1] = l
      BY <1>3, <1>15, <3>1, AbsentIsEmpty
    <3> DEFINE d == [e EXCEPT ![1] = l + 1]
    <3>3. Holds(1, e[2], l + 1)' /\ Holds(Live, l + 1, l + 1)' /\ Holds(Staging, l + 1, l + 1)'
      BY <1>13, <1>14, <1>15, <2>3, <3>1, <3>2
    <3>4. d \in [1 .. MaxFiles + 1 -> Nat] /\ d[1] = l + 1
          /\ \A n \in 2 .. MaxFiles + 1 : d[n] = e[n]
      BY NamesAre
    <3> HIDE DEF d
    <3>5. ASSUME NEW n \in 1 .. MaxFiles PROVE Holds(n, d[n + 1], d[n])'
      <4>1. n + 1 \in 2 .. MaxFiles + 1
        BY NamesAre
      <4>2. d[n + 1] = e[n + 1]
        BY <3>4, <4>1
      <4>3. CASE n = 1
        BY <3>3, <3>4, <4>2, <4>3
      <4>4. CASE n # 1
        <5>1. n \in 2 .. MaxFiles /\ n \in 2 .. MaxFiles + 1
          BY <4>4, NamesAre
        <5> QED  BY <1>16, <3>4, <4>2, <5>1
      <4> QED  BY <4>3, <4>4
    <3>6. d[MaxFiles + 1] = e[MaxFiles + 1]
      BY <3>4, NamesAre
    <3>7. Cut(d, l + 1)'
      BY <1>8, <1>17, <3>3, <3>4, <3>5, <3>6 DEF Cut
    <3> QED  BY <3>4, <3>7 DEF CutInv
  <2> QED  BY <1>4, <2>1, <2>2, <2>3
<1> QED  BY <1>8, <1>18

\* A fresh live file is empty, and it is the newest.
LEMMA CreateLive ==
  ASSUME FilesInv, CutInv, ~Exists(Live), Create(Live), UNCHANGED written
  PROVE  /\ FilesInv' /\ CutInv'
         /\ dir'[Live] = Len(content) + 1 /\ content'[Len(content) + 1] = <<>>
         /\ \A n \in Name \ {Live} : Exists(n)' <=> Exists(n)
<1>1. PICK e \in [1 .. MaxFiles + 1 -> Nat], m \in Nat : Cut(e, m)
  BY DEF CutInv
<1>2. PICK l \in Nat : l = Len(written) /\ l = Len(written')
  BY LenProperties DEF FilesInv
<1>3. PICK k \in Nat : k = Len(content)
  BY LenProperties DEF FilesInv
<1>4. /\ content \in Seq(Seq(EventId)) /\ dir \in [Name -> 0 .. k] /\ Live \in Name
  BY <1>3, NamesAre DEF FilesInv
<1>5. /\ content' \in Seq(Seq(EventId)) /\ Len(content') = k + 1 /\ content'[k + 1] = <<>>
      /\ \A i \in 1 .. k : content'[i] = content[i]
  <2>1. <<>> \in Seq(EventId) /\ content' = Append(content, <<>>)
    BY EmptySeq DEF Create
  <2> QED  BY <1>3, <1>4, <2>1, AppendProperties
<1>6. dir'[Live] = k + 1 /\ \A n \in Name \ {Live} : dir'[n] = dir[n]
  BY <1>3, <1>4 DEF Create
<1>7. dir' \in [Name -> 0 .. Len(content')]
  <2>1. dir' = [dir EXCEPT ![Live] = k + 1]
    BY <1>3 DEF Create
  <2> QED  BY <1>4, <1>5, <2>1
<1>8. ASSUME NEW i \in Name, NEW n \in Name, i # n, dir'[i] # Absent PROVE dir'[i] # dir'[n]
  <2>1. CASE i # Live /\ n # Live
    BY <1>6, <1>8, <2>1 DEF FilesInv, Exists
  <2>2. CASE i = Live \/ n = Live
    <3>1. dir[i] \in 0 .. k /\ dir[n] \in 0 .. k
      BY <1>4
    <3> QED  BY <1>6, <1>8, <2>2, <3>1
  <2> QED  BY <2>1, <2>2
<1>9. FilesInv'
  <2>1. written' \in Seq(EventId)
    BY DEF FilesInv
  <2>2. \A i, n \in Name : i # n /\ dir'[i] # Absent => dir'[i] # dir'[n]
    BY <1>8
  <2> QED  BY <1>5, <1>7, <2>1, <2>2, Zenon DEF FilesInv, Exists
<1>10. ASSUME NEW n \in Name, n # Live PROVE (Exists(n)' <=> Exists(n)) /\ Part(n)' = Part(n)
  <2>1. (Exists(n)' <=> Exists(n)) /\ dir'[n] = dir[n]
    BY <1>6, <1>10 DEF Exists
  <2>2. CASE Exists(n)
    <3> DEFINE i == dir[n]
    <3>1. i \in 1 .. k /\ dir'[n] = i
      BY <1>4, <2>1, <2>2 DEF Exists, Absent
    <3> HIDE DEF i
    <3>2. content'[i] = content[i]
      BY <1>5, <3>1
    <3>3. Part(n)' = content'[i]
      BY <2>1, <2>2, <3>1, Zenon DEF Part
    <3>4. Part(n) = content[i]
      BY <2>2, Zenon DEF Part, i
    <3> QED  BY <2>1, <3>2, <3>3, <3>4, Zenon
  <2>3. CASE ~Exists(n)
    <3>1. Part(n) = <<>>
      BY <2>3, Zenon DEF Part
    <3>2. Part(n)' = <<>>
      BY <2>1, <2>3, Zenon DEF Part
    <3> QED  BY <2>1, <3>1, <3>2, Zenon
  <2> QED  BY <2>2, <2>3
<1>11. Holds(Staging, e[1], m)' /\ \A n \in 1 .. MaxFiles : Holds(n, e[n + 1], e[n])'
  <2>1. Holds(Staging, e[1], m) /\ Staging \in Name /\ Staging # Live
    BY <1>1, NamesAre DEF Cut
  <2>2. ASSUME NEW n \in 1 .. MaxFiles PROVE Holds(n, e[n + 1], e[n])'
    <3>1. Holds(n, e[n + 1], e[n]) /\ n \in Name /\ n # Live
      BY <1>1, NamesAre DEF Cut
    <3> QED  BY <1>10, <3>1, HoldsStill
  <2> QED  BY <1>10, <2>1, <2>2, HoldsStill
<1>12. Holds(Live, m, l)'
  <2>1. Holds(Live, m, l) /\ Part(Live) = <<>>
    BY <1>1, <1>2 DEF Cut, Part
  <2>2. Part(Live)' = <<>>
    <3>1. Part(Live)' \in {<<>>, content'[dir'[Live]]}
      BY DEF Part
    <3> QED  BY <1>5, <1>6, <3>1
  <2> QED  BY <2>1, <2>2, HoldsMoved
<1>13. Cut(e, m)'
  BY <1>1, <1>2, <1>11, <1>12 DEF Cut
<1> QED  BY <1>3, <1>5, <1>6, <1>9, <1>10, <1>13 DEF CutInv

-----------------------------------------------------------------------------
(* The writer                                                              *)

JournalInv == FilesInv /\ WriterInv /\ CutInv

WriterPlaces == {"idle", "restore", "stage", "free", "shift", "open"}

\* What WriterInv says where nothing is displaced.
LEMMA WriterIs ==
  ASSUME JournalInv
  PROVE  /\ wr \in WriterPlaces /\ displaced \in {NoName, Staging, 1}
         /\ dir[Where] = handle /\ handle # Absent /\ Exists(Where) /\ size = Len(content[handle])
         /\ \A n \in {Staging, Live} : n # Where => ~Exists(n)
         /\ Where \in {Live, Staging, 1}
         /\ wr \in {"stage", "free", "shift", "open"} => displaced = NoName
         /\ wr = "stage" => Where = Live
         /\ wr \in {"free", "shift"} => Where = Staging
         /\ wr = "open" => Where = 1
         /\ wr \in {"idle", "restore"} => Where = IF displaced = NoName THEN Live ELSE displaced
BY DEF JournalInv, WriterInv, WriterPlaces, Where, Exists

\* Where the writer rests, the next step finds its file.
LEMMA WriterRests ==
  ASSUME displaced' \in {NoName, Staging, 1}, wr' \in {"idle", "restore", "stage"},
         displaced' # NoName => wr' # "stage",
         NEW w, w = IF displaced' = NoName THEN Live ELSE displaced',
         dir'[w] = handle', handle' # Absent, \A n \in {Staging, Live} \ {w} : ~Exists(n)',
         size' = Len(content'[handle']), wr' # "idle" => size' >= MaxSize
  PROVE  WriterInv'
<1>1. Where' = w
  BY DEF Where
<1> QED  BY <1>1 DEF WriterInv, Where, Exists

\* Files that are not touched stay in order.
LEMMA FilesStill ==
  ASSUME JournalInv, UNCHANGED <<dir, content, written>>
  PROVE  FilesInv' /\ CutInv'
<1>1. FilesInv'
  BY DEF JournalInv, FilesInv, Exists
<1>2. PICK e \in [1 .. MaxFiles + 1 -> Nat], m \in Nat : Cut(e, m)
  BY DEF JournalInv, CutInv
<1>3. \A n : Part(n)' = Part(n) /\ (Exists(n)' <=> Exists(n))
  BY DEF Part, Exists
<1>4. \A n, a, b : Holds(n, a, b) => Holds(n, a, b)'
  BY <1>3, HoldsStill
<1>5. Cut(e, m)'
  BY <1>2, <1>4 DEF Cut
<1> QED  BY <1>1, <1>5 DEF CutInv

\* An event goes to the end of the open file, or is lost as a whole.
LEMMA WriteStep ==
  ASSUME JournalInv, NEW id \in EventId, WriteEvent(id)
  PROVE  JournalInv'
<1>1. wr = "idle" /\ UNCHANGED <<dir, handle, displaced, slot>>
  BY DEF WriteEvent
<1>2. FilesInv' /\ CutInv' /\ size' = Len(content'[handle])
  <2>1. CASE /\ content' = [content EXCEPT ![handle] = Append(@, id)]
             /\ written' = Append(written, id) /\ size' = size + 1
    <3>1. FilesInv' /\ CutInv' /\ Len(content'[handle]) = Len(content[handle]) + 1
      BY <1>1, <2>1, AppendEvent, Zenon DEF JournalInv
    <3> QED  BY <2>1, <3>1, WriterIs
  <2>2. CASE UNCHANGED <<content, written, size>>
    <3>1. FilesInv' /\ CutInv'
      BY <1>1, <2>2, FilesStill
    <3> QED  BY <1>1, <2>2, <3>1, WriterIs
  <2> QED  BY <2>1, <2>2 DEF WriteEvent
<1>3. wr' = IF size' >= MaxSize THEN "restore" ELSE "idle"
  BY DEF WriteEvent
<1> DEFINE w == IF displaced = NoName THEN Live ELSE displaced
<1>4. dir[w] = handle /\ handle # Absent /\ \A n \in {Staging, Live} : n # w => ~Exists(n)
  BY <1>1, WriterIs
<1>5. \A n \in {Staging, Live} \ {w} : ~Exists(n)'
  BY <1>1, <1>4 DEF Exists
<1>6. displaced' \in {NoName, Staging, 1}
  BY <1>1, WriterIs
<1>7. WriterInv'
  BY <1>1, <1>2, <1>3, <1>4, <1>5, <1>6, WriterRests
<1> QED  BY <1>2, <1>7 DEF JournalInv

\* A file that an earlier rotation, or this one, left elsewhere goes back.
LEMMA MoveBack ==
  ASSUME JournalInv, NEW x, x = Where, x # Live, Rename(x, Live), UNCHANGED <<content, written>>
  PROVE  FilesInv' /\ CutInv' /\ dir'[Live] = handle /\ ~Exists(Staging)'
<1>1. x \in {Staging, 1} /\ x \in Name /\ Live \in Name /\ Exists(x) /\ ~Exists(Live)
  <2>1. x \in {Staging, 1}
    BY WriterIs
  <2>2. x \in Name /\ Live \in Name
    BY <2>1, NamesAre
  <2> QED  BY <2>1, <2>2, WriterIs
<1>2. /\ FilesInv' /\ ~Exists(x)' /\ dir'[Live] = dir[x] /\ dir[x] = handle
      /\ \A n \in Name \ {x, Live} : Exists(n)' <=> Exists(n)
  BY <1>1, RenameMoves, WriterIs DEF JournalInv
<1>3. CASE x = Staging
  <2>1. CutInv'
    BY <1>1, <1>3, StagingToLive DEF JournalInv
  <2> QED  BY <1>2, <1>3, <2>1
<1>4. CASE x = 1
  <2>1. ~Exists(Staging) /\ Staging \in Name \ {1, Live}
    BY <1>4, WriterIs, NamesAre
  <2>2. CutInv'
    BY <1>1, <1>4, <2>1, CopyToLive DEF JournalInv
  <2> QED  BY <1>2, <1>4, <2>1, <2>2
<1> QED  BY <1>1, <1>3, <1>4

\* A rotation that is given up leaves the file where it is, or puts it back.
LEMMA RollbackStep ==
  ASSUME JournalInv, NEW x, x = Where, x # Live, displaced = NoName, Rollback(x), size >= MaxSize,
         UNCHANGED <<content, written, handle, size>>
  PROVE  JournalInv'
<1>1. wr' = "idle" /\ x \in {Staging, 1}
  BY WriterIs DEF Rollback, RotateEnds
<1>2. handle # Absent /\ size = Len(content[handle]) /\ dir[x] = handle
      /\ \A n \in {Staging, Live} : n # x => ~Exists(n)
  BY WriterIs
<1>3. CASE Rename(x, Live) /\ UNCHANGED displaced
  <2>1. FilesInv' /\ CutInv' /\ dir'[Live] = handle /\ ~Exists(Staging)'
    BY <1>3, MoveBack
  <2>2. WriterInv'
    BY <1>1, <1>2, <1>3, <2>1, WriterRests
  <2> QED  BY <2>1, <2>2 DEF JournalInv
<1>4. CASE displaced' = x /\ UNCHANGED dir
  <2>1. FilesInv' /\ CutInv'
    BY <1>4, FilesStill
  <2>2. x # NoName
    BY <1>1, NamesAre
  <2>3. \A n \in {Staging, Live} \ {x} : ~Exists(n)'
    BY <1>2, <1>4 DEF Exists
  <2>4. WriterInv'
    BY <1>1, <1>2, <1>4, <2>2, <2>3, WriterRests
  <2> QED  BY <2>1, <2>4 DEF JournalInv
<1> QED  BY <1>3, <1>4 DEF Rollback

\* A displaced file goes back before the next rotation, or the rotation waits.
LEMMA RestoreStep ==
  ASSUME JournalInv, RestoreDisplaced
  PROVE  JournalInv'
<1>1. wr = "restore" /\ UNCHANGED <<content, handle, size, written>> /\ size >= MaxSize
  BY DEF RestoreDisplaced, writerRest, JournalInv, WriterInv
<1> DEFINE w == IF displaced = NoName THEN Live ELSE displaced
<1>2. /\ Where = w /\ displaced \in {NoName, Staging, 1}
      /\ handle # Absent /\ size = Len(content[handle]) /\ dir[w] = handle
      /\ \A n \in {Staging, Live} : n # w => ~Exists(n)
  BY <1>1, WriterIs
<1>3. CASE UNCHANGED <<dir, displaced>> /\ wr' \in {"idle", "stage"} /\ (displaced # NoName => wr' = "idle")
  <2>1. FilesInv' /\ CutInv'
    BY <1>1, <1>3, FilesStill
  <2>2. \A n \in {Staging, Live} \ {w} : ~Exists(n)'
    BY <1>2, <1>3 DEF Exists
  <2>3. WriterInv'
    BY <1>1, <1>2, <1>3, <2>2, WriterRests
  <2> QED  BY <2>1, <2>3 DEF JournalInv
<1>4. CASE displaced # NoName /\ Rename(displaced, Live) /\ displaced' = NoName /\ wr' = "stage"
  <2>1. PICK x : x = displaced
    OBVIOUS
  <2>2. x = Where /\ x # Live
    BY <1>2, <1>4, <2>1, NamesAre
  <2>3. FilesInv' /\ CutInv' /\ dir'[Live] = handle /\ ~Exists(Staging)'
    BY <1>1, <1>4, <2>1, <2>2, MoveBack
  <2>4. WriterInv'
    BY <1>1, <1>2, <1>4, <2>3, WriterRests
  <2> QED  BY <2>3, <2>4 DEF JournalInv
<1>5. \/ UNCHANGED <<dir, displaced>> /\ wr' \in {"idle", "stage"} /\ (displaced # NoName => wr' = "idle")
      \/ displaced # NoName /\ Rename(displaced, Live) /\ displaced' = NoName /\ wr' = "stage"
  BY DEF RestoreDisplaced, RotateEnds
<1> QED  BY <1>3, <1>4, <1>5

\* Where the writer works on, the next step finds its file.
LEMMA WriterWorks ==
  ASSUME displaced' = NoName, size' >= MaxSize, size' = Len(content'[handle']), handle' # Absent,
         NEW w, dir'[w] = handle', \A n \in {Staging, Live} \ {w} : ~Exists(n)',
         \/ wr' = "free" /\ w = Staging
         \/ wr' = "shift" /\ w = Staging /\ slot' \in 1 .. MaxFiles /\ dir'[slot'] = Absent
         \/ wr' = "open" /\ w = 1
  PROVE  WriterInv'
<1>1. Where' = w
  BY DEF Where
<1> QED  BY <1>1 DEF WriterInv, Where, Exists

\* The full live file is set aside, or stays.
LEMMA StageStep ==
  ASSUME JournalInv, Stage
  PROVE  JournalInv'
<1>1. /\ wr = "stage" /\ UNCHANGED <<content, handle, size, displaced, written>> /\ size >= MaxSize
      /\ \/ Rename(Live, Staging) /\ wr' = "free"
         \/ wr' = "idle" /\ UNCHANGED dir
  BY DEF Stage, RotateEnds, writerRest, JournalInv, WriterInv
<1>2. /\ dir[Live] = handle /\ handle # Absent /\ size = Len(content[handle]) /\ displaced = NoName
      /\ Exists(Live) /\ ~Exists(Staging) /\ {Live, Staging} \subseteq Name /\ Live # Staging
  BY <1>1, WriterIs, NamesAre
<1>3. CASE Rename(Live, Staging) /\ wr' = "free"
  <2>1. FilesInv' /\ dir'[Staging] = dir[Live] /\ ~Exists(Live)'
    BY <1>1, <1>2, <1>3, RenameMoves DEF JournalInv
  <2>2. CutInv'
    BY <1>1, <1>2, <1>3, LiveToStaging DEF JournalInv
  <2>3. WriterInv'
    BY <1>1, <1>2, <1>3, <2>1, WriterWorks
  <2> QED  BY <2>1, <2>2, <2>3 DEF JournalInv
<1>4. CASE wr' = "idle" /\ UNCHANGED dir
  <2>1. FilesInv' /\ CutInv' /\ ~Exists(Staging)'
    BY <1>1, <1>2, <1>4, FilesStill DEF Exists
  <2>2. WriterInv'
    BY <1>1, <1>2, <1>4, <2>1, WriterRests
  <2> QED  BY <2>1, <2>2 DEF JournalInv
<1> QED  BY <1>1, <1>3, <1>4

\* The first free slot is free; there is none when every copy is there.
LEMMA FirstFreeIs ==
  /\ FirstFree = 0 => \A n \in 1 .. MaxFiles : Exists(n)
  /\ FirstFree # 0 => FirstFree \in 1 .. MaxFiles /\ ~Exists(FirstFree)
<1> DEFINE Free == {i \in 1 .. MaxFiles : ~Exists(i)}
<1>1. ASSUME Free # {} PROVE Min(Free) \in Free
  <2>1. \E i \in Free : \A j \in Free : i <= j
    <3>1. Free \subseteq Nat
      OBVIOUS
    <3> QED  BY <1>1, <3>1, LeastNumber
  <2> HIDE DEF Free
  <2> QED  BY <2>1 DEF Min
<1>2. FirstFree = IF Free = {} THEN 0 ELSE Min(Free)
  BY DEF FirstFree
<1>3. CASE Free = {}
  BY <1>2, <1>3
<1>4. CASE Free # {}
  BY <1>1, <1>2, <1>4
<1> QED  BY <1>3, <1>4

\* A slot is free, or made free when all copies are there and full.
LEMMA FindSlotStep ==
  ASSUME JournalInv, FindSlot
  PROVE  JournalInv'
<1>1. /\ wr = "free" /\ UNCHANGED <<content, handle, size, written>> /\ size >= MaxSize
  BY DEF FindSlot, writerRest, JournalInv, WriterInv
<1>2. /\ Where = Staging /\ dir[Staging] = handle /\ handle # Absent /\ displaced = NoName
      /\ size = Len(content[handle]) /\ Exists(Staging) /\ ~Exists(Live) /\ Live # Staging
  BY <1>1, WriterIs, NamesAre
<1>3. CASE FirstFree # 0 /\ slot' = FirstFree /\ wr' = "shift" /\ UNCHANGED <<dir, displaced>>
  <2>1. FilesInv' /\ CutInv' /\ ~Exists(Live)'
    BY <1>1, <1>2, <1>3, FilesStill DEF Exists
  <2>2. slot' \in 1 .. MaxFiles /\ dir'[slot'] = Absent
    BY <1>3, FirstFreeIs DEF Exists
  <2>3. WriterInv'
    BY <1>1, <1>2, <1>3, <2>1, <2>2, WriterWorks
  <2> QED  BY <2>1, <2>3 DEF JournalInv
<1>4. CASE /\ FirstFree = 0 /\ dir' = [dir EXCEPT ![MaxFiles] = Absent]
           /\ slot' = MaxFiles /\ wr' = "shift" /\ UNCHANGED displaced
  <2>1. FilesInv' /\ CutInv'
    BY <1>1, <1>2, <1>4, FirstFreeIs, DropOldest DEF JournalInv
  <2>2. /\ MaxFiles \in 1 .. MaxFiles /\ MaxFiles \in Name
        /\ \A n \in {Live, Staging} : n \in Name /\ n # MaxFiles
    BY NamesAre
  <2>3. dir'[MaxFiles] = Absent /\ \A n \in {Live, Staging} : dir'[n] = dir[n]
    BY <1>4, <2>2 DEF JournalInv, FilesInv
  <2>4. WriterInv'
    BY <1>1, <1>2, <1>4, <2>2, <2>3, WriterWorks DEF Exists
  <2> QED  BY <2>1, <2>4 DEF JournalInv
<1>5. CASE Rollback(Staging)
  BY <1>1, <1>2, <1>5, RollbackStep
<1> QED  BY <1>3, <1>4, <1>5 DEF FindSlot

\* A copy moves one slot up, or the rotation is given up.
LEMMA ShiftStep ==
  ASSUME JournalInv, ShiftOne
  PROVE  JournalInv'
<1>1. /\ wr = "shift" /\ UNCHANGED <<content, handle, size, written>> /\ size >= MaxSize
      /\ slot > 1 /\ slot \in 1 .. MaxFiles /\ ~Exists(slot)
  BY DEF ShiftOne, writerRest, JournalInv, WriterInv
<1>2. /\ Where = Staging /\ dir[Staging] = handle /\ handle # Absent /\ displaced = NoName
      /\ size = Len(content[handle]) /\ Exists(Staging) /\ ~Exists(Live) /\ Live # Staging
  BY <1>1, WriterIs, NamesAre
<1>3. CASE Rename(slot - 1, slot) /\ slot' = slot - 1 /\ UNCHANGED <<wr, displaced>>
  <2>1. PICK k : k = slot
    OBVIOUS
  <2>2. /\ k \in 2 .. MaxFiles /\ k - 1 \in 1 .. MaxFiles /\ k - 1 # k /\ {k, k - 1} \subseteq Name
        /\ \A n \in {Live, Staging} : n \in Name /\ n # k /\ n # k - 1
    BY <1>1, <2>1, NamesAre
  <2>3. Rename(k - 1, k) /\ slot' = k - 1 /\ ~Exists(k) /\ wr' = "shift" /\ displaced' = NoName
    BY <1>1, <1>2, <1>3, <2>1
  <2>4. CASE Exists(k - 1)
    <3>1. /\ FilesInv' /\ ~Exists(k - 1)'
          /\ \A n \in Name \ {k - 1, k} : Exists(n)' <=> Exists(n)
      BY <1>1, <2>2, <2>3, <2>4, RenameMoves DEF JournalInv
    <3>2. CutInv'
      BY <1>1, <2>2, <2>3, <2>4, ShiftCopy DEF JournalInv
    <3>3. dir'[k - 1] = Absent /\ \A n \in {Live, Staging} : dir'[n] = dir[n]
      BY <2>2, <2>3 DEF Rename, JournalInv, FilesInv
    <3>4. WriterInv'
      BY <1>1, <1>2, <2>2, <2>3, <3>3, WriterWorks DEF Exists
    <3> QED  BY <3>1, <3>2, <3>4 DEF JournalInv
  <2>5. CASE ~Exists(k - 1)
    <3>1. dir' = dir
      BY <2>2, <2>3, <2>5 DEF Rename, Exists, JournalInv, FilesInv
    <3>2. FilesInv' /\ CutInv'
      BY <1>1, <3>1, FilesStill
    <3>3. WriterInv'
      BY <1>1, <1>2, <2>2, <2>3, <2>5, <3>1, WriterWorks DEF Exists
    <3> QED  BY <3>2, <3>3 DEF JournalInv
  <2> QED  BY <2>4, <2>5
<1>4. CASE Rollback(Staging)
  BY <1>1, <1>2, <1>4, RollbackStep
<1> QED  BY <1>3, <1>4 DEF ShiftOne

\* The staged file becomes the newest copy, or the rotation is given up.
LEMMA CopyStep ==
  ASSUME JournalInv, MakeCopy
  PROVE  JournalInv'
<1>1. /\ wr = "shift" /\ UNCHANGED <<content, handle, size, written>> /\ size >= MaxSize
      /\ slot = 1 /\ ~Exists(1)
  BY DEF MakeCopy, writerRest, JournalInv, WriterInv
<1>2. /\ Where = Staging /\ dir[Staging] = handle /\ handle # Absent /\ displaced = NoName
      /\ size = Len(content[handle]) /\ Exists(Staging) /\ ~Exists(Live) /\ Live # Staging
  BY <1>1, WriterIs, NamesAre
<1>3. CASE Rename(Staging, 1) /\ wr' = "open" /\ UNCHANGED <<slot, displaced>>
  <2>1. Staging \in Name /\ 1 \in Name /\ Staging # 1 /\ Live \in Name \ {1, Staging}
    BY NamesAre
  <2>2. /\ FilesInv' /\ ~Exists(Staging)' /\ dir'[1] = dir[Staging]
        /\ \A n \in Name \ {Staging, 1} : Exists(n)' <=> Exists(n)
    BY <1>1, <1>2, <1>3, <2>1, RenameMoves DEF JournalInv
  <2>3. CutInv'
    BY <1>1, <1>2, <1>3, StagingToCopy DEF JournalInv
  <2>4. WriterInv'
    BY <1>1, <1>2, <1>3, <2>1, <2>2, WriterWorks
  <2> QED  BY <2>2, <2>3, <2>4 DEF JournalInv
<1>4. CASE Rollback(Staging)
  BY <1>1, <1>2, <1>4, RollbackStep
<1> QED  BY <1>3, <1>4 DEF MakeCopy

\* A live file that is created is the open one.
LEMMA FreshLive ==
  ASSUME JournalInv, ~Exists(Live), ~Exists(Staging), Create(Live), UNCHANGED written,
         displaced' = NoName, RotateEnds, handle' = dir'[Live], size' = Len(content'[dir'[Live]])
  PROVE  JournalInv'
<1>1. /\ FilesInv' /\ CutInv' /\ dir'[Live] = Len(content) + 1
      /\ \A n \in Name \ {Live} : Exists(n)' <=> Exists(n)
  BY CreateLive DEF JournalInv
<1>2. handle' # Absent
  BY <1>1, LenProperties DEF JournalInv, FilesInv, Absent
<1>3. ~Exists(Staging)'
  BY <1>1, NamesAre
<1>4. WriterInv'
  BY <1>2, <1>3, WriterRests DEF RotateEnds
<1> QED  BY <1>1, <1>4 DEF JournalInv

\* A fresh live file is opened, or the rotation is given up.
LEMMA OpenStep ==
  ASSUME JournalInv, OpenNew
  PROVE  JournalInv'
<1>1. wr = "open" /\ UNCHANGED written
  BY DEF OpenNew, writerRest
<1>2. /\ Where = 1 /\ displaced = NoName /\ ~Exists(Live) /\ ~Exists(Staging) /\ 1 # Live
  <2>1. 1 # Live /\ 1 # Staging
    BY NamesAre
  <2> QED  BY <1>1, <2>1, WriterIs
<1>3. CASE /\ Create(Live) /\ handle' = Len(content) + 1 /\ size' = 0
           /\ RotateEnds /\ UNCHANGED displaced
  <2>1. dir'[Live] = Len(content) + 1 /\ content'[Len(content) + 1] = <<>>
    BY <1>1, <1>2, <1>3, CreateLive DEF JournalInv
  <2>2. handle' = dir'[Live] /\ size' = Len(content'[dir'[Live]])
    BY <1>3, <2>1
  <2> QED  BY <1>1, <1>2, <1>3, <2>2, FreshLive
<1>4. CASE Rollback(1) /\ UNCHANGED <<content, handle, size>>
  <2>1. size >= MaxSize
    BY <1>1 DEF JournalInv, WriterInv
  <2>2. PICK x : x = 1
    OBVIOUS
  <2> QED  BY <1>1, <1>2, <1>4, <2>1, <2>2, RollbackStep
<1> QED  BY <1>3, <1>4 DEF OpenNew

\* After a crash the file that was written last is the live one again.
LEMMA ReopenStep ==
  ASSUME JournalInv, Reopen
  PROVE  JournalInv'
<1>1. /\ displaced' = NoName /\ RotateEnds /\ UNCHANGED written
      /\ handle' = dir'[Live] /\ size' = Len(content'[dir'[Live]])
  BY DEF Reopen, writerRest
<1>2. /\ Where \in {Live, Staging, 1} /\ \A n \in {Staging, Live} : n # Where => ~Exists(n)
      /\ {Live, Staging} \subseteq Name /\ Live # Staging
  BY WriterIs, NamesAre
<1>3. CASE ~Exists(Live) /\ Exists(Staging) /\ Rename(Staging, Live) /\ UNCHANGED content
  <2>1. FilesInv' /\ Exists(Live)' /\ ~Exists(Staging)'
    BY <1>1, <1>2, <1>3, RenameMoves DEF JournalInv
  <2>2. CutInv'
    BY <1>1, <1>3, StagingToLive DEF JournalInv
  <2>3. WriterInv'
    BY <1>1, <2>1, WriterRests DEF Exists, RotateEnds
  <2> QED  BY <2>1, <2>2, <2>3 DEF JournalInv
<1>4. CASE Exists(Live) /\ UNCHANGED fileVars
  <2>1. ~Exists(Staging)
    BY <1>2, <1>4
  <2>2. FilesInv' /\ CutInv'
    BY <1>1, <1>4, FilesStill DEF fileVars
  <2>3. handle' # Absent /\ ~Exists(Staging)'
    BY <1>1, <1>4, <2>1 DEF Exists, fileVars
  <2>4. WriterInv'
    BY <1>1, <2>3, WriterRests DEF RotateEnds
  <2> QED  BY <2>2, <2>4 DEF JournalInv
<1>5. CASE ~Exists(Live) /\ ~Exists(Staging) /\ Create(Live)
  BY <1>1, <1>5, FreshLive
<1> QED  BY <1>3, <1>4, <1>5 DEF Reopen, RestoreStaged

-----------------------------------------------------------------------------
(* The whole journal                                                       *)

\* Two pieces that meet.
LEMMA PiecesMeet ==
  ASSUME NEW E, NEW w \in Seq(E), NEW a \in Nat, NEW b \in Nat, NEW d \in Nat,
         a <= b, b <= d, d <= Len(w)
  PROVE  SubSeq(w, a + 1, b) \o SubSeq(w, b + 1, d) = SubSeq(w, a + 1, d)
<1>1. Len(w) \in Nat
  BY LenProperties
<1>2. a + 1 \in 1 .. Len(w) + 1 /\ b \in (a + 1) - 1 .. Len(w) /\ d \in b .. Len(w)
  BY <1>1
<1> QED  BY <1>2, ConcatAdjacentSubSeq

\* What is behind a place is a suffix.
LEMMA RestIsSuffix ==
  ASSUME NEW E, NEW w \in Seq(E), NEW a \in Nat, a <= Len(w)
  PROVE  /\ IsSuffix(SubSeq(w, a + 1, Len(w)), w)
         /\ Len(SubSeq(w, a + 1, Len(w))) = Len(w) - a
<1> DEFINE s == SubSeq(w, a + 1, Len(w))
<1>1. PICK l \in Nat : l = Len(w)
  BY LenProperties
<1>2. \A i \in 1 .. l : w[i] \in E
  BY <1>1, LenProperties
<1>3. PICK k \in Nat : k = l - a
  <2>1. l - a \in Nat
    BY <1>1
  <2> QED  BY <2>1
<1>4. s \in Seq(E) /\ Len(s) = k /\ \A i \in 1 .. k : s[i] = w[a + i]
  <2>1. ASSUME NEW i \in a + 1 .. l PROVE w[i] \in E
    <3>1. i \in 1 .. l
      BY <1>1
    <3> QED  BY <1>2, <3>1
  <2>2. /\ s \in Seq(E) /\ Len(s) = IF a + 1 <= l THEN l - (a + 1) + 1 ELSE 0
        /\ \A i \in 1 .. l - (a + 1) + 1 : s[i] = w[a + 1 + i - 1]
    BY <1>1, <2>1, SubSeqProperties
  <2> HIDE DEF s
  <2>3. Len(s) = k
    BY <1>1, <1>3, <2>2
  <2>4. ASSUME NEW i \in 1 .. k PROVE s[i] = w[a + i]
    <3>1. i \in 1 .. l - (a + 1) + 1 /\ a + 1 + i - 1 = a + i
      BY <1>1, <1>3
    <3> QED  BY <2>2, <3>1
  <2> QED  BY <2>2, <2>3, <2>4
<1> HIDE DEF s
<1> DEFINE rs == Reverse(s)  rw == Reverse(w)
<1>5. rs = [i \in 1 .. k |-> s[(k - i) + 1]] /\ rw = [i \in 1 .. l |-> w[(l - i) + 1]]
  BY <1>1, <1>4 DEF Reverse
<1>6. rs \in Seq(E) /\ Len(rs) = k /\ rw \in Seq(E) /\ Len(rw) = l
  <2>1. \A i \in 1 .. k : s[(k - i) + 1] \in E
    BY <1>4, LenProperties
  <2>2. \A i \in 1 .. l : w[(l - i) + 1] \in E
    BY <1>2
  <2> QED  BY <1>5, <2>1, <2>2
<1>7. \A i \in 1 .. k : rs[i] = rw[i]
  <2>1. ASSUME NEW i \in 1 .. k PROVE rs[i] = rw[i]
    <3>1. rs[i] = s[(k - i) + 1] /\ (k - i) + 1 \in 1 .. k
      BY <1>5
    <3>2. rw[i] = w[(l - i) + 1] /\ (l - i) + 1 = a + ((k - i) + 1)
      BY <1>1, <1>3, <1>5
    <3> QED  BY <1>4, <3>1, <3>2
  <2> QED  BY <2>1
<1> HIDE DEF rs, rw
<1>8. SubSeq(rs, 1, k) = SubSeq(rw, 1, k)
  <2> DEFINE u == SubSeq(rs, 1, k)  v == SubSeq(rw, 1, k)
  <2>1. \A i \in 1 .. k : rs[i] \in E /\ rw[i] \in E
    BY <1>6, <1>7, LenProperties
  <2>2. u \in Seq(E) /\ Len(u) = k /\ \A i \in 1 .. k : u[i] = rs[i]
    <3>1. u \in Seq(E) /\ Len(u) = (IF 1 <= k THEN k - 1 + 1 ELSE 0)
          /\ \A i \in 1 .. k - 1 + 1 : u[i] = rs[1 + i - 1]
      BY <2>1, SubSeqProperties
    <3> HIDE DEF u
    <3> QED  BY <3>1
  <2>3. v \in Seq(E) /\ Len(v) = k /\ \A i \in 1 .. k : v[i] = rw[i]
    <3>1. v \in Seq(E) /\ Len(v) = (IF 1 <= k THEN k - 1 + 1 ELSE 0)
          /\ \A i \in 1 .. k - 1 + 1 : v[i] = rw[1 + i - 1]
      BY <2>1, SubSeqProperties
    <3> HIDE DEF v
    <3> QED  BY <3>1
  <2> HIDE DEF u, v
  <2>4. u = v
    BY <1>7, <2>2, <2>3, SeqEqual
  <2> QED  BY <2>4 DEF u, v
<1>9. k <= l
  BY <1>1, <1>3
<1>10. IsPrefix(rs, rw)
  BY <1>6, <1>8, <1>9 DEF IsPrefix
<1> QED  BY <1>1, <1>3, <1>4, <1>10 DEF IsSuffix, rs, rw, s

\* The smaller one of two numbers.
LEMMA LeastOfTwo ==
  ASSUME NEW x \in Nat, NEW y \in Nat
  PROVE  Min({x, y}) <= x /\ Min({x, y}) <= y /\ Min({x, y}) \in Nat
<1>1. \E i \in {x, y} : \A j \in {x, y} : i <= j
  OBVIOUS
<1> QED  BY <1>1 DEF Min

\* The files, read in their order, are the end of what was written.
LEMMA WholeFollows == JournalInv => JournalWhole
<1> SUFFICES ASSUME JournalInv PROVE JournalWhole
  OBVIOUS
<1>1. PICK e \in [1 .. MaxFiles + 1 -> Nat], m \in Nat : Cut(e, m)
  BY DEF JournalInv, CutInv
<1>2. PICK l \in Nat : l = Len(written)
  BY LenProperties DEF JournalInv, FilesInv
<1>3. written \in Seq(EventId) /\ MaxFiles \in Nat \ {0} /\ MaxSize \in Nat
  BY NamesAre DEF JournalInv, FilesInv
<1> DEFINE parts == [i \in 1 .. MaxFiles |-> Part(MaxFiles + 1 - i)]
           c == [i \in 0 .. MaxFiles |-> e[MaxFiles + 1 - i]]
<1>4. c \in [0 .. MaxFiles -> 0 .. Len(written)]
  <2>1. ASSUME NEW i \in 0 .. MaxFiles PROVE e[MaxFiles + 1 - i] \in 0 .. Len(written)
    <3>1. PICK n \in 1 .. MaxFiles + 1 : n = MaxFiles + 1 - i
      BY <1>3
    <3>2. e[n] \in Nat /\ e[n] <= Len(written)
      BY <1>1, CutBounds
    <3> QED  BY <1>2, <3>1, <3>2
  <2> QED  BY <2>1
<1>5. ASSUME NEW i \in 1 .. MaxFiles
      PROVE  c[i - 1] <= c[i] /\ parts[i] = SubSeq(written, c[i - 1] + 1, c[i])
  <2> DEFINE n == MaxFiles + 1 - i
  <2>1. /\ n \in 1 .. MaxFiles /\ i - 1 \in 0 .. MaxFiles /\ i \in 0 .. MaxFiles
        /\ MaxFiles + 1 - (i - 1) = n + 1
    BY <1>3
  <2>2. c[i] = e[n] /\ c[i - 1] = e[n + 1] /\ parts[i] = Part(n)
    BY <2>1
  <2> HIDE DEF n, c, parts
  <2>3. Holds(n, e[n + 1], e[n])
    BY <1>1, <2>1 DEF Cut
  <2> QED  BY <2>2, <2>3 DEF Holds
<1>6. parts = [i \in 1 .. MaxFiles |-> parts[i]]
  OBVIOUS
<1>7. c[0] = e[MaxFiles + 1] /\ c[MaxFiles] = e[1]
  BY <1>3
<1> HIDE DEF c
<1> HIDE DEF parts
<1>8. e[MaxFiles + 1] <= e[1] /\ FlattenSeq(parts) = SubSeq(written, e[MaxFiles + 1] + 1, e[1])
  <2>1. c[0] <= c[MaxFiles] /\ FlattenSeq(parts) = SubSeq(written, c[0] + 1, c[MaxFiles])
    BY <1>3, <1>4, <1>5, <1>6, PiecesFlatten
  <2> QED  BY <1>7, <2>1
<1>9. PICK a \in Nat, b \in Nat : a = e[MaxFiles + 1] /\ b = e[1] /\ a <= b
  BY <1>3, <1>8
<1>10. /\ b <= m /\ Part(Staging) = SubSeq(written, b + 1, m)
       /\ m <= l /\ Part(Live) = SubSeq(written, m + 1, l)
  BY <1>1, <1>2, <1>9 DEF Cut, Holds
<1>11. PICK f : f = FlattenSeq(parts) /\ Retained = f \o Part(Staging) \o Part(Live)
  <2>1. Retained = FlattenSeq(parts) \o Part(Staging) \o Part(Live)
    BY Zenon DEF Retained, parts, Part
  <2> QED  BY <2>1, Zenon
<1>12. Retained = SubSeq(written, a + 1, l)
  <2>1. SubSeq(written, a + 1, b) \o SubSeq(written, b + 1, m) = SubSeq(written, a + 1, m)
    <3>1. a <= b /\ b <= m /\ m <= Len(written)
      BY <1>2, <1>9, <1>10
    <3> QED  BY <1>3, <3>1, PiecesMeet
  <2>2. a <= m
    BY <1>9, <1>10
  <2>3. SubSeq(written, a + 1, m) \o SubSeq(written, m + 1, l) = SubSeq(written, a + 1, l)
    <3>1. m <= l /\ l <= Len(written)
      BY <1>2, <1>10
    <3> QED  BY <1>3, <2>2, <3>1, PiecesMeet
  <2>4. f = SubSeq(written, a + 1, b)
    BY <1>8, <1>9, <1>11, Zenon
  <2>5. Retained = (f \o Part(Staging)) \o Part(Live)
    BY <1>11, Zenon
  <2> QED  BY <1>10, <2>1, <2>3, <2>4, <2>5, Zenon
<1>13. a <= l /\ IsSuffix(Retained, written) /\ Len(Retained) = l - a
  <2>1. a <= l
    BY <1>9, <1>10
  <2> QED  BY <1>2, <1>3, <1>12, <2>1, RestIsSuffix
<1>14. Len(Retained) >= Min({Len(written), MaxFiles * MaxSize})
  <2>1. PICK k \in Nat : k = MaxFiles * MaxSize
    BY <1>3
  <2>2. a = 0 \/ l - a >= k
    BY <1>1, <1>2, <1>9, <2>1 DEF Cut
  <2>3. Min({l, k}) <= l /\ Min({l, k}) <= k /\ Min({l, k}) \in Nat
    BY LeastOfTwo
  <2> QED  BY <1>2, <1>13, <2>1, <2>2, <2>3
<1> QED  BY <1>13, <1>14 DEF JournalWhole

\* The query, and everything else, leaves the journal alone.
LEMMA JournalStill ==
  ASSUME JournalInv, UNCHANGED <<fileVars, writerVars, written>>
  PROVE  JournalInv'
<1>1. UNCHANGED <<dir, content, handle, size, displaced, wr, slot, written>>
  BY DEF fileVars, writerVars
<1>2. FilesInv' /\ CutInv'
  BY <1>1, FilesStill
<1>3. WriterInv'
  BY <1>1 DEF JournalInv, WriterInv, Where, Exists
<1> QED  BY <1>2, <1>3 DEF JournalInv

\* Only a journal that is queried is written.
JournalRuns == JournalInv /\ (watch = "query" => {run, sequence} \subseteq Nat)

\* The runner numbers entries and runs; nothing else does.
LEMMA NumbersStay ==
  ASSUME ServerStep \/ DeliverStep
  PROVE  UNCHANGED <<watch, run, sequence>>
BY DEF ServerStep, DeliverStep, Change, Tick, AskRestart, TakeState, BroadcastLog, BroadcastState,
       Pushed, FanOut, Compare, Connect, WriteEnds, Drop, WaitTimeout, WriteSnapshot, WriteOne,
       runnerVars

\* Every step of the writer, of a crash and of everybody else keeps the journal whole.
LEMMA JournalNext == JournalRuns /\ [Next]_vars => JournalRuns'
<1> SUFFICES ASSUME JournalRuns, [Next]_vars PROVE JournalRuns'
  OBVIOUS
<1>1. ASSUME NEW g \in Goroutine, Emit(g) PROVE JournalRuns'
  <2>1. CASE watch = "query"
    <3> DEFINE id == [run |-> run, seq |-> sequence + 1]
    <3>1. WriteEvent(id) /\ sequence' = sequence + 1 /\ UNCHANGED <<watch, run>>
      BY <1>1, <2>1 DEF Emit
    <3>2. id \in EventId
      BY <2>1 DEF JournalRuns, EventId
    <3> HIDE DEF id
    <3>3. JournalInv'
      BY <3>1, <3>2, WriteStep DEF JournalRuns
    <3> QED  BY <2>1, <3>1, <3>3 DEF JournalRuns
  <2>2. CASE watch # "query"
    <3>1. UNCHANGED <<journalVars, watch>>
      BY <1>1, <2>2 DEF Emit
    <3>2. JournalInv'
      BY <3>1, JournalStill DEF JournalRuns, journalVars
    <3> QED  BY <2>2, <3>1, <3>2 DEF JournalRuns
  <2> QED  BY <2>1, <2>2
<1>2. CASE Crash
  <2>1. run' = run + 1 /\ sequence' = 0 /\ UNCHANGED watch /\ Reopen
    BY <1>2 DEF Crash
  <2> QED  BY <2>1, ReopenStep DEF JournalRuns
<1>3. CASE UNCHANGED <<journalVars, watch, run, sequence>>
  <2>1. JournalInv'
    BY <1>3, JournalStill DEF JournalRuns, journalVars
  <2> QED  BY <1>3, <2>1 DEF JournalRuns
<1>4. CASE JournalStep /\ UNCHANGED eventVars
  <2>1. UNCHANGED <<watch, run, sequence>>
    BY <1>4 DEF eventVars, runnerVars
  <2>2. CASE RotateStep
    <3>1. JournalInv'
      BY <2>2, RestoreStep, StageStep, FindSlotStep, ShiftStep, CopyStep, OpenStep
      DEF JournalRuns, RotateStep
    <3> QED  BY <2>1, <3>1 DEF JournalRuns
  <2>3. CASE ReaderStep
    <3>1. UNCHANGED readerRest
      BY <2>3 DEF ReaderStep, BeginQuery, OpenFile, CheckFiles, CursorLost, ReturnPage
    <3>2. JournalInv'
      BY <3>1, JournalStill DEF JournalRuns, readerRest
    <3> QED  BY <2>1, <3>2 DEF JournalRuns
  <2> QED  BY <1>4, <2>2, <2>3 DEF JournalStep
<1>5. \/ \E g \in Goroutine : Emit(g)
      \/ Crash
      \/ UNCHANGED <<journalVars, watch, run, sequence>>
      \/ JournalStep /\ UNCHANGED eventVars
  <2>1. CASE ServerStep /\ UNCHANGED <<journalVars, monitorVars>>
    BY <2>1, NumbersStay
  <2>2. CASE Reading
    BY <2>2, NumbersStay DEF Reading
  <2>3. CASE UNCHANGED <<journalVars, eventVars>>
    BY <2>3 DEF eventVars, runnerVars
  <2> QED  BY <2>1, <2>2, <2>3 DEF Next, vars, WriterStep
<1> QED  BY <1>1, <1>2, <1>3, <1>4, <1>5

\* A journal begins with an empty live file.
LEMMA JournalBegins == Init => JournalRuns
<1> SUFFICES ASSUME Init PROVE JournalRuns
  OBVIOUS
<1>1. /\ dir = [n \in Name |-> IF n = Live THEN 1 ELSE Absent] /\ content = << <<>> >>
      /\ handle = 1 /\ size = 0 /\ displaced = NoName /\ wr = "idle" /\ written = <<>>
  BY DEF Init, EventsInit, JournalInit
<1>2. dir[Live] = 1 /\ \A n \in Name \ {Live} : dir[n] = Absent
  BY <1>1, NamesAre
<1>3. \A n \in Name : Part(n) = <<>>
  <2>1. content[1] = <<>>
    BY <1>1
  <2> QED  BY <1>2, <2>1, NamesAre DEF Part, Exists
<1>4. FilesInv
  <2>1. <<>> \in Seq(EventId) /\ content \in Seq(Seq(EventId)) /\ Len(content) = 1
    BY <1>1, EmptySeq
  <2>2. dir \in [Name -> 0 .. Len(content)]
    BY <1>1, <2>1, NamesAre
  <2>3. \A m, n \in Name : m # n /\ Exists(m) => dir[m] # dir[n]
    BY <1>2, NamesAre DEF Exists
  <2> QED  BY <1>1, <2>1, <2>2, <2>3 DEF FilesInv
<1>5. WriterInv
  <2>1. Where = Live
    BY <1>1 DEF Where
  <2>2. \A n \in {Staging, Live} \ {Live} : ~Exists(n)
    BY <1>2, NamesAre DEF Exists
  <2>3. Len(content[1]) = 0
    BY <1>1
  <2> QED  BY <1>1, <1>2, <2>1, <2>2, <2>3, NamesAre DEF WriterInv
<1>6. \A n \in Name : Holds(n, 0, 0)
  <2>1. Len(written) = 0 /\ SubSeq(written, 0 + 1, 0) = <<>>
    <3>1. Len(written) = 0
      BY <1>1
    <3> QED  BY <3>1, SubSeqEmpty
  <2>2. \A n \in Name : Exists(n) /\ n # Live => 0 - 0 >= MaxSize
    BY <1>2 DEF Exists
  <2>3. ASSUME NEW n \in Name PROVE Holds(n, 0, 0)
    <3>1. 0 \in Nat /\ 0 <= 0 /\ 0 <= Len(written)
      BY <2>1
    <3>2. Part(n) = SubSeq(written, 0 + 1, 0)
      BY <1>3, <2>1
    <3>3. Exists(n) /\ n # Live => 0 - 0 >= MaxSize
      BY <2>2
    <3> QED  BY <3>1, <3>2, <3>3, Zenon DEF Holds
  <2> QED  BY <2>3
<1>7. CutInv
  <2> DEFINE e == [n \in 1 .. MaxFiles + 1 |-> 0]
  <2>1. e \in [1 .. MaxFiles + 1 -> Nat] /\ \A n \in 1 .. MaxFiles + 1 : e[n] = 0
    OBVIOUS
  <2>2. \A n \in 1 .. MaxFiles : n \in Name /\ n \in 1 .. MaxFiles + 1 /\ n + 1 \in 1 .. MaxFiles + 1
    BY NamesAre
  <2>3. 1 \in 1 .. MaxFiles + 1 /\ MaxFiles + 1 \in 1 .. MaxFiles + 1
    BY NamesAre
  <2>4. Len(written) = 0 /\ {Live, Staging} \subseteq Name
    BY <1>1, NamesAre
  <2> HIDE DEF e
  <2>5. Cut(e, 0)
    BY <1>6, <2>1, <2>2, <2>3, <2>4 DEF Cut
  <2> QED  BY <2>1, <2>5 DEF CutInv
<1>8. watch = "query" => {run, sequence} \subseteq Nat
  BY DEF Init, EventsInit
<1> QED  BY <1>4, <1>5, <1>7, <1>8 DEF JournalRuns, JournalInv

\* At every step of a rotation, also of one that failed, was retried or was
\* cut short by a crash, the files hold the newest events without a hole,
\* and never fewer than the copies can hold (rotate, shift, rollback, New).
THEOREM JournalIsWhole == Spec => []JournalWhole
<1>1. JournalRuns => JournalWhole
  BY WholeFollows DEF JournalRuns
<1> QED  BY <1>1, JournalBegins, JournalNext, PTL DEF Spec

-----------------------------------------------------------------------------
(* The events in the order they were written *)

Earlier(a, b) == a.run < b.run \/ (a.run = b.run /\ a.seq < b.seq)

Rising(s) == \A i, j \in 1 .. Len(s) : i < j => Earlier(s[i], s[j])

\* Runs and numbers order the events.
LEMMA EarlierOrders ==
  ASSUME NEW a \in EventId, NEW b \in EventId, NEW c \in EventId
  PROVE  /\ Earlier(a, b) => ~Earlier(b, a) /\ a # b
         /\ Earlier(a, b) /\ Earlier(b, c) => Earlier(a, c) /\ ~(c.run = a.run /\ c.seq = a.seq + 1)
BY DEF EventId, Earlier

\* Where an event was written.
Spot(e) == CHOOSE i \in DOMAIN written : written[i] = e

\* An event was written in one place.
LEMMA SpotIs ==
  ASSUME written \in Seq(EventId), Rising(written), NEW i \in 1 .. Len(written)
  PROVE  Spot(written[i]) = i
<1>1. DOMAIN written = 1 .. Len(written) /\ Len(written) \in Nat
      /\ \A j \in 1 .. Len(written) : written[j] \in EventId
  BY LenProperties
<1>2. ASSUME NEW j \in 1 .. Len(written), j # i PROVE written[j] # written[i]
  <2>1. written[i] \in EventId /\ written[j] \in EventId
    BY <1>1
  <2>2. Earlier(written[i], written[j]) \/ Earlier(written[j], written[i])
    BY <1>1, <1>2 DEF Rising
  <2> QED  BY <2>1, <2>2, EarlierOrders
<1> QED  BY <1>1, <1>2 DEF Spot

\* A later event was written later, the next one of its run next.
LEMMA WrittenLater ==
  ASSUME written \in Seq(EventId), Rising(written),
         NEW i \in 1 .. Len(written), NEW j \in 1 .. Len(written), Earlier(written[i], written[j])
  PROVE  /\ j > i
         /\ written[j].run = written[i].run /\ written[j].seq = written[i].seq + 1 => j = i + 1
<1>1. Len(written) \in Nat /\ \A k \in 1 .. Len(written) : written[k] \in EventId
  BY LenProperties
<1>2. j > i
  <2>1. j < i => Earlier(written[j], written[i])
    BY DEF Rising
  <2>2. written[i] \in EventId /\ written[j] \in EventId
    BY <1>1
  <2>3. ~(j < i) /\ j # i
    BY <2>1, <2>2, EarlierOrders
  <2> QED  BY <2>3
<1>3. ASSUME written[j].run = written[i].run, written[j].seq = written[i].seq + 1, j # i + 1
      PROVE  FALSE
  <2>1. i + 1 \in 1 .. Len(written) /\ i < i + 1 /\ i + 1 < j
    BY <1>1, <1>2, <1>3
  <2>2. Earlier(written[i], written[i + 1]) /\ Earlier(written[i + 1], written[j])
    BY <2>1 DEF Rising
  <2>3. /\ written[i] \in EventId /\ written[j] \in EventId /\ written[i + 1] \in EventId
    BY <1>1, <2>1
  <2> QED  BY <1>3, <2>2, <2>3, EarlierOrders
<1> QED  BY <1>2, <1>3

\* Pieces that follow each other in that order.
Pieces(parts, n) ==
  /\ \A h \in 1 .. n : parts[h] \in Seq(EventId) /\ Rising(parts[h])
  /\ \A h, i \in 1 .. n : h < i =>
       \A j \in 1 .. Len(parts[h]), k \in 1 .. Len(parts[i]) : Earlier(parts[h][j], parts[i][k])

\* What the first n of them make: all their events, and in order.
Joined(parts, n, s) ==
  /\ s \in Seq(EventId) /\ Rising(s)
  /\ \A k \in 1 .. Len(s) : \E h \in 1 .. n : \E j \in 1 .. Len(parts[h]) : s[k] = parts[h][j]
  /\ \A h \in 1 .. n : \A j \in 1 .. Len(parts[h]) : \E k \in 1 .. Len(s) : s[k] = parts[h][j]

\* One more piece behind those that were joined.
LEMMA JoinNext ==
  ASSUME NEW parts, NEW n \in Nat, NEW m, m = n + 1, Pieces(parts, m),
         NEW s, Joined(parts, n, s)
  PROVE  Joined(parts, m, s \o parts[m])
<1> DEFINE p == parts[m]  t == s \o p
<1>1. m \in 1 .. m /\ m \in Nat /\ p \in Seq(EventId) /\ Rising(p) /\ s \in Seq(EventId) /\ Rising(s)
  BY DEF Pieces, Joined
<1>2. PICK a \in Nat, b \in Nat : a = Len(s) /\ b = Len(p)
  BY <1>1, LenProperties
<1>3. /\ t \in Seq(EventId) /\ Len(t) = a + b
      /\ \A i \in 1 .. a : i \in 1 .. a + b /\ t[i] = s[i]
      /\ \A j \in 1 .. b : a + j \in 1 .. a + b /\ t[a + j] = p[j]
  <2>1. /\ t \in Seq(EventId) /\ Len(t) = a + b
        /\ \A i \in 1 .. a + b : t[i] = IF i <= a THEN s[i] ELSE p[i - a]
    BY <1>1, <1>2, ConcatProperties
  <2> HIDE DEF t
  <2>2. ASSUME NEW i \in 1 .. a PROVE i \in 1 .. a + b /\ i <= a
    OBVIOUS
  <2>3. ASSUME NEW j \in 1 .. b PROVE a + j \in 1 .. a + b /\ ~(a + j <= a) /\ (a + j) - a = j
    OBVIOUS
  <2>4. ASSUME NEW j \in 1 .. b PROVE t[a + j] = p[j]
    BY <2>1, <2>3
  <2> QED  BY <2>1, <2>2, <2>3, <2>4
<1> HIDE DEF t
<1>0. ASSUME NEW k \in 1 .. a + b, ~(k \in 1 .. a) PROVE \E j \in 1 .. b : k = a + j
  <2>1. k - a \in 1 .. b /\ k = a + (k - a)
    BY <1>0
  <2> QED  BY <2>1
<1>4. ASSUME NEW k \in 1 .. a, NEW j \in 1 .. b PROVE Earlier(s[k], p[j])
  <2>1. PICK h \in 1 .. n : \E i \in 1 .. Len(parts[h]) : s[k] = parts[h][i]
    BY <1>2 DEF Joined
  <2>2. h \in 1 .. m /\ h < m
    OBVIOUS
  <2>3. \A i \in 1 .. Len(parts[h]) : Earlier(parts[h][i], p[j])
    BY <1>1, <1>2, <2>2 DEF Pieces
  <2> QED  BY <2>1, <2>3
<1>5. Rising(t)
  <2>1. ASSUME NEW i \in 1 .. a + b, NEW j \in 1 .. a + b, i < j PROVE Earlier(t[i], t[j])
    <3>1. CASE j \in 1 .. a
      <4>1. i \in 1 .. a
        BY <2>1, <3>1
      <4>2. Earlier(s[i], s[j])
        BY <1>1, <1>2, <2>1, <3>1, <4>1 DEF Rising
      <4> QED  BY <1>3, <3>1, <4>1, <4>2
    <3>2. CASE i \in 1 .. a /\ ~(j \in 1 .. a)
      <4>1. PICK k \in 1 .. b : j = a + k
        BY <1>0, <3>2
      <4> QED  BY <1>3, <1>4, <3>2, <4>1
    <3>3. CASE ~(i \in 1 .. a) /\ ~(j \in 1 .. a)
      <4>1. PICK h \in 1 .. b, k \in 1 .. b : i = a + h /\ j = a + k
        BY <1>0, <3>3
      <4>2. h < k
        BY <2>1, <4>1
      <4>3. Earlier(p[h], p[k])
        BY <1>1, <1>2, <4>2 DEF Rising
      <4> QED  BY <1>3, <4>1, <4>3
    <3>4. ~(i \in 1 .. a) => ~(j \in 1 .. a)
      BY <2>1
    <3> QED  BY <3>1, <3>2, <3>3, <3>4
  <2> QED  BY <1>3, <2>1 DEF Rising
<1>6. ASSUME NEW k \in 1 .. Len(t)
      PROVE  \E h \in 1 .. m : \E j \in 1 .. Len(parts[h]) : t[k] = parts[h][j]
  <2>1. CASE k \in 1 .. a
    <3>1. PICK h \in 1 .. n : \E j \in 1 .. Len(parts[h]) : s[k] = parts[h][j]
      BY <1>2, <2>1 DEF Joined
    <3>2. h \in 1 .. m /\ t[k] = s[k]
      BY <1>3, <2>1
    <3> QED  BY <3>1, <3>2
  <2>2. CASE ~(k \in 1 .. a)
    <3>1. PICK j \in 1 .. b : k = a + j
      BY <1>0, <1>3, <2>2
    <3>2. t[k] = p[j] /\ j \in 1 .. Len(p)
      BY <1>2, <1>3, <3>1
    <3> QED  BY <1>1, <3>2
  <2> QED  BY <2>1, <2>2
<1>7. ASSUME NEW h \in 1 .. m, NEW j \in 1 .. Len(parts[h])
      PROVE  \E k \in 1 .. Len(t) : t[k] = parts[h][j]
  <2>1. CASE h \in 1 .. n
    <3>1. PICK k \in 1 .. a : s[k] = parts[h][j]
      BY <1>2, <2>1 DEF Joined
    <3>2. k \in 1 .. Len(t) /\ t[k] = s[k]
      BY <1>3, <3>1
    <3> QED  BY <3>1, <3>2
  <2>2. CASE h = m
    <3>1. j \in 1 .. b
      BY <1>2, <2>2
    <3>2. a + j \in 1 .. Len(t) /\ t[a + j] = p[j]
      BY <1>3, <3>1
    <3> QED  BY <2>2, <3>2
  <2>3. h \in 1 .. n \/ h = m
    OBVIOUS
  <2> QED  BY <2>1, <2>2, <2>3
<1> QED  BY <1>3, <1>5, <1>6, <1>7 DEF Joined, t

\* The fold over any number of pieces, by the least number of them for which it fails.
LEMMA JoinAll ==
  ASSUME NEW parts, NEW N \in Nat \ {0}, parts = [i \in 1 .. N |-> parts[i]], Pieces(parts, N)
  PROVE  Joined(parts, N, FlattenSeq(parts))
<1> DEFINE Runs(n, w) ==
             \A i \in 1 .. n : /\ w[i] = IF i = 1 THEN parts[i] ELSE w[i - 1] \o parts[i]
                               /\ Joined(parts, i, w[i])
           Whole(n, w) == w = [i \in 1 .. n |-> w[i]] /\ Runs(n, w)
           Bad == {n \in 1 .. N : ~\E w : Whole(n, w)}
<1>1. Joined(parts, 1, parts[1])
  <2>1. 1 \in 1 .. N /\ 1 .. 1 = {1}
    OBVIOUS
  <2> QED  BY <2>1 DEF Pieces, Joined
<1>2. ASSUME NEW n \in Nat \ {0}, n + 1 <= N, NEW w, Whole(n, w)
      PROVE  \E v : Whole(n + 1, v)
  <2> DEFINE m == n + 1
             top == w[n] \o parts[m]
             v == [i \in 1 .. m |-> IF i = m THEN top ELSE w[i]]
  <2>1. m \in Nat /\ n \in 1 .. n /\ m # 1 /\ m - 1 = n /\ m \in 1 .. m /\ n \in 1 .. m /\ n # m
    OBVIOUS
  <2>2. Pieces(parts, m)
    <3>1. \A h \in 1 .. m : h \in 1 .. N
      BY <1>2
    <3> QED  BY <3>1 DEF Pieces
  <2>3. Joined(parts, n, w[n])
    BY <1>2, <2>1, Zenon
  <2>4. Joined(parts, m, top)
    BY <1>2, <2>1, <2>2, <2>3, JoinNext
  <2> HIDE DEF top
  <2>5. v[m] = top /\ v[n] = w[n] /\ \A i \in 1 .. n : v[i] = w[i]
    BY <2>1
  <2>6. v = [i \in 1 .. m |-> v[i]]
    OBVIOUS
  <2> HIDE DEF v
  <2>7. ASSUME NEW i \in 1 .. m
        PROVE  /\ v[i] = IF i = 1 THEN parts[i] ELSE v[i - 1] \o parts[i]
               /\ Joined(parts, i, v[i])
    <3>1. CASE i = m
      <4>1. v[i] = v[i - 1] \o parts[i]
        BY <2>1, <2>5, <3>1 DEF top
      <4>2. i # 1
        BY <2>1, <3>1
      <4>3. Joined(parts, i, v[i])
        BY <2>4, <2>5, <3>1, Zenon
      <4> QED  BY <4>1, <4>2, <4>3, Zenon
    <3>2. CASE i # m
      <4>1. i \in 1 .. n /\ (i # 1 => i - 1 \in 1 .. n)
        BY <3>2
      <4>2. v[i] = w[i] /\ (i # 1 => v[i - 1] = w[i - 1])
        BY <2>5, <4>1
      <4>3. Joined(parts, i, w[i]) /\ w[i] = IF i = 1 THEN parts[i] ELSE w[i - 1] \o parts[i]
        BY <1>2, <4>1, Zenon
      <4>4. CASE i = 1
        BY <4>2, <4>3, <4>4, Zenon
      <4>5. CASE i # 1
        BY <4>2, <4>3, <4>5, Zenon
      <4> QED  BY <4>4, <4>5
    <3> QED  BY <3>1, <3>2
  <2>8. Whole(m, v)
    BY <2>6, <2>7, Zenon
  <2> QED  BY <2>8, Zenon
<1>3. \E w : Whole(1, w)
  <2> DEFINE w == [i \in 1 .. 1 |-> parts[1]]
  <2>1. w = [i \in 1 .. 1 |-> w[i]] /\ w[1] = parts[1]
    OBVIOUS
  <2> HIDE DEF w
  <2>2. ASSUME NEW i \in 1 .. 1
        PROVE  w[i] = (IF i = 1 THEN parts[i] ELSE w[i - 1] \o parts[i]) /\ Joined(parts, i, w[i])
    <3>1. i = 1
      OBVIOUS
    <3> QED  BY <1>1, <2>1, <3>1, Zenon
  <2>3. Whole(1, w)
    BY <2>1, <2>2, Zenon
  <2> QED  BY <2>3, Zenon
<1> HIDE DEF Whole
<1>4. ASSUME Bad # {} PROVE FALSE
  <2>1. Bad \subseteq Nat
    OBVIOUS
  <2>2. PICK m \in Bad : \A j \in Bad : m <= j
    BY <1>4, <2>1, LeastNumber
  <2>3. m \in 1 .. N /\ ~\E w : Whole(m, w)
    OBVIOUS
  <2>4. PICK n \in Nat \ {0} : n \in 1 .. N /\ m = n + 1
    <3>1. m # 1
      BY <1>3, <2>3
    <3>2. m - 1 \in Nat \ {0} /\ m - 1 \in 1 .. N /\ m = (m - 1) + 1
      BY <2>3, <3>1
    <3> QED  BY <3>2
  <2>5. n \notin Bad
    BY <2>2, <2>4
  <2>6. PICK w : Whole(n, w)
    BY <2>4, <2>5
  <2>7. n + 1 <= N
    BY <2>3, <2>4
  <2> QED  BY <1>2, <2>3, <2>4, <2>6, <2>7
<1>5. N \in 1 .. N
  OBVIOUS
<1>6. PICK w : Whole(N, w)
  BY <1>4, <1>5
<1>7. w = [i \in 1 .. N |-> IF i = 1 THEN parts[i] ELSE w[i - 1] \o parts[i]]
      /\ Joined(parts, N, w[N])
  <2>1. w = [i \in 1 .. N |-> w[i]]
    BY <1>6, Zenon DEF Whole
  <2>2. \A i \in 1 .. N : /\ w[i] = IF i = 1 THEN parts[i] ELSE w[i - 1] \o parts[i]
                          /\ Joined(parts, i, w[i])
    BY <1>6, Zenon DEF Whole
  <2>3. \A i \in 1 .. N : w[i] = IF i = 1 THEN parts[i] ELSE w[i - 1] \o parts[i]
    BY <2>2, Zenon
  <2>4. [i \in 1 .. N |-> w[i]] = [i \in 1 .. N |-> IF i = 1 THEN parts[i] ELSE w[i - 1] \o parts[i]]
    BY <2>3, Zenon
  <2> QED  BY <1>5, <2>1, <2>2, <2>4, Zenon
<1>8. FlattenSeq(parts) = w[N]
  <2>1. \A v : v = [i \in 1 .. N |-> IF i = 1 THEN parts[i] ELSE v[i - 1] \o parts[i]]
                => FlattenSeq(parts) = v[N]
    BY FlattenedIs, Zenon
  <2> QED  BY <1>7, <2>1, Zenon
<1> QED  BY <1>7, <1>8, Zenon

-----------------------------------------------------------------------------
(* What was written, file by file *)

\* Events are numbered in the order they are written.
NumberInv ==
  /\ Rising(written) /\ \A i \in 1 .. Len(written) : written[i] # NoEvent
  /\ watch = "query" =>
       /\ run \in Nat \ {0} /\ sequence \in Nat
       /\ \A i \in 1 .. Len(written) :
            written[i].run < run \/ (written[i].run = run /\ written[i].seq <= sequence)

\* They are written to the newest file, so an older file has the earlier ones.
BookInv ==
  /\ handle = Len(content)
  /\ \A f \in 1 .. Len(content) :
       /\ Rising(content[f])
       /\ \A j \in 1 .. Len(content[f]) : \E i \in 1 .. Len(written) : written[i] = content[f][j]
  /\ \A f, g \in 1 .. Len(content) : f < g =>
       \A i \in 1 .. Len(content[f]), j \in 1 .. Len(content[g]) :
         Earlier(content[f][i], content[g][j])

\* The names in the order of their age; the staged file is as young as the live one.
Age(n) == IF n = Staging THEN Live ELSE n

\* An older name is of an older file, and no file newer than one that is kept
\* is gone.
DirInv ==
  /\ \A m, n \in Name : Exists(m) /\ Exists(n) /\ Age(m) < Age(n) => dir[n] < dir[m]
  /\ \A n \in Name : Exists(n) =>
       \A f \in dir[n] .. Len(content) : \E m \in Name : dir[m] = f

\* What a rotation, or opening the journal again, does to the names.
Renames(x, y) ==
  /\ Exists(x) /\ ~Exists(y) /\ x # y /\ Rename(x, y)
  /\ \A n \in Name \ {x, y} : Exists(n) => /\ Age(n) < Age(y) => Age(n) < Age(x)
                                           /\ Age(y) < Age(n) => Age(x) < Age(n)
Drops == Exists(MaxFiles) /\ dir' = [dir EXCEPT ![MaxFiles] = Absent]
Creates == ~Exists(Live) /\ ~Exists(Staging) /\ Create(Live) /\ handle' = Len(content) + 1
Keeps == UNCHANGED <<content, handle>>
           /\ (UNCHANGED dir \/ Drops \/ \E x, y \in Name : Renames(x, y))

\* The ages of the names.
LEMMA AgesAre ==
  /\ \A n \in 1 .. MaxFiles : Age(n) = n
  /\ Age(Live) = 0 /\ Age(Staging) = 0
  /\ \A n \in Name : n \in {Live, Staging} \/ (n \in 1 .. MaxFiles /\ n # Live /\ n # Staging)
<1>1. Live = 0 /\ Staging = MaxFiles + 1 /\ MaxFiles \in Nat \ {0}
  BY NamesAre
<1>2. Name = 0 .. MaxFiles + 1
  BY DEF Name
<1> QED  BY <1>1, <1>2 DEF Age

\* A file that goes back to the live path.
LEMMA BackRenames ==
  ASSUME JournalInv, NEW x, x = Where, x # Live, Rename(x, Live)
  PROVE  x \in Name /\ Live \in Name /\ Renames(x, Live)
<1>1. x \in {Staging, 1} /\ Exists(x) /\ ~Exists(Live) /\ (x # Staging => ~Exists(Staging))
  BY WriterIs
<1>2. x \in Name /\ Live \in Name /\ MaxFiles \in Nat \ {0}
  BY <1>1, NamesAre
<1>3. ASSUME NEW n \in Name \ {x, Live}, Exists(n)
      PROVE  (Age(n) < Age(Live) => Age(n) < Age(x)) /\ (Age(Live) < Age(n) => Age(x) < Age(n))
  <2>1. CASE x = Staging
    <3>1. Age(x) = Age(Live)
      BY <2>1, AgesAre
    <3> QED  BY <3>1
  <2>2. CASE x # Staging
    <3>1. x = 1 /\ Age(x) = 1 /\ Age(Live) = 0
      BY <1>1, <1>2, <2>2, AgesAre
    <3>2. n # Staging
      BY <1>1, <1>3, <2>2
    <3>3. n \in 1 .. MaxFiles /\ n # 1 /\ Age(n) = n
      BY <1>3, <3>1, <3>2, AgesAre
    <3> QED  BY <3>1, <3>3
  <2> QED  BY <2>1, <2>2
<1> QED  BY <1>1, <1>2, <1>3 DEF Renames

\* What a step of the rotation does to the files and their names ...
LEMMA RotateKeeps ==
  ASSUME JournalInv, RotateStep
  PROVE  UNCHANGED written /\ (Keeps \/ Creates)
<1>0. /\ MaxFiles \in Nat \ {0} /\ Live # Staging /\ 1 \in Name /\ Live \in Name /\ Staging \in Name
      /\ MaxFiles \in 1 .. MaxFiles /\ Live # 1 /\ Staging # 1
  BY NamesAre
<1>1. ASSUME NEW x, x = Where, x # Live, Rollback(x), UNCHANGED <<content, handle>> PROVE Keeps
  <2>1. CASE Rename(x, Live)
    BY <1>1, <2>1, BackRenames DEF Keeps
  <2>2. CASE UNCHANGED dir
    BY <1>1, <2>2 DEF Keeps
  <2> QED  BY <1>1, <2>1, <2>2 DEF Rollback
<1>2. CASE RestoreDisplaced
  <2>1. UNCHANGED <<content, handle, written>> /\ wr = "restore"
        /\ (UNCHANGED dir \/ (displaced # NoName /\ Rename(displaced, Live)))
    BY <1>2 DEF RestoreDisplaced, writerRest
  <2>2. CASE displaced # NoName /\ Rename(displaced, Live)
    <3>1. PICK x : x = displaced
      OBVIOUS
    <3>2. x = Where /\ x # Live /\ Rename(x, Live)
      BY <2>1, <2>2, <3>1, WriterIs, NamesAre
    <3> QED  BY <2>1, <3>2, BackRenames DEF Keeps
  <2> QED  BY <2>1, <2>2 DEF Keeps
<1>3. CASE Stage
  <2>1. UNCHANGED <<content, handle, written>> /\ wr = "stage" /\ (UNCHANGED dir \/ Rename(Live, Staging))
    BY <1>3 DEF Stage, writerRest
  <2>2. Exists(Live) /\ ~Exists(Staging)
    BY <1>0, <2>1, WriterIs
  <2>3. Age(Live) = Age(Staging)
    BY AgesAre
  <2>4. Rename(Live, Staging) => Renames(Live, Staging)
    BY <1>0, <2>2, <2>3 DEF Renames
  <2> QED  BY <1>0, <2>1, <2>4 DEF Keeps
<1>4. CASE FindSlot
  <2>1. /\ UNCHANGED <<content, handle, written>> /\ wr = "free"
        /\ \/ UNCHANGED dir
           \/ FirstFree = 0 /\ dir' = [dir EXCEPT ![MaxFiles] = Absent]
           \/ Rollback(Staging)
    BY <1>4 DEF FindSlot, writerRest
  <2>2. Staging = Where
    BY <2>1, WriterIs
  <2>3. FirstFree = 0 => Exists(MaxFiles)
    BY <1>0, FirstFreeIs
  <2> QED  BY <1>0, <1>1, <2>1, <2>2, <2>3 DEF Keeps, Drops
<1>5. CASE ShiftOne
  <2>1. /\ UNCHANGED <<content, handle, written>> /\ wr = "shift"
        /\ slot > 1 /\ slot \in 1 .. MaxFiles /\ ~Exists(slot)
        /\ (Rename(slot - 1, slot) \/ Rollback(Staging))
    BY <1>5 DEF ShiftOne, writerRest, JournalInv, WriterInv
  <2>2. Staging = Where
    BY <2>1, WriterIs
  <2>3. CASE Rename(slot - 1, slot)
    <3>1. PICK k : k = slot
      OBVIOUS
    <3>2. /\ k \in 1 .. MaxFiles /\ k - 1 \in 1 .. MaxFiles /\ k - 1 # k /\ ~Exists(k)
          /\ Rename(k - 1, k)
      BY <1>0, <2>1, <2>3, <3>1
    <3>3. k \in Name /\ k - 1 \in Name /\ Age(k) = k /\ Age(k - 1) = k - 1
      BY <3>2, NamesAre, AgesAre
    <3>4. CASE Exists(k - 1)
      <4>1. ASSUME NEW n \in Name \ {k - 1, k}
            PROVE  (Age(n) < k => Age(n) < k - 1) /\ (k < Age(n) => k - 1 < Age(n))
        <5>1. Age(n) \in Nat /\ Age(n) # k - 1
          BY <3>2, AgesAre
        <5> QED  BY <3>2, <5>1
      <4>2. Renames(k - 1, k)
        BY <3>2, <3>3, <3>4, <4>1 DEF Renames
      <4> QED  BY <2>1, <3>3, <4>2 DEF Keeps
    <3>5. CASE ~Exists(k - 1)
      <4>1. dir' = dir
        BY <3>2, <3>3, <3>5 DEF Rename, Exists, JournalInv, FilesInv
      <4> QED  BY <2>1, <4>1 DEF Keeps
    <3> QED  BY <3>4, <3>5
  <2> QED  BY <1>0, <1>1, <2>1, <2>2, <2>3
<1>6. CASE MakeCopy
  <2>1. /\ UNCHANGED <<content, handle, written>> /\ wr = "shift" /\ ~Exists(1)
        /\ (Rename(Staging, 1) \/ Rollback(Staging))
    BY <1>6 DEF MakeCopy, writerRest, JournalInv, WriterInv
  <2>2. Staging = Where /\ Exists(Staging) /\ ~Exists(Live)
    BY <1>0, <2>1, WriterIs
  <2>3. CASE Rename(Staging, 1)
    <3>1. ASSUME NEW n \in Name \ {Staging, 1}, Exists(n)
          PROVE  (Age(n) < Age(1) => Age(n) < Age(Staging)) /\ (Age(1) < Age(n) => Age(Staging) < Age(n))
      <4>1. n \in 1 .. MaxFiles /\ n # 1 /\ Age(n) = n
        BY <2>2, <3>1, AgesAre
      <4>2. Age(1) = 1 /\ Age(Staging) = 0
        BY <1>0, AgesAre
      <4> QED  BY <4>1, <4>2
    <3>2. Renames(Staging, 1)
      BY <1>0, <2>1, <2>2, <2>3, <3>1 DEF Renames
    <3> QED  BY <1>0, <2>1, <3>2 DEF Keeps
  <2> QED  BY <1>0, <1>1, <2>1, <2>2, <2>3
<1>7. CASE OpenNew
  <2>1. /\ UNCHANGED written /\ wr = "open"
        /\ \/ Create(Live) /\ handle' = Len(content) + 1
           \/ Rollback(1) /\ UNCHANGED <<content, handle>>
    BY <1>7 DEF OpenNew, writerRest
  <2>2. Where = 1 /\ ~Exists(Live) /\ ~Exists(Staging)
    BY <1>0, <2>1, WriterIs
  <2>3. Rollback(1) /\ UNCHANGED <<content, handle>> => Keeps
    <3>1. PICK x : x = 1
      OBVIOUS
    <3> QED  BY <1>0, <1>1, <2>2, <3>1
  <2> QED  BY <2>1, <2>2, <2>3 DEF Creates
<1> QED  BY <1>2, <1>3, <1>4, <1>5, <1>6, <1>7 DEF RotateStep

\* ... and what the next run does that opens the journal.
LEMMA ReopenKeeps ==
  ASSUME JournalInv, Reopen
  PROVE  UNCHANGED written /\ (Keeps \/ Creates)
<1>1. UNCHANGED written /\ handle' = dir'[Live]
  BY DEF Reopen, writerRest
<1>2. /\ Live \in Name /\ Staging \in Name /\ Live # Staging /\ dir[Where] = handle
      /\ \A n \in {Staging, Live} : n # Where => ~Exists(n)
  BY NamesAre, WriterIs
<1>3. CASE ~Exists(Live) /\ Exists(Staging) /\ Rename(Staging, Live) /\ UNCHANGED content
  <2>1. Staging = Where
    BY <1>2, <1>3
  <2>2. PICK x : x = Staging
    OBVIOUS
  <2>3. Renames(x, Live)
    BY <1>2, <1>3, <2>1, <2>2, BackRenames
  <2>4. dir'[Live] = dir[Staging]
    BY <1>2, <1>3 DEF Rename, JournalInv, FilesInv
  <2>5. handle' = handle
    BY <1>1, <1>2, <2>1, <2>4
  <2> QED  BY <1>1, <1>2, <1>3, <2>2, <2>3, <2>5 DEF Keeps
<1>4. CASE Exists(Live) /\ UNCHANGED fileVars
  <2>1. Live = Where
    BY <1>2, <1>4
  <2>2. UNCHANGED <<dir, content>>
    BY <1>4 DEF fileVars
  <2> QED  BY <1>1, <1>2, <2>1, <2>2 DEF Keeps
<1>5. CASE ~Exists(Live) /\ ~Exists(Staging) /\ Create(Live)
  <2>1. dir'[Live] = Len(content) + 1
    BY <1>2, <1>5 DEF Create, JournalInv, FilesInv
  <2> QED  BY <1>1, <1>5, <2>1 DEF Creates
<1> QED  BY <1>3, <1>4, <1>5 DEF Reopen, RestoreStaged

\* What the writer's steps leave the reader with: the files and what was
\* written only grow, at their ends, and a name is of a file there was or
\* of a new one.
Grows ==
  /\ UNCHANGED readerVars
  /\ \A f \in 1 .. Len(content) :
       /\ f \in 1 .. Len(content') /\ Len(content[f]) <= Len(content'[f])
       /\ \A j \in 1 .. Len(content[f]) : j \in 1 .. Len(content'[f]) /\ content'[f][j] = content[f][j]
  /\ \A n \in Name : dir'[n] # Absent =>
       dir'[n] = Len(content) + 1 \/ \E m \in Name : Exists(m) /\ dir[m] = dir'[n]
  /\ \A i \in 1 .. Len(written) : i \in 1 .. Len(written') /\ written'[i] = written[i]

\* Files that keep their events keep them in order.
LEMMA BookStays ==
  ASSUME FilesInv, BookInv, UNCHANGED <<content, handle, written>>
  PROVE  /\ BookInv'
         /\ \A f \in 1 .. Len(content) :
              /\ f \in 1 .. Len(content') /\ Len(content[f]) <= Len(content'[f])
              /\ \A j \in 1 .. Len(content[f]) : j \in 1 .. Len(content'[f]) /\ content'[f][j] = content[f][j]
         /\ \A i \in 1 .. Len(written) : i \in 1 .. Len(written') /\ written'[i] = written[i]
<1>1. \A f \in 1 .. Len(content) : Len(content[f]) \in Nat
  BY LenProperties DEF FilesInv
<1> QED  BY <1>1 DEF BookInv

\* A file that has one name after the other.
LEMMA DirMoves ==
  ASSUME FilesInv, DirInv, NEW x \in Name, NEW y \in Name, Renames(x, y), UNCHANGED <<content, written>>
  PROVE  /\ DirInv'
         /\ \A n \in Name : dir'[n] # Absent => \E m \in Name : Exists(m) /\ dir[m] = dir'[n]
<1> DEFINE Old(n) == IF n = y THEN x ELSE n
<1>1. /\ x # y /\ Exists(x) /\ ~Exists(y)
      /\ dir'[y] = dir[x] /\ dir'[x] = Absent
      /\ \A n \in Name \ {x, y} : dir'[n] = dir[n]
  <2>1. dir \in [Name -> 0 .. Len(content)] /\ Rename(x, y) /\ x # y /\ Exists(x) /\ ~Exists(y)
    BY DEF FilesInv, Renames
  <2> QED  BY <2>1 DEF Rename
<1>2. \A n \in Name : Exists(n)' => Old(n) \in Name /\ Exists(Old(n)) /\ dir'[n] = dir[Old(n)] /\ n # x
  BY <1>1 DEF Exists
<1>3. ASSUME NEW m \in Name, NEW n \in Name, Exists(m)', Exists(n)', Age(m) < Age(n)
      PROVE  Age(Old(m)) < Age(Old(n))
  <2>1. CASE m = y
    <3>1. n # y /\ n # x /\ Exists(n)
      BY <1>1, <1>2, <1>3, <2>1, AgesAre
    <3> QED  BY <1>3, <2>1, <3>1 DEF Renames
  <2>2. CASE m # y /\ n = y
    <3>1. m # x /\ Exists(m)
      BY <1>2, <1>3, <2>2
    <3> QED  BY <1>3, <2>2, <3>1 DEF Renames
  <2>3. CASE m # y /\ n # y
    BY <1>3, <2>3
  <2> QED  BY <2>1, <2>2, <2>3
<1>4. ASSUME NEW m \in Name, NEW n \in Name, Exists(m)', Exists(n)', Age(m) < Age(n)
      PROVE  dir'[n] < dir'[m]
  <2>1. /\ Old(m) \in Name /\ Exists(Old(m)) /\ dir'[m] = dir[Old(m)]
        /\ Old(n) \in Name /\ Exists(Old(n)) /\ dir'[n] = dir[Old(n)]
    BY <1>2, <1>4
  <2>2. Age(Old(m)) < Age(Old(n))
    BY <1>3, <1>4
  <2> HIDE DEF Old
  <2> QED  BY <2>1, <2>2 DEF DirInv
<1>5. ASSUME NEW n \in Name, Exists(n)', NEW f \in dir'[n] .. Len(content')
      PROVE  \E m \in Name : dir'[m] = f
  <2>1. Old(n) \in Name /\ Exists(Old(n)) /\ f \in dir[Old(n)] .. Len(content)
    BY <1>2, <1>5
  <2>2. PICK m \in Name : dir[m] = f
    <3> HIDE DEF Old
    <3> QED  BY <2>1 DEF DirInv
  <2>3. f # Absent
    <3>1. dir[Old(n)] \in 0 .. Len(content) /\ dir[Old(n)] # Absent /\ Len(content) \in Nat
      BY <2>1, LenProperties DEF FilesInv, Exists
    <3> HIDE DEF Old
    <3> QED  BY <2>1, <3>1 DEF Absent
  <2>4. CASE m = x
    BY <1>1, <2>2, <2>4
  <2>5. CASE m # x
    <3>1. m # y
      BY <1>1, <2>2, <2>3 DEF Exists
    <3> QED  BY <1>1, <2>2, <2>5, <3>1
  <2> QED  BY <2>4, <2>5
<1>6. DirInv'
  BY <1>4, <1>5 DEF DirInv
<1>7. ASSUME NEW n \in Name, dir'[n] # Absent PROVE \E m \in Name : Exists(m) /\ dir[m] = dir'[n]
  BY <1>2, <1>7 DEF Exists
<1> QED  BY <1>6, <1>7

\* The oldest file goes.
LEMMA DirDrops ==
  ASSUME FilesInv, DirInv, Drops, UNCHANGED content
  PROVE  /\ DirInv'
         /\ \A n \in Name : dir'[n] # Absent => \E m \in Name : Exists(m) /\ dir[m] = dir'[n]
<1>0. /\ MaxFiles \in Name /\ Exists(MaxFiles) /\ MaxFiles \in Nat /\ MaxFiles \in 1 .. MaxFiles
      /\ dir \in [Name -> 0 .. Len(content)] /\ Len(content) \in Nat
  BY NamesAre, LenProperties DEF Drops, FilesInv
<1>1. dir'[MaxFiles] = Absent /\ \A n \in Name \ {MaxFiles} : dir'[n] = dir[n]
  BY <1>0 DEF Drops
<1>2. \A n \in Name : Exists(n)' => n # MaxFiles /\ Exists(n) /\ dir'[n] = dir[n]
  BY <1>1 DEF Exists
<1>3. ASSUME NEW n \in Name, n # MaxFiles PROVE Age(n) < Age(MaxFiles)
  <2>1. Age(MaxFiles) = MaxFiles
    BY <1>0, AgesAre
  <2>2. Age(n) = 0 \/ (n \in 1 .. MaxFiles /\ Age(n) = n)
    BY AgesAre
  <2> QED  BY <1>0, <1>3, <2>1, <2>2
<1>4. ASSUME NEW n \in Name, Exists(n)', NEW f \in dir'[n] .. Len(content')
      PROVE  \E m \in Name : dir'[m] = f
  <2>1. n # MaxFiles /\ Exists(n) /\ f \in dir[n] .. Len(content)
    BY <1>2, <1>4
  <2>2. PICK m \in Name : dir[m] = f
    BY <2>1 DEF DirInv
  <2>3. dir[MaxFiles] < dir[n]
    BY <1>0, <1>3, <2>1 DEF DirInv
  <2>4. dir[MaxFiles] \in Nat /\ dir[n] \in Nat /\ f \in Int /\ dir[n] <= f
    BY <1>0, <2>1
  <2>5. m # MaxFiles
    BY <2>2, <2>3, <2>4
  <2> QED  BY <1>1, <2>2, <2>5
<1>5. DirInv'
  BY <1>2, <1>4 DEF DirInv
<1> QED  BY <1>2, <1>5 DEF Exists

\* A step of the rotation, or of a run that opens the journal, writes nothing.
LEMMA KeepsFiles ==
  ASSUME FilesInv, BookInv, DirInv, Keeps, UNCHANGED written
  PROVE  /\ BookInv' /\ DirInv'
         /\ UNCHANGED readerVars => Grows
<1>1. UNCHANGED <<content, handle, written>>
  BY DEF Keeps
<1>2. /\ DirInv'
      /\ \A n \in Name : dir'[n] # Absent => \E m \in Name : Exists(m) /\ dir[m] = dir'[n]
  <2>1. CASE UNCHANGED dir
    BY <1>1, <2>1 DEF DirInv, Exists
  <2>2. CASE Drops
    BY <1>1, <2>2, DirDrops
  <2>3. CASE \E x, y \in Name : Renames(x, y)
    BY <1>1, <2>3, DirMoves
  <2> QED  BY <2>1, <2>2, <2>3 DEF Keeps
<1> QED  BY <1>1, <1>2, BookStays DEF Grows

\* A fresh live file is the newest.
LEMMA CreatesFiles ==
  ASSUME FilesInv, BookInv, DirInv, Creates, UNCHANGED written
  PROVE  /\ BookInv' /\ DirInv'
         /\ UNCHANGED readerVars => Grows
<1>1. PICK k \in Nat : k = Len(content)
  BY LenProperties DEF FilesInv
<1>2. /\ content \in Seq(Seq(EventId)) /\ dir \in [Name -> 0 .. k] /\ Live \in Name /\ Live = 0
      /\ content' = Append(content, <<>>) /\ handle' = k + 1
      /\ dir' = [dir EXCEPT ![Live] = k + 1] /\ ~Exists(Live) /\ ~Exists(Staging)
  BY <1>1, NamesAre DEF FilesInv, Creates, Create
<1>3. /\ Len(content') = k + 1 /\ content'[k + 1] = <<>>
      /\ \A f \in 1 .. k : f \in 1 .. k + 1 /\ content'[f] = content[f]
  <2>1. <<>> \in Seq(EventId)
    BY EmptySeq
  <2> QED  BY <1>1, <1>2, <2>1, AppendProperties
<1>4. dir'[Live] = k + 1 /\ \A n \in Name \ {Live} : dir'[n] = dir[n]
  BY <1>2
<1>5. \A f \in 1 .. k + 1 : f \in 1 .. k \/ (f = k + 1 /\ Len(content'[f]) = 0)
  BY <1>3, EmptySeq
<1>6. \A f \in 1 .. k : Len(content[f]) \in Nat
  BY <1>1, LenProperties DEF FilesInv
<1>7. BookInv'
  <2>1. \A f \in 1 .. k : /\ Rising(content[f])
                          /\ \A j \in 1 .. Len(content[f]) : \E i \in 1 .. Len(written) : written[i] = content[f][j]
    BY <1>1 DEF BookInv
  <2>2. Rising(<<>>)
    BY DEF Rising
  <2>3. ASSUME NEW f \in 1 .. k + 1
        PROVE  /\ Rising(content'[f])
               /\ \A j \in 1 .. Len(content'[f]) : \E i \in 1 .. Len(written') : written'[i] = content'[f][j]
    BY <1>3, <1>5, <2>1, <2>2
  <2>4. ASSUME NEW f \in 1 .. k + 1, NEW g \in 1 .. k + 1, f < g,
               NEW i \in 1 .. Len(content'[f]), NEW j \in 1 .. Len(content'[g])
        PROVE  Earlier(content'[f][i], content'[g][j])
    <3>1. f \in 1 .. k /\ g \in 1 .. k
      BY <1>5, <2>4
    <3>2. content'[f] = content[f] /\ content'[g] = content[g]
      BY <1>3, <3>1
    <3> QED  BY <1>1, <2>4, <3>1, <3>2 DEF BookInv
  <2>5. handle' = Len(content') /\ Len(content') = k + 1
    BY <1>2, <1>3
  <2> QED  BY <2>3, <2>4, <2>5, Zenon DEF BookInv
<1>8. DirInv'
  <2>1. \A n \in Name : Exists(n)' => n = Live \/ (n # Live /\ Exists(n) /\ dir'[n] = dir[n] /\ Age(n) # 0)
    <3>1. \A n \in Name \ {Live} : Age(n) = 0 => n = Staging
      BY NamesAre, AgesAre
    <3> QED  BY <1>2, <1>4, <3>1 DEF Exists
  <2>2. ASSUME NEW m \in Name, NEW n \in Name, Exists(m)', Exists(n)', Age(m) < Age(n)
        PROVE  dir'[n] < dir'[m]
    <3>1. n # Live
      <4>1. Age(m) \in Nat /\ Age(Live) = 0
        BY NamesAre, AgesAre
      <4> QED  BY <2>2, <4>1
    <3>2. Exists(n) /\ dir'[n] = dir[n] /\ dir[n] \in 0 .. k
      BY <1>2, <2>1, <2>2, <3>1
    <3>3. CASE m = Live
      BY <1>4, <3>2, <3>3
    <3>4. CASE m # Live
      BY <2>1, <2>2, <3>2, <3>4 DEF DirInv
    <3> QED  BY <3>3, <3>4
  <2>3. ASSUME NEW n \in Name, Exists(n)', NEW f \in dir'[n] .. Len(content')
        PROVE  \E m \in Name : dir'[m] = f
    <3>1. CASE n = Live
      BY <1>2, <1>3, <1>4, <2>3, <3>1
    <3>2. CASE n # Live
      <4>1. Exists(n) /\ dir[n] \in 0 .. k /\ dir'[n] = dir[n] /\ dir[n] # 0
        BY <1>2, <2>1, <2>3, <3>2 DEF Exists, Absent
      <4>2. f \in dir[n] .. k \/ f = k + 1
        BY <1>3, <2>3, <4>1
      <4>3. CASE f \in dir[n] .. k
        <5>1. PICK m \in Name : dir[m] = f
          BY <1>1, <4>1, <4>3 DEF DirInv
        <5>2. f # 0
          BY <4>1, <4>3
        <5>3. m # Live
          BY <1>2, <5>1, <5>2 DEF Exists, Absent
        <5> QED  BY <1>4, <5>1, <5>3
      <4>4. CASE f = k + 1
        BY <1>2, <1>4, <4>4
      <4> QED  BY <4>2, <4>3, <4>4
    <3> QED  BY <3>1, <3>2
  <2> QED  BY <2>2, <2>3 DEF DirInv
<1>9. ASSUME NEW n \in Name, dir'[n] # Absent
      PROVE  dir'[n] = k + 1 \/ \E m \in Name : Exists(m) /\ dir[m] = dir'[n]
  BY <1>4, <1>9 DEF Exists
<1>10. ASSUME UNCHANGED readerVars PROVE Grows
  <2>1. \A f \in 1 .. k : /\ f \in 1 .. k + 1 /\ Len(content[f]) <= Len(content'[f])
                          /\ \A j \in 1 .. Len(content[f]) : j \in 1 .. Len(content'[f]) /\ content'[f][j] = content[f][j]
    BY <1>3, <1>6
  <2> QED  BY <1>1, <1>3, <1>9, <1>10, <2>1 DEF Grows
<1> QED  BY <1>7, <1>8, <1>10

\* What is appended last is the latest.
LEMMA RisingAppend ==
  ASSUME NEW s \in Seq(EventId), NEW e \in EventId, Rising(s), \A i \in 1 .. Len(s) : Earlier(s[i], e)
  PROVE  /\ Append(s, e) \in Seq(EventId) /\ Len(Append(s, e)) = Len(s) + 1 /\ Len(s) \in Nat
         /\ Append(s, e)[Len(s) + 1] = e /\ \A i \in 1 .. Len(s) : Append(s, e)[i] = s[i]
         /\ \A i \in 1 .. Len(s) + 1 : i \in 1 .. Len(s) \/ i = Len(s) + 1
         /\ Rising(Append(s, e))
<1> DEFINE t == Append(s, e)
<1>1. PICK l \in Nat : l = Len(s)
  BY LenProperties
<1>2. /\ t \in Seq(EventId) /\ Len(t) = l + 1 /\ t[l + 1] = e /\ \A i \in 1 .. l : t[i] = s[i]
  BY <1>1, AppendProperties
<1>3. \A i \in 1 .. l + 1 : i \in 1 .. l \/ i = l + 1
  OBVIOUS
<1> HIDE DEF t
<1>4. ASSUME NEW i \in 1 .. l + 1, NEW j \in 1 .. l + 1, i < j PROVE Earlier(t[i], t[j])
  <2>1. i \in 1 .. l
    BY <1>4
  <2>2. CASE j \in 1 .. l
    BY <1>1, <1>2, <1>4, <2>1, <2>2 DEF Rising
  <2>3. CASE j = l + 1
    BY <1>1, <1>2, <2>1, <2>3
  <2> QED  BY <1>3, <2>2, <2>3
<1>5. Rising(t)
  BY <1>2, <1>4 DEF Rising
<1> QED  BY <1>1, <1>2, <1>3, <1>5 DEF t

\* An event goes to the end of the newest file.
LEMMA WritesFiles ==
  ASSUME FilesInv, WriterInv, BookInv, DirInv, Rising(written), NEW e \in EventId,
         \A i \in 1 .. Len(written) : Earlier(written[i], e),
         dir' = dir, handle' = handle,
         content' = [content EXCEPT ![handle] = Append(@, e)], written' = Append(written, e)
  PROVE  /\ BookInv' /\ DirInv' /\ Rising(written')
         /\ Len(written') = Len(written) + 1 /\ Len(written) \in Nat /\ written'[Len(written) + 1] = e
         /\ \A i \in 1 .. Len(written) : written'[i] = written[i]
         /\ UNCHANGED readerVars => Grows
<1>1. PICK k \in Nat : k = Len(content)
  BY LenProperties DEF FilesInv
<1>2. /\ content \in Seq(Seq(EventId)) /\ written \in Seq(EventId) /\ handle = k
      /\ DOMAIN content = 1 .. k /\ \A f \in 1 .. k : content[f] \in Seq(EventId) /\ Len(content[f]) \in Nat
  BY <1>1, LenProperties DEF FilesInv, BookInv
<1>3. k \in 1 .. k
  <2>1. Where \in Name /\ dir[Where] = handle /\ handle # Absent
    BY NamesAre DEF WriterInv, Where
  <2>2. handle \in 0 .. k
    BY <1>1, <2>1 DEF FilesInv
  <2> QED  BY <1>2, <2>1, <2>2 DEF Absent
<1> DEFINE s == content[k]
<1>4. PICK l \in Nat : l = Len(written)
  BY <1>2, LenProperties
<1>5. /\ written' \in Seq(EventId) /\ Len(written') = l + 1 /\ written'[l + 1] = e
      /\ \A i \in 1 .. l : written'[i] = written[i]
      /\ Rising(written')
  BY <1>2, <1>4, RisingAppend
<1>6. \A i \in 1 .. l : i \in 1 .. l + 1 /\ i # l + 1
  OBVIOUS
<1>7. \A f \in 1 .. k : /\ Rising(content[f])
                        /\ \A j \in 1 .. Len(content[f]) : \E i \in 1 .. l : written[i] = content[f][j]
  BY <1>1, <1>4 DEF BookInv
<1>8. \A f \in 1 .. k : \A j \in 1 .. Len(content[f]) : Earlier(content[f][j], e)
  BY <1>4, <1>7
<1>9. PICK n \in Nat : n = Len(s)
  BY <1>2, <1>3
<1>10. /\ Append(s, e) \in Seq(EventId) /\ Len(Append(s, e)) = n + 1
       /\ Append(s, e)[n + 1] = e /\ \A i \in 1 .. n : Append(s, e)[i] = s[i]
       /\ \A i \in 1 .. n + 1 : i \in 1 .. n \/ i = n + 1
       /\ Rising(Append(s, e))
  <2>1. s \in Seq(EventId) /\ Rising(s) /\ \A i \in 1 .. Len(s) : Earlier(s[i], e)
    BY <1>2, <1>3, <1>7, <1>8
  <2> HIDE DEF s
  <2> QED  BY <1>9, <2>1, RisingAppend
<1>11. /\ Len(content') = k /\ content'[k] = Append(s, e)
       /\ \A f \in 1 .. k : f # k => content'[f] = content[f]
  <2>1. content' = [content EXCEPT ![k] = Append(s, e)] /\ Append(s, e) \in Seq(EventId)
    BY <1>2, <1>10
  <2>2. content' \in Seq(Seq(EventId)) /\ Len(content') = k
    <3> HIDE DEF s
    <3> QED  BY <1>1, <1>2, <1>3, <2>1, ExceptSeq
  <2> QED  BY <1>2, <1>3, <2>1, <2>2
<1>12. \A f \in 1 .. k : /\ Len(content[f]) <= Len(content'[f])
                         /\ \A j \in 1 .. Len(content[f]) : j \in 1 .. Len(content'[f]) /\ content'[f][j] = content[f][j]
  <2>1. ASSUME NEW f \in 1 .. k, f # k
        PROVE  content'[f] = content[f] /\ Len(content[f]) \in Nat
    BY <1>2, <1>11, <2>1
  <2>2. /\ Len(content[k]) <= Len(content'[k])
        /\ \A j \in 1 .. Len(content[k]) : j \in 1 .. Len(content'[k]) /\ content'[k][j] = content[k][j]
    BY <1>9, <1>10, <1>11
  <2> QED  BY <2>1, <2>2
<1> HIDE DEF s
<1>13. ASSUME NEW f \in 1 .. k, NEW j \in 1 .. Len(content'[f])
       PROVE  \/ j \in 1 .. Len(content[f]) /\ content'[f][j] = content[f][j]
              \/ f = k /\ content'[f][j] = e
  <2>1. CASE f # k
    BY <1>11, <1>13, <2>1
  <2>2. CASE f = k
    <3>1. j \in 1 .. n \/ j = n + 1
      BY <1>10, <1>11, <1>13, <2>2
    <3> QED  BY <1>9, <1>10, <1>11, <2>2, <3>1 DEF s
  <2> QED  BY <2>1, <2>2
<1>14. BookInv'
  <2>0. handle' = Len(content') /\ Len(content') = k /\ Len(written') = l + 1
    BY <1>2, <1>5, <1>11
  <2>1. ASSUME NEW f \in 1 .. Len(content')
        PROVE  /\ Rising(content'[f])
               /\ \A j \in 1 .. Len(content'[f]) : \E i \in 1 .. Len(written') : written'[i] = content'[f][j]
    <3>0. f \in 1 .. k
      BY <2>0
    <3>1. Rising(content'[f])
      BY <1>7, <1>10, <1>11, <3>0
    <3>2. ASSUME NEW j \in 1 .. Len(content'[f]) PROVE \E i \in 1 .. Len(written') : written'[i] = content'[f][j]
      <4>1. CASE j \in 1 .. Len(content[f]) /\ content'[f][j] = content[f][j]
        <5>1. PICK i \in 1 .. l : written[i] = content[f][j]
          BY <1>7, <3>0, <4>1
        <5> QED  BY <1>5, <1>6, <2>0, <4>1, <5>1
      <4>2. CASE content'[f][j] = e
        <5>1. l + 1 \in 1 .. Len(written')
          BY <2>0
        <5> QED  BY <1>5, <4>2, <5>1
      <4> QED  BY <1>13, <3>0, <4>1, <4>2
    <3> QED  BY <3>1, <3>2
  <2>2. ASSUME NEW f \in 1 .. Len(content'), NEW g \in 1 .. Len(content'), f < g,
               NEW i \in 1 .. Len(content'[f]), NEW j \in 1 .. Len(content'[g])
        PROVE  Earlier(content'[f][i], content'[g][j])
    <3>0. f \in 1 .. k /\ g \in 1 .. k
      BY <2>0
    <3>1. f # k
      BY <2>2, <3>0
    <3>2. i \in 1 .. Len(content[f]) /\ content'[f][i] = content[f][i]
      BY <1>13, <3>0, <3>1
    <3>3. CASE j \in 1 .. Len(content[g]) /\ content'[g][j] = content[g][j]
      BY <1>1, <2>2, <3>0, <3>2, <3>3 DEF BookInv
    <3>4. CASE content'[g][j] = e
      BY <1>8, <3>0, <3>2, <3>4
    <3> QED  BY <1>13, <3>0, <3>3, <3>4
  <2> QED  BY <2>0, <2>1, <2>2, Zenon DEF BookInv
<1>15. DirInv'
  <2>1. Len(content') = Len(content)
    BY <1>1, <1>11
  <2> QED  BY <2>1 DEF DirInv, Exists
<1>16. ASSUME UNCHANGED readerVars PROVE Grows
  <2>1. \A f \in 1 .. Len(content) :
          /\ f \in 1 .. Len(content') /\ Len(content[f]) <= Len(content'[f])
          /\ \A j \in 1 .. Len(content[f]) : j \in 1 .. Len(content'[f]) /\ content'[f][j] = content[f][j]
    BY <1>1, <1>11, <1>12
  <2>2. \A x \in Name : dir'[x] # Absent => \E y \in Name : Exists(y) /\ dir[y] = dir'[x]
    BY DEF Exists
  <2>3. \A i \in 1 .. Len(written) : i \in 1 .. Len(written') /\ written'[i] = written[i]
    BY <1>4, <1>5, <1>6
  <2> QED  BY <1>16, <2>1, <2>2, <2>3 DEF Grows
<1> QED  BY <1>4, <1>5, <1>14, <1>15, <1>16

\* What was written, in which files, under which names.
WrittenInv == NumberInv /\ BookInv /\ DirInv

\* Nothing is written, or everything that was stays and a later event is added.
LEMMA EmitWrites ==
  ASSUME JournalInv, WrittenInv, NEW e, e = [run |-> run, seq |-> sequence + 1], WriteEvent(e),
         watch = "query", sequence' = sequence + 1, UNCHANGED <<watch, run>>
  PROVE  WrittenInv' /\ Grows
<1>1. /\ run \in Nat \ {0} /\ sequence \in Nat
      /\ \A i \in 1 .. Len(written) :
           written[i].run < run \/ (written[i].run = run /\ written[i].seq <= sequence)
  BY DEF WrittenInv, NumberInv
<1>2. PICK l \in Nat : l = Len(written)
  BY LenProperties DEF JournalInv, FilesInv
<1>3. \A i \in 1 .. l : written[i] \in EventId
  BY <1>2, LenProperties DEF JournalInv, FilesInv
<1>4. UNCHANGED <<dir, handle, readerVars>>
  BY DEF WriteEvent
<1>5. CASE UNCHANGED <<content, written>>
  <2>1. BookInv' /\ Grows
    <3>1. FilesInv /\ BookInv
      BY DEF WrittenInv, JournalInv
    <3>2. \A n \in Name : dir'[n] # Absent => \E m \in Name : Exists(m) /\ dir[m] = dir'[n]
      BY <1>4 DEF Exists
    <3> QED  BY <1>4, <1>5, <3>1, <3>2, BookStays DEF Grows
  <2>2. DirInv'
    BY <1>4, <1>5 DEF WrittenInv, DirInv, Exists
  <2>3. \A i \in 1 .. l :
          written[i].run < run' \/ (written[i].run = run' /\ written[i].seq <= sequence')
    BY <1>1, <1>2, <1>3 DEF EventId
  <2>4. NumberInv'
    BY <1>1, <1>2, <1>5, <2>3 DEF WrittenInv, NumberInv
  <2> QED  BY <2>1, <2>2, <2>4 DEF WrittenInv
<1>6. CASE content' = [content EXCEPT ![handle] = Append(@, e)] /\ written' = Append(written, e)
  <2>1. e \in EventId /\ e # NoEvent
    BY <1>1 DEF EventId, NoEvent
  <2>2. \A i \in 1 .. l : Earlier(written[i], e)
    BY <1>1, <1>2, <1>3 DEF EventId, Earlier
  <2>3. /\ BookInv' /\ DirInv' /\ Rising(written')
        /\ Len(written') = l + 1 /\ written'[l + 1] = e
        /\ \A i \in 1 .. l : written'[i] = written[i]
        /\ Grows
    BY <1>2, <1>4, <1>6, <2>1, <2>2, WritesFiles DEF JournalInv, WrittenInv, NumberInv
  <2>4. ASSUME NEW i \in 1 .. l + 1
        PROVE  /\ written'[i] # NoEvent
               /\ written'[i].run < run' \/ (written'[i].run = run' /\ written'[i].seq <= sequence')
    <3>1. i \in 1 .. l \/ i = l + 1
      OBVIOUS
    <3>2. CASE i \in 1 .. l
      BY <1>1, <1>2, <1>3, <2>3, <3>2 DEF WrittenInv, NumberInv, EventId
    <3>3. CASE i = l + 1
      BY <1>1, <2>1, <2>3, <3>3
    <3> QED  BY <3>1, <3>2, <3>3
  <2>5. NumberInv'
    BY <1>1, <2>3, <2>4 DEF NumberInv
  <2> QED  BY <2>3, <2>5 DEF WrittenInv
<1> QED  BY <1>5, <1>6 DEF WriteEvent

-----------------------------------------------------------------------------
(* What the reader has *)

\* The name that is opened as the i-th.
NameAt(i) == IF i <= MaxFiles + 1 THEN MaxFiles + 1 - i ELSE Staging

\* The files that were pinned are those that were opened, in their order.
Pins(pins, seen) ==
  /\ \A i \in 1 .. Len(pins) : \E k \in 1 .. Len(seen) : seen[k].file = pins[i].file
  /\ \A k \in 1 .. Len(seen) :
       seen[k].file # Absent => \E i \in 1 .. Len(pins) : pins[i].file = seen[k].file
  /\ \A i, j \in 1 .. Len(pins) : i < j =>
       \E k, l \in 1 .. Len(seen) :
         k < l /\ seen[k].file = pins[i].file /\ seen[l].file = pins[j].file

Observation == [name : Name, file : Nat]
Pinning == [file : Nat, size : Nat]

\* A pinned file has what it had when it was pinned; the files that are
\* scanned were opened from the oldest to the newest.
PinInv ==
  /\ pinned \in Seq(Pinning)
  /\ \A i \in 1 .. Len(pinned) :
       pinned[i].file \in 1 .. Len(content) /\ pinned[i].size <= Len(content[pinned[i].file])
  /\ rd = "scan" => \A i, j \in 1 .. Len(pinned) : i < j => pinned[i].file < pinned[j].file

\* The names that were opened.
LookInv ==
  /\ rd \in {"idle", "open", "check", "scan"}
  /\ observed \in Seq(Observation)
  /\ \A i \in 1 .. Len(observed) : observed[i].name = NameAt(i)
  /\ rd = "open" => \/ Len(observed) <= MaxFiles
                    \/ Len(observed) = MaxFiles + 1 /\ observed[MaxFiles + 1].file = Absent
  /\ rd = "check" => \/ Len(observed) = MaxFiles + 1 /\ observed[MaxFiles + 1].file # Absent
                     \/ Len(observed) = MaxFiles + 2
  /\ rd \in {"open", "check"} => Pins(pinned, observed)

ReaderInv == PinInv /\ LookInv

\* Where no gap is flagged, pages meet; the client's cursor is the last event
\* it has, or the next page is flagged.
PagesMeet ==
  /\ \A i \in 1 .. Len(got) - 1 :
       i + 1 \notin flagged /\ got[i + 1].run = got[i].run => got[i + 1].seq = got[i].seq + 1
  /\ IF cursor = NoEvent THEN got = <<>> \/ Len(got) + 1 \in flagged
     ELSE got # <<>> /\ cursor = got[Len(got)]

\* What was returned was written, and is in that order.
GotInv ==
  /\ got \in Seq(EventId) /\ Rising(got)
  /\ \A i \in 1 .. Len(got) : \E j \in 1 .. Len(written) : written[j] = got[i]
  /\ PagesMeet

\* Every file that is kept or pinned is newer.
Past(f) == /\ \A n \in Name : Exists(n) => f < dir[n]
           /\ \A i \in 1 .. Len(pinned) : f < pinned[i].file

\* A file that was pinned again still has the last event that was returned;
\* one that is gone never comes back.
LastInv ==
  got # <<>> =>
    \E f \in 1 .. Len(content) : \E j \in 1 .. Len(content[f]) :
      /\ content[f][j] = got[Len(got)]
      /\ \A i \in 1 .. Len(pinned) : pinned[i].file = f => j <= pinned[i].size
      /\ tail \/ cursor = NoEvent => Past(f)
      /\ rd = "scan" => Past(f) \/ \E i \in 1 .. Len(pinned) : pinned[i].file = f

\* What is pinned of a file is in it.
LEMMA PinIs ==
  ASSUME JournalInv, PinInv, NEW i \in 1 .. Len(pinned)
  PROVE  /\ pinned[i].file \in 1 .. Len(content) /\ pinned[i].size \in Nat
         /\ pinned[i].size <= Len(content[pinned[i].file])
         /\ content[pinned[i].file] \in Seq(EventId) /\ Len(content[pinned[i].file]) \in Nat
<1>1. pinned[i] \in Pinning /\ pinned[i].file \in 1 .. Len(content)
      /\ pinned[i].size <= Len(content[pinned[i].file])
  BY LenProperties DEF PinInv
<1>2. content[pinned[i].file] \in Seq(EventId)
  BY <1>1, LenProperties DEF JournalInv, FilesInv
<1> QED  BY <1>1, <1>2, LenProperties DEF Pinning

\* What the reader has is still there when the files have grown.
LEMMA ReaderRests ==
  ASSUME JournalInv, JournalInv', Grows, ReaderInv, GotInv, LastInv
  PROVE  ReaderInv' /\ GotInv' /\ LastInv'
<1>1. UNCHANGED <<rd, observed, pinned, cursor, tail, got, flagged>>
  BY DEF Grows, readerVars
<1>2. \A f \in 1 .. Len(content) :
        /\ f \in 1 .. Len(content') /\ Len(content[f]) <= Len(content'[f])
        /\ \A j \in 1 .. Len(content[f]) : j \in 1 .. Len(content'[f]) /\ content'[f][j] = content[f][j]
  BY DEF Grows
<1>3. ReaderInv'
  <2>1. ASSUME NEW i \in 1 .. Len(pinned)
        PROVE  pinned[i].file \in 1 .. Len(content') /\ pinned[i].size <= Len(content'[pinned[i].file])
    <3>1. PICK f : f = pinned[i].file
      OBVIOUS
    <3>2. /\ f \in 1 .. Len(content) /\ pinned[i].size \in Nat /\ Len(content[f]) \in Nat
          /\ pinned[i].size <= Len(content[f])
      BY <3>1, PinIs DEF ReaderInv
    <3>3. f \in 1 .. Len(content') /\ Len(content[f]) <= Len(content'[f])
      BY <1>2, <3>2
    <3>4. Len(content'[f]) \in Nat
      BY <3>3, LenProperties DEF JournalInv, FilesInv
    <3> QED  BY <3>1, <3>2, <3>3, <3>4
  <2>2. PinInv'
    BY <1>1, <2>1 DEF ReaderInv, PinInv
  <2>3. LookInv'
    BY <1>1 DEF ReaderInv, LookInv
  <2> QED  BY <2>2, <2>3 DEF ReaderInv
<1>4. GotInv'
  <2>1. \A j \in 1 .. Len(written) : j \in 1 .. Len(written') /\ written'[j] = written[j]
    BY Zenon DEF Grows
  <2>2. ASSUME NEW i \in 1 .. Len(got) PROVE \E j \in 1 .. Len(written') : written'[j] = got[i]
    <3>1. PICK j \in 1 .. Len(written) : written[j] = got[i]
      BY DEF GotInv
    <3> QED  BY <2>1, <3>1
  <2>3. PagesMeet'
    BY <1>1 DEF GotInv, PagesMeet
  <2> QED  BY <1>1, <2>2, <2>3 DEF GotInv
<1>5. ASSUME NEW f \in 1 .. Len(content), Past(f) PROVE Past(f)'
  <2>1. ASSUME NEW n \in Name, Exists(n)' PROVE f < dir'[n]
    <3>1. dir'[n] = Len(content) + 1 \/ \E m \in Name : Exists(m) /\ dir[m] = dir'[n]
      BY <2>1 DEF Grows, Exists
    <3>2. Len(content) \in Nat
      BY LenProperties DEF JournalInv, FilesInv
    <3> QED  BY <1>5, <3>1, <3>2 DEF Past
  <2> QED  BY <1>1, <1>5, <2>1 DEF Past
<1>6. LastInv'
  <2>1. SUFFICES ASSUME got # <<>>
        PROVE  \E f \in 1 .. Len(content') : \E j \in 1 .. Len(content'[f]) :
                 /\ content'[f][j] = got[Len(got)]
                 /\ \A i \in 1 .. Len(pinned) : pinned[i].file = f => j <= pinned[i].size
                 /\ tail \/ cursor = NoEvent => Past(f)'
                 /\ rd = "scan" => Past(f)' \/ \E i \in 1 .. Len(pinned) : pinned[i].file = f
    BY <1>1 DEF LastInv
  <2>2. PICK f \in 1 .. Len(content) : \E j \in 1 .. Len(content[f]) :
          /\ content[f][j] = got[Len(got)]
          /\ \A i \in 1 .. Len(pinned) : pinned[i].file = f => j <= pinned[i].size
          /\ tail \/ cursor = NoEvent => Past(f)
          /\ rd = "scan" => Past(f) \/ \E i \in 1 .. Len(pinned) : pinned[i].file = f
    BY <2>1 DEF LastInv
  <2>3. f \in 1 .. Len(content')
        /\ \A j \in 1 .. Len(content[f]) : j \in 1 .. Len(content'[f]) /\ content'[f][j] = content[f][j]
    BY <1>2
  <2>4. Past(f) => Past(f)'
    BY <1>5
  <2> QED  BY <2>2, <2>3, <2>4
<1> QED  BY <1>3, <1>4, <1>6

-----------------------------------------------------------------------------
(* The query *)

\* A query that begins, begins again or is given up has no files.
LEMMA PinsGone ==
  ASSUME ReaderInv, GotInv, UNCHANGED <<content, written, dir, cursor, got, flagged>>,
         observed' = <<>>, pinned' = <<>>, rd' \in {"open", "idle"}
  PROVE  /\ ReaderInv' /\ GotInv'
         /\ \A f : Past(f) => Past(f)'
         /\ LastInv /\ (tail' => tail) => LastInv'
<1>1. /\ Len(observed') = 0 /\ Len(pinned') = 0 /\ \A i \in 1 .. 0 : FALSE
      /\ observed' \in Seq(Observation) /\ pinned' \in Seq(Pinning)
  BY EmptySeq
<1>2. ReaderInv'
  <2>1. 0 <= MaxFiles
    BY NamesAre
  <2> QED  BY <1>1, <2>1 DEF ReaderInv, PinInv, LookInv, Pins
<1>3. GotInv'
  BY DEF GotInv, PagesMeet
<1>4. \A f : Past(f) => Past(f)'
  BY <1>1 DEF Past, Exists
<1>5. ASSUME LastInv, tail' => tail PROVE LastInv'
  BY <1>1, <1>4, <1>5 DEF LastInv
<1> QED  BY <1>2, <1>3, <1>4, <1>5

\* A query begins with nothing opened.
LEMMA BeginPages ==
  ASSUME ReaderInv, GotInv, LastInv, BeginQuery
  PROVE  ReaderInv' /\ GotInv' /\ LastInv'
<1>1. /\ UNCHANGED <<content, written, dir, cursor, got, flagged>>
      /\ observed' = <<>> /\ pinned' = <<>> /\ rd' \in {"open", "idle"} /\ (tail' => tail)
  BY DEF BeginQuery, readerRest, fileVars
<1> QED  BY <1>1, PinsGone

\* The next file is opened under the name it has at that moment.
LEMMA OpenPages ==
  ASSUME JournalInv, ReaderInv, GotInv, LastInv, OpenFile
  PROVE  ReaderInv' /\ GotInv' /\ LastInv'
<1> DEFINE k == Len(observed) + 1
           n == IF k <= MaxFiles + 1 THEN Opens[k] ELSE Staging
           look == [name |-> n, file |-> dir[n]]
           pin == [file |-> dir[n], size |-> Len(content[dir[n]])]
<1>1. /\ rd = "open" /\ observed' = Append(observed, look)
      /\ (Exists(n) => pinned' = Append(pinned, pin)) /\ (~Exists(n) => pinned' = pinned)
      /\ rd' = IF n = Staging \/ (n = Live /\ Exists(n)) THEN "check" ELSE "open"
      /\ UNCHANGED <<dir, content, written, cursor, tail, got, flagged>>
  BY DEF OpenFile, Pin, readerRest, fileVars
<1>2. /\ MaxFiles \in Nat \ {0} /\ Len(observed) \in Nat /\ k \in Nat
      /\ observed \in Seq(Observation) /\ pinned \in Seq(Pinning)
      /\ \A i \in 1 .. Len(observed) : observed[i].name = NameAt(i)
      /\ Len(observed) <= MaxFiles \/ (Len(observed) = MaxFiles + 1 /\ observed[MaxFiles + 1].file = Absent)
      /\ Pins(pinned, observed)
  BY <1>1, NamesAre, LenProperties DEF ReaderInv, PinInv, LookInv
<1>3. n = NameAt(k) /\ n \in Name
  <2>1. k <= MaxFiles + 1 => n = MaxFiles + 1 - k /\ MaxFiles + 1 - k \in 0 .. MaxFiles
    BY <1>2 DEF Opens
  <2> QED  BY <2>1, <1>2, NamesAre DEF NameAt, Name
<1>4. dir[n] \in 0 .. Len(content) /\ Len(content) \in Nat
  BY <1>3, LenProperties DEF JournalInv, FilesInv
<1>5. ASSUME Exists(n)
      PROVE  /\ dir[n] \in 1 .. Len(content) /\ Len(content[dir[n]]) \in Nat
  <2>1. dir[n] \in 1 .. Len(content)
    BY <1>4, <1>5 DEF Exists, Absent
  <2> QED  BY <2>1, LenProperties DEF JournalInv, FilesInv
<1>6. look \in Observation /\ look.name = n /\ look.file = dir[n]
      /\ (Exists(n) => pin \in Pinning) /\ pin.file = dir[n] /\ pin.size = Len(content[dir[n]])
  BY <1>3, <1>4, <1>5 DEF Observation, Pinning
<1> HIDE DEF look, pin, n
<1>7. /\ observed' \in Seq(Observation) /\ Len(observed') = k /\ observed'[k] = look
      /\ \A i \in 1 .. k : i \in 1 .. Len(observed) \/ i = k
      /\ \A i \in 1 .. Len(observed) : i < k /\ i \in 1 .. k /\ observed'[i] = observed[i]
      /\ k \in 1 .. k
  <2>1. \A i \in 1 .. k : i \in 1 .. Len(observed) \/ i = k
    BY <1>2
  <2>2. \A i \in 1 .. Len(observed) : i < k /\ i \in 1 .. k
    BY <1>2
  <2>3. k \in 1 .. k
    BY <1>2
  <2> QED  BY <1>1, <1>2, <1>6, <2>1, <2>2, <2>3, AppendProperties
<1> HIDE DEF k
<1>8. PICK p \in Nat : p = Len(pinned)
  BY <1>2, LenProperties
<1>9. ASSUME Exists(n)
      PROVE  /\ pinned' \in Seq(Pinning) /\ Len(pinned') = p + 1 /\ pinned'[p + 1] = pin
             /\ \A i \in 1 .. p + 1 : i \in 1 .. p \/ i = p + 1
             /\ \A i \in 1 .. p : i \in 1 .. p + 1 /\ pinned'[i] = pinned[i]
             /\ p + 1 \in 1 .. p + 1
  <2>1. /\ pinned' \in Seq(Pinning) /\ Len(pinned') = p + 1 /\ pinned'[p + 1] = pin
        /\ \A i \in 1 .. p : pinned'[i] = pinned[i]
    <3>1. pinned' = Append(pinned, pin) /\ pinned \in Seq(Pinning) /\ pin \in Pinning
      BY <1>1, <1>2, <1>6, <1>9
    <3> QED  BY <1>8, <3>1, AppendProperties
  <2>2. /\ \A i \in 1 .. p + 1 : i \in 1 .. p \/ i = p + 1
        /\ \A i \in 1 .. p : i \in 1 .. p + 1
        /\ p + 1 \in 1 .. p + 1
    OBVIOUS
  <2> QED  BY <2>1, <2>2
<1>10. ASSUME NEW i \in 1 .. Len(pinned')
       PROVE  \/ i \in 1 .. p /\ pinned'[i] = pinned[i]
              \/ Exists(n) /\ i = p + 1 /\ pinned'[i] = pin
  <2>1. CASE Exists(n)
    <3>1. i \in 1 .. p + 1
      BY <1>9, <1>10, <2>1
    <3> QED  BY <1>9, <2>1, <3>1
  <2>2. CASE ~Exists(n)
    <3>1. pinned' = pinned
      BY <1>1, <2>2
    <3> QED  BY <1>8, <1>10, <3>1
  <2> QED  BY <2>1, <2>2
<1>11. PinInv'
  <2>1. pinned' \in Seq(Pinning) /\ rd' # "scan"
    BY <1>1, <1>2, <1>9
  <2>2. ASSUME NEW i \in 1 .. Len(pinned')
        PROVE  /\ pinned'[i].file \in 1 .. Len(content)
               /\ pinned'[i].size <= Len(content[pinned'[i].file])
    <3>1. CASE i \in 1 .. p /\ pinned'[i] = pinned[i]
      BY <1>8, <3>1 DEF ReaderInv, PinInv
    <3>2. CASE Exists(n) /\ pinned'[i] = pin
      BY <1>5, <1>6, <3>2
    <3> QED  BY <1>10, <3>1, <3>2
  <2> QED  BY <1>1, <2>1, <2>2 DEF PinInv
<1>12. Pins(pinned', observed')
  <2>0. Len(observed') = k
    BY <1>7
  <2>1. ASSUME NEW i \in 1 .. p
        PROVE  \E j \in 1 .. Len(observed) : observed[j].file = pinned[i].file
    BY <1>2, <1>8 DEF Pins
  <2>2. ASSUME NEW i \in 1 .. Len(pinned')
        PROVE  \E j \in 1 .. Len(observed') : observed'[j].file = pinned'[i].file
    <3>1. CASE i \in 1 .. p /\ pinned'[i] = pinned[i]
      BY <1>7, <2>0, <2>1, <3>1
    <3>2. CASE pinned'[i] = pin
      BY <1>6, <1>7, <2>0, <3>2
    <3> QED  BY <1>10, <3>1, <3>2
  <2>3. ASSUME NEW j \in 1 .. Len(observed'), observed'[j].file # Absent
        PROVE  \E i \in 1 .. Len(pinned') : pinned'[i].file = observed'[j].file
    <3>1. CASE j \in 1 .. Len(observed)
      <4>1. PICK i \in 1 .. p : pinned[i].file = observed[j].file
        BY <1>2, <1>7, <1>8, <2>3, <3>1 DEF Pins
      <4>2. i \in 1 .. Len(pinned') /\ pinned'[i] = pinned[i]
        BY <1>1, <1>8, <1>9
      <4> QED  BY <1>7, <3>1, <4>1, <4>2
    <3>2. CASE j = k
      <4>1. Exists(n)
        BY <1>6, <1>7, <2>3, <3>2 DEF Exists
      <4> QED  BY <1>6, <1>7, <1>9, <3>2, <4>1
    <3> QED  BY <1>7, <2>0, <2>3, <3>1, <3>2
  <2>4. ASSUME NEW i \in 1 .. Len(pinned'), NEW j \in 1 .. Len(pinned'), i < j
        PROVE  \E g, h \in 1 .. Len(observed') :
                 g < h /\ observed'[g].file = pinned'[i].file /\ observed'[h].file = pinned'[j].file
    <3>1. i \in 1 .. p /\ pinned'[i] = pinned[i]
      BY <1>8, <1>9, <1>10, <2>4
    <3>2. CASE j \in 1 .. p /\ pinned'[j] = pinned[j]
      <4>1. PICK g \in 1 .. Len(observed), h \in 1 .. Len(observed) :
              g < h /\ observed[g].file = pinned[i].file /\ observed[h].file = pinned[j].file
        BY <1>2, <1>8, <2>4, <3>1, <3>2 DEF Pins
      <4> QED  BY <1>7, <2>0, <3>1, <3>2, <4>1
    <3>3. CASE pinned'[j] = pin
      <4>1. PICK g \in 1 .. Len(observed) : observed[g].file = pinned[i].file
        BY <2>1, <3>1
      <4>2. g < k /\ g \in 1 .. k /\ observed'[g] = observed[g]
        BY <1>7
      <4> QED  BY <1>6, <1>7, <2>0, <3>1, <3>3, <4>1, <4>2
    <3> QED  BY <1>10, <3>2, <3>3
  <2> QED  BY <2>2, <2>3, <2>4, Zenon DEF Pins
<1>13. LookInv'
  <2>1. ASSUME NEW i \in 1 .. k PROVE observed'[i].name = NameAt(i)
    BY <1>2, <1>3, <1>6, <1>7
  <2>2. rd' = "open" => \/ k <= MaxFiles
                        \/ k = MaxFiles + 1 /\ observed'[MaxFiles + 1].file = Absent
    <3>1. ASSUME rd' = "open", ~(k <= MaxFiles) PROVE k = MaxFiles + 1 /\ ~Exists(n)
      <4>1. k = MaxFiles + 1 \/ k = MaxFiles + 2
        BY <1>2, <3>1 DEF k
      <4>2. k = MaxFiles + 2 => n = Staging
        BY <1>2, <1>3 DEF NameAt
      <4>3. k = MaxFiles + 1 => n = Live
        BY <1>2, <1>3 DEF NameAt, Live
      <4> QED  BY <1>1, <3>1, <4>1, <4>2, <4>3
    <3> QED  BY <1>6, <1>7, <3>1 DEF Exists
  <2>3. rd' = "check" => \/ k = MaxFiles + 1 /\ observed'[MaxFiles + 1].file # Absent
                         \/ k = MaxFiles + 2
    <3>1. k <= MaxFiles + 1 => n = MaxFiles + 1 - k /\ n # Staging
      BY <1>2, <1>3, NamesAre DEF NameAt, k
    <3>2. k <= MaxFiles + 1 \/ k = MaxFiles + 2
      BY <1>2 DEF k
    <3>3. k <= MaxFiles + 1 /\ n = Live => k = MaxFiles + 1
      BY <1>2, <3>1 DEF Live, k
    <3> QED  BY <1>1, <1>6, <1>7, <3>1, <3>2, <3>3 DEF Exists
  <2>4. rd' \in {"open", "check"}
    BY <1>1
  <2> QED  BY <1>7, <1>12, <2>1, <2>2, <2>3, <2>4 DEF LookInv
<1>14. GotInv'
  BY <1>1 DEF GotInv, PagesMeet
<1>15. ASSUME NEW f, Past(f) PROVE Past(f)'
  <2>1. ASSUME NEW i \in 1 .. Len(pinned') PROVE f < pinned'[i].file
    <3>1. CASE i \in 1 .. p /\ pinned'[i] = pinned[i]
      BY <1>8, <1>15, <3>1 DEF Past
    <3>2. CASE Exists(n) /\ pinned'[i] = pin
      BY <1>3, <1>6, <1>15, <3>2 DEF Past
    <3> QED  BY <1>10, <3>1, <3>2
  <2> QED  BY <1>1, <1>15, <2>1 DEF Past, Exists
<1>16. LastInv'
  <2>1. SUFFICES ASSUME got # <<>>
        PROVE  \E f \in 1 .. Len(content) : \E j \in 1 .. Len(content[f]) :
                 /\ content[f][j] = got[Len(got)]
                 /\ \A i \in 1 .. Len(pinned') : pinned'[i].file = f => j <= pinned'[i].size
                 /\ tail \/ cursor = NoEvent => Past(f)'
    BY <1>1 DEF LastInv
  <2>2. PICK f \in 1 .. Len(content) : \E j \in 1 .. Len(content[f]) :
          /\ content[f][j] = got[Len(got)]
          /\ \A i \in 1 .. Len(pinned) : pinned[i].file = f => j <= pinned[i].size
          /\ tail \/ cursor = NoEvent => Past(f)
    BY <2>1 DEF LastInv
  <2>3. PICK j \in 1 .. Len(content[f]) :
          /\ content[f][j] = got[Len(got)]
          /\ \A i \in 1 .. Len(pinned) : pinned[i].file = f => j <= pinned[i].size
          /\ tail \/ cursor = NoEvent => Past(f)
    BY <2>2
  <2>4. Len(content[f]) \in Nat
    BY LenProperties DEF JournalInv, FilesInv
  <2>5. ASSUME NEW i \in 1 .. Len(pinned'), pinned'[i].file = f PROVE j <= pinned'[i].size
    <3>1. CASE i \in 1 .. p /\ pinned'[i] = pinned[i]
      BY <1>8, <2>3, <2>5, <3>1
    <3>2. CASE pinned'[i] = pin
      BY <1>6, <2>4, <2>5, <3>2
    <3> QED  BY <1>10, <3>1, <3>2
  <2> QED  BY <1>15, <2>3, <2>5
<1> QED  BY <1>11, <1>13, <1>14, <1>16 DEF ReaderInv

\* The order in which the names are opened.
LEMMA NamesInOrder ==
  /\ \A i \in 1 .. MaxFiles + 2 : NameAt(i) \in Name
  /\ NameAt(MaxFiles + 1) = Live /\ NameAt(MaxFiles + 2) = Staging
  /\ \A n \in Name : n # Staging => \E i \in 1 .. MaxFiles + 1 : NameAt(i) = n
  /\ \A k, l \in 1 .. MaxFiles + 2 : k < l =>
       Age(NameAt(l)) < Age(NameAt(k)) \/ (NameAt(k) = Live /\ NameAt(l) = Staging)
<1>1. MaxFiles \in Nat \ {0} /\ Live = 0 /\ Staging = MaxFiles + 1 /\ Name = 0 .. MaxFiles + 1
  BY NamesAre DEF Name
<1>2. ASSUME NEW i \in 1 .. MaxFiles + 2
      PROVE  NameAt(i) = (IF i <= MaxFiles + 1 THEN MaxFiles + 1 - i ELSE MaxFiles + 1)
  BY <1>1 DEF NameAt
<1>3. ASSUME NEW i \in 1 .. MaxFiles + 2
      PROVE  Age(NameAt(i)) = (IF i <= MaxFiles + 1 THEN MaxFiles + 1 - i ELSE 0)
  BY <1>1, <1>2 DEF Age
<1>4. NameAt(MaxFiles + 1) = Live /\ NameAt(MaxFiles + 2) = Staging
  BY <1>1, <1>2
<1>5. ASSUME NEW i \in 1 .. MaxFiles + 2 PROVE NameAt(i) \in Name
  BY <1>1, <1>2
<1>6. ASSUME NEW n \in Name, n # Staging PROVE \E i \in 1 .. MaxFiles + 1 : NameAt(i) = n
  <2>1. MaxFiles + 1 - n \in 1 .. MaxFiles + 1 /\ NameAt(MaxFiles + 1 - n) = n
    BY <1>1, <1>2, <1>6
  <2> QED  BY <2>1
<1>7. ASSUME NEW k \in 1 .. MaxFiles + 2, NEW l \in 1 .. MaxFiles + 2, k < l
      PROVE  Age(NameAt(l)) < Age(NameAt(k)) \/ (NameAt(k) = Live /\ NameAt(l) = Staging)
  <2>1. CASE k = MaxFiles + 1
    <3>1. l = MaxFiles + 2
      BY <1>1, <1>7, <2>1
    <3> QED  BY <1>4, <2>1, <3>1
  <2>2. CASE k # MaxFiles + 1
    BY <1>1, <1>3, <1>7, <2>2
  <2> QED  BY <2>1, <2>2
<1> QED  BY <1>4, <1>5, <1>6, <1>7

\* The files that were opened are those of the journal when none was renamed meanwhile.
LEMMA CheckPages ==
  ASSUME JournalInv, DirInv, ReaderInv, GotInv, LastInv, CheckFiles
  PROVE  ReaderInv' /\ GotInv' /\ LastInv'
<1>1. rd = "check" /\ UNCHANGED <<dir, content, written, cursor, tail, got, flagged>>
  BY DEF CheckFiles, readerRest, fileVars
<1>2. CASE ~Stable
  <2>1. observed' = <<>> /\ pinned' = <<>> /\ rd' \in {"open", "idle"}
    BY <1>2 DEF CheckFiles
  <2> QED  BY <1>1, <2>1, PinsGone
<1>3. CASE Stable
  <2>1. rd' = "scan" /\ UNCHANGED <<observed, pinned>>
    BY <1>3 DEF CheckFiles
  <2> DEFINE d == Len(observed)
  <2>2. d \in Nat /\ DOMAIN observed = 1 .. d
    BY LenProperties DEF ReaderInv, LookInv
  <2>3. /\ d = MaxFiles + 1 \/ d = MaxFiles + 2
        /\ d = MaxFiles + 1 => observed[MaxFiles + 1].file # Absent
        /\ MaxFiles + 1 \in 1 .. d /\ \A i \in 1 .. d : i \in 1 .. MaxFiles + 2
    <3>1. (d = MaxFiles + 1 /\ observed[MaxFiles + 1].file # Absent) \/ d = MaxFiles + 2
      BY <1>1, <2>2 DEF ReaderInv, LookInv
    <3> QED  BY <2>2, <3>1, NamesAre
  <2>4. \A i \in 1 .. d : observed[i].file = dir[NameAt(i)] /\ NameAt(i) \in Name
    <3>1. \A i \in 1 .. d : observed[i].name = NameAt(i)
      BY <2>2 DEF ReaderInv, LookInv
    <3> QED  BY <1>3, <2>2, <2>3, <3>1, NamesInOrder DEF Stable
  <2>5. ~(Exists(Live) /\ Exists(Staging))
    BY WriterIs, NamesAre
  <2>6. \A i \in 1 .. Len(pinned) : pinned[i].file \in 1 .. Len(content) /\ pinned[i].file # Absent
    BY PinIs DEF ReaderInv, Absent
  <2>15. Pins(pinned, observed)
    BY <1>1 DEF ReaderInv, LookInv
  <2>16. /\ \A i \in 1 .. Len(pinned) : \E k \in 1 .. d : observed[k].file = pinned[i].file
         /\ \A k \in 1 .. d :
              observed[k].file # Absent => \E i \in 1 .. Len(pinned) : pinned[i].file = observed[k].file
    BY <2>15, Zenon DEF Pins
  <2>17. \A i, j \in 1 .. Len(pinned) : i < j =>
           \E k, l \in 1 .. d :
             k < l /\ observed[k].file = pinned[i].file /\ observed[l].file = pinned[j].file
    BY <2>15, Zenon DEF Pins
  <2> HIDE DEF d
  <2>7. ASSUME NEW k \in 1 .. d, NEW l \in 1 .. d, k < l, Exists(NameAt(k)), Exists(NameAt(l))
        PROVE  dir[NameAt(k)] < dir[NameAt(l)]
    <3>1. Age(NameAt(l)) < Age(NameAt(k))
      BY <2>3, <2>5, <2>7, NamesInOrder
    <3> QED  BY <2>4, <2>7, <3>1 DEF DirInv
  <2>8. PinInv'
    <3>1. ASSUME NEW i \in 1 .. Len(pinned), NEW j \in 1 .. Len(pinned), i < j
          PROVE  pinned[i].file < pinned[j].file
      <4>1. PICK k \in 1 .. d, l \in 1 .. d :
              k < l /\ observed[k].file = pinned[i].file /\ observed[l].file = pinned[j].file
        <5>1. \E k \in 1 .. d : \E l \in 1 .. d :
                k < l /\ observed[k].file = pinned[i].file /\ observed[l].file = pinned[j].file
          BY <2>17, <3>1
        <5> QED  BY <5>1
      <4>2. dir[NameAt(k)] = pinned[i].file /\ dir[NameAt(l)] = pinned[j].file
        BY <2>4, <4>1
      <4>3. Exists(NameAt(k)) /\ Exists(NameAt(l))
        BY <2>6, <4>2 DEF Exists
      <4> QED  BY <2>7, <4>1, <4>2, <4>3
    <3> QED  BY <1>1, <2>1, <3>1 DEF ReaderInv, PinInv
  <2>9. LookInv'
    BY <2>1 DEF ReaderInv, LookInv
  <2>10. GotInv'
    BY <1>1 DEF GotInv, PagesMeet
  <2>11. ASSUME NEW n \in Name, Exists(n)
         PROVE  \E i \in 1 .. Len(pinned) : pinned[i].file = dir[n]
    <3>1. \E k \in 1 .. d : NameAt(k) = n
      <4>1. CASE n # Staging
        <5>1. PICK k \in 1 .. MaxFiles + 1 : NameAt(k) = n
          BY <4>1, NamesInOrder
        <5>2. k \in 1 .. d
          BY <2>2, <2>3
        <5> QED  BY <5>1, <5>2
      <4>2. CASE n = Staging
        <5>1. dir[Live] = Absent
          BY <2>5, <2>11, <4>2 DEF Exists
        <5>2. observed[MaxFiles + 1].file = dir[Live]
          BY <2>3, <2>4, NamesInOrder
        <5>3. d = MaxFiles + 2 /\ d \in 1 .. d
          BY <2>3, <5>1, <5>2, NamesAre
        <5>4. NameAt(d) = Staging
          BY <5>3, NamesInOrder
        <5> QED  BY <4>2, <5>3, <5>4
      <4> QED  BY <4>1, <4>2
    <3>2. PICK k \in 1 .. d : NameAt(k) = n
      BY <3>1
    <3>3. observed[k].file = dir[n] /\ observed[k].file # Absent
      BY <2>4, <2>11, <3>2 DEF Exists
    <3> QED  BY <2>16, <3>3
  <2>12. ASSUME NEW f \in 1 .. Len(content), ~\E i \in 1 .. Len(pinned) : pinned[i].file = f
         PROVE  Past(f)
    <3>1. ASSUME NEW n \in Name, Exists(n) PROVE f < dir[n]
      <4>1. dir[n] # f
        BY <2>11, <2>12, <3>1
      <4>2. ASSUME dir[n] < f PROVE FALSE
        <5>1. f \in dir[n] .. Len(content)
          BY <4>2, LenProperties DEF JournalInv, FilesInv
        <5>2. PICK m \in Name : dir[m] = f
          BY <3>1, <5>1 DEF DirInv
        <5>3. Exists(m)
          BY <5>2 DEF Exists, Absent
        <5> QED  BY <2>11, <2>12, <5>2, <5>3
      <4>3. dir[n] \in Int
        BY DEF JournalInv, FilesInv
      <4> QED  BY <4>1, <4>2, <4>3
    <3>2. ASSUME NEW i \in 1 .. Len(pinned) PROVE f < pinned[i].file
      <4>1. PICK k \in 1 .. d : observed[k].file = pinned[i].file
        BY <2>16
      <4>2. dir[NameAt(k)] = pinned[i].file /\ NameAt(k) \in Name
        BY <2>4, <4>1
      <4>3. Exists(NameAt(k))
        BY <2>6, <4>2 DEF Exists
      <4> QED  BY <3>1, <4>2, <4>3
    <3> QED  BY <3>1, <3>2 DEF Past
  <2>13. \A f : Past(f) => Past(f)'
    BY <1>1, <2>1 DEF Past, Exists
  <2>14. LastInv'
    <3>1. SUFFICES ASSUME got # <<>>
          PROVE  \E f \in 1 .. Len(content) : \E j \in 1 .. Len(content[f]) :
                   /\ content[f][j] = got[Len(got)]
                   /\ \A i \in 1 .. Len(pinned) : pinned[i].file = f => j <= pinned[i].size
                   /\ tail \/ cursor = NoEvent => Past(f)'
                   /\ Past(f)' \/ \E i \in 1 .. Len(pinned) : pinned[i].file = f
      BY <1>1, <2>1 DEF LastInv
    <3>2. PICK f \in 1 .. Len(content) : \E j \in 1 .. Len(content[f]) :
            /\ content[f][j] = got[Len(got)]
            /\ \A i \in 1 .. Len(pinned) : pinned[i].file = f => j <= pinned[i].size
            /\ tail \/ cursor = NoEvent => Past(f)
      BY <3>1 DEF LastInv
    <3> QED  BY <2>12, <2>13, <3>2
  <2> QED  BY <2>8, <2>9, <2>10, <2>14 DEF ReaderInv
<1> QED  BY <1>2, <1>3

\* A stretch of a sequence.
LEMMA StretchIs ==
  ASSUME NEW E, NEW w \in Seq(E), NEW a \in Nat, NEW b \in Nat, a <= b, b <= Len(w)
  PROVE  /\ SubSeq(w, a + 1, b) \in Seq(E) /\ Len(SubSeq(w, a + 1, b)) = b - a
         /\ \A i \in 1 .. b - a : SubSeq(w, a + 1, b)[i] = w[a + i]
<1> DEFINE s == SubSeq(w, a + 1, b)
<1>1. PICK l \in Nat : l = Len(w) /\ \A i \in 1 .. l : w[i] \in E
  BY LenProperties
<1>2. \A i \in a + 1 .. b : w[i] \in E
  <2>1. \A i \in a + 1 .. b : i \in 1 .. l
    BY <1>1
  <2> QED  BY <1>1, <2>1
<1>3. /\ s \in Seq(E) /\ Len(s) = IF a + 1 <= b THEN b - (a + 1) + 1 ELSE 0
      /\ \A i \in 1 .. b - (a + 1) + 1 : s[i] = w[a + 1 + i - 1]
  BY <1>2, SubSeqProperties
<1> HIDE DEF s
<1>4. Len(s) = b - a
  BY <1>3
<1>5. ASSUME NEW i \in 1 .. b - a PROVE s[i] = w[a + i]
  <2>1. i \in 1 .. b - (a + 1) + 1 /\ a + 1 + i - 1 = a + i
    OBVIOUS
  <2> QED  BY <1>3, <2>1
<1> QED  BY <1>3, <1>4, <1>5 DEF s

\* The events that were pinned, in the order they were written.
LEMMA PinnedIs ==
  ASSUME JournalInv, BookInv, PinInv, rd = "scan"
  PROVE  /\ Pinned \in Seq(EventId) /\ Rising(Pinned)
         /\ \A k \in 1 .. Len(Pinned) : \E h \in 1 .. Len(pinned) : \E j \in 1 .. pinned[h].size :
              Pinned[k] = content[pinned[h].file][j]
         /\ \A h \in 1 .. Len(pinned) : \A j \in 1 .. pinned[h].size : \E k \in 1 .. Len(Pinned) :
              Pinned[k] = content[pinned[h].file][j]
<1> DEFINE parts == [i \in DOMAIN pinned |-> SubSeq(content[pinned[i].file], 1, pinned[i].size)]
<1>1. PICK n \in Nat : n = Len(pinned) /\ DOMAIN pinned = 1 .. n
  BY LenProperties DEF PinInv
<1>2. ASSUME NEW h \in 1 .. n
      PROVE  /\ parts[h] \in Seq(EventId) /\ Len(parts[h]) = pinned[h].size /\ Rising(parts[h])
             /\ \A j \in 1 .. pinned[h].size :
                  /\ j \in 1 .. Len(content[pinned[h].file])
                  /\ parts[h][j] = content[pinned[h].file][j]
  <2>1. PICK f \in 1 .. Len(content), s \in Nat : f = pinned[h].file /\ s = pinned[h].size
    BY <1>1, PinIs
  <2>2. /\ content[f] \in Seq(EventId) /\ s <= Len(content[f]) /\ Len(content[f]) \in Nat
        /\ Rising(content[f])
    BY <1>1, <2>1, PinIs DEF BookInv
  <2> DEFINE t == SubSeq(content[f], 1, s)
  <2>3. parts[h] = t
    BY <1>1, <2>1
  <2>4. t \in Seq(EventId) /\ Len(t) = s /\ \A j \in 1 .. s : t[j] = content[f][j]
    <3>1. 0 + 1 = 1 /\ s - 0 = s /\ \A j \in 1 .. s : 0 + j = j
      OBVIOUS
    <3>2. /\ SubSeq(content[f], 0 + 1, s) \in Seq(EventId) /\ Len(SubSeq(content[f], 0 + 1, s)) = s - 0
          /\ \A j \in 1 .. s - 0 : SubSeq(content[f], 0 + 1, s)[j] = content[f][0 + j]
      BY <2>2, StretchIs
    <3> QED  BY <3>1, <3>2
  <2>5. \A j \in 1 .. s : j \in 1 .. Len(content[f])
    BY <2>2
  <2> HIDE DEF t
  <2>6. Rising(t)
    BY <2>2, <2>4, <2>5 DEF Rising
  <2> QED  BY <2>1, <2>3, <2>4, <2>5, <2>6
<1>3. parts = [i \in 1 .. n |-> parts[i]] /\ Pinned = FlattenSeq(parts)
  BY <1>1 DEF Pinned
<1> HIDE DEF parts
<1>4. Pieces(parts, n)
  <2>1. ASSUME NEW h \in 1 .. n, NEW i \in 1 .. n, h < i,
               NEW j \in 1 .. Len(parts[h]), NEW k \in 1 .. Len(parts[i])
        PROVE  Earlier(parts[h][j], parts[i][k])
    <3>1. /\ j \in 1 .. Len(content[pinned[h].file]) /\ parts[h][j] = content[pinned[h].file][j]
          /\ k \in 1 .. Len(content[pinned[i].file]) /\ parts[i][k] = content[pinned[i].file][k]
      BY <1>2, <2>1
    <3>2. pinned[h].file < pinned[i].file
      BY <1>1, <2>1 DEF PinInv
    <3>3. pinned[h].file \in 1 .. Len(content) /\ pinned[i].file \in 1 .. Len(content)
      BY <1>1, PinIs
    <3> QED  BY <3>1, <3>2, <3>3 DEF BookInv
  <2> QED  BY <1>2, <2>1 DEF Pieces
<1>5. Joined(parts, n, Pinned)
  <2>1. CASE n # 0
    BY <1>3, <1>4, <2>1, JoinAll
  <2>2. CASE n = 0
    <3>1. /\ Len(parts) = 0 /\ parts \in Seq(EventId)
      BY <1>3, <2>2
    <3>2. Pinned = parts
      BY <1>3, <3>1, Zenon DEF FlattenSeq
    <3> QED  BY <2>2, <3>1, <3>2 DEF Joined, Rising
  <2> QED  BY <2>1, <2>2
<1>6. ASSUME NEW k \in 1 .. Len(Pinned)
      PROVE  \E h \in 1 .. Len(pinned) : \E j \in 1 .. pinned[h].size :
               Pinned[k] = content[pinned[h].file][j]
  <2>1. PICK h \in 1 .. n : \E j \in 1 .. Len(parts[h]) : Pinned[k] = parts[h][j]
    BY <1>5 DEF Joined
  <2>2. h \in 1 .. Len(pinned) /\ Len(parts[h]) = pinned[h].size
    BY <1>1, <1>2
  <2>3. PICK j \in 1 .. pinned[h].size : Pinned[k] = parts[h][j]
    BY <2>1, <2>2
  <2>4. parts[h][j] = content[pinned[h].file][j]
    BY <1>2
  <2> QED  BY <2>2, <2>3, <2>4
<1>7. ASSUME NEW h \in 1 .. Len(pinned), NEW j \in 1 .. pinned[h].size
      PROVE  \E k \in 1 .. Len(Pinned) : Pinned[k] = content[pinned[h].file][j]
  <2>1. h \in 1 .. n /\ j \in 1 .. Len(parts[h]) /\ parts[h][j] = content[pinned[h].file][j]
    BY <1>1, <1>2
  <2>2. PICK k \in 1 .. Len(Pinned) : Pinned[k] = parts[h][j]
    BY <1>5, <2>1 DEF Joined
  <2> QED  BY <2>1, <2>2
<1> QED  BY <1>5, <1>6, <1>7 DEF Joined

\* A cursor that is not found was in a file that is older than every file there is.
LEMMA LosePages ==
  ASSUME JournalInv, BookInv, ReaderInv, GotInv, LastInv, CursorLost
  PROVE  ReaderInv' /\ GotInv' /\ LastInv'
<1>1. /\ rd = "scan" /\ ~Found /\ rd' = "open"
      /\ observed' = <<>> /\ pinned' = <<>>
      /\ UNCHANGED <<content, written, dir, cursor, got, flagged>>
  BY DEF CursorLost, readerRest, fileVars
<1>2. /\ ReaderInv' /\ GotInv' /\ \A f : Past(f) => Past(f)'
  BY <1>1, PinsGone
<1>3. cursor # NoEvent /\ ~\E i \in DOMAIN Pinned : Pinned[i] = cursor
  BY <1>1 DEF Found, After
<1>4. got # <<>> /\ cursor = got[Len(got)]
  BY <1>3 DEF GotInv, PagesMeet
<1>5. PICK f \in 1 .. Len(content) : \E j \in 1 .. Len(content[f]) :
        /\ content[f][j] = got[Len(got)]
        /\ \A i \in 1 .. Len(pinned) : pinned[i].file = f => j <= pinned[i].size
        /\ Past(f) \/ \E i \in 1 .. Len(pinned) : pinned[i].file = f
  BY <1>1, <1>4 DEF LastInv
<1>6. PICK j \in 1 .. Len(content[f]) :
        /\ content[f][j] = got[Len(got)]
        /\ \A i \in 1 .. Len(pinned) : pinned[i].file = f => j <= pinned[i].size
        /\ Past(f) \/ \E i \in 1 .. Len(pinned) : pinned[i].file = f
  BY <1>5
<1>7. Past(f)
  <2>1. ASSUME NEW i \in 1 .. Len(pinned), pinned[i].file = f PROVE FALSE
    <3>1. j \in 1 .. pinned[i].size
      BY <1>6, <2>1, PinIs DEF ReaderInv
    <3>2. PinInv
      BY DEF ReaderInv
    <3>3. PICK k \in 1 .. Len(Pinned) : Pinned[k] = content[pinned[i].file][j]
      BY <1>1, <3>1, <3>2, PinnedIs
    <3>4. DOMAIN Pinned = 1 .. Len(Pinned)
      BY <1>1, <3>2, PinnedIs, LenProperties
    <3> QED  BY <1>3, <1>4, <1>6, <2>1, <3>3, <3>4
  <2> QED  BY <1>6, <2>1
<1>8. LastInv'
  <2>1. Past(f)' /\ rd' # "scan" /\ Len(pinned') = 0
    BY <1>1, <1>2, <1>7, EmptySeq
  <2>2. got' = got /\ content' = content
    BY <1>1
  <2> QED  BY <1>6, <2>1, <2>2 DEF LastInv
<1> QED  BY <1>2, <1>8

\* The greater one of two numbers.
LEMMA GreatestOfTwo ==
  ASSUME NEW x \in Nat, NEW y \in Nat
  PROVE  Max({x, y}) \in Nat /\ x <= Max({x, y}) /\ y <= Max({x, y})
<1>1. \E i \in {x, y} : \A j \in {x, y} : j <= i
  OBVIOUS
<1> QED  BY <1>1 DEF Max

\* The lesser one is one of them.
LEMMA OneOfTwo ==
  ASSUME NEW x \in Nat, NEW y \in Nat
  PROVE  Min({x, y}) \in {x, y}
<1>1. \E i \in {x, y} : \A j \in {x, y} : i <= j
  OBVIOUS
<1> QED  BY <1>1 DEF Min

\* A page is a stretch of what was pinned: behind the cursor, or flagged as
\* one behind a gap; where it is not, no number is missing up to its end.
LEMMA PageIs ==
  ASSUME JournalInv, BookInv, PinInv, rd = "scan", Found
  PROVE  \E a, b \in 0 .. Len(Pinned) :
           /\ a <= b /\ Page.events \in Seq(EventId) /\ Len(Page.events) = b - a
           /\ \A i \in 1 .. b - a : Page.events[i] = Pinned[a + i]
           /\ tail => Page.gap
           /\ ~tail /\ cursor # NoEvent => a \in 1 .. Len(Pinned) /\ Pinned[a] = cursor
           /\ ~Page.gap => \A i \in 1 .. b - 1 :
                Pinned[i].run = Pinned[i + 1].run => Pinned[i + 1].seq = Pinned[i].seq + 1
<1> DEFINE P == Pinned
           from == IF After = NoEvent THEN 0 ELSE CHOOSE i \in DOMAIN P : P[i] = After
           rest == SubSeq(P, from + 1, Len(P))
           count == Min({Limit, Len(rest)})
           upto == Min({from + count + 1, Len(P)})
           seen == IF tail THEN P ELSE SubSeq(P, 1, upto)
<1>1. /\ Page.events = IF tail THEN SubSeq(rest, Len(rest) - count + 1, Len(rest))
                       ELSE SubSeq(rest, 1, count)
      /\ Page.gap = (tail \/ HasGap(seen))
  BY DEF Page
<1>2. P \in Seq(EventId)
  BY PinnedIs
<1>3. PICK n \in Nat : n = Len(P) /\ DOMAIN P = 1 .. n
  BY <1>2, LenProperties
<1>4. /\ from \in 0 .. n /\ (After = NoEvent => from = 0)
      /\ After # NoEvent => from \in 1 .. n /\ P[from] = After
  <2>1. CASE After = NoEvent
    BY <1>3, <2>1
  <2>2. CASE After # NoEvent
    <3>1. \E i \in DOMAIN P : P[i] = After
      BY <2>2 DEF Found
    <3>2. from = CHOOSE i \in DOMAIN P : P[i] = After
      BY <2>2
    <3> HIDE DEF P, from
    <3> QED  BY <1>3, <2>2, <3>1, <3>2
  <2> QED  BY <2>1, <2>2
<1>5. (tail => After = NoEvent) /\ (~tail => After = cursor)
  BY DEF After
<1> HIDE DEF from
<1>6. rest \in Seq(EventId) /\ Len(rest) = n - from /\ \A i \in 1 .. n - from : rest[i] = P[from + i]
  <2> HIDE DEF P
  <2> QED  BY <1>2, <1>3, <1>4, StretchIs
<1> HIDE DEF rest
<1>7. count \in Nat /\ count <= n - from
  <2>1. Limit \in Nat /\ Len(rest) \in Nat
    BY <1>4, <1>6, JournalAssumption
  <2> QED  BY <1>6, <2>1, LeastOfTwo
<1> HIDE DEF count
<1>8. from + count \in Nat /\ from + count <= n
  BY <1>3, <1>4, <1>7
<1>9. upto \in Nat /\ upto <= n /\ from + count <= upto
  <2>1. from + count + 1 \in Nat /\ Len(P) = n
    BY <1>3, <1>8
  <2>2. upto \in {from + count + 1, n} /\ upto \in Nat /\ upto <= n
    BY <2>1, LeastOfTwo, OneOfTwo
  <2> HIDE DEF upto
  <2> QED  BY <1>8, <2>2
<1> HIDE DEF upto
<1>10. CASE tail
  <2>1. from = 0 /\ Page.gap /\ Len(rest) = n
        /\ Page.events = SubSeq(rest, Len(rest) - count + 1, Len(rest))
    <3>1. from = 0
      BY <1>4, <1>5, <1>10
    <3>2. Len(rest) = n
      BY <1>3, <1>6, <3>1
    <3> HIDE DEF P, seen
    <3>3. Page.gap /\ Page.events = SubSeq(rest, Len(rest) - count + 1, Len(rest))
      BY <1>1, <1>10
    <3> QED  BY <3>1, <3>2, <3>3
  <2>2. PICK a \in Nat : a = n - count /\ a <= n
    <3>1. n - count \in Nat /\ n - count <= n
      BY <1>3, <1>7, <2>1
    <3> QED  BY <3>1
  <2>3. Page.events = SubSeq(rest, a + 1, n)
    BY <2>1, <2>2
  <2>4. /\ Page.events \in Seq(EventId) /\ Len(Page.events) = n - a
        /\ \A i \in 1 .. n - a : Page.events[i] = rest[a + i]
    <3> HIDE DEF P
    <3>1. a \in Nat /\ n \in Nat /\ a <= n /\ n <= Len(rest) /\ rest \in Seq(EventId)
      BY <1>3, <1>6, <2>1, <2>2
    <3>2. /\ SubSeq(rest, a + 1, n) \in Seq(EventId) /\ Len(SubSeq(rest, a + 1, n)) = n - a
          /\ \A i \in 1 .. n - a : SubSeq(rest, a + 1, n)[i] = rest[a + i]
      BY <3>1, StretchIs
    <3> QED  BY <2>3, <3>2
  <2>5. ASSUME NEW i \in 1 .. n - a PROVE Page.events[i] = P[a + i]
    <3>1. a + i \in 1 .. n - from /\ from + (a + i) = a + i
      BY <1>3, <2>1, <2>2
    <3>2. rest[a + i] = P[from + (a + i)]
      BY <1>6, <3>1
    <3> QED  BY <2>4, <3>1, <3>2
  <2>6. a \in 0 .. Len(Pinned) /\ n \in 0 .. Len(Pinned)
    BY <1>3, <2>2
  <2> QED  BY <1>10, <2>1, <2>2, <2>4, <2>5, <2>6
<1>11. CASE ~tail
  <2>1. PICK b \in Nat : b = from + count /\ b <= n /\ b - from = count /\ from <= b
    BY <1>4, <1>7, <1>8
  <2>2. /\ Page.events \in Seq(EventId) /\ Len(Page.events) = count
        /\ \A i \in 1 .. count : Page.events[i] = rest[i]
    <3>1. /\ SubSeq(rest, 0 + 1, count) \in Seq(EventId) /\ Len(SubSeq(rest, 0 + 1, count)) = count - 0
          /\ \A i \in 1 .. count - 0 : SubSeq(rest, 0 + 1, count)[i] = rest[0 + i]
      BY <1>6, <1>7, StretchIs
    <3>2. 0 + 1 = 1 /\ count - 0 = count /\ \A i \in 1 .. count : 0 + i = i
      BY <1>7
    <3>3. Page.events = SubSeq(rest, 1, count)
      BY <1>1, <1>11
    <3> QED  BY <3>1, <3>2, <3>3
  <2>3. ASSUME NEW i \in 1 .. b - from PROVE Page.events[i] = P[from + i]
    <3>1. i \in 1 .. n - from /\ i \in 1 .. count
      BY <1>3, <1>4, <1>7, <2>1
    <3> QED  BY <1>6, <2>2, <3>1
  <2>4. ASSUME ~Page.gap, NEW i \in 1 .. b - 1, P[i].run = P[i + 1].run
        PROVE  P[i + 1].seq = P[i].seq + 1
    <3> DEFINE t == SubSeq(P, 1, upto)
    <3>1. ~HasGap(t)
      BY <1>1, <1>11, <2>4
    <3>2. Len(t) = upto /\ \A k \in 1 .. upto : t[k] = P[k]
      <4>1. /\ Len(SubSeq(P, 0 + 1, upto)) = upto - 0
            /\ \A k \in 1 .. upto - 0 : SubSeq(P, 0 + 1, upto)[k] = P[0 + k]
        <5> HIDE DEF P
        <5> QED  BY <1>2, <1>3, <1>9, StretchIs
      <4>2. 0 + 1 = 1 /\ upto - 0 = upto /\ \A k \in 1 .. upto : 0 + k = k
        BY <1>9
      <4> QED  BY <4>1, <4>2
    <3> HIDE DEF t, P
    <3>3. i \in 1 .. upto - 1 /\ i \in 1 .. upto /\ i + 1 \in 1 .. upto
      BY <1>9, <2>1
    <3>4. t[i].run = t[i + 1].run => t[i + 1].seq = t[i].seq + 1
      BY <3>1, <3>2, <3>3 DEF HasGap
    <3> QED  BY <2>4, <3>2, <3>3, <3>4
  <2>5. from \in 0 .. Len(Pinned) /\ b \in 0 .. Len(Pinned)
    BY <1>3, <1>4, <2>1
  <2>6. cursor # NoEvent => from \in 1 .. Len(Pinned) /\ Pinned[from] = cursor
    BY <1>3, <1>4, <1>5, <1>11
  <2> QED  BY <1>11, <2>1, <2>2, <2>3, <2>4, <2>5, <2>6
<1> QED  BY <1>10, <1>11

\* Everything on a page is later than what was returned before.
LEMMA PageIsLater ==
  ASSUME JournalInv, BookInv, ReaderInv, GotInv, LastInv, rd = "scan", got # <<>>,
         NEW a \in 0 .. Len(Pinned), NEW i \in Nat \ {0}, a + i \in 1 .. Len(Pinned),
         ~tail /\ cursor # NoEvent => a \in 1 .. Len(Pinned) /\ Pinned[a] = cursor
  PROVE  Earlier(got[Len(got)], Pinned[a + i])
<1>1. PinInv /\ Rising(Pinned)
  BY PinnedIs DEF ReaderInv
<1>2. CASE ~tail /\ cursor # NoEvent
  <2>1. cursor = got[Len(got)]
    BY <1>2 DEF GotInv, PagesMeet
  <2>2. a \in 1 .. Len(Pinned) /\ a < a + i /\ Pinned[a] = cursor
    BY <1>2
  <2> QED  BY <1>1, <2>1, <2>2 DEF Rising
<1>3. CASE tail \/ cursor = NoEvent
  <2>1. PICK f \in 1 .. Len(content) : Past(f) /\ \E j \in 1 .. Len(content[f]) : content[f][j] = got[Len(got)]
    BY <1>3 DEF LastInv
  <2>2. PICK h \in 1 .. Len(pinned) : \E j \in 1 .. pinned[h].size :
          Pinned[a + i] = content[pinned[h].file][j]
    BY <1>1, PinnedIs
  <2>3. PICK g \in 1 .. Len(content) : g = pinned[h].file
    BY <1>1, PinIs
  <2>4. \E j \in 1 .. Len(content[g]) : Pinned[a + i] = content[g][j]
    <3>1. pinned[h].size \in Nat /\ pinned[h].size <= Len(content[g]) /\ Len(content[g]) \in Nat
      BY <1>1, <2>3, PinIs
    <3>2. \A j \in 1 .. pinned[h].size : j \in 1 .. Len(content[g])
      BY <3>1
    <3> QED  BY <2>2, <2>3, <3>2
  <2>5. f < g
    BY <2>1, <2>3 DEF Past
  <2> QED  BY <2>1, <2>4, <2>5 DEF BookInv
<1> QED  BY <1>2, <1>3

\* What is returned is the page, behind what was returned before.
LEMMA ReturnPages ==
  ASSUME JournalInv, WrittenInv, ReaderInv, GotInv, LastInv, ReturnPage
  PROVE  ReaderInv' /\ GotInv' /\ LastInv'
<1> DEFINE ev == Page.events
<1>1. /\ rd = "scan" /\ Found /\ got' = got \o ev
      /\ cursor' = IF ev = <<>> THEN After ELSE Last(ev)
      /\ rd' = "idle" /\ tail' = FALSE /\ observed' = <<>> /\ pinned' = <<>>
      /\ UNCHANGED <<dir, content, written>>
  BY DEF ReturnPage, readerRest, fileVars
<1>2. /\ BookInv /\ PinInv /\ got \in Seq(EventId) /\ Rising(got) /\ PagesMeet
      /\ \A i \in 1 .. Len(written) : written[i] # NoEvent
  BY DEF WrittenInv, NumberInv, ReaderInv, GotInv
<1>3. PICK a \in 0 .. Len(Pinned), b \in 0 .. Len(Pinned) :
        /\ a <= b /\ ev \in Seq(EventId) /\ Len(ev) = b - a
        /\ \A i \in 1 .. b - a : ev[i] = Pinned[a + i]
        /\ tail => Page.gap
        /\ ~tail /\ cursor # NoEvent => a \in 1 .. Len(Pinned) /\ Pinned[a] = cursor
        /\ ~Page.gap => \A i \in 1 .. b - 1 :
             Pinned[i].run = Pinned[i + 1].run => Pinned[i + 1].seq = Pinned[i].seq + 1
  BY <1>1, <1>2, PageIs
<1>4. Pinned \in Seq(EventId) /\ Rising(Pinned)
  BY <1>1, <1>2, PinnedIs
<1>5. PICK g \in Nat, c \in Nat, n \in Nat : g = Len(got) /\ c = Len(ev) /\ n = Len(Pinned)
  BY <1>2, <1>3, <1>4, LenProperties
<1>6. /\ flagged \subseteq flagged'
      /\ Page.gap => g + 1 \in flagged' /\ \A i \in g + 1 .. g + c : i \in flagged'
  <2>1. flagged' = IF Page.gap THEN flagged \cup (Len(got) + 1 .. Max({Len(got'), Len(got) + 1}))
                   ELSE flagged
    BY DEF ReturnPage
  <2>2. Len(got') = g + c
    <3>1. got \in Seq(EventId) /\ ev \in Seq(EventId) /\ got' = got \o ev
      BY <1>1, <1>2, <1>3
    <3> HIDE DEF ev
    <3> QED  BY <1>5, <3>1, ConcatProperties
  <2>3. Max({g + c, g + 1}) \in Nat /\ g + c <= Max({g + c, g + 1}) /\ g + 1 <= Max({g + c, g + 1})
    <3>1. g + c \in Nat /\ g + 1 \in Nat
      BY <1>5
    <3> QED  BY <3>1, GreatestOfTwo
  <2>4. Page.gap => flagged' = flagged \cup (g + 1 .. Max({g + c, g + 1}))
    <3> HIDE DEF ev
    <3>1. Len(got) = g
      BY <1>5
    <3> QED  BY <2>1, <2>2, <3>1
  <2>5. PICK m \in Nat : g + c <= m /\ g + 1 <= m /\ (Page.gap => flagged' = flagged \cup (g + 1 .. m))
    BY <2>3, <2>4
  <2>6. g + 1 \in g + 1 .. m /\ \A i \in g + 1 .. g + c : i \in g + 1 .. m
    BY <2>5
  <2>7. flagged' = flagged \/ Page.gap
    BY <2>1
  <2> QED  BY <2>5, <2>6, <2>7
<1> HIDE DEF ev
<1>7. /\ got' \in Seq(EventId) /\ Len(got') = g + c
      /\ \A i \in 1 .. g : got'[i] = got[i]
      /\ \A i \in 1 .. c : got'[g + i] = ev[i]
  <2>1. /\ got' \in Seq(EventId) /\ Len(got') = g + c
        /\ \A i \in 1 .. g + c : got'[i] = IF i <= g THEN got[i] ELSE ev[i - g]
    <3>1. got \in Seq(EventId) /\ ev \in Seq(EventId) /\ got' = got \o ev
      BY <1>1, <1>2, <1>3
    <3> QED  BY <1>5, <3>1, ConcatProperties
  <2>2. ASSUME NEW i \in 1 .. g PROVE i \in 1 .. g + c /\ i <= g
    OBVIOUS
  <2>3. ASSUME NEW i \in 1 .. c PROVE g + i \in 1 .. g + c /\ ~(g + i <= g) /\ (g + i) - g = i
    OBVIOUS
  <2>4. ASSUME NEW i \in 1 .. c PROVE got'[g + i] = ev[i]
    BY <2>1, <2>3
  <2> QED  BY <2>1, <2>2, <2>4
<1>8. ASSUME NEW i \in 1 .. g + c PROVE i \in 1 .. g \/ \E j \in 1 .. c : i = g + j
  <2>1. ~(i \in 1 .. g) => i - g \in 1 .. c /\ i = g + (i - g)
    OBVIOUS
  <2> QED  BY <2>1
<1>9. c = b - a /\ a \in Nat /\ b \in Nat /\ b <= n
      /\ \A i \in 1 .. c : ev[i] = Pinned[a + i] /\ a + i \in 1 .. n /\ i \in Nat \ {0}
  <2>1. c = b - a /\ a \in Nat /\ b \in Nat /\ b <= n /\ a <= b
    BY <1>3, <1>5
  <2>2. \A i \in 1 .. c : a + i \in 1 .. n /\ i \in Nat \ {0}
    BY <2>1
  <2> QED  BY <1>3, <2>1, <2>2
<1>10. ASSUME NEW i \in 1 .. g, NEW j \in 1 .. c PROVE Earlier(got[i], ev[j])
  <2>1. Earlier(got[g], Pinned[a + j])
    <3>1. got # <<>> /\ j \in Nat \ {0} /\ a + j \in 1 .. Len(Pinned)
      BY <1>5, <1>9, EmptySeq
    <3>2. Earlier(got[Len(got)], Pinned[a + j])
      BY <1>1, <1>2, <1>3, <3>1, PageIsLater
    <3> QED  BY <1>5, <3>2
  <2>2. g \in 1 .. g /\ (i = g \/ i < g)
    OBVIOUS
  <2>3. i < g => Earlier(got[i], got[g])
    BY <1>2, <1>5, <2>2 DEF Rising
  <2>4. got[i] \in EventId /\ got[g] \in EventId /\ Pinned[a + j] \in EventId
    <3>1. \A k \in 1 .. g : got[k] \in EventId
      BY <1>2, <1>5, LenProperties
    <3>2. \A k \in 1 .. n : Pinned[k] \in EventId
      BY <1>4, <1>5, LenProperties
    <3> QED  BY <1>9, <2>2, <3>1, <3>2
  <2>5. i < g => Earlier(got[i], Pinned[a + j])
    BY <2>1, <2>3, <2>4, EarlierOrders
  <2> QED  BY <1>9, <2>1, <2>2, <2>5
<1>11. ASSUME NEW i \in 1 .. c, NEW j \in 1 .. c, i < j PROVE Earlier(ev[i], ev[j])
  <2>1. a + i \in 1 .. Len(Pinned) /\ a + j \in 1 .. Len(Pinned) /\ a + i < a + j
    BY <1>5, <1>9, <1>11
  <2>2. Earlier(Pinned[a + i], Pinned[a + j])
    BY <1>4, <2>1 DEF Rising
  <2> QED  BY <1>9, <2>2
<1>12. Rising(got')
  <2>1. ASSUME NEW i \in 1 .. g + c, NEW j \in 1 .. g + c, i < j PROVE Earlier(got'[i], got'[j])
    <3>1. CASE i \in 1 .. g /\ j \in 1 .. g
      BY <1>2, <1>5, <1>7, <2>1, <3>1 DEF Rising
    <3>2. ASSUME i \in 1 .. g, NEW k \in 1 .. c, j = g + k PROVE Earlier(got'[i], got'[j])
      BY <1>7, <1>10, <3>2
    <3>3. ASSUME NEW h \in 1 .. c, i = g + h PROVE Earlier(got'[i], got'[j])
      <4>1. PICK k \in 1 .. c : j = g + k
        <5>1. ~(j \in 1 .. g)
          BY <2>1, <3>3
        <5> QED  BY <1>8, <5>1
      <4>2. h < k
        BY <2>1, <3>3, <4>1
      <4>3. Earlier(ev[h], ev[k])
        BY <1>11, <4>2
      <4> QED  BY <1>7, <3>3, <4>1, <4>3
    <3> QED  BY <1>8, <3>1, <3>2, <3>3
  <2> QED  BY <1>7, <2>1 DEF Rising
<1>13. ASSUME NEW k \in 1 .. n
       PROVE  \E h \in 1 .. Len(pinned) : \E j \in 1 .. Len(content[pinned[h].file]) :
                pinned[h].file \in 1 .. Len(content) /\ Pinned[k] = content[pinned[h].file][j]
  <2>1. PICK h \in 1 .. Len(pinned), j \in Nat :
          j \in 1 .. pinned[h].size /\ Pinned[k] = content[pinned[h].file][j]
    <3>1. \E h \in 1 .. Len(pinned) : \E j \in 1 .. pinned[h].size :
            Pinned[k] = content[pinned[h].file][j]
      BY <1>1, <1>2, <1>5, PinnedIs
    <3>2. \A h \in 1 .. Len(pinned) : \A j \in 1 .. pinned[h].size : j \in Nat
      OBVIOUS
    <3> QED  BY <3>1, <3>2
  <2>2. /\ pinned[h].file \in 1 .. Len(content) /\ pinned[h].size \in Nat
        /\ pinned[h].size <= Len(content[pinned[h].file]) /\ Len(content[pinned[h].file]) \in Nat
    BY <1>2, PinIs
  <2>3. j \in 1 .. Len(content[pinned[h].file])
    BY <2>1, <2>2
  <2> QED  BY <2>1, <2>2, <2>3
<1>14. ASSUME NEW i \in 1 .. c PROVE \E j \in 1 .. Len(written) : written[j] = ev[i]
  <2>1. PICK h \in 1 .. Len(pinned) : \E j \in 1 .. Len(content[pinned[h].file]) :
                pinned[h].file \in 1 .. Len(content) /\ Pinned[a + i] = content[pinned[h].file][j]
    BY <1>9, <1>13
  <2>2. \A f \in 1 .. Len(content) : \A j \in 1 .. Len(content[f]) :
          \E k \in 1 .. Len(written) : written[k] = content[f][j]
    BY <1>2 DEF BookInv
  <2>3. \E j \in 1 .. Len(written) : written[j] = Pinned[a + i]
    BY <2>1, <2>2
  <2> QED  BY <1>9, <2>3
<1>15. \A i \in 1 .. g + c : \E j \in 1 .. Len(written) : written[j] = got'[i]
  <2>1. \A i \in 1 .. g : \E j \in 1 .. Len(written) : written[j] = got[i]
    BY <1>5 DEF GotInv
  <2> QED  BY <1>7, <1>8, <1>14, <2>1
<1>16. ASSUME c # 0
       PROVE  /\ c \in 1 .. c /\ Last(ev) = ev[c] /\ got'[g + c] = ev[c] /\ ev # <<>> /\ got' # <<>>
              /\ cursor' = got'[Len(got')] /\ cursor' # NoEvent
  <2>1. c \in 1 .. c /\ Last(ev) = ev[c]
    BY <1>5, <1>16 DEF Last
  <2>2. got'[g + c] = ev[c]
    BY <1>7, <2>1
  <2>3. ev # <<>> /\ got' # <<>>
    BY <1>5, <1>7, <1>16, EmptySeq
  <2>4. ev[c] # NoEvent
    BY <1>2, <1>14, <2>1
  <2> QED  BY <1>1, <1>7, <2>1, <2>2, <2>3, <2>4
<1>17. ASSUME c = 0 PROVE ev = <<>> /\ got' = got /\ cursor' = After
  <2>1. ev = <<>>
    BY <1>3, <1>5, <1>17, EmptySeq
  <2>2. got' = got
    <3>1. \A i \in 1 .. g : got'[i] = got[i]
      BY <1>7
    <3>2. Len(got') = Len(got)
      BY <1>5, <1>7, <1>17
    <3> QED  BY <1>2, <1>5, <1>7, <3>1, <3>2, SeqEqual
  <2> QED  BY <1>1, <2>1, <2>2
<1>18. PagesMeet'
  <2>1. ASSUME NEW i \in 1 .. g + c - 1, i + 1 \notin flagged', got'[i + 1].run = got'[i].run
        PROVE  got'[i + 1].seq = got'[i].seq + 1
    <3>1. CASE i + 1 <= g
      <4>1. i \in 1 .. Len(got) - 1 /\ i \in 1 .. g /\ i + 1 \in 1 .. g /\ i + 1 \notin flagged
        BY <1>5, <1>6, <2>1, <3>1
      <4>2. got'[i] = got[i] /\ got'[i + 1] = got[i + 1]
        BY <1>7, <4>1
      <4> QED  BY <1>2, <2>1, <4>1, <4>2 DEF PagesMeet
    <3>2. CASE ~(i + 1 <= g)
      <4>1. i + 1 \in g + 1 .. g + c
        BY <2>1, <3>2
      <4>2. ~Page.gap
        BY <1>6, <2>1, <4>1
      <4>3. \A k \in 1 .. b - 1 :
              Pinned[k].run = Pinned[k + 1].run => Pinned[k + 1].seq = Pinned[k].seq + 1
        BY <1>3, <4>2
      <4>4. PICK j \in 1 .. c : i + 1 = g + j /\ got'[i + 1] = Pinned[a + j]
        <5>1. i + 1 - g \in 1 .. c /\ i + 1 = g + (i + 1 - g)
          BY <4>1
        <5>2. PICK j \in 1 .. c : i + 1 = g + j
          BY <5>1
        <5>3. got'[g + j] = ev[j] /\ ev[j] = Pinned[a + j]
          BY <1>7, <1>9
        <5> QED  BY <5>2, <5>3
      <4>5. a + j - 1 \in Nat /\ (a + j - 1) + 1 = a + j /\ a + j - 1 <= b - 1
        <5>1. c = b - a /\ a \in Nat /\ b \in Nat
          BY <1>9
        <5> QED  BY <5>1
      <4>6. a + j - 1 \in 1 .. b - 1 /\ got'[i] = Pinned[a + j - 1]
        <5>1. CASE j = 1
          <6>1. i = g /\ i \in 1 .. g /\ got'[i] = got[g] /\ got # <<>>
            BY <1>5, <1>7, <2>1, <4>4, <5>1, EmptySeq
          <6>2. ~tail /\ (cursor = NoEvent => got = <<>> \/ g + 1 \in flagged)
            BY <1>2, <1>3, <1>5, <4>2 DEF PagesMeet
          <6>3. cursor # NoEvent
            BY <1>6, <2>1, <6>1, <6>2
          <6>4. cursor = got[g]
            BY <1>2, <1>5, <6>3 DEF PagesMeet
          <6>5. a \in 1 .. n /\ Pinned[a] = cursor
            BY <1>3, <1>5, <6>2, <6>3
          <6> QED  BY <4>5, <5>1, <6>1, <6>4, <6>5
        <5>2. CASE j # 1
          <6>1. j - 1 \in 1 .. c /\ i = g + (j - 1) /\ a + (j - 1) = a + j - 1 /\ a + j - 1 >= 1
            BY <1>9, <4>4, <5>2
          <6>2. got'[i] = Pinned[a + (j - 1)]
            BY <1>7, <1>9, <6>1
          <6> QED  BY <4>5, <6>1, <6>2
        <5> QED  BY <5>1, <5>2
      <4>7. PICK k \in 1 .. b - 1 : k + 1 = a + j /\ got'[i] = Pinned[k] /\ got'[i + 1] = Pinned[k + 1]
        BY <4>4, <4>5, <4>6
      <4> QED  BY <2>1, <4>3, <4>7
    <3> QED  BY <3>1, <3>2
  <2>2. IF cursor' = NoEvent THEN got' = <<>> \/ Len(got') + 1 \in flagged'
        ELSE got' # <<>> /\ cursor' = got'[Len(got')]
    <3>1. CASE c # 0
      BY <1>16, <3>1
    <3>2. CASE c = 0
      <4>1. got' = got /\ cursor' = After /\ Len(got') = g
        BY <1>5, <1>17, <3>2
      <4>2. CASE tail
        <5>1. cursor' = NoEvent /\ Page.gap
          BY <1>3, <4>1, <4>2 DEF After
        <5> QED  BY <1>6, <4>1, <5>1
      <4>3. CASE ~tail
        <5>1. cursor' = cursor
          BY <4>1, <4>3 DEF After
        <5> QED  BY <1>2, <1>5, <1>6, <4>1, <5>1 DEF PagesMeet
      <4> QED  BY <4>2, <4>3
    <3> QED  BY <3>1, <3>2
  <2> QED  BY <1>7, <2>1, <2>2 DEF PagesMeet
<1>19. GotInv'
  <2>1. written' = written
    BY <1>1
  <2> QED  BY <1>7, <1>12, <1>15, <1>18, <2>1 DEF GotInv
<1>20. /\ Len(observed') = 0 /\ Len(pinned') = 0
       /\ observed' \in Seq(Observation) /\ pinned' \in Seq(Pinning)
  BY <1>1, EmptySeq
<1>21. ReaderInv'
  BY <1>1, <1>20 DEF ReaderInv, PinInv, LookInv
<1>22. LastInv'
  <2>1. SUFFICES ASSUME got' # <<>>
        PROVE  \E f \in 1 .. Len(content) : \E j \in 1 .. Len(content[f]) :
                 content[f][j] = got'[Len(got')] /\ (cursor' = NoEvent => Past(f)')
    BY <1>1, <1>20 DEF LastInv
  <2>2. CASE c # 0
    <3>1. c \in 1 .. c /\ got'[Len(got')] = ev[c] /\ cursor' # NoEvent
      BY <1>7, <1>16, <2>2
    <3>2. PICK h \in 1 .. Len(pinned) : \E j \in 1 .. Len(content[pinned[h].file]) :
            pinned[h].file \in 1 .. Len(content) /\ Pinned[a + c] = content[pinned[h].file][j]
      BY <1>9, <1>13, <3>1
    <3>3. ev[c] = Pinned[a + c]
      BY <1>9, <3>1
    <3> QED  BY <3>1, <3>2, <3>3
  <2>3. CASE c = 0
    <3>1. got' = got /\ cursor' = After
      BY <1>17, <2>3
    <3>2. PICK f \in 1 .. Len(content) : \E j \in 1 .. Len(content[f]) :
            /\ content[f][j] = got[Len(got)]
            /\ tail \/ cursor = NoEvent => Past(f)
      BY <2>1, <3>1 DEF LastInv
    <3>3. cursor' = NoEvent => Past(f)
      BY <3>1, <3>2 DEF After
    <3>4. Past(f) => Past(f)'
      BY <1>1, <1>20 DEF Past, Exists
    <3> QED  BY <3>1, <3>2, <3>3, <3>4
  <2> QED  BY <2>2, <2>3
<1> QED  BY <1>19, <1>21, <1>22

-----------------------------------------------------------------------------
(* The pages of the query *)

QueryInv == ReaderInv /\ GotInv /\ LastInv
PagesInv == JournalRuns /\ WrittenInv /\ QueryInv

\* Every step of the query.
LEMMA QuerySteps ==
  ASSUME JournalInv, WrittenInv, QueryInv, ReaderStep
  PROVE  QueryInv'
<1>1. BookInv /\ DirInv
  BY DEF WrittenInv
<1> QED  BY <1>1, BeginPages, OpenPages, CheckPages, LosePages, ReturnPages DEF QueryInv, ReaderStep

\* The files and their names, and what was written, stay.
LEMMA WrittenStill ==
  ASSUME WrittenInv, UNCHANGED <<fileVars, writerVars, written, watch>>,
         watch = "query" => UNCHANGED <<run, sequence>>
  PROVE  WrittenInv'
<1>1. UNCHANGED <<dir, content, handle, written, watch>>
  BY DEF fileVars, writerVars
<1>2. NumberInv'
  BY <1>1 DEF WrittenInv, NumberInv
<1>3. BookInv'
  BY <1>1 DEF WrittenInv, BookInv
<1>4. DirInv'
  BY <1>1 DEF WrittenInv, DirInv, Exists
<1> QED  BY <1>2, <1>3, <1>4 DEF WrittenInv

\* What the query has stays where nothing of the journal changes.
LEMMA QueryStill ==
  ASSUME QueryInv, UNCHANGED journalVars
  PROVE  QueryInv'
<1>1. /\ UNCHANGED <<dir, content, written>>
      /\ UNCHANGED <<rd, observed, pinned, cursor, tail, got, flagged>>
  BY DEF journalVars, fileVars, readerVars
<1>2. ReaderInv'
  BY <1>1 DEF QueryInv, ReaderInv, PinInv, LookInv
<1>3. GotInv'
  BY <1>1 DEF QueryInv, GotInv, PagesMeet
<1>4. LastInv'
  <2>1. \A f : Past(f) => Past(f)'
    BY <1>1 DEF Past, Exists
  <2> QED  BY <1>1, <2>1 DEF QueryInv, LastInv
<1> QED  BY <1>2, <1>3, <1>4 DEF QueryInv

\* A step of the rotation, or of a run that opens the journal, leaves the query alone.
LEMMA RotationPages ==
  ASSUME JournalInv, JournalInv', BookInv, DirInv, QueryInv,
         Keeps \/ Creates, UNCHANGED <<written, readerVars>>
  PROVE  BookInv' /\ DirInv' /\ QueryInv'
<1>1. FilesInv
  BY DEF JournalInv
<1>2. BookInv' /\ DirInv' /\ Grows
  BY <1>1, KeepsFiles, CreatesFiles
<1> QED  BY <1>2, ReaderRests DEF QueryInv

\* Every step of the writer, of the query and of a crash, and of everybody else.
LEMMA PagesNext == PagesInv /\ [Next]_vars => PagesInv'
<1> SUFFICES ASSUME PagesInv, [Next]_vars PROVE WrittenInv' /\ QueryInv'
  BY JournalNext DEF PagesInv
<1>1. JournalRuns /\ JournalRuns' /\ JournalInv /\ JournalInv' /\ WrittenInv /\ QueryInv
  BY JournalNext DEF PagesInv, JournalRuns
<1>2. BookInv /\ DirInv /\ NumberInv
  BY <1>1 DEF WrittenInv
<1>3. CASE UNCHANGED <<journalVars, watch>> /\ (watch = "query" => UNCHANGED <<run, sequence>>)
  <2>1. UNCHANGED <<fileVars, writerVars, written, watch>>
    BY <1>3 DEF journalVars
  <2> QED  BY <1>1, <1>3, <2>1, WrittenStill, QueryStill
<1>4. ASSUME NEW g \in Goroutine, Emit(g) PROVE WrittenInv' /\ QueryInv'
  <2>1. CASE watch = "query"
    <3> DEFINE id == [run |-> run, seq |-> sequence + 1]
    <3>1. WriteEvent(id) /\ sequence' = sequence + 1 /\ UNCHANGED <<watch, run>>
      BY <1>4, <2>1 DEF Emit
    <3>2. PICK e : e = id
      OBVIOUS
    <3>3. e = [run |-> run, seq |-> sequence + 1] /\ WriteEvent(e)
      BY <3>1, <3>2
    <3>4. WrittenInv' /\ Grows
      BY <1>1, <2>1, <3>1, <3>3, EmitWrites
    <3> QED  BY <1>1, <3>4, ReaderRests DEF QueryInv
  <2>2. CASE watch # "query"
    <3>1. UNCHANGED <<journalVars, watch>>
      BY <1>4, <2>2 DEF Emit
    <3> QED  BY <1>3, <2>2, <3>1
  <2> QED  BY <2>1, <2>2
<1>5. CASE Crash
  <2>1. watch = "query" /\ run' = run + 1 /\ sequence' = 0 /\ UNCHANGED watch /\ Reopen
    BY <1>5 DEF Crash
  <2>2. UNCHANGED <<written, readerVars>> /\ (Keeps \/ Creates)
    BY <1>1, <2>1, ReopenKeeps DEF Reopen, writerRest
  <2>3. BookInv' /\ DirInv' /\ QueryInv'
    BY <1>1, <1>2, <2>2, RotationPages
  <2>4. NumberInv'
    <3>1. written' = written /\ run \in Nat \ {0} /\ sequence \in Nat
      BY <1>2, <2>1, <2>2 DEF NumberInv
    <3>2. \A i \in 1 .. Len(written) : written[i].run \in Nat
      <4>1. \A i \in 1 .. Len(written) : written[i] \in EventId
        BY <1>1, LenProperties DEF JournalInv, FilesInv
      <4> QED  BY <4>1 DEF EventId
    <3>3. \A i \in 1 .. Len(written) : written[i].run < run \/ written[i].run = run
      BY <1>2, <2>1 DEF NumberInv
    <3>4. \A i \in 1 .. Len(written) : written[i].run < run + 1
      BY <3>1, <3>2, <3>3
    <3> QED  BY <1>2, <2>1, <3>1, <3>4 DEF NumberInv
  <2> QED  BY <2>3, <2>4 DEF WrittenInv
<1>6. CASE JournalStep /\ UNCHANGED eventVars
  <2>1. UNCHANGED <<watch, run, sequence>>
    BY <1>6 DEF eventVars, runnerVars
  <2>2. CASE RotateStep
    <3>1. UNCHANGED readerVars
      BY <2>2 DEF RotateStep, RestoreDisplaced, Stage, FindSlot, ShiftOne, MakeCopy, OpenNew, writerRest
    <3>2. UNCHANGED <<written, readerVars>> /\ (Keeps \/ Creates)
      BY <1>1, <2>2, <3>1, RotateKeeps
    <3>3. BookInv' /\ DirInv' /\ QueryInv'
      BY <1>1, <1>2, <3>2, RotationPages
    <3>4. NumberInv'
      BY <1>2, <2>1, <3>2 DEF NumberInv
    <3> QED  BY <3>3, <3>4 DEF WrittenInv
  <2>3. CASE ReaderStep
    <3>1. UNCHANGED readerRest
      BY <2>3 DEF ReaderStep, BeginQuery, OpenFile, CheckFiles, CursorLost, ReturnPage
    <3>2. UNCHANGED <<fileVars, writerVars, written, watch>>
      BY <2>1, <3>1 DEF readerRest
    <3> QED  BY <1>1, <2>1, <2>3, <3>2, WrittenStill, QuerySteps
  <2> QED  BY <1>6, <2>2, <2>3 DEF JournalStep
<1>7. \/ \E g \in Goroutine : Emit(g)
      \/ Crash
      \/ UNCHANGED <<journalVars, watch, run, sequence>>
      \/ JournalStep /\ UNCHANGED eventVars
  <2>1. CASE ServerStep /\ UNCHANGED <<journalVars, monitorVars>>
    BY <2>1, NumbersStay
  <2>2. CASE Reading
    BY <2>2, NumbersStay DEF Reading
  <2>3. CASE UNCHANGED <<journalVars, eventVars>>
    BY <2>3 DEF eventVars, runnerVars
  <2> QED  BY <2>1, <2>2, <2>3 DEF Next, vars, WriterStep
<1> QED  BY <1>3, <1>4, <1>5, <1>6, <1>7

\* Nothing was written, nothing was asked for.
LEMMA PagesBegin == Init => PagesInv
<1> SUFFICES ASSUME Init PROVE PagesInv
  OBVIOUS
<1>1. /\ dir = [n \in Name |-> IF n = Live THEN 1 ELSE Absent] /\ content = << <<>> >>
      /\ handle = 1 /\ written = <<>> /\ rd = "idle" /\ observed = <<>> /\ pinned = <<>>
      /\ cursor = NoEvent /\ got = <<>> /\ run = 1 /\ (watch = "query" => sequence = 0)
  <2>1. watch = "query" => Len(history) = 0
    BY DEF Init, EventsInit
  <2> QED  BY <2>1 DEF Init, EventsInit, JournalInit
<1>2. /\ Len(written) = 0 /\ Len(got) = 0 /\ Len(observed) = 0 /\ Len(pinned) = 0
      /\ got \in Seq(EventId) /\ observed \in Seq(Observation) /\ pinned \in Seq(Pinning)
  BY <1>1, EmptySeq
<1>3. Len(content) = 1 /\ \A f \in 1 .. 1 : f = 1 /\ Len(content[f]) = 0
  <2>1. Len(content) = 1 /\ content[1] = <<>> /\ \A f \in 1 .. 1 : f = 1
    BY <1>1
  <2> QED  BY <2>1
<1>4. NumberInv
  BY <1>1, <1>2 DEF NumberInv, Rising
<1>5. BookInv
  <2>1. handle = Len(content)
    BY <1>1, <1>3
  <2>2. \A f \in 1 .. Len(content) : Len(content[f]) = 0
    BY <1>3
  <2>3. ~\E i : i \in 1 .. 0
    OBVIOUS
  <2> QED  BY <2>1, <2>2, <2>3 DEF BookInv, Rising
<1>6. DirInv
  <2>1. \A n \in Name : Exists(n) => n = Live /\ dir[n] = 1
    BY <1>1 DEF Exists
  <2>2. \A m, n \in Name : Exists(m) /\ Exists(n) => ~(Age(m) < Age(n))
    <3>1. Age(Live) = 0
      BY AgesAre
    <3> QED  BY <2>1, <3>1
  <2>3. \A n \in Name : Exists(n) => \A f \in dir[n] .. Len(content) : \E m \in Name : dir[m] = f
    BY <1>3, <2>1
  <2> QED  BY <2>2, <2>3 DEF DirInv
<1>7. ReaderInv
  BY <1>1, <1>2 DEF ReaderInv, PinInv, LookInv
<1>8. GotInv
  BY <1>1, <1>2 DEF GotInv, PagesMeet, Rising
<1>9. LastInv
  BY <1>1 DEF LastInv
<1> QED  BY <1>4, <1>5, <1>6, <1>7, <1>8, <1>9, JournalBegins DEF PagesInv, WrittenInv, QueryInv

\* What is returned is in the order it was written, and pages meet.
LEMMA PagesFollow == PagesInv => PagesExact
<1> SUFFICES ASSUME PagesInv, NEW i \in 1 .. Len(got) - 1
             PROVE  /\ Spot(got[i + 1]) > Spot(got[i])
                    /\ i + 1 \notin flagged /\ got[i + 1].run = got[i].run =>
                         Spot(got[i + 1]) = Spot(got[i]) + 1
  BY DEF PagesExact, Spot
<1>1. /\ written \in Seq(EventId) /\ Rising(written) /\ got \in Seq(EventId) /\ Rising(got) /\ PagesMeet
      /\ \A k \in 1 .. Len(got) : \E j \in 1 .. Len(written) : written[j] = got[k]
  BY DEF PagesInv, JournalRuns, JournalInv, FilesInv, WrittenInv, NumberInv, QueryInv, GotInv
<1>2. i \in 1 .. Len(got) /\ i + 1 \in 1 .. Len(got) /\ i < i + 1
  BY <1>1, LenProperties
<1>3. PICK j \in 1 .. Len(written) : written[j] = got[i]
  BY <1>1, <1>2
<1>4. PICK k \in 1 .. Len(written) : written[k] = got[i + 1]
  BY <1>1, <1>2
<1>5. Spot(got[i]) = j /\ Spot(got[i + 1]) = k
  BY <1>1, <1>3, <1>4, SpotIs
<1>6. Earlier(written[j], written[k])
  BY <1>1, <1>2, <1>3, <1>4 DEF Rising
<1>7. k > j /\ (written[k].run = written[j].run /\ written[k].seq = written[j].seq + 1 => k = j + 1)
  BY <1>1, <1>6, WrittenLater
<1>8. i + 1 \notin flagged /\ got[i + 1].run = got[i].run => got[i + 1].seq = got[i].seq + 1
  BY <1>1 DEF PagesMeet
<1> QED  BY <1>3, <1>4, <1>5, <1>7, <1>8

\* The pages of a query that follows its cursor return the events of a run
\* once each, in order, although the files are renamed while they are opened
\* and read, and the daemon crashes; what is missed lies behind a page that
\* reports a gap (Query, snapshotFiles).
THEOREM PagesAreExact == Spec => []PagesExact
<1> QED  BY PagesBegin, PagesNext, PagesFollow, PTL DEF Spec

-----------------------------------------------------------------------------
(* The monitor *)

Message == Entry \cup [kind : {"state"}, proc : Proc, st : State]

\* The lines among the messages of s are numbered as they come; those of q
\* come after those of s; none is newer than n.
Rises(s) == \A i, j \in 1 .. Len(s) :
              i < j /\ s[i].kind = "log" /\ s[j].kind = "log" => s[i].id.seq < s[j].id.seq
Precedes(s, q) == \A i \in 1 .. Len(s), j \in 1 .. Len(q) :
                    s[i].kind = "log" /\ q[j].kind = "log" => s[i].id.seq < q[j].id.seq
UpTo(s, n) == \A i \in 1 .. Len(s) : s[i].kind = "log" => s[i].id.seq <= n

\* The newest line is in the hands of a goroutine, and not in the history or
\* not in the queue of the monitor yet.
Fetched(g) == pc[g] = "push" /\ item[g].kind = "log"
Awaited(g) == Fetched(g) \/ (pc[g] = "fan" /\ to[g] /\ item[g].kind = "log")
Logged  == IF \E g \in Goroutine : Fetched(g) THEN sequence - 1 ELSE sequence
Passed  == IF \E g \in Goroutine : Awaited(g) THEN sequence - 1 ELSE sequence

ScreenTypeOK ==
  /\ {sequence, run} \subseteq Nat
  /\ pc \in [Goroutine -> {"idle", "snap", "push", "fan", "compare", "emit"}]
  /\ about \in [Goroutine -> Goroutine] /\ item \in [Goroutine -> Message \cup {Nothing}]
  /\ to \in [Goroutine -> BOOLEAN]
  /\ {proc, states} \subseteq [Proc -> State]
  /\ history \in Seq(Entry)

\* One goroutine at a time reports; what it has in its hands is the newest line.
SoloInv ==
  /\ \A g \in Goroutine : pc[g] # "idle" => g \in Proc /\ about[g] = g
  /\ \A g, h \in Goroutine : pc[g] # "idle" /\ pc[h] # "idle" => g = h
  /\ \A p \in Proc : about[p] = p
  /\ \A g \in Goroutine : pc[g] \in {"push", "fan"} =>
       item[g] \in Message /\ (item[g].kind = "log" => item[g].id.seq = sequence)

KeptInv == Rises(history) /\ UpTo(history, Logged)

\* What the monitor shows, or the snapshot it is about to show.
Lines(c, l) == IF c.at = "snap" THEN c.snap.logs ELSE l

\* What the client has and will read comes in the order of the numbers,
\* across the snapshot and the stream; nothing of it is newer than n.
Feed(c, l, n) ==
  /\ DOMAIN c = {"at", "reg", "shut", "queue", "snap"}
  /\ c.at \in {"off", "snap", "open", "gone"} /\ {c.reg, c.shut} \subseteq BOOLEAN
  /\ c.at = "off" => c.queue = <<>> /\ ~c.reg
  /\ c.at = "snap" => c.snap.kind = "snapshot" /\ DOMAIN c.snap.states \subseteq Proc
  /\ Lines(c, l) \in Seq(Entry) /\ Rises(Lines(c, l)) /\ UpTo(Lines(c, l), n)
  /\ c.queue \in Seq(Message) /\ Rises(c.queue) /\ UpTo(c.queue, n)
  /\ Precedes(Lines(c, l), c.queue)

FeedInv ==
  /\ Feed(client, logs, Passed)
  /\ client.at = "off" => \A g \in Goroutine : ~to[g]

\* The order lists the table.
ListsAll(o, S) == o \in Seq(S) /\ \A n \in S : \E i \in 1 .. Len(o) : o[i] = n

\* The highlighted row is the one of the name that is tracked.
ViewInv ==
  /\ logs \in Seq(Entry) /\ offset \in Nat
  /\ DOMAIN table \subseteq Proc /\ ListsAll(order, DOMAIN table)
  /\ selectedName # NoOne => selected \in 1 .. Len(order) /\ order[selected] = selectedName
  /\ client.at \in {"off", "snap"} => logs = <<>> /\ order = <<>> /\ offset = 0

Screening == watch = "screen" /\ ScreenTypeOK /\ SoloInv /\ KeptInv /\ FeedInv /\ ViewInv
ScreenInv == watch = "screen" => Screening

-----------------------------------------------------------------------------
(* The order of the table *)

\* The place of a name in a list that has it.
LEMMA IndexIs ==
  ASSUME NEW o, NEW n, NEW i \in 1 .. Len(o), Len(o) \in Nat, o[i] = n
  PROVE  IndexOf(n, o) \in 1 .. Len(o) /\ o[IndexOf(n, o)] = n
<1> DEFINE I == {j \in 1 .. Len(o) : o[j] = n}
<1>1. I \subseteq Nat /\ I # {}
  OBVIOUS
<1>2. IndexOf(n, o) = Min(I)
  BY <1>1 DEF IndexOf, SelectInSeq
<1>3. \E j \in I : \A k \in I : j <= k
  BY <1>1, LeastNumber
<1>4. Min(I) \in I
  <2> HIDE DEF I
  <2> QED  BY <1>3 DEF Min
<1> QED  BY <1>2, <1>4

\* Every process has a place in Names; there are finitely many.
LEMMA NamesList ==
  /\ \A n \in Proc : IndexOf(n, Names) \in Nat /\ Names[IndexOf(n, Names)] = n
  /\ IsFiniteSet(Proc)
<1>1. Names \in Seq(Proc) /\ Len(Names) \in Nat /\ DOMAIN Names = 1 .. Len(Names)
  BY EventsAssumption, LenProperties
<1>2. ASSUME NEW n \in Proc
      PROVE  IndexOf(n, Names) \in Nat /\ Names[IndexOf(n, Names)] = n
  <2>1. PICK i \in 1 .. Len(Names) : Names[i] = n
    BY <1>1 DEF Proc
  <2> QED  BY <1>1, <2>1, IndexIs
<1>3. IsFiniteSet(Proc)
  <2>1. Names \in [1 .. Len(Names) -> Proc] /\ \A p \in Proc : \E i \in 1 .. Len(Names) : Names[i] = p
    BY <1>1 DEF Proc
  <2>2. Names \in Surjection(1 .. Len(Names), Proc)
    BY <2>1 DEF Surjection
  <2>3. IsFiniteSet(1 .. Len(Names))
    BY <1>1, FS_Interval
  <2> QED  BY <2>2, <2>3, FS_Surjection
<1> QED  BY <1>2, <1>3

\* A function with a value of its own for each argument.
LEMMA MapInjects ==
  ASSUME NEW S, NEW T, NEW f \in [S -> T], \A x, y \in S : x # y => f[x] # f[y]
  PROVE  f \in Injection(S, T)
<1>1. DOMAIN f = S
  OBVIOUS
<1>2. IsInjective(f)
  BY <1>1 DEF IsInjective
<1> QED  BY <1>2 DEF Injection

\* The rank of a state is a number.
LEMMA HealthRanks == ASSUME NEW st PROVE healthRank(st) \in Nat
BY DEF healthRank

\* Two rows of a table are above each other in one way only.
LEMMA AboveOrders ==
  ASSUME NEW t, NEW l \in Proc, NEW m \in Proc, NEW n \in Proc
  PROVE  /\ ~Above(t, m, m)
         /\ Above(t, l, m) /\ Above(t, m, n) => Above(t, l, n)
         /\ m # n => Above(t, m, n) \/ Above(t, n, m)
<1>1. PICK a \in Nat, b \in Nat, c \in Nat :
        a = healthRank(t[l]) /\ b = healthRank(t[m]) /\ c = healthRank(t[n])
  BY HealthRanks
<1>2. PICK i \in Nat, j \in Nat, k \in Nat :
        i = IndexOf(l, Names) /\ j = IndexOf(m, Names) /\ k = IndexOf(n, Names)
  BY NamesList
<1>3. m # n => j # k
  BY <1>2, NamesList
<1> QED  BY <1>1, <1>2, <1>3 DEF Above

\* There is an order, the places of which are counted from above.
LEMMA SortedIs ==
  ASSUME NEW t, DOMAIN t \subseteq Proc
  PROVE  ListsAll(Sorted(t), DOMAIN t)
<1> DEFINE S == DOMAIN t
           Higher(n) == {m \in S : Above(t, m, n)}
           N == Cardinality(S)
           P(o) == o \in [1 .. N -> S] /\ \A i, j \in DOMAIN o : i < j => Above(t, o[i], o[j])
           place == [n \in S |-> Cardinality(Higher(n)) + 1]
<1>1. IsFiniteSet(S) /\ N \in Nat
  BY NamesList, FS_Subset, FS_CardinalityType
<1>2. ASSUME NEW n \in S
      PROVE  /\ IsFiniteSet(Higher(n)) /\ Cardinality(Higher(n)) \in Nat
             /\ Cardinality(Higher(n)) + 1 \in 1 .. N
  <2>1. Higher(n) \subseteq S /\ n \notin Higher(n)
    BY AboveOrders
  <2> HIDE DEF S, Higher
  <2>2. /\ IsFiniteSet(Higher(n)) /\ Cardinality(Higher(n)) <= Cardinality(S)
        /\ Cardinality(Higher(n)) = Cardinality(S) => Higher(n) = S
    BY <1>1, <2>1, FS_Subset
  <2>3. Cardinality(Higher(n)) \in Nat
    BY <2>2, FS_CardinalityType
  <2> QED  BY <1>1, <1>2, <2>1, <2>2, <2>3
<1>3. ASSUME NEW m \in S, NEW n \in S, Above(t, m, n)
      PROVE  Cardinality(Higher(m)) < Cardinality(Higher(n))
  <2>1. Higher(m) \subseteq Higher(n) /\ m \in Higher(n) /\ m \notin Higher(m)
    BY <1>3, AboveOrders
  <2>2. IsFiniteSet(Higher(n)) /\ Cardinality(Higher(n)) \in Nat /\ Cardinality(Higher(m)) \in Nat
    BY <1>2
  <2> HIDE DEF S, Higher
  <2>3. /\ Cardinality(Higher(m)) <= Cardinality(Higher(n))
        /\ Cardinality(Higher(m)) = Cardinality(Higher(n)) => Higher(m) = Higher(n)
    BY <2>1, <2>2, FS_Subset
  <2> QED  BY <2>1, <2>2, <2>3
<1>4. place \in Injection(S, 1 .. N)
  <2>1. place \in [S -> 1 .. N]
    BY <1>2
  <2>2. ASSUME NEW m \in S, NEW n \in S, m # n PROVE place[m] # place[n]
    <3>1. Above(t, m, n) \/ Above(t, n, m)
      BY <2>2, AboveOrders
    <3>2. Cardinality(Higher(m)) \in Nat /\ Cardinality(Higher(n)) \in Nat
          /\ Cardinality(Higher(m)) # Cardinality(Higher(n))
      BY <1>2, <1>3, <3>1
    <3> HIDE DEF Higher
    <3> QED  BY <3>2
  <2> HIDE DEF place, S
  <2> QED  BY <2>1, <2>2, MapInjects
<1>5. place \in Surjection(S, 1 .. N)
  <2>1. IsFiniteSet(1 .. N) /\ Cardinality(1 .. N) = N
    BY <1>1, FS_Interval
  <2> HIDE DEF place, S
  <2>2. Cardinality(S) = N
    OBVIOUS
  <2> QED  BY <1>1, <1>4, <2>1, <2>2, FS_Injection
<1>6. \E o : P(o)
  <2> DEFINE o == [i \in 1 .. N |-> CHOOSE n \in S : place[n] = i]
  <2>1. ASSUME NEW i \in 1 .. N PROVE o[i] \in S /\ place[o[i]] = i
    <3>1. \E n \in S : place[n] = i
      <4> HIDE DEF place, S
      <4> QED  BY <1>5 DEF Surjection
    <3> HIDE DEF place, S
    <3> QED  BY <3>1
  <2>2. o \in [1 .. N -> S] /\ DOMAIN o = 1 .. N
    BY <2>1
  <2> HIDE DEF o
  <2>3. ASSUME NEW i \in 1 .. N, NEW j \in 1 .. N, i < j PROVE Above(t, o[i], o[j])
    <3>1. o[i] \in S /\ o[j] \in S /\ place[o[i]] = i /\ place[o[j]] = j
      BY <2>1
    <3>2. Cardinality(Higher(o[i])) + 1 = i /\ Cardinality(Higher(o[j])) + 1 = j
      BY <3>1
    <3>3. o[i] # o[j]
      BY <2>3, <3>1
    <3>4. Cardinality(Higher(o[i])) \in Nat /\ Cardinality(Higher(o[j])) \in Nat
      BY <1>2, <3>1
    <3>5. ~Above(t, o[j], o[i])
      <4>1. Above(t, o[j], o[i]) => Cardinality(Higher(o[j])) < Cardinality(Higher(o[i]))
        BY <1>3, <3>1
      <4> HIDE DEF Higher
      <4> QED  BY <2>3, <3>2, <3>4, <4>1
    <3> QED  BY <3>1, <3>3, <3>5, AboveOrders
  <2> QED  BY <2>2, <2>3
<1>7. PICK o : o = Sorted(t) /\ P(o)
  BY <1>6 DEF Sorted
<1>8. o \in [1 .. N -> S] /\ \A i, j \in 1 .. N : i < j => Above(t, o[i], o[j])
  BY <1>7
<1>9. o \in Injection(1 .. N, S)
  <2>1. ASSUME NEW i \in 1 .. N, NEW j \in 1 .. N, i # j PROVE o[i] # o[j]
    <3>1. i < j \/ j < i
      BY <2>1
    <3>2. o[i] \in Proc /\ o[j] \in Proc
      BY <1>8
    <3> QED  BY <1>8, <3>1, <3>2, AboveOrders
  <2> HIDE DEF S
  <2> QED  BY <1>8, <2>1, MapInjects
<1>10. o \in Surjection(1 .. N, S)
  <2>1. IsFiniteSet(1 .. N) /\ Cardinality(1 .. N) = N
    BY <1>1, FS_Interval
  <2>2. Cardinality(S) = N
    OBVIOUS
  <2> HIDE DEF S
  <2> QED  BY <1>1, <1>9, <2>1, <2>2, FS_Injection
<1>11. o \in Seq(S) /\ Len(o) = N
  <2> HIDE DEF S, N
  <2> QED  BY <1>1, <1>8
<1>12. \A n \in S : \E i \in 1 .. Len(o) : o[i] = n
  <2> HIDE DEF S, N
  <2> QED  BY <1>10, <1>11 DEF Surjection
<1> QED  BY <1>7, <1>11, <1>12 DEF ListsAll

-----------------------------------------------------------------------------
(* The lines that are shown *)

\* The lines shown of all lines l, scrolled back by o.
View(l, o) == LET end   == Max({0, Len(l) - o})
                  start == Max({0, end - PageRows})
              IN SubSeq(l, start + 1, end)

\* A view of all logs ends `offset` lines above the newest.
LEMMA ShownIs ==
  /\ filter = All => Shown = View(logs, offset)
  /\ filter' = All => Shown' = View(logs', offset')
<1>1. filter = All => filteredLogs = logs
  BY Zenon DEF filteredLogs
<1>2. filter' = All => filteredLogs' = logs'
  BY Zenon DEF filteredLogs
<1>3. filter = All => Shown = View(logs, offset)
  BY <1>1, Zenon DEF Shown, View
<1>4. filter' = All => Shown' = View(logs', offset')
  BY <1>2, Zenon DEF Shown, View
<1> QED  BY <1>3, <1>4

\* Such a page is empty if all lines are above it; else it ends with that line.
LEMMA ViewEnds ==
  ASSUME NEW ls \in Seq(Entry), NEW o \in Nat
  PROVE  LET end == Len(ls) - o
         IN /\ View(ls, o) # <<>> <=> end >= 1
            /\ end >= 1 => end \in 1 .. Len(ls) /\ Last(View(ls, o)) = ls[end]
<1> DEFINE end == Max({0, Len(ls) - o})
           start == Max({0, end - PageRows})
<1>1. View(ls, o) = SubSeq(ls, start + 1, end)
  BY Zenon DEF View
<1>3. \A x \in Int : Max({0, x}) = IF x > 0 THEN x ELSE 0
  BY DEF Max
<1>4. PICK l \in Nat : l = Len(ls)
  BY LenProperties
<1>5. PICK e \in Nat : e = end /\ e = (IF l - o > 0 THEN l - o ELSE 0)
  BY <1>3, <1>4
<1>6. PageRows \in Nat \ {0}
  BY MonitorAssumption
<1>7. PICK s \in Nat : s = start /\ (e >= 1 => s < e) /\ (e = 0 => s = 0)
  <2> HIDE DEF end
  <2>1. start = Max({0, e - PageRows})
    BY <1>5
  <2>2. Max({0, e - PageRows}) = IF e - PageRows > 0 THEN e - PageRows ELSE 0
    BY <1>3, <1>6
  <2> QED  BY <1>6, <2>1, <2>2
<1> HIDE DEF end, start
<1>8. View(ls, o) = SubSeq(ls, s + 1, e)
  BY <1>1, <1>5, <1>7
<1>9. s <= e /\ e <= l
  BY <1>5, <1>7
<1>10. /\ View(ls, o) \in Seq(Entry) /\ Len(View(ls, o)) = e - s /\ \A i \in 1 .. e - s : View(ls, o)[i] = ls[s + i]
  <2>1. /\ SubSeq(ls, s + 1, e) \in Seq(Entry) /\ Len(SubSeq(ls, s + 1, e)) = e - s
        /\ \A i \in 1 .. e - s : SubSeq(ls, s + 1, e)[i] = ls[s + i]
    BY <1>4, <1>9, StretchIs
  <2> QED  BY <1>8, <2>1
<1>11. CASE e >= 1
  <2>1. e - s \in 1 .. e - s /\ s + (e - s) = e
    BY <1>7, <1>11
  <2>2. Last(View(ls, o)) = ls[e] /\ View(ls, o) # <<>>
    BY <1>10, <2>1, EmptySeq DEF Last
  <2> QED  BY <1>4, <1>5, <1>9, <1>11, <2>2
<1>12. CASE e = 0
  <2>1. View(ls, o) = <<>>
    BY <1>7, <1>10, <1>12, EmptySeq
  <2> QED  BY <1>4, <1>5, <1>12, <2>1
<1> QED  BY <1>11, <1>12

-----------------------------------------------------------------------------
(* Lines in the order of their numbers *)

\* A line is an entry, and it is numbered.
LEMMA MessagesAre ==
  /\ \A m \in Message : m.kind = "log" => m \in Entry /\ m.id.seq \in Nat
  /\ \A m \in Entry : m \in Message /\ m.kind = "log" /\ m.id.seq \in Nat
  /\ \A s \in Seq(Entry) : s \in Seq(Message)
<1>1. Entry \subseteq Message
  BY DEF Message
<1>2. \A m \in Entry : m.kind = "log" /\ m.id.seq \in Nat
  BY DEF Entry
<1>3. \A m \in Message : m.kind = "log" => m \in Entry
  BY DEF Message
<1> QED  BY <1>1, <1>2, <1>3

\* The end of a sequence.
LEMMA EndRises ==
  ASSUME NEW s, NEW t, NEW k \in Nat, Len(s) \in Nat, Len(t) \in Nat, Len(s) = k + Len(t),
         \A i \in 1 .. Len(t) : t[i] = s[k + i]
  PROVE  /\ Rises(s) => Rises(t)
         /\ \A n \in Int : UpTo(s, n) => UpTo(t, n)
         /\ \A q : (Precedes(s, q) => Precedes(t, q)) /\ (Precedes(q, s) => Precedes(q, t))
<1>1. \A i \in 1 .. Len(t) : k + i \in 1 .. Len(s) /\ t[i] = s[k + i]
  OBVIOUS
<1>2. \A i, j \in 1 .. Len(t) : i < j => k + i < k + j
  OBVIOUS
<1>3. Rises(s) => Rises(t)
  BY <1>1, <1>2 DEF Rises
<1>4. \A n \in Int : UpTo(s, n) => UpTo(t, n)
  BY <1>1 DEF UpTo
<1>5. \A q : (Precedes(s, q) => Precedes(t, q)) /\ (Precedes(q, s) => Precedes(q, t))
  BY <1>1 DEF Precedes
<1> QED  BY <1>3, <1>4, <1>5

\* The first message leaves.
LEMMA TailRises ==
  ASSUME NEW E, NEW s \in Seq(E), s # <<>>
  PROVE  /\ Tail(s) \in Seq(E) /\ Head(s) \in E /\ Head(s) = s[1] /\ Len(s) \in Nat
         /\ Len(Tail(s)) = Len(s) - 1 /\ \A i \in 1 .. Len(Tail(s)) : Tail(s)[i] = s[i + 1] /\ i + 1 \in 1 .. Len(s)
         /\ 1 \in 1 .. Len(s)
         /\ Rises(s) => Rises(Tail(s))
         /\ \A n \in Int : UpTo(s, n) => UpTo(Tail(s), n)
         /\ \A q : (Precedes(s, q) => Precedes(Tail(s), q)) /\ (Precedes(q, s) => Precedes(q, Tail(s)))
<1>1. /\ Tail(s) \in Seq(E) /\ Head(s) \in E /\ Len(Tail(s)) = Len(s) - 1
      /\ \A i \in 1 .. Len(Tail(s)) : Tail(s)[i] = s[i + 1]
  BY HeadTailProperties
<1>2. Len(s) \in Nat \ {0}
  BY EmptySeq
<1>3. Head(s) = s[1]
  OBVIOUS
<1>4. PICK t : t = Tail(s)
  OBVIOUS
<1>5. /\ Len(t) \in Nat /\ Len(s) = 1 + Len(t) /\ \A i \in 1 .. Len(t) : t[i] = s[1 + i]
      /\ \A i \in 1 .. Len(t) : i + 1 \in 1 .. Len(s)
  BY <1>1, <1>2, <1>4
<1>6. /\ Rises(s) => Rises(t)
      /\ \A n \in Int : UpTo(s, n) => UpTo(t, n)
      /\ \A q : (Precedes(s, q) => Precedes(t, q)) /\ (Precedes(q, s) => Precedes(q, t))
  BY <1>2, <1>5, EndRises
<1> QED  BY <1>1, <1>2, <1>3, <1>4, <1>5, <1>6

\* One more message, newer than the lines that are there.
LEMMA AppendRises ==
  ASSUME NEW E, NEW s \in Seq(E), NEW m \in E
  PROVE  /\ Append(s, m) \in Seq(E) /\ Len(Append(s, m)) = Len(s) + 1 /\ Len(s) \in Nat
         /\ \A i \in 1 .. Len(s) : i \in 1 .. Len(s) + 1 /\ Append(s, m)[i] = s[i]
         /\ Append(s, m)[Len(s) + 1] = m /\ Len(s) + 1 \in 1 .. Len(s) + 1
         /\ \A i \in 1 .. Len(s) + 1 : i \in 1 .. Len(s) \/ i = Len(s) + 1
         /\ Rises(s) /\ (m.kind = "log" => \A i \in 1 .. Len(s) : s[i].kind = "log" => s[i].id.seq < m.id.seq)
            => Rises(Append(s, m))
         /\ \A n \in Int : UpTo(s, n) /\ (m.kind = "log" => m.id.seq <= n) => UpTo(Append(s, m), n)
         /\ \A q : Precedes(q, s) /\ (m.kind = "log" => \A i \in 1 .. Len(q) : q[i].kind = "log" => q[i].id.seq < m.id.seq)
                   => Precedes(q, Append(s, m))
         /\ \A q : Precedes(s, q) /\ (m.kind = "log" => \A j \in 1 .. Len(q) : q[j].kind = "log" => m.id.seq < q[j].id.seq)
                   => Precedes(Append(s, m), q)
<1>1. PICK l \in Nat : l = Len(s)
  BY LenProperties
<1>2. PICK t : t = Append(s, m)
  OBVIOUS
<1>3. /\ t \in Seq(E) /\ Len(t) = l + 1 /\ \A i \in 1 .. l : t[i] = s[i]
      /\ t[l + 1] = m
  BY <1>1, <1>2, AppendProperties
<1>4. /\ \A i \in 1 .. l : i \in 1 .. l + 1 /\ i # l + 1 /\ i < l + 1 /\ ~(l + 1 < i)
      /\ \A i \in 1 .. l + 1 : i \in 1 .. l \/ i = l + 1
      /\ l + 1 \in 1 .. l + 1 /\ ~(l + 1 < l + 1)
  OBVIOUS
<1>5. ASSUME Rises(s), m.kind = "log" => \A i \in 1 .. l : s[i].kind = "log" => s[i].id.seq < m.id.seq
      PROVE  Rises(t)
  <2>1. ASSUME NEW i \in 1 .. l + 1, NEW j \in 1 .. l + 1, i < j, t[i].kind = "log", t[j].kind = "log"
        PROVE  t[i].id.seq < t[j].id.seq
    <3>1. i \in 1 .. l
      BY <1>4, <2>1
    <3>2. CASE j \in 1 .. l
      BY <1>1, <1>3, <1>5, <2>1, <3>1, <3>2 DEF Rises
    <3>3. CASE j = l + 1
      BY <1>3, <1>5, <2>1, <3>1, <3>3
    <3> QED  BY <1>4, <3>2, <3>3
  <2> QED  BY <1>3, <2>1 DEF Rises
<1>6. \A n \in Int : UpTo(s, n) /\ (m.kind = "log" => m.id.seq <= n) => UpTo(t, n)
  BY <1>1, <1>3, <1>4 DEF UpTo
<1>7. \A q : Precedes(q, s) /\ (m.kind = "log" => \A i \in 1 .. Len(q) : q[i].kind = "log" => q[i].id.seq < m.id.seq)
               => Precedes(q, t)
  BY <1>1, <1>3, <1>4 DEF Precedes
<1>8. \A q : Precedes(s, q) /\ (m.kind = "log" => \A j \in 1 .. Len(q) : q[j].kind = "log" => m.id.seq < q[j].id.seq)
               => Precedes(t, q)
  BY <1>1, <1>3, <1>4 DEF Precedes
<1> QED  BY <1>1, <1>2, <1>3, <1>4, <1>5, <1>6, <1>7, <1>8

\* The monitor's ring takes a line that is newer than those it has.
LEMMA RingRises ==
  ASSUME NEW s \in Seq(Entry), NEW e \in Entry, Rises(s), \A i \in 1 .. Len(s) : s[i].id.seq < e.id.seq
  PROVE  /\ pushLog(s, e) \in Seq(Entry) /\ Rises(pushLog(s, e))
         /\ \A n \in Int : UpTo(s, n) /\ e.id.seq <= n => UpTo(pushLog(s, e), n)
         /\ \A q : Precedes(s, q) /\ (\A j \in 1 .. Len(q) : q[j].kind = "log" => e.id.seq < q[j].id.seq)
                   => Precedes(pushLog(s, e), q)
<1>1. CASE Len(s) < MaxLogs
  BY <1>1, AppendRises DEF pushLog
<1>2. CASE ~(Len(s) < MaxLogs)
  <2>1. s # <<>>
    BY <1>2, EmptySeq, MonitorAssumption
  <2>2. PICK t : t = Tail(s)
    OBVIOUS
  <2>3. /\ t \in Seq(Entry) /\ Rises(t) /\ \A n \in Int : UpTo(s, n) => UpTo(t, n)
        /\ \A q : Precedes(s, q) => Precedes(t, q)
        /\ \A i \in 1 .. Len(t) : t[i] = s[i + 1] /\ i + 1 \in 1 .. Len(s)
    BY <2>1, <2>2, TailRises
  <2>4. \A i \in 1 .. Len(t) : t[i].id.seq < e.id.seq
    BY <2>3
  <2>5. pushLog(s, e) = Append(t, e)
    BY <1>2, <2>2 DEF pushLog
  <2> QED  BY <2>3, <2>4, <2>5, AppendRises
<1> QED  BY <1>1, <1>2

\* So does the server's history, however many of the oldest it gives up.
LEMMA PushRises ==
  ASSUME NEW s \in Seq(Entry), NEW e \in Entry, NEW n \in Nat, Rises(s), UpTo(s, n),
         \A i \in 1 .. Len(s) : s[i].id.seq < e.id.seq, e.id.seq <= n, NEW t \in push(s, e)
  PROVE  t \in Seq(Entry) /\ Rises(t) /\ UpTo(t, n)
<1>1. CASE e.large
  BY <1>1 DEF push
<1>2. CASE ~e.large
  <2>1. PICK k \in 1 .. Len(s) + 1 : t = Append(SubSeq(s, k, Len(s)), e)
    BY <1>2 DEF push
  <2>2. PICK r : r = SubSeq(s, k, Len(s))
    OBVIOUS
  <2>3. PICK l \in Nat : l = Len(s)
    BY LenProperties
  <2>4. /\ r \in Seq(Entry) /\ Len(r) = l + 1 - k /\ k \in Nat
        /\ \A i \in 1 .. Len(r) : r[i] = s[k + i - 1] /\ k + i - 1 \in 1 .. l
    BY <2>2, <2>3, Suffix
  <2>5. Rises(r)
    <3>1. ASSUME NEW i \in 1 .. Len(r), NEW j \in 1 .. Len(r), i < j, r[i].kind = "log", r[j].kind = "log"
          PROVE  r[i].id.seq < r[j].id.seq
      <4>1. PICK x \in 1 .. l, y \in 1 .. l : r[i] = s[x] /\ r[j] = s[y] /\ x < y
        <5>1. k + i - 1 < k + j - 1
          BY <2>4, <3>1
        <5> QED  BY <2>4, <5>1
      <4> QED  BY <2>3, <3>1, <4>1 DEF Rises
    <3> QED  BY <3>1 DEF Rises
  <2>6. UpTo(r, n)
    BY <2>3, <2>4 DEF UpTo
  <2>7. ASSUME NEW i \in 1 .. Len(r) PROVE r[i].id.seq < e.id.seq
    <3>1. PICK x \in 1 .. l : r[i] = s[x]
      BY <2>4
    <3> QED  BY <2>3, <3>1
  <2>8. r \in Seq(Entry) /\ n \in Int /\ t = Append(r, e)
    BY <2>1, <2>2, <2>4
  <2>9. t \in Seq(Entry) /\ Rises(t)
    BY <2>5, <2>7, <2>8, AppendRises
  <2>10. UpTo(t, n)
    BY <2>6, <2>8, AppendRises
  <2> QED  BY <2>9, <2>10
<1> QED  BY <1>1, <1>2

\* The newest of the lines that are pushed to an empty ring.
LEMMA PushedIs ==
  ASSUME NEW es \in Seq(Entry)
  PROVE  /\ pushLogs(<<>>, es) \in Seq(Entry)
         /\ Rises(es) => Rises(pushLogs(<<>>, es))
         /\ \A n \in Int : UpTo(es, n) => UpTo(pushLogs(<<>>, es), n)
         /\ \A q : Precedes(es, q) => Precedes(pushLogs(<<>>, es), q)
<1>1. <<>> \o es = es
  BY ConcatEmptySeq
<1>2. PICK l \in Nat : l = Len(es)
  BY LenProperties
<1>3. MaxLogs \in Nat \ {0}
  BY MonitorAssumption
<1>4. Max({0, l - MaxLogs}) = IF l - MaxLogs > 0 THEN l - MaxLogs ELSE 0
  BY <1>3 DEF Max
<1>5. PICK k \in Nat : k = Max({0, l - MaxLogs}) /\ k <= l
  BY <1>3, <1>4
<1>6. k <= l
  BY <1>5
<1>7. PICK t : t = SubSeq(es, k + 1, l)
  OBVIOUS
<1>8. pushLogs(<<>>, es) = t
  BY <1>1, <1>2, <1>5, <1>7 DEF pushLogs
<1>9. /\ SubSeq(es, k + 1, l) \in Seq(Entry) /\ Len(SubSeq(es, k + 1, l)) = l - k
      /\ \A i \in 1 .. l - k : SubSeq(es, k + 1, l)[i] = es[k + i]
  BY <1>2, <1>6, StretchIs
<1>10. t \in Seq(Entry) /\ Len(t) = l - k /\ \A i \in 1 .. l - k : t[i] = es[k + i]
  BY <1>7, <1>9
<1>11. Len(t) \in Nat /\ Len(es) = k + Len(t)
  BY <1>2, <1>6, <1>10
<1> QED  BY <1>8, <1>10, <1>11, EndRises

\* A bound may grow.
LEMMA UpToMore ==
  ASSUME NEW s \in Seq(Message), NEW n \in Int, NEW m \in Int, n <= m, UpTo(s, n)
  PROVE  UpTo(s, m)
<1>1. \A i \in 1 .. Len(s) : s[i] \in Message
  BY LenProperties
<1>2. ASSUME NEW i \in 1 .. Len(s), s[i].kind = "log" PROVE s[i].id.seq <= m
  <2>1. s[i].id.seq \in Nat /\ s[i].id.seq <= n
    BY <1>1, <1>2, MessagesAre DEF UpTo
  <2> QED  BY <2>1
<1> QED  BY <1>2 DEF UpTo

\* The same, for the client.
LEMMA FeedMore ==
  ASSUME NEW c, NEW l, NEW n \in Int, NEW m \in Int, n <= m, Feed(c, l, n)
  PROVE  Feed(c, l, m)
<1>1. Lines(c, l) \in Seq(Entry) /\ c.queue \in Seq(Message) /\ UpTo(Lines(c, l), n) /\ UpTo(c.queue, n)
  BY DEF Feed
<1>2. Lines(c, l) \in Seq(Message)
  BY <1>1, MessagesAre
<1>3. UpTo(Lines(c, l), m) /\ UpTo(c.queue, m)
  BY <1>1, <1>2, UpToMore
<1> QED  BY <1>3 DEF Feed

\* trySend: the message is queued behind older lines, or the client is cut off.
LEMMA FeedSent ==
  ASSUME NEW c, NEW l, NEW n \in Int, NEW k \in Int, n <= k, NEW m \in Message, Feed(c, l, n), c.at # "off",
         m.kind = "log" => m.id.seq = n + 1 /\ m.id.seq <= k
  PROVE  Feed(TrySend(c, m), l, k) /\ TrySend(c, m).at = c.at
<1> DEFINE d == TrySend(c, m)
<1>1. Feed(c, l, k)
  BY FeedMore
<1>2. CASE c.shut \/ Len(c.queue) = QueueCap
  <2>1. /\ DOMAIN d = DOMAIN c /\ d.at = c.at /\ d.reg = c.reg /\ d.shut = TRUE
        /\ d.queue = c.queue /\ d.snap = c.snap
    BY <1>2 DEF Feed, TrySend
  <2> HIDE DEF d
  <2>2. Lines(d, l) = Lines(c, l)
    BY <2>1 DEF Lines
  <2>3. Feed(d, l, k)
    BY <1>1, <2>1, <2>2 DEF Feed
  <2> QED  BY <2>1, <2>3 DEF d
<1>3. CASE ~(c.shut \/ Len(c.queue) = QueueCap)
  <2>1. /\ DOMAIN d = DOMAIN c /\ d.at = c.at /\ d.reg = c.reg /\ d.shut = c.shut
        /\ d.queue = Append(c.queue, m) /\ d.snap = c.snap
    BY <1>3 DEF Feed, TrySend
  <2> HIDE DEF d
  <2>2. Lines(d, l) = Lines(c, l)
    BY <2>1 DEF Lines
  <2>3. /\ c.queue \in Seq(Message) /\ Rises(c.queue) /\ UpTo(c.queue, n) /\ UpTo(c.queue, k)
        /\ Lines(c, l) \in Seq(Entry) /\ UpTo(Lines(c, l), n) /\ Precedes(Lines(c, l), c.queue)
    BY <1>1 DEF Feed
  <2>4. \A i \in 1 .. Len(c.queue) : c.queue[i].kind = "log" /\ m.kind = "log" => c.queue[i].id.seq < m.id.seq
    <3>1. \A i \in 1 .. Len(c.queue) : c.queue[i] \in Message
      BY <2>3, LenProperties
    <3>2. \A i \in 1 .. Len(c.queue) : c.queue[i].kind = "log" => c.queue[i].id.seq \in Nat /\ c.queue[i].id.seq <= n
      BY <2>3, <3>1, MessagesAre DEF UpTo
    <3> QED  BY <3>2
  <2>5. \A i \in 1 .. Len(Lines(c, l)) : m.kind = "log" => Lines(c, l)[i].id.seq < m.id.seq
    <3>1. \A i \in 1 .. Len(Lines(c, l)) : Lines(c, l)[i] \in Entry
      BY <2>3, LenProperties
    <3>2. \A i \in 1 .. Len(Lines(c, l)) : Lines(c, l)[i].id.seq \in Nat /\ Lines(c, l)[i].id.seq <= n
      BY <2>3, <3>1, MessagesAre DEF UpTo
    <3> QED  BY <3>2
  <2>6. /\ Append(c.queue, m) \in Seq(Message) /\ Rises(Append(c.queue, m)) /\ UpTo(Append(c.queue, m), k)
        /\ Precedes(Lines(c, l), Append(c.queue, m))
    BY <2>3, <2>4, <2>5, AppendRises
  <2>7. Feed(d, l, k)
    BY <1>1, <2>1, <2>2, <2>6 DEF Feed
  <2> QED  BY <2>1, <2>7 DEF d
<1> QED  BY <1>2, <1>3

-----------------------------------------------------------------------------
(* The monitor, step by step                                               *)

\* Bounds of the newest number that was passed on.
LEMMA ScreenFacts ==
  ASSUME Screening
  PROVE  /\ watch = "screen" /\ ~Waiter /\ sequence \in Nat /\ run \in Nat
         /\ Logged \in Int /\ Passed \in Int /\ Logged <= sequence /\ Passed <= Logged
         /\ sequence - 1 <= Passed
BY DEF Screening, ScreenTypeOK, Waiter, Logged, Passed, Awaited

\* The steps while the monitor is the observer.
LEMMA ScreenSteps ==
  ASSUME Screening, [Next]_vars
  PROVE  \/ /\ UNCHANGED monitorVars
            /\ \/ \E g \in Goroutine : \/ (Emit(g) /\ pc[g] = "emit") \/ TakeState(g) \/ BroadcastLog(g)
                                       \/ BroadcastState(g) \/ FanOut(g) \/ Compare(g)
               \/ \E p \in Proc : Change(p)
               \/ Connect \/ WriteEnds \/ Drop \/ UNCHANGED eventVars
         \/ Reading
         \/ HandleKey /\ UNCHANGED eventVars
<1>1. watch = "screen" /\ ~Waiter
  BY DEF Screening, Waiter
<1>2. \A g \in Goroutine : Emit(g) => pc[g] = "emit"
  BY <1>1 DEF Emit, Due
<1>3. ~Crash /\ ~WaitTimeout /\ ~JournalStep /\ \A p \in Proc : ~Tick(p) /\ ~AskRestart(p)
  BY <1>1 DEF Crash, WaitTimeout, JournalStep, Tick, AskRestart
<1>4. CASE Next
  BY <1>2, <1>3, <1>4 DEF Next, WriterStep, ServerStep
<1>5. CASE UNCHANGED vars
  BY <1>5 DEF vars
<1> QED  BY <1>4, <1>5

\* One goroutine moves, and no other has anything in its hands.
LEMMA OneMoves ==
  ASSUME Screening, NEW g \in Proc, \A h \in Goroutine : h # g => pc[h] = "idle",
         NEW x \in {"idle", "snap", "push", "fan", "compare", "emit"}, NEW m \in Message \cup {Nothing},
         NEW b \in BOOLEAN,
         pc' = [pc EXCEPT ![g] = x], about' = about, item' = [item EXCEPT ![g] = m],
         to' = [to EXCEPT ![g] = b], {sequence', run'} \subseteq Nat,
         {proc', states'} \subseteq [Proc -> State], history' \in Seq(Entry),
         x \in {"push", "fan"} => m \in Message /\ (m.kind = "log" => m.id.seq = sequence')
  PROVE  /\ ScreenTypeOK' /\ SoloInv'
         /\ Logged' = (IF x = "push" /\ m.kind = "log" THEN sequence' - 1 ELSE sequence')
         /\ Passed' = (IF (x = "push" \/ (x = "fan" /\ b)) /\ m.kind = "log" THEN sequence' - 1 ELSE sequence')
         /\ \A h \in Goroutine : h # g => to'[h] = to[h]
         /\ to'[g] = b
<1>1. /\ pc \in [Goroutine -> {"idle", "snap", "push", "fan", "compare", "emit"}]
      /\ about \in [Goroutine -> Goroutine] /\ item \in [Goroutine -> Message \cup {Nothing}]
      /\ to \in [Goroutine -> BOOLEAN] /\ g \in Goroutine
  BY DEF Screening, ScreenTypeOK, Goroutine
<1>2. /\ pc' \in [Goroutine -> {"idle", "snap", "push", "fan", "compare", "emit"}]
      /\ item' \in [Goroutine -> Message \cup {Nothing}] /\ to' \in [Goroutine -> BOOLEAN]
      /\ pc'[g] = x /\ item'[g] = m /\ to'[g] = b
      /\ \A h \in Goroutine : h # g => pc'[h] = "idle" /\ to'[h] = to[h]
  BY <1>1
<1>3. ScreenTypeOK'
  BY <1>1, <1>2 DEF ScreenTypeOK
<1>4. (\A p \in Proc : about[p] = p) /\ about[g] = g
  BY DEF Screening, SoloInv
<1>5. SoloInv'
  BY <1>2, <1>4 DEF SoloInv
<1>6. (\E h \in Goroutine : Fetched(h)') <=> x = "push" /\ m.kind = "log"
  BY <1>1, <1>2 DEF Fetched
<1>7. (\E h \in Goroutine : Awaited(h)') <=> (x = "push" \/ (x = "fan" /\ b)) /\ m.kind = "log"
  BY <1>1, <1>2 DEF Awaited, Fetched
<1>8. /\ Logged' = (IF x = "push" /\ m.kind = "log" THEN sequence' - 1 ELSE sequence')
      /\ Passed' = (IF (x = "push" \/ (x = "fan" /\ b)) /\ m.kind = "log" THEN sequence' - 1 ELSE sequence')
  BY <1>6, <1>7 DEF Logged, Passed
<1> QED  BY <1>2, <1>3, <1>5, <1>8

\* A goroutine that is not idle is the only one.
LEMMA SoloIs ==
  ASSUME Screening, NEW g \in Goroutine, pc[g] # "idle"
  PROVE  /\ g \in Proc /\ about[g] = g /\ \A h \in Goroutine : h # g => pc[h] = "idle"
         /\ Logged = (IF Fetched(g) THEN sequence - 1 ELSE sequence)
         /\ Passed = (IF Awaited(g) THEN sequence - 1 ELSE sequence)
         /\ item[g] \in Message \cup {Nothing}
         /\ pc[g] \in {"push", "fan"} => item[g] \in Message /\ (item[g].kind = "log" => item[g].id.seq = sequence)
         /\ \A f, x : f \in [Goroutine -> x] => f = [f EXCEPT ![g] = f[g]]
<1>1. g \in Proc /\ about[g] = g /\ \A h \in Goroutine : h # g => pc[h] = "idle"
  BY DEF Screening, SoloInv
<1>2. /\ item[g] \in Message \cup {Nothing}
      /\ pc[g] \in {"push", "fan"} => item[g] \in Message /\ (item[g].kind = "log" => item[g].id.seq = sequence)
  BY DEF Screening, SoloInv, ScreenTypeOK
<1>3. (\E h \in Goroutine : Fetched(h)) <=> Fetched(g)
  BY <1>1 DEF Fetched
<1>4. (\E h \in Goroutine : Awaited(h)) <=> Awaited(g)
  BY <1>1 DEF Awaited, Fetched
<1> QED  BY <1>1, <1>2, <1>3, <1>4 DEF Logged, Passed

\* The view stays when the monitor does.
LEMMA ViewRests ==
  ASSUME Screening, UNCHANGED monitorVars, client'.at = client.at \/ client'.at \notin {"off", "snap"}
                                            \/ (client.at = "off" /\ client'.at = "snap")
  PROVE  ViewInv' /\ logs' = logs
BY DEF Screening, ViewInv, monitorVars

\* A step of a goroutine.
LEMMA RunnerMoves ==
  ASSUME Screening, NEW g \in Proc, watch' = watch, UNCHANGED monitorVars, ScreenTypeOK', SoloInv', KeptInv',
         Feed(client', logs, Passed'), client'.at = client.at,
         \A h \in Goroutine : h # g => to'[h] = to[h], client.at = "off" => ~to'[g]
  PROVE  Screening'
<1>1. ViewInv' /\ logs' = logs
  BY ViewRests
<1>2. FeedInv'
  BY <1>1 DEF FeedInv, Screening
<1> QED  BY <1>1, <1>2 DEF Screening

\* emit: the line is numbered before it is anywhere.
LEMMA EmitScreen ==
  ASSUME Screening, UNCHANGED monitorVars, NEW g \in Goroutine, Emit(g), pc[g] = "emit"
  PROVE  Screening'
<1> DEFINE m == [kind |-> "log", proc |-> about[g], id |-> [run |-> run, seq |-> sequence + 1],
                large |-> FALSE]
<1>1. watch = "screen" /\ sequence \in Nat /\ run \in Nat
  BY ScreenFacts
<1>2. /\ g \in Proc /\ about[g] = g /\ (\A h \in Goroutine : h # g => pc[h] = "idle")
      /\ Logged = sequence /\ Passed = sequence
  BY SoloIs DEF Fetched, Awaited
<1>3. /\ watch' = watch /\ pc' = [pc EXCEPT ![g] = "push"] /\ item' = [item EXCEPT ![g] = m]
      /\ sequence' = sequence + 1 /\ UNCHANGED <<proc, about, to, run, states, history, client>>
  BY <1>1 DEF Emit, procVars, serverVars, clientVars
<1>4. m \in Message /\ m.kind = "log" /\ m.id.seq = sequence'
  BY <1>1, <1>2, <1>3 DEF Message, Entry, Goroutine
<1> HIDE DEF m
<1>5. /\ to' = [to EXCEPT ![g] = to[g]] /\ to[g] \in BOOLEAN /\ {proc, states} \subseteq [Proc -> State]
      /\ history \in Seq(Entry)
  BY <1>3 DEF Screening, ScreenTypeOK
<1>6. {sequence', run'} \subseteq Nat
  BY <1>1, <1>3
<1>7. /\ ScreenTypeOK' /\ SoloInv' /\ Logged' = sequence' - 1 /\ Passed' = sequence' - 1
      /\ \A h \in Goroutine : h # g => to'[h] = to[h]
  BY <1>2, <1>3, <1>4, <1>5, <1>6, OneMoves
<1>8. Logged' = Logged /\ Passed' = Passed
  BY <1>1, <1>2, <1>3, <1>7
<1>9. KeptInv' /\ Feed(client', logs, Passed') /\ (client.at = "off" => ~to'[g])
  BY <1>3, <1>8 DEF Screening, KeptInv, FeedInv
<1> QED  BY <1>2, <1>3, <1>7, <1>9, RunnerMoves

\* A change is reported by its worker; broadcastState takes the state, and
\* looks whether it is a new one after it has sent it.
LEMMA ReportScreen ==
  ASSUME Screening, UNCHANGED monitorVars, NEW g \in Goroutine,
         (Change(g) /\ g \in Proc) \/ TakeState(g) \/ Compare(g)
  PROVE  Screening'
<1>1. watch = "screen" /\ ~Waiter /\ sequence \in Nat /\ run \in Nat
  BY ScreenFacts
<1>2. g \in Proc /\ about[g] = g /\ (\A h \in Goroutine : h # g => pc[h] = "idle")
  <2>1. CASE Change(g) /\ g \in Proc
    BY <1>1, <2>1 DEF Change, Screening, SoloInv
  <2>2. CASE TakeState(g) \/ Compare(g)
    <3>1. pc[g] # "idle"
      BY <2>2 DEF TakeState, Compare
    <3> QED  BY <3>1, SoloIs
  <2> QED  BY <2>1, <2>2
<1>3. pc[g] \notin {"push", "fan"} /\ Logged = sequence /\ Passed = sequence
  <2>1. pc[g] \in {"idle", "snap", "compare"}
    BY DEF Change, TakeState, Compare
  <2> QED  BY <1>2, <2>1 DEF Logged, Passed, Awaited, Fetched
<1>4. /\ item[g] \in Message \cup {Nothing} /\ to[g] \in BOOLEAN /\ proc \in [Proc -> State]
      /\ states \in [Proc -> State] /\ history \in Seq(Entry)
      /\ item = [item EXCEPT ![g] = item[g]] /\ to = [to EXCEPT ![g] = to[g]]
  BY DEF Screening, ScreenTypeOK
<1>5. /\ watch' = watch /\ UNCHANGED <<about, to, sequence, run, states, history, client>>
  BY DEF Change, TakeState, Compare, procVars, runnerVars, serverVars, clientVars
<1>6. \E x \in {"idle", "snap", "push", "fan", "compare", "emit"} : \E m \in Message \cup {Nothing} :
        /\ pc' = [pc EXCEPT ![g] = x] /\ item' = [item EXCEPT ![g] = m] /\ proc' \in [Proc -> State]
        /\ x # "fan" /\ (x = "push" => m \in Message /\ m.kind # "log")
  <2>1. CASE Change(g)
    <3>1. proc[g] \in State /\ pc' = [pc EXCEPT ![g] = "snap"] /\ item' = item
      BY <1>2, <1>4, <2>1 DEF Change
    <3>2. PICK st \in {[gen |-> proc[g].gen, word |-> w] : w \in Follows[proc[g].word]} \cup Incarnate(proc[g]) :
            proc' = [proc EXCEPT ![g] = st]
      BY <2>1 DEF Change
    <3>3. st \in State
      BY <3>1, WordsFollow
    <3>4. proc' \in [Proc -> State]
      BY <1>4, <3>2, <3>3
    <3> QED  BY <1>4, <3>1, <3>4
  <2>2. CASE TakeState(g)
    <3> DEFINE m == [kind |-> "state", proc |-> about[g], st |-> proc[about[g]]]
    <3>1. m \in Message /\ m.kind # "log"
      BY <1>2, <1>4 DEF Message
    <3>2. /\ pc' = [pc EXCEPT ![g] = "push"] /\ item' = [item EXCEPT ![g] = m] /\ proc' = proc
      BY <2>2 DEF TakeState, procVars
    <3> HIDE DEF m
    <3> QED  BY <1>4, <3>1, <3>2
  <2>3. CASE Compare(g)
    <3>1. /\ pc' = [pc EXCEPT ![g] = IF lastStates[about[g]] = item[g].st THEN "idle" ELSE "emit"]
          /\ item' = [item EXCEPT ![g] = Nothing] /\ proc' = proc
      BY <2>3 DEF Compare, procVars
    <3>2. PICK x : x = IF lastStates[about[g]] = item[g].st THEN "idle" ELSE "emit"
      OBVIOUS
    <3>3. x \in {"idle", "emit"} /\ pc' = [pc EXCEPT ![g] = x]
      BY <3>1, <3>2
    <3> QED  BY <1>4, <3>1, <3>3
  <2> QED  BY <2>1, <2>2, <2>3
<1>7. PICK x \in {"idle", "snap", "push", "fan", "compare", "emit"} : \E m \in Message \cup {Nothing} :
        /\ pc' = [pc EXCEPT ![g] = x] /\ item' = [item EXCEPT ![g] = m] /\ proc' \in [Proc -> State]
        /\ x # "fan" /\ (x = "push" => m \in Message /\ m.kind # "log")
  BY <1>6
<1>8. PICK m \in Message \cup {Nothing} :
        /\ pc' = [pc EXCEPT ![g] = x] /\ item' = [item EXCEPT ![g] = m] /\ proc' \in [Proc -> State]
        /\ x # "fan" /\ (x = "push" => m \in Message /\ m.kind # "log")
  BY <1>7
<1>9. {sequence', run'} \subseteq Nat /\ {proc', states'} \subseteq [Proc -> State] /\ history' \in Seq(Entry)
  BY <1>1, <1>4, <1>5, <1>8
<1>10. /\ ScreenTypeOK' /\ SoloInv' /\ Logged' = sequence' /\ Passed' = sequence'
       /\ \A h \in Goroutine : h # g => to'[h] = to[h]
  <2>1. x \in {"push", "fan"} => m \in Message /\ (m.kind = "log" => m.id.seq = sequence')
    BY <1>8
  <2>2. /\ pc' = [pc EXCEPT ![g] = x] /\ item' = [item EXCEPT ![g] = m] /\ about' = about
        /\ to' = [to EXCEPT ![g] = to[g]] /\ to[g] \in BOOLEAN
    BY <1>4, <1>5, <1>8
  <2>3. /\ Logged' = (IF x = "push" /\ m.kind = "log" THEN sequence' - 1 ELSE sequence')
        /\ Passed' = (IF (x = "push" \/ (x = "fan" /\ to[g])) /\ m.kind = "log"
                      THEN sequence' - 1 ELSE sequence')
        /\ ScreenTypeOK' /\ SoloInv' /\ \A h \in Goroutine : h # g => to'[h] = to[h]
    BY <1>2, <1>9, <2>1, <2>2, OneMoves, ZenonT(40)
  <2> QED  BY <1>8, <2>3
<1>11. Logged' = Logged /\ Passed' = Passed
  BY <1>3, <1>5, <1>10
<1>12. KeptInv' /\ Feed(client', logs, Passed') /\ (client.at = "off" => ~to'[g])
  BY <1>5, <1>11 DEF Screening, KeptInv, FeedInv
<1> QED  BY <1>2, <1>5, <1>10, <1>12, RunnerMoves

\* broadcastLog and broadcastState of the server: the line joins the history.
LEMMA PushScreen ==
  ASSUME Screening, UNCHANGED monitorVars, NEW g \in Goroutine, BroadcastLog(g) \/ BroadcastState(g)
  PROVE  Screening'
<1> DEFINE m == item[g]
<1>1. sequence \in Nat /\ run \in Nat /\ Passed \in Int
  BY ScreenFacts
<1>2. pc[g] = "push"
  BY DEF BroadcastLog, BroadcastState
<1>3. /\ g \in Proc /\ (\A h \in Goroutine : h # g => pc[h] = "idle")
      /\ m \in Message /\ (m.kind = "log" => m.id.seq = sequence)
      /\ Logged = (IF m.kind = "log" THEN sequence - 1 ELSE sequence) /\ Passed = Logged
  BY <1>2, SoloIs DEF Fetched, Awaited
<1>4. /\ watch' = watch /\ pc' = [pc EXCEPT ![g] = "fan"] /\ to' = [to EXCEPT ![g] = client.reg]
      /\ UNCHANGED <<proc, about, item, sequence, run, client>>
  BY DEF BroadcastLog, BroadcastState, Pushed, procVars, runnerVars, clientVars
<1>5. /\ client.reg \in BOOLEAN /\ {proc, states} \subseteq [Proc -> State] /\ history \in Seq(Entry)
      /\ item' = [item EXCEPT ![g] = m] /\ Rises(history) /\ UpTo(history, Logged)
      /\ Feed(client, logs, Passed) /\ (client.at = "off" => ~client.reg)
  <2>1. Feed(client, logs, Passed) /\ item' = [item EXCEPT ![g] = m]
    BY <1>4 DEF Screening, FeedInv, ScreenTypeOK
  <2> QED  BY <2>1 DEF Screening, ScreenTypeOK, KeptInv, Feed
<1>6. /\ states' \in [Proc -> State] /\ history' \in Seq(Entry) /\ Rises(history') /\ UpTo(history', sequence)
  <2>1. CASE BroadcastLog(g)
    <3>1. history' \in push(history, m) /\ m.kind = "log" /\ states' = states
      BY <2>1 DEF BroadcastLog
    <3>2. m \in Entry /\ m.id.seq = sequence /\ Logged = sequence - 1
      BY <1>3, <3>1, MessagesAre
    <3>3. \A i \in 1 .. Len(history) : history[i] \in Entry
      BY <1>5, LenProperties
    <3>4. \A i \in 1 .. Len(history) : history[i].id.seq \in Nat /\ history[i].id.seq <= sequence - 1
      BY <1>5, <3>2, <3>3, MessagesAre DEF UpTo
    <3>5. (\A i \in 1 .. Len(history) : history[i].id.seq < m.id.seq) /\ UpTo(history, sequence)
      BY <1>1, <3>2, <3>4 DEF UpTo
    <3>6. m.id.seq <= sequence /\ sequence \in Int
      BY <1>1, <3>2
    <3> HIDE DEF m
    <3> QED  BY <1>1, <1>5, <3>1, <3>2, <3>5, <3>6, PushRises
  <2>2. CASE BroadcastState(g)
    <3>1. states' = [states EXCEPT ![m.proc] = m.st] /\ history' = history /\ m.kind = "state"
      BY <2>2 DEF BroadcastState
    <3>2. m.st \in State /\ Logged = sequence
      BY <1>3, <3>1 DEF Message, Entry
    <3> HIDE DEF m
    <3>3. states' \in [Proc -> State]
      BY <1>5, <3>1, <3>2
    <3> QED  BY <1>5, <3>1, <3>2, <3>3
  <2> QED  BY <2>1, <2>2
<1>7. {sequence', run'} \subseteq Nat /\ {proc', states'} \subseteq [Proc -> State]
  BY <1>1, <1>4, <1>5, <1>6
<1> HIDE DEF m
<1>8. /\ ScreenTypeOK' /\ SoloInv' /\ Logged' = sequence
      /\ Passed' = (IF client.reg /\ m.kind = "log" THEN sequence - 1 ELSE sequence)
      /\ (\A h \in Goroutine : h # g => to'[h] = to[h]) /\ to'[g] = client.reg
  <2>1. m.kind = "log" => m.id.seq = sequence'
    BY <1>3, <1>4
  <2>2. /\ "fan" \in {"idle", "snap", "push", "fan", "compare", "emit"} /\ m \in Message \cup {Nothing}
        /\ client.reg \in BOOLEAN /\ {sequence', run'} \subseteq Nat
        /\ {proc', states'} \subseteq [Proc -> State] /\ history' \in Seq(Entry)
    BY <1>3, <1>5, <1>6, <1>7
  <2>3. /\ Logged' = (IF "fan" = "push" /\ m.kind = "log" THEN sequence' - 1 ELSE sequence')
        /\ Passed' = (IF ("fan" = "push" \/ ("fan" = "fan" /\ client.reg)) /\ m.kind = "log"
                      THEN sequence' - 1 ELSE sequence')
        /\ ScreenTypeOK' /\ SoloInv' /\ (\A h \in Goroutine : h # g => to'[h] = to[h]) /\ to'[g] = client.reg
    BY <1>3, <1>4, <1>5, <2>1, <2>2, OneMoves, Zenon
  <2> QED  BY <1>4, <2>3
<1>9. Passed <= Passed' /\ Passed' \in Int
  BY <1>1, <1>3, <1>8
<1>10. KeptInv' /\ Feed(client', logs, Passed') /\ (client.at = "off" => ~to'[g])
  <2>1. KeptInv'
    BY <1>6, <1>8 DEF KeptInv
  <2>2. Feed(client, logs, Passed')
    BY <1>1, <1>5, <1>9, FeedMore
  <2> QED  BY <1>4, <1>5, <1>8, <2>1, <2>2
<1> QED  BY <1>3, <1>4, <1>8, <1>10, RunnerMoves

\* fanOut, to the client if it was registered.
LEMMA FanScreen ==
  ASSUME Screening, UNCHANGED monitorVars, NEW g \in Goroutine, FanOut(g)
  PROVE  Screening'
<1> DEFINE m == item[g]
<1>1. ~Waiter /\ sequence \in Nat /\ run \in Nat /\ Passed \in Int
  BY ScreenFacts
<1>2. pc[g] = "fan"
  BY DEF FanOut
<1>3. /\ g \in Proc /\ (\A h \in Goroutine : h # g => pc[h] = "idle")
      /\ m \in Message /\ (m.kind = "log" => m.id.seq = sequence)
      /\ Logged = sequence /\ Passed = (IF to[g] /\ m.kind = "log" THEN sequence - 1 ELSE sequence)
  BY <1>2, SoloIs DEF Fetched, Awaited
<1>4. /\ watch' = watch /\ to' = [to EXCEPT ![g] = FALSE]
      /\ client' = IF to[g] THEN TrySend(client, m) ELSE client
      /\ UNCHANGED <<proc, about, sequence, run, states, history>>
  BY DEF FanOut, procVars, serverVars
<1>5. PICK x \in {"idle", "compare"} : pc' = [pc EXCEPT ![g] = x]
  BY <1>1 DEF FanOut
<1>6. PICK r \in Message \cup {Nothing} : item' = [item EXCEPT ![g] = r]
  <2>1. CASE m.kind = "log"
    BY <2>1 DEF FanOut
  <2>2. CASE m.kind # "log"
    <3>1. item' = [item EXCEPT ![g] = m]
      BY <1>1, <2>2 DEF FanOut
    <3> HIDE DEF m
    <3> QED  BY <1>3, <3>1
  <2> QED  BY <2>1, <2>2
<1>7. /\ {proc', states'} \subseteq [Proc -> State] /\ history' \in Seq(Entry) /\ {sequence', run'} \subseteq Nat
      /\ Feed(client, logs, Passed) /\ (to[g] => client.at # "off") /\ Rises(history) /\ UpTo(history, Logged)
  BY <1>1, <1>4 DEF Screening, ScreenTypeOK, FeedInv, KeptInv
<1> HIDE DEF m
<1>8. /\ ScreenTypeOK' /\ SoloInv' /\ Logged' = sequence' /\ Passed' = sequence'
      /\ (\A h \in Goroutine : h # g => to'[h] = to[h]) /\ to'[g] = FALSE
  BY <1>3, <1>4, <1>5, <1>6, <1>7, OneMoves
<1>9. KeptInv'
  BY <1>3, <1>4, <1>7, <1>8 DEF KeptInv
<1>10. Feed(client', logs, Passed') /\ client'.at = client.at
  <2>1. Passed' = sequence /\ Passed <= sequence /\ sequence \in Int
    BY <1>1, <1>3, <1>4, <1>8
  <2>2. CASE to[g]
    <3>1. m.kind = "log" => m.id.seq = Passed + 1 /\ m.id.seq <= sequence
      BY <1>1, <1>3, <2>2
    <3> QED  BY <1>1, <1>3, <1>4, <1>7, <2>1, <2>2, <3>1, FeedSent
  <2>3. CASE ~to[g]
    BY <1>1, <1>4, <1>7, <2>1, <2>3, FeedMore
  <2> QED  BY <2>2, <2>3
<1> QED  BY <1>3, <1>4, <1>8, <1>9, <1>10, RunnerMoves

\* What the user sees does not move by itself.
Steady ==
  /\ selected \in DOMAIN order => order'[selected'] = order[selected]
  /\ offset > 0 /\ filter = All /\ Shown # <<>> /\ Last(Shown) \in Range(logs') =>
       Shown' # <<>> /\ Last(Shown') = Last(Shown)

\* A step of the client, or of the monitor.
LEMMA ClientSteps ==
  ASSUME Screening, watch' = watch, UNCHANGED <<procVars, goVars, runnerVars, serverVars>>,
         Feed(client', logs', Passed), client'.at # "off", ViewInv'
  PROVE  Screening'
<1>1. UNCHANGED <<pc, about, item, to, sequence, run, proc, history, states>>
  BY DEF procVars, goVars, runnerVars, serverVars
<1>2. Logged' = Logged /\ Passed' = Passed
  BY <1>1 DEF Logged, Passed, Awaited, Fetched
<1>3. FeedInv'
  BY <1>2 DEF FeedInv
<1>4. ScreenTypeOK' /\ SoloInv' /\ KeptInv'
  BY <1>1, <1>2 DEF Screening, ScreenTypeOK, SoloInv, KeptInv
<1> QED  BY <1>3, <1>4 DEF Screening

\* There is nothing out of order in an empty sequence.
LEMMA NoLines ==
  /\ <<>> \in Seq(Entry) /\ <<>> \in Seq(Message) /\ Rises(<<>>) /\ \A n : UpTo(<<>>, n)
  /\ \A s : Precedes(s, <<>>) /\ Precedes(<<>>, s)
BY DEF Rises, UpTo, Precedes

\* handle: the snapshot holds what is not on its way to the queue.
LEMMA ConnectScreen ==
  ASSUME Screening, UNCHANGED monitorVars, Connect
  PROVE  Screening'
<1>1. /\ client.at = "off" /\ watch' = watch /\ UNCHANGED <<procVars, goVars, runnerVars, serverVars>>
      /\ client' = [client EXCEPT !.at = "snap", !.reg = TRUE, !.snap = Snapshot]
  BY DEF Connect
<1>2. Feed(client, logs, Passed) /\ \A g \in Goroutine : ~to[g]
  BY <1>1 DEF Screening, FeedInv
<1>3. Logged = Passed
  BY <1>2 DEF Logged, Passed, Awaited
<1>4. /\ DOMAIN client' = DOMAIN client /\ client'.at = "snap" /\ client'.reg = TRUE
      /\ client'.shut = client.shut /\ client'.queue = <<>>
      /\ client'.snap.kind = "snapshot" /\ client'.snap.logs = history /\ client'.snap.states = states
  BY <1>1, <1>2 DEF Feed, Snapshot
<1>5. Lines(client', logs') = history
  BY <1>4 DEF Lines
<1>6. history \in Seq(Entry) /\ Rises(history) /\ UpTo(history, Passed) /\ DOMAIN states \subseteq Proc
  BY <1>3 DEF Screening, ScreenTypeOK, KeptInv
<1>7. Feed(client', logs', Passed)
  BY <1>2, <1>4, <1>5, <1>6, NoLines DEF Feed
<1>8. ViewInv'
  BY <1>1, <1>4, ViewRests
<1> QED  BY <1>1, <1>4, <1>7, <1>8, ClientSteps

\* A connection that ends, or is dropped, leaves the view alone.
LEMMA EndScreen ==
  ASSUME Screening, UNCHANGED monitorVars, WriteEnds \/ Drop
  PROVE  Screening'
<1>1. Feed(client, logs, Passed)
  BY DEF Screening, FeedInv
<1>2. watch' = watch /\ UNCHANGED <<procVars, goVars, runnerVars, serverVars>> /\ logs' = logs
  BY DEF WriteEnds, Drop, monitorVars
<1>3. CASE WriteEnds
  <2>1. /\ DOMAIN client' = DOMAIN client /\ client'.at = "gone" /\ client'.reg = client.reg
        /\ client'.shut = TRUE /\ client'.queue = <<>> /\ client.at = "open"
    BY <1>1, <1>3 DEF WriteEnds, Feed
  <2>2. Lines(client', logs') = Lines(client, logs)
    BY <1>2, <2>1 DEF Lines
  <2>3. Feed(client', logs', Passed)
    BY <1>1, <2>1, <2>2, NoLines DEF Feed
  <2>4. ViewInv'
    BY <2>1, ViewRests
  <2> QED  BY <1>2, <2>1, <2>3, <2>4, ClientSteps
<1>4. CASE Drop
  <2>1. /\ DOMAIN client' = DOMAIN client /\ client'.at = client.at /\ client'.reg = FALSE
        /\ client'.shut = TRUE /\ client'.queue = client.queue /\ client.at \in {"open", "gone"}
    BY <1>1, <1>4 DEF Drop, Feed
  <2>2. Lines(client', logs') = Lines(client, logs)
    BY <1>2, <2>1 DEF Lines
  <2>3. Feed(client', logs', Passed)
    BY <1>1, <2>1, <2>2 DEF Feed
  <2>4. ViewInv'
    BY <2>1, ViewRests
  <2> QED  BY <1>2, <2>1, <2>3, <2>4, ClientSteps
<1> QED  BY <1>3, <1>4

\* rebuildOrder: the highlight stays on its process.
LEMMA Rebuilt ==
  ASSUME ViewInv, RebuildOrder, DOMAIN table' \subseteq Proc, DOMAIN table \subseteq DOMAIN table'
  PROVE  /\ ListsAll(order', DOMAIN table')
         /\ selectedName' # NoOne => selected' \in 1 .. Len(order') /\ order'[selected'] = selectedName'
         /\ selected \in DOMAIN order => order'[selected'] = order[selected]
<1>1. order' = Sorted(table') /\ selectedName' = Captured
      /\ selected' = IF Captured = NoOne THEN selected ELSE IndexOf(Captured, order')
  BY DEF RebuildOrder
<1>2. ListsAll(order', DOMAIN table')
  BY <1>1, SortedIs
<1>3. /\ order \in Seq(DOMAIN table) /\ DOMAIN order = 1 .. Len(order)
      /\ selectedName # NoOne => selected \in 1 .. Len(order) /\ order[selected] = selectedName
  BY LenProperties DEF ViewInv, ListsAll
<1>4. selected \in DOMAIN order => Captured = order[selected]
  BY <1>3 DEF Captured
<1>5. selected \notin DOMAIN order => Captured = NoOne
  BY <1>3 DEF Captured
<1>6. selected \in DOMAIN order => order[selected] \in DOMAIN table
  BY <1>3, LenProperties
<1>7. ASSUME selected \in DOMAIN order
      PROVE  selected' \in 1 .. Len(order') /\ order'[selected'] = Captured /\ Captured # NoOne
  <2>1. Captured \in DOMAIN table'
    BY <1>4, <1>6, <1>7
  <2>2. Captured # NoOne
    BY <2>1, MonitorAssumption
  <2>3. PICK i \in 1 .. Len(order') : order'[i] = Captured
    BY <1>2, <2>1 DEF ListsAll
  <2>4. Len(order') \in Nat
    BY <1>2, LenProperties DEF ListsAll
  <2>5. IndexOf(Captured, order') \in 1 .. Len(order') /\ order'[IndexOf(Captured, order')] = Captured
    BY <2>3, <2>4, IndexIs
  <2> QED  BY <1>1, <2>2, <2>5
<1> QED  BY <1>1, <1>2, <1>4, <1>5, <1>7

\* An event that changes states, or the snapshot that is shown first.
LEMMA TableMoves ==
  ASSUME ViewInv, NEW m, table' = Newest(States(m), table), DOMAIN States(m) \subseteq Proc, RebuildOrder
  PROVE  /\ DOMAIN table' \subseteq Proc /\ ListsAll(order', DOMAIN table')
         /\ selectedName' # NoOne => selected' \in 1 .. Len(order') /\ order'[selected'] = selectedName'
         /\ selected \in DOMAIN order => order'[selected'] = order[selected]
<1>1. DOMAIN table' = DOMAIN States(m) \cup DOMAIN table
  BY DEF Newest
<1>2. DOMAIN table \subseteq Proc
  BY DEF ViewInv
<1> QED  BY <1>1, <1>2, Rebuilt

\* The view that does not change shows the same lines.
LEMMA RestIsSteady ==
  ASSUME UNCHANGED <<order, selected, filter, offset, logs>>
  PROVE  Steady
<1>1. filter = All => Shown' = Shown
  BY ShownIs
<1> QED  BY <1>1 DEF Steady

\* writeSnapshot: the snapshot is what the monitor shows first.
LEMMA SnapshotScreen ==
  ASSUME Screening, WriteSnapshot, Display
  PROVE  Screening' /\ Steady
<1> DEFINE m == client.snap
<1>1. /\ client.at = "snap" /\ watch' = watch /\ watch = "screen"
      /\ UNCHANGED <<procVars, goVars, runnerVars, serverVars>>
  BY DEF WriteSnapshot, Screening
<1>2. Feed(client, logs, Passed) /\ ViewInv /\ Passed \in Int
  BY ScreenFacts DEF Screening, FeedInv
<1>3. /\ m.kind = "snapshot" /\ DOMAIN m.states \subseteq Proc
      /\ m.logs \in Seq(Entry) /\ Rises(m.logs) /\ UpTo(m.logs, Passed) /\ Precedes(m.logs, client.queue)
      /\ logs = <<>> /\ order = <<>> /\ offset = 0
  BY <1>1, <1>2 DEF Feed, Lines, ViewInv
<1>4. \/ /\ ApplyEvent(m) /\ client'.at = "open"
      \/ UNCHANGED monitorVars
  BY <1>1 DEF Display
<1>5. /\ client'.at \in {"open", "gone"} /\ client'.queue = client.queue
      /\ DOMAIN client' = DOMAIN client /\ {client'.reg, client'.shut} \subseteq BOOLEAN
  <2> DEFINE c == [client EXCEPT !.at = "open", !.snap = Nothing]
  <2>1. /\ DOMAIN c = DOMAIN client /\ c.at = "open" /\ c.reg = client.reg
        /\ c.shut = client.shut /\ c.queue = client.queue
    BY <1>2 DEF Feed
  <2>2. client' = c \/ client' = [c EXCEPT !.at = "gone", !.reg = FALSE, !.shut = TRUE]
    BY DEF WriteSnapshot
  <2>3. CASE client' = c
    BY <1>2, <2>1, <2>3 DEF Feed
  <2>4. CASE client' = [c EXCEPT !.at = "gone", !.reg = FALSE, !.shut = TRUE]
    <3>1. DOMAIN c = {"at", "reg", "shut", "queue", "snap"}
      BY <1>2, <2>1 DEF Feed
    <3> HIDE DEF c
    <3> QED  BY <2>1, <2>4, <3>1
  <2> QED  BY <2>2, <2>3, <2>4
<1>6. Lines(client', logs') = logs'
  BY <1>5 DEF Lines
<1>7. CASE UNCHANGED monitorVars
  <2>1. logs' = <<>> /\ UNCHANGED <<order, selected, filter, offset, logs>>
    BY <1>3, <1>7 DEF monitorVars
  <2>2. Feed(client', logs', Passed)
    BY <1>2, <1>5, <1>6, <2>1, NoLines DEF Feed
  <2>3. ViewInv'
    BY <1>5, <1>7, ViewRests
  <2>4. Screening'
    BY <1>1, <1>5, <2>2, <2>3, ClientSteps
  <2> QED  BY <2>1, <2>4, RestIsSteady
<1>8. CASE ApplyEvent(m) /\ client'.at = "open"
  <2>1. /\ table' = Newest(States(m), table) /\ RebuildOrder /\ logs' = pushLogs(<<>>, m.logs)
        /\ offset' = offset
    BY <1>3, <1>8 DEF ApplyEvent
  <2>2. States(m) = m.states
    BY <1>3 DEF States
  <2> HIDE DEF m
  <2>3. /\ logs' \in Seq(Entry) /\ Rises(logs') /\ UpTo(logs', Passed) /\ Precedes(logs', client.queue)
    BY <1>2, <1>3, <2>1, PushedIs
  <2>4. Feed(client', logs', Passed)
    BY <1>2, <1>5, <1>6, <1>8, <2>3 DEF Feed
  <2>5. /\ DOMAIN table' \subseteq Proc /\ ListsAll(order', DOMAIN table')
        /\ selectedName' # NoOne => selected' \in 1 .. Len(order') /\ order'[selected'] = selectedName'
        /\ selected \in DOMAIN order => order'[selected'] = order[selected]
    BY <1>2, <1>3, <2>1, <2>2, TableMoves
  <2>6. ViewInv'
    BY <1>3, <1>8, <2>1, <2>3, <2>5 DEF ViewInv
  <2>7. Screening'
    BY <1>1, <1>8, <2>4, <2>6, ClientSteps
  <2>8. Steady
    BY <1>3, <2>5 DEF Steady
  <2> QED  BY <2>7, <2>8
<1> QED  BY <1>4, <1>7, <1>8

\* A line arrives: a view that was scrolled back is scrolled one line more,
\* and ends with the same line, which the ring has moved by one if it was full.
LEMMA ScrollIsSteady ==
  ASSUME NEW m \in Entry, logs \in Seq(Entry), offset \in Nat, Rises(logs),
         \A i \in 1 .. Len(logs) : logs[i].id.seq < m.id.seq,
         logs' = pushLog(logs, m), offset' = Scrolled, UNCHANGED <<order, selected, filter>>
  PROVE  Steady
<1>1. PICK l \in Nat : l = Len(logs) /\ DOMAIN logs = 1 .. l /\ \A i \in 1 .. l : logs[i] \in Entry
  BY LenProperties
<1>2. /\ \A i \in 1 .. l : logs[i].id.seq \in Nat /\ logs[i].id.seq < m.id.seq
      /\ \A i, j \in 1 .. l : i < j => logs[i].id.seq < logs[j].id.seq
  BY <1>1, MessagesAre DEF Rises
<1>3. SUFFICES ASSUME offset > 0, filter = All, Shown # <<>>, Last(Shown) \in Range(logs')
               PROVE  Shown' # <<>> /\ Last(Shown') = Last(Shown)
  BY DEF Steady
<1>4. Shown = View(logs, offset) /\ Shown' = View(logs', offset')
  BY <1>3, ShownIs
<1>5. PICK e \in 1 .. l : e = l - offset /\ Last(Shown) = logs[e] /\ e < l
  <2>1. /\ View(logs, offset) # <<>> <=> l - offset >= 1
        /\ l - offset >= 1 => l - offset \in 1 .. l /\ Last(View(logs, offset)) = logs[l - offset]
    BY <1>1, ViewEnds
  <2>2. l - offset \in 1 .. l /\ Last(Shown) = logs[l - offset]
    BY <1>3, <1>4, <2>1, Zenon
  <2>3. l - offset < l
    BY <1>1, <1>3
  <2> QED  BY <2>2, <2>3
<1>6. offset' = offset + 1 /\ offset' \in Nat
  BY <1>3 DEF Scrolled
<1>7. CASE l < MaxLogs
  <2>1. logs' = Append(logs, m)
    BY <1>1, <1>7 DEF pushLog
  <2>2. /\ logs' \in Seq(Entry) /\ Len(logs') = l + 1 /\ logs'[e] = logs[e]
    BY <1>1, <2>1, AppendProperties
  <2>3. Len(logs') - offset' = e
    BY <1>5, <1>6, <2>2
  <2>4. Shown' # <<>> /\ Last(Shown') = logs'[e]
    <3>1. /\ View(logs', offset') # <<>> <=> e >= 1
          /\ e >= 1 => Last(View(logs', offset')) = logs'[e]
      BY <1>6, <2>2, <2>3, ViewEnds
    <3>2. e >= 1
      OBVIOUS
    <3> QED  BY <1>4, <3>1, <3>2, Zenon
  <2> QED  BY <1>5, <2>2, <2>4
<1>8. CASE ~(l < MaxLogs)
  <2>1. PICK t : t = Tail(logs)
    OBVIOUS
  <2>2. logs # <<>>
    BY <1>1, <1>5, EmptySeq
  <2>3. /\ t \in Seq(Entry) /\ Len(t) = l - 1 /\ \A i \in 1 .. Len(t) : t[i] = logs[i + 1]
    BY <1>1, <2>1, <2>2, TailRises
  <2>4. logs' = Append(t, m)
    BY <1>1, <1>8, <2>1 DEF pushLog
  <2>5. /\ logs' \in Seq(Entry) /\ Len(logs') = l /\ DOMAIN logs' = 1 .. l /\ logs'[l] = m
        /\ \A i \in 1 .. l - 1 : logs'[i] = logs[i + 1]
    <3>1. /\ Append(t, m) \in Seq(Entry) /\ Len(Append(t, m)) = Len(t) + 1
          /\ (\A i \in 1 .. Len(t) : Append(t, m)[i] = t[i]) /\ Append(t, m)[Len(t) + 1] = m
      BY <2>3, AppendProperties
    <3>2. Len(t) + 1 = l
      BY <1>1, <2>3
    <3>3. DOMAIN logs' = 1 .. Len(logs')
      BY <2>4, <3>1, LenProperties
    <3> QED  BY <2>3, <2>4, <3>1, <3>2, <3>3
  <2>6. e # 1
    <3>1. SUFFICES ASSUME e = 1 PROVE FALSE
      OBVIOUS
    <3>2. PICK i \in 1 .. l : logs'[i] = logs[1]
      BY <1>3, <1>5, <2>5, <3>1 DEF Range
    <3>3. 1 \in 1 .. l /\ logs[1].id.seq \in Nat
      BY <1>2, <1>5, <3>1
    <3>4. CASE i = l
      BY <1>2, <2>5, <3>2, <3>3, <3>4
    <3>5. CASE i # l
      <4>1. i \in 1 .. l - 1 /\ i + 1 \in 1 .. l /\ 1 < i + 1
        BY <1>1, <3>5
      <4>2. logs[i + 1] = logs[1] /\ logs[1].id.seq < logs[i + 1].id.seq
        BY <1>2, <2>5, <3>2, <3>3, <4>1
      <4> QED  BY <3>3, <4>2
    <3> QED  BY <3>4, <3>5
  <2>7. PICK k \in 1 .. l - 1 : k = e - 1 /\ k + 1 = e
    BY <1>5, <2>6
  <2>8. Len(logs') - offset' = k /\ k >= 1 /\ logs'[k] = logs[e]
    BY <1>1, <1>5, <1>6, <2>5, <2>7
  <2>9. Shown' # <<>> /\ Last(Shown') = logs'[k]
    BY <1>4, <1>6, <2>5, <2>8, ViewEnds
  <2> QED  BY <1>5, <2>8, <2>9
<1> QED  BY <1>7, <1>8

\* writeLoop: the next message of the queue is applied.
LEMMA OneScreen ==
  ASSUME Screening, WriteOne, Display
  PROVE  Screening' /\ Steady
<1> DEFINE m == Head(client.queue)
           q == Tail(client.queue)
<1>1. /\ client.at = "open" /\ client.queue # <<>> /\ watch' = watch /\ watch = "screen"
      /\ client' = [client EXCEPT !.queue = q]
      /\ UNCHANGED <<procVars, goVars, runnerVars, serverVars>>
  BY DEF WriteOne, Screening
<1>2. Feed(client, logs, Passed) /\ ViewInv /\ Passed \in Int
  BY ScreenFacts DEF Screening, FeedInv
<1>3. /\ logs \in Seq(Entry) /\ Rises(logs) /\ UpTo(logs, Passed) /\ Precedes(logs, client.queue)
      /\ client.queue \in Seq(Message) /\ Rises(client.queue) /\ UpTo(client.queue, Passed)
      /\ DOMAIN client = {"at", "reg", "shut", "queue", "snap"}
  BY <1>1, <1>2 DEF Feed, Lines
<1>4. /\ q \in Seq(Message) /\ m \in Message /\ m = client.queue[1] /\ 1 \in 1 .. Len(client.queue)
      /\ Len(client.queue) \in Nat /\ Rises(q) /\ UpTo(q, Passed) /\ Precedes(logs, q)
      /\ \A i \in 1 .. Len(q) : q[i] = client.queue[i + 1] /\ i + 1 \in 1 .. Len(client.queue)
  BY <1>1, <1>2, <1>3, TailRises
<1> HIDE DEF m, q
<1>5. /\ client'.at = "open" /\ client'.queue = q /\ client'.reg = client.reg /\ client'.shut = client.shut
      /\ DOMAIN client' = DOMAIN client /\ Lines(client', logs') = logs'
  BY <1>1, <1>3 DEF Lines
<1>6. ApplyEvent(m)
  BY <1>1, <1>5 DEF Display, m
<1>7. m.kind \in {"log", "state"}
  BY <1>4 DEF Message, Entry
<1>8. ASSUME logs' \in Seq(Entry), Rises(logs'), UpTo(logs', Passed), Precedes(logs', q), ViewInv'
      PROVE  Screening'
  <2>1. Feed(client', logs', Passed)
    BY <1>1, <1>2, <1>4, <1>5, <1>8 DEF Feed
  <2> QED  BY <1>1, <1>5, <1>8, <2>1, ClientSteps
<1>9. CASE m.kind = "log"
  <2>1. logs' = pushLog(logs, m) /\ offset' = Scrolled
        /\ UNCHANGED <<table, order, selected, selectedName, filter>>
    BY <1>6, <1>9 DEF ApplyEvent
  <2>2. m \in Entry /\ m.id.seq \in Nat /\ m.id.seq <= Passed
    BY <1>3, <1>4, <1>9, MessagesAre DEF UpTo
  <2>3. \A i \in 1 .. Len(logs) : logs[i].kind = "log"
    BY <1>3, LenProperties, MessagesAre
  <2>4. \A i \in 1 .. Len(logs) : logs[i].id.seq < m.id.seq
    BY <1>3, <1>4, <1>9, <2>3 DEF Precedes
  <2>5. \A j \in 1 .. Len(q) : q[j].kind = "log" => m.id.seq < q[j].id.seq
    <3>1. \A j \in 1 .. Len(q) : 1 < j + 1
      OBVIOUS
    <3> QED  BY <1>3, <1>4, <1>9, <3>1 DEF Rises
  <2>7. logs' \in Seq(Entry) /\ Rises(logs') /\ UpTo(logs', Passed) /\ Precedes(logs', q)
    BY <1>2, <1>3, <1>4, <2>1, <2>2, <2>4, <2>5, RingRises
  <2>8. offset \in Nat /\ offset' \in Nat
    BY <1>2, <2>1 DEF ViewInv, Scrolled
  <2>9. ViewInv'
    BY <1>2, <1>5, <2>1, <2>7, <2>8 DEF ViewInv
  <2>10. Steady
    BY <1>3, <2>1, <2>2, <2>4, <2>8, ScrollIsSteady
  <2> QED  BY <1>8, <2>7, <2>9, <2>10
<1>10. CASE m.kind = "state"
  <2>1. /\ table' = Newest(States(m), table) /\ RebuildOrder /\ UNCHANGED <<logs, filter, offset>>
    BY <1>6, <1>10 DEF ApplyEvent
  <2>2. m.proc \in Proc
    BY <1>4, <1>10 DEF Message, Entry
  <2>3. DOMAIN States(m) \subseteq Proc
    BY <1>10, <2>2 DEF States
  <2>4. /\ DOMAIN table' \subseteq Proc /\ ListsAll(order', DOMAIN table')
        /\ selectedName' # NoOne => selected' \in 1 .. Len(order') /\ order'[selected'] = selectedName'
        /\ selected \in DOMAIN order => order'[selected'] = order[selected]
    BY <1>2, <2>1, <2>3, TableMoves
  <2>5. ViewInv'
    BY <1>2, <1>5, <2>1, <2>4 DEF ViewInv
  <2>6. filter = All => Shown' = Shown
    BY <2>1, ShownIs
  <2>7. Steady
    BY <2>4, <2>6 DEF Steady
  <2> QED  BY <1>3, <1>4, <1>8, <2>1, <2>5, <2>7
<1> QED  BY <1>7, <1>9, <1>10

\* A key moves the highlight to a row, or the page.
LEMMA KeysScreen ==
  ASSUME Screening, HandleKey, UNCHANGED eventVars
  PROVE  Screening'
<1>1. /\ client.at = "open" /\ UNCHANGED <<table, order, logs, client, watch>>
      /\ UNCHANGED <<procVars, goVars, runnerVars, serverVars>>
  BY DEF HandleKey, eventVars, clientVars
<1>2. ViewInv /\ Feed(client, logs, Passed)
  BY DEF Screening, FeedInv
<1>3. DOMAIN order = 1 .. Len(order)
  BY <1>2, LenProperties DEF ViewInv, ListsAll
<1>4. \A d : Row(d) => /\ offset' = offset /\ selected' \in 1 .. Len(order)
                       /\ selectedName' = order[selected']
  BY <1>3 DEF Row
<1>5. \A f, n : Scroll(f, n) => offset' \in 0 .. MaxOffset /\ UNCHANGED <<selected, selectedName>>
  BY DEF Scroll
<1>6. \/ offset' = offset /\ selected' \in 1 .. Len(order) /\ selectedName' = order[selected']
      \/ offset' = offset /\ UNCHANGED <<selected, selectedName>>
      \/ offset' \in 0 .. MaxOffset /\ UNCHANGED <<selected, selectedName>>
  BY <1>4, <1>5 DEF HandleKey, Help, Quit, Enter
<1>7. ViewInv'
  BY <1>1, <1>2, <1>6 DEF ViewInv
<1> QED  BY <1>1, <1>2, <1>7, ClientSteps

\* Every step keeps the invariant of the monitor, and the view.
LEMMA ScreenNext ==
  ASSUME ScreenInv, [Next]_vars
  PROVE  ScreenInv' /\ [client'.at = "open" /\ client' # client => Steady]_vars
<1>1. CASE watch = "screen"
  <2>1. Screening
    BY <1>1 DEF ScreenInv
  <2>2. CASE UNCHANGED monitorVars /\ ~Reading
    <3>1. UNCHANGED <<order, selected, filter, offset, logs>>
      BY <2>2 DEF monitorVars
    <3>2. Steady
      BY <3>1, RestIsSteady
    <3>3. CASE UNCHANGED eventVars
      <4>1. UNCHANGED <<watch, client>> /\ UNCHANGED <<procVars, goVars, runnerVars, serverVars>>
        BY <3>3 DEF eventVars, clientVars
      <4>2. Feed(client, logs, Passed) /\ ViewInv /\ (\A g \in Goroutine : client.at = "off" => ~to[g])
        BY <2>1 DEF Screening, FeedInv
      <4>3. UNCHANGED <<pc, about, item, to, sequence, run, proc, history, states>>
        BY <4>1 DEF procVars, goVars, runnerVars, serverVars
      <4>4. Logged' = Logged /\ Passed' = Passed
        BY <4>3 DEF Logged, Passed, Awaited, Fetched
      <4>5. ViewInv' /\ logs' = logs
        BY <2>1, <2>2, <4>1, ViewRests
      <4>6. Screening'
        BY <2>1, <4>1, <4>2, <4>3, <4>4, <4>5
        DEF Screening, ScreenTypeOK, SoloInv, KeptInv, FeedInv
      <4> QED  BY <3>2, <4>6 DEF ScreenInv
    <3>4. CASE ~(UNCHANGED eventVars)
      <4>1. \/ \E g \in Goroutine : \/ (Emit(g) /\ pc[g] = "emit") \/ TakeState(g) \/ BroadcastLog(g)
                                    \/ BroadcastState(g) \/ FanOut(g) \/ Compare(g)
            \/ \E p \in Proc : Change(p)
            \/ Connect \/ WriteEnds \/ Drop
        BY <2>1, <2>2, <3>4, ScreenSteps
      <4>2. Proc \subseteq Goroutine
        BY DEF Goroutine
      <4>3. Screening'
        BY <2>1, <2>2, <4>1, <4>2, EmitScreen, ReportScreen, PushScreen, FanScreen, ConnectScreen, EndScreen
      <4> QED  BY <3>2, <4>3 DEF ScreenInv
    <3> QED  BY <3>3, <3>4
  <2>3. CASE Reading
    <3>1. Screening' /\ Steady
      BY <2>1, <2>3, SnapshotScreen, OneScreen DEF Reading, DeliverStep
    <3> QED  BY <3>1 DEF ScreenInv
  <2>4. CASE HandleKey /\ UNCHANGED eventVars
    <3>1. Screening' /\ client' = client
      BY <2>1, <2>4, KeysScreen DEF eventVars, clientVars
    <3> QED  BY <3>1 DEF ScreenInv
  <2> QED  BY <2>1, <2>2, <2>3, <2>4, ScreenSteps
<1>2. CASE watch # "screen"
  <2>1. watch' = watch /\ UNCHANGED monitorVars
    <3>1. Display => UNCHANGED monitorVars
      BY <1>2 DEF Display
    <3>2. ~HandleKey
      BY <1>2 DEF HandleKey
    <3>3. EventStep \/ UNCHANGED eventVars
      BY StepsAre
    <3>4. watch' = watch
      BY <3>3 DEF EventStep, WriterStep, ServerStep, DeliverStep, Emit, Crash, Change, Tick, AskRestart,
         TakeState, BroadcastLog, BroadcastState, Pushed, FanOut, Compare, Connect, WriteEnds,
         Drop, WaitTimeout, WriteSnapshot, WriteOne, eventVars
    <3>5. UNCHANGED monitorVars
      BY <3>1, <3>2 DEF Next, Reading, vars
    <3> QED  BY <3>4, <3>5
  <2>2. UNCHANGED <<order, selected, filter, offset, logs>>
    BY <2>1 DEF monitorVars
  <2> QED  BY <1>2, <2>1, <2>2, RestIsSteady DEF ScreenInv
<1> QED  BY <1>1, <1>2

\* Before the first message the monitor shows nothing, and the run has a line
\* of each process.
LEMMA ScreenBegins == Init => ScreenInv
<1>1. SUFFICES ASSUME Init, watch = "screen" PROVE Screening
  BY DEF ScreenInv
<1>2. /\ pc = [g \in Goroutine |-> "idle"] /\ item = [g \in Goroutine |-> Nothing]
      /\ about = [g \in Goroutine |-> g] /\ to = [g \in Goroutine |-> FALSE]
      /\ run = 1 /\ states = proc /\ history = Before /\ sequence = Len(history) /\ client = Offline
      /\ \E st \in {[gen |-> 0, word |-> "starting"], [gen |-> 1, word |-> "ready"]} : proc = [p \in Proc |-> st]
      /\ table = <<>> /\ order = <<>> /\ selected = 1 /\ selectedName = NoOne /\ logs = <<>> /\ offset = 0
  BY <1>1 DEF Init, EventsInit, ProcInit
<1>3. PICK n \in Nat : n = Len(Names) /\ DOMAIN Names = 1 .. n /\ \A i \in 1 .. n : Names[i] \in Proc
  BY EventsAssumption, LenProperties
<1>4. /\ Len(history) = n /\ history \in Seq(Entry)
      /\ \A i \in 1 .. n : history[i].id.seq = i
  <2> DEFINE line(i) == [kind |-> "log", proc |-> Names[i], id |-> [run |-> 1, seq |-> i],
                         large |-> FALSE]
  <2>1. history = [i \in 1 .. n |-> line(i)]
    BY <1>2, <1>3 DEF Before
  <2>2. \A i \in 1 .. n : line(i) \in Entry
    BY <1>3 DEF Entry, Goroutine
  <2>3. history \in [1 .. n -> Entry]
    BY <2>1, <2>2
  <2>4. history \in Seq(Entry) /\ Len(history) = n
    BY <2>3
  <2> QED  BY <2>1, <2>4
<1>5. proc \in [Proc -> State]
  BY <1>2 DEF State, Word
<1>6. sequence = n /\ run = 1
  BY <1>2, <1>4
<1>7. ScreenTypeOK
  BY <1>2, <1>4, <1>5, <1>6 DEF ScreenTypeOK
<1>8. SoloInv
  BY <1>2 DEF SoloInv, Goroutine
<1>9. Logged = n
  BY <1>2, <1>6 DEF Logged, Fetched
<1>10. KeptInv
  BY <1>4, <1>9 DEF KeptInv, Rises, UpTo
<1>11. FeedInv
  BY <1>2, NoLines DEF FeedInv, Feed, Lines, Offline
<1>12. ViewInv
  <2>1. DOMAIN table = {} /\ <<>> \in Seq({}) /\ client.at = "off"
    BY <1>2 DEF Offline
  <2>2. ListsAll(<<>>, {})
    BY <2>1 DEF ListsAll
  <2>3. <<>> \in Seq(Entry)
    OBVIOUS
  <2> QED  BY <1>2, <2>1, <2>2, <2>3 DEF ViewInv
<1> QED  BY <1>1, <1>7, <1>8, <1>10, <1>11, <1>12 DEF Screening

\* What the user looks at does not move by itself: rebuildOrder remembers the
\* highlighted process before it sorts the table and finds it again, for any
\* processes and states; applyEvent scrolls a view that was scrolled back by
\* one more line when a line arrives, and the lines arrive in the order of
\* their numbers, so that the line that renderFrame shows last is the same
\* one, whether the ring was full or not, until it leaves the ring.
THEOREM ViewStaysSteady == Spec => ViewSteady
<1>1. ScreenInv /\ [Next]_vars =>
        [client'.at = "open" /\ client' # client =>
           /\ selected \in DOMAIN order => order'[selected'] = order[selected]
           /\ offset > 0 /\ filter = All /\ Shown # <<>> /\ Last(Shown) \in Range(logs') =>
                Shown' # <<>> /\ Last(Shown') = Last(Shown)]_vars
  BY ScreenNext DEF Steady
<1>2. ScreenInv /\ [Next]_vars => ScreenInv'
  BY ScreenNext
<1> QED
  BY <1>1, <1>2, ScreenBegins, PTL DEF Spec, ViewSteady
=============================================================================
