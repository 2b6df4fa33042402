------------------------------- MODULE Journal -------------------------------
(***************************************************************************)
(* The event journal: a log file that is rotated when it is full, any step *)
(* of the rotation failing or the daemon crashing in it, and the paged     *)
(* query that pins the files of the journal while they are renamed.        *)
(* Sources: internal/logrotate/logrotate.go, internal/logs/query.go.       *)
(*                                                                         *)
(* Events have one size, so the byte budgets are counts.  Filters, the     *)
(* shortening of an oversized event and a live file removed by somebody    *)
(* else are left out.                                                      *)
(***************************************************************************)
EXTENDS Naturals, Sequences, SequencesExt, FiniteSetsExt

CONSTANTS
  MaxSize,    \* events that fill the live file
  MaxFiles,   \* rotated copies kept
  Limit,      \* events per page
  Attempts    \* snapshotAttempts

ASSUME JournalAssumption ==
  {MaxSize, MaxFiles, Limit, Attempts} \subseteq Nat \ {0}

VARIABLES
  \* the directory, a file number per name; the contents of the files
  dir, content,
  \* the writer: its open file, the size it counted, a file it could not
  \* put back, its place in rotate, the slot shift is at
  handle, size, displaced, wr, slot,
  \* the query: its place, attempts, the files observed and pinned, the
  \* cursor, a tail page
  rd, tries, observed, pinned, cursor, tail,
  \* history: events written, events returned over all pages, the places in
  \* those where a page reported a gap, the next one when it was empty
  written, got, flagged

fileVars   == <<dir, content>>
writerVars == <<handle, size, displaced, wr, slot>>
readerVars == <<rd, tries, observed, pinned, cursor, tail, got, flagged>>
journalVars == <<fileVars, writerVars, readerVars, written>>

Live == 0
Staging == MaxFiles + 1
Name == 0 .. MaxFiles + 1
Absent == 0
NoName == MaxFiles + 2
NoEvent == [run |-> 0, seq |-> 0]

Rename(a, b) == dir' = [dir EXCEPT ![b] = dir[a], ![a] = Absent]
Exists(n) == dir[n] # Absent

\* A new file under a name that is absent.
Create(n) == /\ content' = Append(content, <<>>)
             /\ dir' = [dir EXCEPT ![n] = Len(content) + 1]

-----------------------------------------------------------------------------
(* The writer.  Every rename, remove and open may fail.                    *)

writerRest == <<readerVars, written>>

\* rotate is over, with or without an error, and so is Write.
RotateEnds == wr' = "idle" /\ slot' = 0

\* Write: the event is appended through the open file, wherever that is; a
\* full file is rotated.  A write that fails loses the event.
WriteEvent(e) ==
  /\ wr = "idle"
  /\ \/ /\ content' = [content EXCEPT ![handle] = Append(@, e)]
        /\ written' = Append(written, e)
        /\ size' = size + 1
     \/ UNCHANGED <<content, written, size>>
  /\ wr' = IF size' >= MaxSize THEN "restore" ELSE "idle"
  /\ UNCHANGED <<dir, handle, displaced, slot, readerVars>>

\* A file that an earlier rotation left elsewhere goes back first.
RestoreDisplaced ==
  /\ wr = "restore"
  /\ IF displaced = NoName
     THEN wr' = "stage" /\ UNCHANGED <<dir, displaced, slot>>
     ELSE \/ /\ Rename(displaced, Live)
             /\ displaced' = NoName /\ wr' = "stage" /\ UNCHANGED slot
          \/ RotateEnds /\ UNCHANGED <<dir, displaced>>
  /\ UNCHANGED <<content, handle, size, writerRest>>

Stage ==
  /\ wr = "stage"
  /\ \/ Rename(Live, Staging) /\ wr' = "free" /\ UNCHANGED slot
     \/ RotateEnds /\ UNCHANGED dir
  /\ UNCHANGED <<content, handle, size, displaced, writerRest>>

\* Mutant of FirstFree: the copies are always shifted to the end.
LastSlot == 0

\* The first free slot, or 0 when every slot is taken.
FirstFree == LET Free == {i \in 1 .. MaxFiles : ~Exists(i)}
             IN IF Free = {} THEN 0 ELSE Min(Free)

\* rollback: the open file, now called name, goes back to the live path.
Rollback(name) ==
  /\ \/ Rename(name, Live) /\ UNCHANGED displaced
     \/ displaced' = name /\ UNCHANGED dir
  /\ RotateEnds

\* shift: the oldest copy is dropped only when there is no free slot.
FindSlot ==
  /\ wr = "free"
  /\ \/ /\ FirstFree # 0
        /\ slot' = FirstFree /\ wr' = "shift" /\ UNCHANGED <<dir, displaced>>
     \/ /\ FirstFree = 0
        /\ dir' = [dir EXCEPT ![MaxFiles] = Absent]
        /\ slot' = MaxFiles /\ wr' = "shift" /\ UNCHANGED displaced
     \/ FirstFree = 0 /\ Rollback(Staging)
  /\ UNCHANGED <<content, handle, size, writerRest>>

ShiftOne ==
  /\ wr = "shift" /\ slot > 1
  /\ \/ Rename(slot - 1, slot) /\ slot' = slot - 1 /\ UNCHANGED <<wr, displaced>>
     \/ Rollback(Staging)
  /\ UNCHANGED <<content, handle, size, writerRest>>

\* The staged file becomes the newest copy ...
MakeCopy ==
  /\ wr = "shift" /\ slot = 1
  /\ \/ Rename(Staging, 1) /\ wr' = "open" /\ UNCHANGED <<slot, displaced>>
     \/ Rollback(Staging)
  /\ UNCHANGED <<content, handle, size, writerRest>>

\* ... and a fresh live file is installed.
OpenNew ==
  /\ wr = "open"
  /\ \/ /\ Create(Live)
        /\ handle' = Len(content) + 1 /\ size' = 0
        /\ RotateEnds /\ UNCHANGED displaced
     \/ Rollback(1) /\ UNCHANGED <<content, handle, size>>
  /\ UNCHANGED writerRest

\* New puts a staged file back when the live path is absent.
RestoreStaged == ~Exists(Live) /\ Exists(Staging)

\* The daemon crashed, at any point of a rotation, and the next run opens
\* the journal.
Reopen ==
  /\ displaced' = NoName /\ RotateEnds
  /\ \/ /\ RestoreStaged
        /\ Rename(Staging, Live) /\ UNCHANGED content
     \/ /\ ~RestoreStaged
        /\ IF Exists(Live) THEN UNCHANGED fileVars ELSE Create(Live)
  /\ handle' = dir'[Live] /\ size' = Len(content'[dir'[Live]])
  /\ UNCHANGED writerRest

RotateStep == \/ RestoreDisplaced \/ Stage \/ FindSlot \/ ShiftOne \/ MakeCopy
              \/ OpenNew

-----------------------------------------------------------------------------
(* The query.                                                              *)

readerRest == <<fileVars, writerVars, written>>

BeginQuery ==
  /\ rd = "idle"
  /\ rd' = "open" /\ tries' = 1 /\ tail' = FALSE
  /\ observed' = <<>> /\ pinned' = <<>>
  /\ UNCHANGED <<cursor, got, flagged, readerRest>>

\* snapshotFiles opens the copies, oldest first, then the live file, and the
\* staged file when there is no live one.
Opens == [i \in 1 .. MaxFiles + 1 |-> MaxFiles + 1 - i]

Pin(n) == Exists(n) =>
            pinned' = Append(pinned, [file |-> dir[n], size |-> Len(content[dir[n]])])

OpenFile ==
  /\ rd = "open"
  /\ LET k == Len(observed) + 1
         n == IF k <= MaxFiles + 1 THEN Opens[k] ELSE Staging
     IN /\ observed' = Append(observed, [name |-> n, file |-> dir[n]])
        /\ Pin(n) /\ (~Exists(n) => UNCHANGED pinned)
        /\ rd' = IF n = Staging \/ (n = Live /\ Exists(n)) THEN "check" ELSE "open"
  /\ UNCHANGED <<tries, cursor, tail, got, flagged, readerRest>>

\* Mutant of Stable: what was opened is taken for one journal.
NeverChecked == TRUE

\* Every name still is what was observed.
Stable == \A i \in DOMAIN observed : dir[observed[i].name] = observed[i].file

CheckFiles ==
  /\ rd = "check"
  /\ IF Stable THEN rd' = "scan" /\ UNCHANGED <<tries, observed, pinned>>
     ELSE /\ observed' = <<>> /\ pinned' = <<>>
          /\ IF tries < Attempts THEN rd' = "open" /\ tries' = tries + 1
             ELSE rd' = "idle" /\ tries' = 0
  /\ UNCHANGED <<cursor, tail, got, flagged, readerRest>>

\* The events of the pinned files, as long as they were when pinned.
Pinned == FlattenSeq([i \in DOMAIN pinned |->
                        SubSeq(content[pinned[i].file], 1, pinned[i].size)])

\* A missing sequence number within a run.
HasGap(s) == \E i \in 1 .. Len(s) - 1 :
               s[i].run = s[i + 1].run /\ s[i + 1].seq # s[i].seq + 1

\* What the query in hand goes on from: the client's cursor, or nothing when
\* that was lost.  The client keeps its own until a page is returned.
After == IF tail THEN NoEvent ELSE cursor

Found == After = NoEvent \/ \E i \in DOMAIN Pinned : Pinned[i] = After

\* One page: what follows the cursor, up to the limit; of a tail the newest.
\* A forward page stops at the event after its last one.
Page ==
  LET from  == IF After = NoEvent THEN 0
               ELSE CHOOSE i \in DOMAIN Pinned : Pinned[i] = After
      rest  == SubSeq(Pinned, from + 1, Len(Pinned))
      count == Min({Limit, Len(rest)})
      seen  == IF tail THEN Pinned
               ELSE SubSeq(Pinned, 1, Min({from + count + 1, Len(Pinned)}))
  IN [events |-> IF tail THEN SubSeq(rest, Len(rest) - count + 1, Len(rest))
                 ELSE SubSeq(rest, 1, count),
      gap    |-> tail \/ HasGap(seen)]

\* A cursor that is not in the journal any more: query again, for a tail
\* page that reports the gap.
CursorLost ==
  /\ rd = "scan" /\ ~Found
  /\ rd' = "open" /\ tries' = 1 /\ tail' = TRUE
  /\ observed' = <<>> /\ pinned' = <<>>
  /\ UNCHANGED <<cursor, got, flagged, readerRest>>

ReturnPage ==
  /\ rd = "scan" /\ Found
  /\ got' = got \o Page.events
  /\ flagged' = IF Page.gap THEN flagged \cup (Len(got) + 1 .. Max({Len(got'), Len(got) + 1}))
                ELSE flagged
  /\ cursor' = IF Page.events = <<>> THEN After ELSE Last(Page.events)
  /\ rd' = "idle" /\ tries' = 0 /\ tail' = FALSE
  /\ observed' = <<>> /\ pinned' = <<>>
  /\ UNCHANGED readerRest

ReaderStep == BeginQuery \/ OpenFile \/ CheckFiles \/ CursorLost \/ ReturnPage

-----------------------------------------------------------------------------

JournalInit ==
  /\ dir = [n \in Name |-> IF n = Live THEN 1 ELSE Absent]
  /\ content = << <<>> >>
  /\ handle = 1 /\ size = 0 /\ displaced = NoName /\ wr = "idle" /\ slot = 0
  /\ rd = "idle" /\ tries = 0 /\ observed = <<>> /\ pinned = <<>>
  /\ cursor = NoEvent /\ tail = FALSE
  /\ written = <<>> /\ got = <<>> /\ flagged = {}

-----------------------------------------------------------------------------
(* Properties                                                              *)

\* The files in the order a reader takes them.
Retained ==
  LET Part(n) == IF Exists(n) THEN content[dir[n]] ELSE <<>>
  IN FlattenSeq([i \in 1 .. MaxFiles |-> Part(MaxFiles + 1 - i)])
       \o Part(Staging) \o Part(Live)

\* At every step of a rotation, also of one that failed, was retried or was
\* cut short by a crash, the journal's files hold the newest events without
\* a hole, and never fewer than the copies that are kept can hold (rotate,
\* shift, rollback, New).
JournalWhole ==
  /\ IsSuffix(Retained, written)
  /\ Len(Retained) >= Min({Len(written), MaxFiles * MaxSize})

\* The pages of a query that follows its cursor return the events of a run
\* once each, in order, although files are renamed while they are opened;
\* events that are missed lie behind a page that reports a gap (Query,
\* snapshotFiles).  Between two runs only the order is promised: a live file
\* that a failed rollback left under a copy's name grows after it is pinned,
\* and a run that crashes meanwhile loses its last events to that query.
PagesExact ==
  LET At(e) == CHOOSE i \in DOMAIN written : written[i] = e
  IN \A i \in 1 .. Len(got) - 1 :
       /\ At(got[i + 1]) > At(got[i])
       /\ i + 1 \notin flagged /\ got[i + 1].run = got[i].run => At(got[i + 1]) = At(got[i]) + 1
=============================================================================
