------------------------------- MODULE Monitor -------------------------------
(***************************************************************************)
(* The terminal monitor, an observer of the event stream: its process      *)
(* table sorted by health, the selection, the log ring, the filter and the *)
(* scroll offset, changed by events that arrive and by keys.               *)
(* Source: internal/monitor/monitor.go.  Frames, widths and colours are    *)
(* left out; a page of the log area has PageRows rows.                     *)
(***************************************************************************)
EXTENDS Events

CONSTANTS
  MaxLogs,     \* maxLogs: lines the monitor keeps
  PageRows,    \* logAreaRows
  MaxOffset    \* bound of an instance on the scroll offset

All == "all"
NoOne == "no one"

ASSUME MonitorAssumption ==
  /\ {MaxLogs, PageRows, MaxOffset} \subseteq Nat \ {0}
  /\ {All, NoOne} \cap Proc = {}

VARIABLES
  table,       \* the state of each process seen so far
  order, selected, selectedName,
  logs, filter, offset, help, over

monitorVars == <<table, order, selected, selectedName, logs, filter, offset, help, over>>
vars == <<journalVars, eventVars, monitorVars>>

healthRank(st) == CASE st.word = "failed"     -> 0
                    [] st.word = "restarting" -> 1
                    [] st.word = "unhealthy"  -> 2
                    [] st.word = "running"    -> 3
                    [] st.word = "ready"      -> 4
                    [] st.word = "completed"  -> 5
                    [] OTHER                  -> 6

IndexOf(name, o) == SelectInSeq(o, LAMBDA n : n = name)

\* By health, then by name.
Above(t, m, n) ==
  \/ healthRank(t[m]) < healthRank(t[n])
  \/ healthRank(t[m]) = healthRank(t[n]) /\ IndexOf(m, Names) < IndexOf(n, Names)

Sorted(t) == CHOOSE o \in [1 .. Cardinality(DOMAIN t) -> DOMAIN t] :
               \A i, j \in DOMAIN o : i < j => Above(t, o[i], o[j])

\* Mutant of Captured: the name is not captured before the sort.
NotCaptured == selectedName

\* The highlighted process, remembered before the table is sorted again.
Captured == IF selectedName = NoOne /\ selected \in DOMAIN order
            THEN order[selected] ELSE selectedName

\* rebuildOrder, with syncSelection: a process never leaves the table, so
\* the name that is tracked is found.
RebuildOrder ==
  /\ order' = Sorted(table')
  /\ selectedName' = Captured
  /\ selected' = IF Captured = NoOne THEN selected ELSE IndexOf(Captured, order')

\* The ring of the lines that can be shown; it keeps the newest.
pushLog(s, e) == IF Len(s) < MaxLogs THEN Append(s, e) ELSE Append(Tail(s), e)

pushLogs(s, es) == LET all == s \o es
                   IN SubSeq(all, Max({0, Len(all) - MaxLogs}) + 1, Len(all))

Scrolled == IF offset > 0 THEN offset + 1 ELSE 0

\* applyEvent
ApplyEvent(m) ==
  \/ /\ m.kind = "snapshot"
     /\ table' = Newest(States(m), table) /\ RebuildOrder
     /\ logs' = pushLogs(logs, m.logs)
     /\ UNCHANGED <<filter, offset, help, over>>
  \/ /\ m.kind = "log"
     /\ logs' = pushLog(logs, m) /\ offset' = Scrolled
     /\ UNCHANGED <<table, order, selected, selectedName, filter, help, over>>
  \/ /\ m.kind = "state"
     /\ table' = Newest(States(m), table) /\ RebuildOrder
     /\ UNCHANGED <<logs, filter, offset, help, over>>

filteredLogs == IF filter = All THEN logs ELSE SelectSeq(logs, LAMBDA e : e.proc = filter)

\* renderFrame: the lines shown end `offset` lines above the newest.
Shown ==
  LET end   == Max({0, Len(filteredLogs) - offset})
      start == Max({0, end - PageRows})
  IN SubSeq(filteredLogs, start + 1, end)

-----------------------------------------------------------------------------
(* Keys                                                                    *)

Row(delta) ==
  /\ selected + delta \in DOMAIN order
  /\ selected' = selected + delta /\ selectedName' = order[selected + delta]
  /\ UNCHANGED <<filter, offset, help, over>>

\* enter toggles the filter, a clears it, g, G, pgup and pgdn scroll.
Scroll(f, n) == /\ filter' = f /\ offset' = n /\ n \in 0 .. MaxOffset
                /\ UNCHANGED <<selected, selectedName, help, over>>

Enter == order # <<>> /\ Scroll(IF filter = order[selected] THEN All ELSE order[selected], 0)

\* Under the help overlay every key but q only closes it.
Help == help' = ~help /\ UNCHANGED <<selected, selectedName, filter, offset, over>>
Quit == over' = TRUE /\ UNCHANGED <<selected, selectedName, filter, offset, help>>

HandleKey ==
  /\ watch = "screen" /\ client.at = "open"
  /\ \/ Help \/ Quit
     \/ /\ ~help
        /\ \/ Row(1) \/ Row(0 - 1) \/ Enter \/ Scroll(All, 0)
           \/ Scroll(filter, Len(filteredLogs)) \/ Scroll(filter, 0)
           \/ Scroll(filter, offset + PageRows)
           \/ Scroll(filter, Max({0, offset - PageRows}))
  /\ UNCHANGED <<table, order, logs>>

-----------------------------------------------------------------------------
(* The composition                                                         *)

\* A message that was written is applied by the event loop.
Display ==
  IF watch # "screen" THEN UNCHANGED monitorVars
  ELSE \/ /\ client.at = "open" \/ client'.at = "open"
          /\ ApplyEvent(IF client.at = "snap" THEN client.snap ELSE Head(client.queue))
       \/ client.at = "snap" /\ UNCHANGED monitorVars   \* served without a snapshot
       \/ client'.at = "gone" /\ UNCHANGED monitorVars

Init ==
  /\ EventsInit
  /\ table = <<>> /\ order = <<>> /\ selected = 1 /\ selectedName = NoOne
  /\ logs = <<>> /\ filter = All /\ offset = 0 /\ help = FALSE /\ over = FALSE

Reading == DeliverStep /\ Display /\ UNCHANGED journalVars

\* An instance ends with its monitor.
Next ==
  /\ ~over
  /\ \/ WriterStep /\ UNCHANGED monitorVars
     \/ ServerStep /\ UNCHANGED <<journalVars, monitorVars>>
     \/ Reading
     \/ JournalStep /\ UNCHANGED <<eventVars, monitorVars>>
     \/ HandleKey /\ UNCHANGED <<journalVars, eventVars>>

Spec == Init /\ [][Next]_vars

-----------------------------------------------------------------------------
(* Properties                                                              *)

\* What the user looks at does not move by itself: when an event arrives,
\* the highlighted process stays the same although the table is sorted
\* again, and a view of all logs that was scrolled back keeps its newest
\* line, unless that line left the ring (rebuildOrder, applyEvent,
\* renderFrame).
ViewSteady ==
  [][client'.at = "open" /\ client' # client =>
       /\ selected \in DOMAIN order => order'[selected'] = order[selected]
       /\ offset > 0 /\ filter = All /\ Shown # <<>>
             /\ Last(Shown) \in Range(logs') =>
            Shown' # <<>> /\ Last(Shown') = Last(Shown)]_vars
=============================================================================
