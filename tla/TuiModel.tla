------------------------------ MODULE TuiModel ------------------------------
(***************************************************************************)
(* The state of the terminal interface (internal/tui): the Model and the   *)
(* methods the handlers share.                                             *)
(*                                                                         *)
(* A Model is a record. A method that only changes it is an operator from  *)
(* Model to Model; one that also returns a tea.Cmd gives a result, the     *)
(* next Model and the set of commands to run. Layout, styles and the       *)
(* wording of messages are left out, and so is the scroll offset of the    *)
(* detail pane. A text typed at a prompt is the number of its runes: a     *)
(* name contains the query of n runes when n is at most Reach of it.       *)
(***************************************************************************)
EXTENDS Lists, Integers

CONSTANTS Ids,        \* torrents
          NoID,
          Labels,     \* the labels, a sequence in alphabetical order
          NoLabel,
          NameRank,   \* the place of each torrent's name in the alphabet
          Reach,      \* the longest query each name contains
          FileLen,    \* the length of each file of each torrent
          ListRows    \* the rows of the list pane

Filters == <<"All", "Downloading", "Seeding", "Completed", "Stopped">>
Foci    == <<"list", "detail", "sidebar">>
Tabs    == <<"Pieces", "Peers", "Files">>

LabelNames == {Labels[i] : i \in DOMAIN Labels}

ASSUME TuiAssumption ==
  /\ IsFiniteSet(Ids) /\ NoID \notin Ids /\ NoLabel \notin LabelNames /\ Labels \in Seq(LabelNames)
  /\ \A i, j \in DOMAIN Labels : Labels[i] = Labels[j] => i = j
  /\ NameRank \in [Ids -> Nat] /\ Reach \in [Ids -> Nat]
  /\ FileLen \in [Ids -> Seq(Nat)] /\ ListRows \in Nat \ {0}

States == {"downloading", "seeding", "paused", "checking", "error", "blocked", "low disk"}

\* rank is the value in the column the list is sorted by, when that is not
\* the name.
Snapshots == [id: Ids, state: States, paused: BOOLEAN, done: BOOLEAN, label: LabelNames \cup {NoLabel}, rank: Nat]

NoDetail == [id |-> NoID, files |-> <<>>]
Builtin  == [name |-> "base", v |-> 0]

(***************************************************************************)
(* Commands.                                                               *)
(***************************************************************************)
Listen            == [k |-> "listen"]
ThemeWatch        == [k |-> "theme"]
Timer(seq)        == [k |-> "timer", seq |-> seq]
FindCmd(seq, q)   == [k |-> "find", seq |-> seq, q |-> q]
LoadDetail(id)    == [k |-> "detail", id |-> id]
Batch(op, ids)    == [k |-> "batch", op |-> op, ids |-> ids, ok |-> TRUE]
AddBatch(links)   == [k |-> "add", links |-> links, ids |-> {}]
SetPriority(id, i, p) == [k |-> "prio", id |-> id, i |-> i, p |-> p]
Preview(id, f)    == [k |-> "preview", id |-> id, file |-> f]
Simple(what)      == [k |-> "other", what |-> what]

Result(m, c) == [m |-> m, c |-> c]
Only(m)      == Result(m, {})

(***************************************************************************)
(* The list and its cursor.                                                *)
(***************************************************************************)
New(finder) ==
  [torrents |-> <<>>, daemonDown |-> FALSE, filter |-> "All", sortBy |-> "name", sortDesc |-> FALSE,
   cursor |-> 0, selected |-> {}, mode |-> "normal", searchQuery |-> 0, commandBuf |-> [name |-> "", args |-> <<>>],
   showHelp |-> FALSE, themePicker |-> FALSE, themeNames |-> <<>>, themeCursor |-> 0, theme |-> Builtin,
   themeSaved |-> Builtin, themeStamp |-> 0, finder |-> finder, findState |-> "closed", findQuery |-> 0,
   findResults |-> <<>>, findFor |-> 0, findCursor |-> 0, findSeq |-> 0, pendingDD |-> FALSE, focus |-> "list",
   sidebarCursor |-> 0, labelFilter |-> NoLabel, mouseOff |-> FALSE, pendingReveal |-> {}, detail |-> NoDetail,
   detailTab |-> "Pieces", detailCursor |-> 0, detailLoaded |-> FALSE, detailID |-> NoID, status |-> "",
   statusSeq |-> 0, quitting |-> FALSE]

matches(f, t) ==
  CASE f = "Downloading" -> t.state = "downloading"
    [] f = "Seeding"     -> t.state = "seeding"
    [] f = "Completed"   -> t.done
    [] f = "Stopped"     -> t.paused \/ t.state \in {"error", "blocked", "low disk"}
    [] OTHER             -> TRUE

inLabel(m, t)  == m.labelFilter = NoLabel \/ t.label = m.labelFilter
inSearch(m, t) == m.searchQuery <= Reach[t.id]
shown(m) == {i \in DOMAIN m.torrents : /\ matches(m.filter, m.torrents[i])
                                       /\ inLabel(m, m.torrents[i]) /\ inSearch(m, m.torrents[i])}

\* The order of SliceStable. Descending is the negation of less, which
\* also turns round the rows that compare equal.
precedes(m, j, i) ==
  LET key(k) == IF m.sortBy = "name" THEN NameRank[m.torrents[k].id] ELSE m.torrents[k].rank
  IN  IF m.sortDesc THEN key(j) > key(i) \/ (key(j) = key(i) /\ j > i)
                    ELSE key(j) < key(i) \/ (key(j) = key(i) /\ j < i)

visibleTorrents(m) == Arranged(m.torrents, shown(m), LAMBDA j, i : precedes(m, j, i))
rows(m)            == Cardinality(shown(m))

\* The torrent under the cursor, in a sequence that is empty without one.
cursorTorrent(m) == IF m.cursor \in 0 .. rows(m) - 1 THEN <<visibleTorrents(m)[m.cursor + 1]>> ELSE <<>>

Clamped(i, n) == IF n = 0 \/ i < 0 THEN 0 ELSE IF i >= n THEN n - 1 ELSE i
clampCursor(m) == [m EXCEPT !.cursor = Clamped(@, rows(m))]

\* The first row of a window of height rows that keeps the cursor in sight.
scrollWindow(cursor, n, height) ==
  IF n <= height THEN 0 ELSE Clamped(cursor - height \div 2, n - height + 1)

syncDetail(m) ==
  LET t == cursorTorrent(m)
  IN  IF t = <<>> THEN Only([m EXCEPT !.detailLoaded = FALSE, !.detail = NoDetail, !.detailID = NoID])
      ELSE IF t[1].id # m.detailID
      THEN Result([m EXCEPT !.detailID = t[1].id, !.detailLoaded = FALSE, !.detailCursor = 0],
                  {LoadDetail(t[1].id)})
      ELSE Result([m EXCEPT !.detail.id = t[1].id], {LoadDetail(t[1].id)})

setStatus(m, s) == Result([m EXCEPT !.status = s, !.statusSeq = @ + 1], {Timer(m.statusSeq + 1)})

clearStatus(m, seq) == IF seq # m.statusSeq THEN m ELSE [m EXCEPT !.status = ""]

\* What an action applies to: the marked torrents in list order, or the row
\* under the cursor.
targets(m) ==
  IF m.selected # {}
  THEN Arranged(m.torrents, {i \in DOMAIN m.torrents : m.torrents[i].id \in m.selected}, LAMBDA j, i : j < i)
  ELSE cursorTorrent(m)

(***************************************************************************)
(* The sidebar: the status filters, then the labels in use.                *)
(***************************************************************************)
labelsInUse(m) ==
  LET count(i) == Cardinality({k \in DOMAIN m.torrents : m.torrents[k].label = Labels[i]})
  IN  Arranged(Labels, {i \in DOMAIN Labels : count(i) > 0},
               LAMBDA j, i : count(j) > count(i) \/ (count(j) = count(i) /\ j < i))

sidebarEntries(m) ==
  [i \in DOMAIN Filters |-> [label |-> NoLabel, status |-> Filters[i]]]
  \o [i \in DOMAIN labelsInUse(m) |-> [label |-> labelsInUse(m)[i], status |-> "All"]]

entryIsActive(m, e) == m.labelFilter = e.label /\ (e.label = NoLabel => e.status = m.filter)

\* Rows are counted from 0, as the code does.
currentSidebarIndex(m) ==
  LET active == {i \in DOMAIN sidebarEntries(m) : entryIsActive(m, sidebarEntries(m)[i])}
  IN  IF active = {} THEN 0 ELSE (CHOOSE i \in active : \A j \in active : i <= j) - 1

applyEntry(m, e) ==
  [m EXCEPT !.labelFilter = e.label, !.filter = IF e.label # NoLabel THEN "All" ELSE e.status]

selectSidebarKeepsMarks(m, i) ==
  LET n == Len(sidebarEntries(m))
      a == applyEntry(m, sidebarEntries(m)[(i % n) + 1])
  IN  syncDetail(clampCursor([a EXCEPT !.sidebarCursor = i % n]))

selectSidebar(m, i) ==
  LET n == Len(sidebarEntries(m))
      a == applyEntry(m, sidebarEntries(m)[(i % n) + 1])
      same == a.filter = m.filter /\ a.labelFilter = m.labelFilter
  IN  syncDetail(clampCursor([a EXCEPT !.selected = IF same THEN @ ELSE {}, !.sidebarCursor = i % n]))

dropVanishedLabelFilter(m) ==
  IF m.labelFilter = NoLabel \/ \E i \in DOMAIN m.torrents : m.torrents[i].label = m.labelFilter
  THEN m ELSE [m EXCEPT !.labelFilter = NoLabel, !.filter = "All", !.sidebarCursor = 0]

revealJustAddedUnsearched(m) ==
  LET seen == {i \in DOMAIN m.torrents : m.torrents[i].id \in m.pendingReveal}
      a == [m EXCEPT !.pendingReveal = {}, !.labelFilter = NoLabel, !.filter = "All"]
  IN  IF seen = {} THEN Only(m) ELSE Only([a EXCEPT !.sidebarCursor = currentSidebarIndex(a)])

\* The torrents just added that this snapshot carries must not be hidden.
revealJustAdded(m) ==
  LET seen == {i \in DOMAIN m.torrents : m.torrents[i].id \in m.pendingReveal}
      byLabel  == \E i \in seen : ~inLabel(m, m.torrents[i])
      byStatus == \E i \in seen : ~matches(m.filter, m.torrents[i])
      bySearch == \E i \in seen : ~inSearch(m, m.torrents[i])
      a == [m EXCEPT !.pendingReveal = {}, !.labelFilter = IF byLabel THEN NoLabel ELSE @,
                     !.filter = IF byStatus THEN "All" ELSE @, !.searchQuery = IF bySearch THEN 0 ELSE @]
  IN  IF seen = {} THEN Only(m)
      ELSE IF byLabel \/ byStatus \/ bySearch
      THEN setStatus([a EXCEPT !.sidebarCursor = currentSidebarIndex(a)], "ok")
      ELSE Only(a)
=============================================================================
