------------------------------ MODULE TuiKeys ------------------------------
(***************************************************************************)
(* What a key and the mouse do to the Model (update.go, detail.go, find.go, *)
(* palette.go, themepicker.go, mouse.go), under the default key map.       *)
(*                                                                         *)
(* env is what a handler reads besides the Model: the line the command     *)
(* prompt ends up with, whether the chord's window has passed, and the     *)
(* user's theme file.                                                      *)
(***************************************************************************)
EXTENDS TuiModel

\* Keys that are text at a prompt.
Runes == {"k", "j", "g", "G", "x", "D", "X", "p", "r", "q", "/", ":", "h", "?", "v", "o", "f",
          "]", "[", "}", "{", "m", "1", "2", "3", "d", "+", "-", "space"}

Up   == {"k", "up"}
Down == {"j", "down"}

Cycle(s, x, by) ==
  LET i == CHOOSE i \in DOMAIN s : s[i] = x IN s[((i - 1 + by) % Len(s)) + 1]

(***************************************************************************)
(* Themes. The built-in one has no file; the user's has one that may be    *)
(* rewritten, broken or gone at any time.                                  *)
(***************************************************************************)
Available(disk) == IF disk.state = "gone" THEN <<"base">> ELSE <<"base", "user">>
Load(name, disk) ==
  CASE name = "base" -> <<Builtin>>
    [] name = "user" /\ disk.state = "good" -> <<[name |-> "user", v |-> disk.v]>>
    [] OTHER -> <<>>
stampOf(name, disk) == IF name = "user" /\ disk.state # "gone" THEN disk.v ELSE 0

applyTheme(m, th, disk) == [m EXCEPT !.theme = th, !.themeStamp = stampOf(th.name, disk)]

openThemePicker(m, disk) ==
  LET names == Available(disk)
      at    == {i \in DOMAIN names : names[i] = m.theme.name}
  IN  Only([m EXCEPT !.themeNames = names, !.themeSaved = m.theme, !.themePicker = TRUE,
                     !.themeCursor = IF at = {} THEN 0 ELSE (CHOOSE i \in at : TRUE) - 1])

moveThemeCursor(m, key, disk) ==
  LET last == Len(m.themeNames) - 1
      to   == CASE key \in Down -> Clamped(m.themeCursor + 1, last + 1)
                [] key \in Up   -> Clamped(m.themeCursor - 1, last + 1)
                [] key = "g"    -> 0
                [] OTHER        -> last
      a    == [m EXCEPT !.themeCursor = to]
      th   == Load(m.themeNames[to + 1], disk)
  IN  IF th = <<>> THEN setStatus(a, "err") ELSE Only(applyTheme(a, th[1], disk))

handleThemeKey(m, key, disk) ==
  CASE key = "esc" -> Only(applyTheme([m EXCEPT !.themePicker = FALSE], m.themeSaved, disk))
    [] key \in {"enter", "space"} -> setStatus([m EXCEPT !.themePicker = FALSE], "ok")
    [] key \in Up \cup Down \cup {"g", "G"} -> moveThemeCursor(m, key, disk)
    [] OTHER -> Only(m)

setThemeByName(m, name, disk) ==
  LET th == Load(name, disk)
  IN  IF th = <<>> THEN setStatus(m, "err") ELSE setStatus(applyTheme(m, th[1], disk), "ok")

checkThemeFileStops(m, disk) ==
  LET stamp == stampOf(m.theme.name, disk)
      th    == Load(m.theme.name, disk)
  IN  IF m.themePicker THEN Only(m)
      ELSE IF stamp \in {0, m.themeStamp} THEN Result(m, {ThemeWatch})
      ELSE IF th # <<>> THEN Result(applyTheme(m, th[1], disk), {ThemeWatch})
      ELSE LET s == setStatus([m EXCEPT !.themeStamp = stamp], "err") IN Result(s.m, s.c \cup {ThemeWatch})

\* Re-applies the theme in use when its file has changed since it was
\* applied, and asks to be called again.
checkThemeFile(m, disk) ==
  LET stamp == stampOf(m.theme.name, disk)
      th    == Load(m.theme.name, disk)
  IN  IF m.themePicker \/ stamp \in {0, m.themeStamp} THEN Result(m, {ThemeWatch})
      ELSE IF th # <<>> THEN Result(applyTheme(m, th[1], disk), {ThemeWatch})
      ELSE LET s == setStatus([m EXCEPT !.themeStamp = stamp], "err") IN Result(s.m, s.c \cup {ThemeWatch})

(***************************************************************************)
(* The find overlay.                                                       *)
(***************************************************************************)
openFind(m) == IF ~m.finder THEN setStatus(m, "err") ELSE Only([m EXCEPT !.mode = "find"])

startFind(m, query) ==
  IF query = 0 THEN Only(m)
  ELSE IF ~m.finder THEN setStatus(m, "err")
  ELSE Result([m EXCEPT !.mode = "normal", !.findQuery = query, !.findState = "loading", !.findResults = <<>>,
                        !.findCursor = 0, !.findSeq = @ + 1],
              {FindCmd(m.findSeq + 1, query)})

applyFindResultsAwaited(m, msg) ==
  IF m.findState # "loading" THEN m
  ELSE [m EXCEPT !.findState = "loaded", !.findResults = msg.results, !.findFor = msg.q, !.findCursor = 0]

applyFindResults(m, msg) ==
  IF msg.seq # m.findSeq THEN m
  ELSE [m EXCEPT !.findState = "loaded", !.findResults = msg.results, !.findFor = msg.q, !.findCursor = 0]

closeFind(m) == [m EXCEPT !.findState = "closed", !.findSeq = @ + 1]

\* A result is the torrent it stands for, or NoID when it has no link.
addFindResult(m) ==
  IF m.findCursor >= Len(m.findResults) THEN Only(m)
  ELSE LET r == m.findResults[m.findCursor + 1]
           s == setStatus(closeFind(m), "ok")
       IN  IF r = NoID THEN setStatus(m, "err") ELSE Result(s.m, s.c \cup {AddBatch({r})})

handleFindKey(m, key) ==
  CASE key = "esc"   -> Only(closeFind(m))
    [] key = "f"     -> Only([closeFind(m) EXCEPT !.mode = "find"])
    [] key = "enter" -> addFindResult(m)
    [] key \in Up    -> Only([m EXCEPT !.findCursor = Clamped(@ - 1, Len(m.findResults))])
    [] key \in Down  -> Only([m EXCEPT !.findCursor = Clamped(@ + 1, Len(m.findResults))])
    [] key = "g"     -> Only([m EXCEPT !.findCursor = 0])
    [] key = "G"     -> Only([m EXCEPT !.findCursor = Clamped(Len(m.findResults) - 1, Len(m.findResults))])
    [] OTHER         -> Only(m)

handleFindPromptKey(m, key) ==
  CASE key = "enter"     -> startFind(m, m.findQuery)
    [] key = "esc"       -> Only([m EXCEPT !.mode = "normal", !.findQuery = 0])
    [] key = "backspace" -> Only([m EXCEPT !.findQuery = Clamped(@ - 1, @ + 1)])
    [] key \in Runes     -> Only([m EXCEPT !.findQuery = @ + 1])
    [] OTHER             -> Only(m)

(***************************************************************************)
(* Acting on torrents.                                                     *)
(***************************************************************************)
IdsOf(ts) == [i \in DOMAIN ts |-> <<ts[i].id, ts[i].paused>>]

\* Each target, with whether it is paused, to op; nothing without a target.
actOnTargets(m, op) == IF targets(m) = <<>> THEN Only(m) ELSE Result(m, {Batch(op, IdsOf(targets(m)))})

removeTargets(m) ==
  IF targets(m) = <<>> THEN Only(m) ELSE Result([m EXCEPT !.selected = {}], actOnTargets(m, [do |-> "remove"]).c)

\* The torrent under the cursor alone.
onCursor(m, what) == IF cursorTorrent(m) = <<>> THEN Only(m) ELSE Result(m, {Simple(what)})

largestFile(files) ==
  LET len(i) == FileLen[files[i].of][files[i].i]
  IN  files[CHOOSE i \in DOMAIN files : \A j \in DOMAIN files : len(i) > len(j) \/ (len(i) = len(j) /\ i <= j)]

previewFile(m) ==
  LET t  == cursorTorrent(m)
      at == m.detailCursor
  IN  IF t = <<>> THEN Only(m)
      ELSE IF ~m.detailLoaded \/ m.detail.id # t[1].id \/ m.detail.files = <<>> THEN setStatus(m, "err")
      ELSE Result(m, {Preview(m.detail.id, IF m.detailTab = "Files" /\ at < Len(m.detail.files)
                                           THEN m.detail.files[at + 1] ELSE largestFile(m.detail.files))})

toggleFileWanted(m) ==
  LET at == m.detailCursor
      f  == m.detail.files[at + 1]
  IN  IF at >= Len(m.detail.files) THEN Only(m)
      ELSE Result([m EXCEPT !.detailCursor = IF at < Len(m.detail.files) - 1 THEN @ + 1 ELSE @],
                  {SetPriority(m.detail.id, f.i, IF f.prio = 0 THEN 2 ELSE 0)})

\* PriorityNone is 0, PriorityNow is 4.
adjustFilePriority(m, delta) ==
  LET at == m.detailCursor
      f  == m.detail.files[at + 1]
  IN  IF m.detailTab # "Files" \/ at >= Len(m.detail.files) THEN Only(m)
      ELSE Result(m, {SetPriority(m.detail.id, f.i, Clamped(f.prio + delta, 5))})

toggleMouse(m) == setStatus([m EXCEPT !.mouseOff = ~@], "ok")
setDetailTab(m, tab) == Only([m EXCEPT !.detailTab = tab])

(***************************************************************************)
(* The command palette. A line is its name and its arguments; a "say" is a *)
(* command that only answers with an error.                                *)
(***************************************************************************)
Complain(m) == Result(m, {Simple("complain")})

execCommand(m, line, disk) ==
  CASE line.name = ""       -> Only(m)
    [] line.name = "add"    -> IF line.args = <<>> THEN Complain(m) ELSE Result(m, {AddBatch(line.args[1])})
    [] line.name \in {"rm", "rm!"} -> removeTargets(m)
    [] line.name \in {"pause", "resume", "purge", "recheck"} -> actOnTargets(m, [do |-> line.name])
    [] line.name = "limit"  -> IF Len(line.args) # 1 THEN Complain(m) ELSE Result(m, {Simple("limit")})
    [] line.name = "move"   -> IF Len(line.args) # 1 THEN Complain(m) ELSE onCursor(m, "move")
    [] line.name = "mouse"  -> toggleMouse(m)
    [] line.name = "label"  -> actOnTargets(m, [do |-> "label", label |-> IF line.args = <<>> THEN NoLabel ELSE line.args[1]])
    [] line.name = "find"   -> IF line.args = <<>> THEN openFind(m) ELSE startFind(m, line.args[1])
    [] line.name = "theme"  -> IF line.args = <<>> THEN openThemePicker(m, disk) ELSE setThemeByName(m, line.args[1], disk)
    [] line.name = "sort"   -> IF line.args = <<>> \/ line.args[1] \notin {"name", "rank"} THEN Complain(m)
                               ELSE Only(clampCursor([m EXCEPT !.sortBy = line.args[1], !.sortDesc = Len(line.args) > 1]))
    [] line.name = "help"   -> Only([m EXCEPT !.showHelp = TRUE])
    [] line.name = "q"      -> Only([m EXCEPT !.quitting = TRUE])
    [] OTHER                -> Complain(m)

handleCommandKey(m, key, env) ==
  LET empty == [name |-> "", args |-> <<>>]
      shut  == [m EXCEPT !.mode = "normal", !.commandBuf = empty]
  IN  CASE key = "enter" -> execCommand(shut, m.commandBuf, env.disk)
        [] key = "esc"   -> Only(shut)
        [] key \in Runes \cup {"backspace", "tab"} -> Only([m EXCEPT !.commandBuf = env.line])
        [] OTHER         -> Only(m)

(***************************************************************************)
(* The panes.                                                              *)
(***************************************************************************)
handleSearchKey(m, key) ==
  LET a == [m EXCEPT !.mode = IF key \in {"enter", "esc"} THEN "normal" ELSE @,
                     !.searchQuery = CASE key = "esc" -> 0 [] key = "backspace" -> Clamped(@ - 1, @ + 1)
                                       [] key \in Runes -> @ + 1 [] OTHER -> @]
  IN  Only(clampCursor([a EXCEPT !.selected = IF a.searchQuery = m.searchQuery THEN @ ELSE {}]))

\* Escape peels one layer.
back(m) ==
  LET noLabel == [m EXCEPT !.labelFilter = NoLabel]
      all     == [m EXCEPT !.filter = "All"]
  IN  CASE m.focus # "list"         -> [m EXCEPT !.focus = "list"]
        [] m.focus = "list" /\ m.selected # {} -> [m EXCEPT !.selected = {}]
        [] m.focus = "list" /\ m.selected = {} /\ m.searchQuery # 0 -> clampCursor([m EXCEPT !.searchQuery = 0])
        [] m.focus = "list" /\ m.selected = {} /\ m.searchQuery = 0 /\ m.labelFilter # NoLabel ->
             clampCursor([noLabel EXCEPT !.sidebarCursor = currentSidebarIndex(noLabel)])
        [] OTHER -> IF m.filter = "All" THEN m
                    ELSE clampCursor([all EXCEPT !.sidebarCursor = currentSidebarIndex(all)])

\* Marks the row under the cursor, or unmarks it, and moves on.
selectRow(m) ==
  IF rows(m) = 0 THEN m
  ELSE LET id == visibleTorrents(m)[m.cursor + 1].id
       IN  [m EXCEPT !.selected = IF id \in @ THEN @ \ {id} ELSE @ \cup {id},
                     !.cursor = Clamped(@ + 1, rows(m))]

handleListKey(n, key, env) ==
  LET m == [n EXCEPT !.pendingDD = @ /\ key = "d"]
  IN  CASE key = "d" -> IF m.pendingDD /\ ~env.late THEN removeTargets([m EXCEPT !.pendingDD = FALSE])
                        ELSE Only([m EXCEPT !.pendingDD = TRUE])
        [] key = "q"          -> Only([m EXCEPT !.quitting = TRUE])
        [] key \in Up         -> syncDetail([m EXCEPT !.cursor = IF @ > 0 THEN @ - 1 ELSE @])
        [] key \in Down       -> syncDetail([m EXCEPT !.cursor = IF @ < rows(m) - 1 THEN @ + 1 ELSE @])
        [] key = "g"          -> syncDetail([m EXCEPT !.cursor = 0])
        [] key = "G"          -> syncDetail([m EXCEPT !.cursor = IF rows(m) > 0 THEN rows(m) - 1 ELSE @])
        [] key \in {"x", "D"} -> removeTargets(m)
        [] key = "X"          -> actOnTargets(m, [do |-> "purge"])
        [] key = "p"          -> actOnTargets(m, [do |-> "toggle"])
        [] key = "r"          -> actOnTargets(m, [do |-> "recheck"])
        [] key = "v"          -> previewFile(m)
        [] key = "o"          -> onCursor(m, "open")
        [] key = "f"          -> openFind(m)
        [] key = "enter"      -> Only([m EXCEPT !.focus = "detail"])
        [] key = "esc"        -> Only(back(m))
        [] key = "/"          -> Only([m EXCEPT !.mode = "search"])
        [] key = ":"          -> Only([m EXCEPT !.mode = "command", !.commandBuf = [name |-> "", args |-> <<>>]])
        [] key \in {"h", "?"} -> Only([m EXCEPT !.showHelp = TRUE])
        [] key = "space"      -> syncDetail(selectRow(m))
        [] OTHER              -> Only(m)

handleSidebarKey(m, key, env) ==
  CASE key \in Up   -> selectSidebar(m, currentSidebarIndex(m) - 1)
    [] key \in Down -> selectSidebar(m, currentSidebarIndex(m) + 1)
    [] key = "g"    -> selectSidebar(m, 0)
    [] key = "G"    -> selectSidebar(m, Len(sidebarEntries(m)) - 1)
    [] OTHER        -> handleListKey(m, key, env)

handleDetailKey(m, key, env) ==
  LET files == m.detailTab = "Files"
      n     == Len(m.detail.files)
  IN  CASE key \in Up   -> Only([m EXCEPT !.detailCursor = IF files /\ @ > 0 THEN @ - 1 ELSE @])
        [] key \in Down -> Only([m EXCEPT !.detailCursor = IF files /\ @ < n - 1 THEN @ + 1 ELSE @])
        [] key = "space" /\ files -> toggleFileWanted(m)
        [] key = "+"    -> adjustFilePriority(m, 1)
        [] key = "-"    -> adjustFilePriority(m, -1)
        [] OTHER        -> handleListKey(m, key, env)

\* Keys that work from any pane.
handlePaneKey(m, key, env) ==
  CASE key = "tab"       -> Only([m EXCEPT !.focus = Cycle(Foci, @, 1)])
    [] key = "shift+tab" -> Only([m EXCEPT !.focus = Cycle(Foci, @, 2)])
    [] key = "]"         -> setDetailTab(m, Cycle(Tabs, m.detailTab, 1))
    [] key = "["         -> setDetailTab(m, Cycle(Tabs, m.detailTab, 2))
    [] key = "}"         -> selectSidebar(m, currentSidebarIndex(m) + 1)
    [] key = "{"         -> selectSidebar(m, currentSidebarIndex(m) - 1)
    [] key = "m"         -> toggleMouse(m)
    [] key \in {"1", "2", "3"} -> setDetailTab(m, Tabs[CASE key = "1" -> 1 [] key = "2" -> 2 [] OTHER -> 3])
    [] OTHER             -> CASE m.focus = "sidebar" -> handleSidebarKey(m, key, env)
                              [] m.focus = "detail"  -> handleDetailKey(m, key, env)
                              [] OTHER               -> handleListKey(m, key, env)

handlePromptKey(m, key, env) ==
  CASE m.mode = "search"  -> handleSearchKey(m, key)
    [] m.mode = "command" -> handleCommandKey(m, key, env)
    [] m.mode = "find"    -> handleFindPromptKey(m, key)
    [] OTHER              -> handlePaneKey(m, key, env)

Overlay(m) == m.showHelp \/ m.themePicker \/ m.findState # "closed"

handleOverlayKey(m, key, env) ==
  IF m.showHelp THEN Only([m EXCEPT !.showHelp = FALSE])
  ELSE IF m.themePicker THEN handleThemeKey(m, key, env.disk) ELSE handleFindKey(m, key)

handleKey(m, key, env) ==
  IF key = "ctrl+c" THEN Only([m EXCEPT !.quitting = TRUE])
  ELSE IF Overlay(m) THEN handleOverlayKey(m, key, env) ELSE handlePromptKey(m, key, env)

(***************************************************************************)
(* The mouse. An event is a target with the row of it, and a wheel step or *)
(* 0 for a press of the left button.                                       *)
(***************************************************************************)
scrollTarget(m, ev) ==
  CASE ev.target = "sidebar" -> selectSidebar(m, currentSidebarIndex(m) + ev.wheel)
    [] ev.target = "list" /\ rows(m) > 0 -> syncDetail(clampCursor([m EXCEPT !.cursor = @ + ev.wheel]))
    [] OTHER -> Only(m)

clickTarget(m, ev) ==
  LET at == scrollWindow(m.cursor, rows(m), ListRows) + ev.row
      file == ev.row
  IN  CASE ev.target = "sidebar" /\ ev.row < Len(sidebarEntries(m)) -> selectSidebar([m EXCEPT !.focus = "sidebar"], ev.row)
        [] ev.target = "list" /\ at < rows(m) -> syncDetail([m EXCEPT !.focus = "list", !.cursor = at])
        [] ev.target = "tabs" /\ ev.row < Len(Tabs) -> setDetailTab([m EXCEPT !.focus = "detail"], Tabs[ev.row + 1])
        [] ev.target = "body" -> Only([m EXCEPT !.focus = "detail",
             !.detailCursor = IF m.detailTab = "Files" /\ file < Len(m.detail.files) THEN file ELSE @])
        [] OTHER -> Only(m)

handleMouse(m, ev) ==
  IF m.mouseOff \/ Overlay(m) THEN Only(m)
  ELSE IF ev.wheel # 0 THEN scrollTarget(m, ev) ELSE clickTarget(m, ev)
=============================================================================
