-------------------------------- MODULE Tui --------------------------------
(***************************************************************************)
(* The terminal interface at work: Update handles one message at a time,   *)
(* while the commands it returned run beside it, call the daemon and       *)
(* answer in any order, the daemon pushes its torrents and the user types. *)
(*                                                                         *)
(* A scene bounds what a behaviour is about: which keys, lines and mouse   *)
(* events the user may use and how many, what happens at the daemon and to *)
(* the theme file besides, and whether calls may fail.                     *)
(***************************************************************************)
EXTENDS TuiKeys, Bags

CONSTANTS Scenes, MaxText    \* bounds: the scenes, and the length of what is typed

\* A torrent of the daemon, with the priorities of its files, and what a
\* scene may have.
Torrents(id) == [state: States, paused: BOOLEAN, done: BOOLEAN, label: LabelNames \cup {NoLabel}, rank: Nat,
                 files: [DOMAIN FileLen[id] -> 0 .. 4]]
IsWorld(w)   == DOMAIN w \subseteq Ids /\ \A id \in DOMAIN w : w[id] \in Torrents(id)
IsLine(l)    == l.args # <<>> => /\ l.name = "add" => l.args[1] \subseteq Ids
                                 /\ l.name = "label" => l.args[1] \in LabelNames \cup {NoLabel}

ASSUME SceneAssumption ==
  \A s \in Scenes :
    /\ IsWorld(s.world) /\ s.offers \subseteq Seq(Ids \cup {NoID})
    /\ \A c \in s.changes : c.id \in Ids /\ (c.to = <<>> \/ c.to[1] \in Torrents(c.id))
    /\ \A l \in s.lines : IsLine(l)
    /\ \A ev \in s.mice : ev.row \in Nat /\ ev.wheel \in {-1, 0, 1}

VARIABLES
  m,       \* the Model
  cmds,    \* the commands running, a bag
  world,   \* the daemon's torrents
  chan,    \* the client's event channel, of capacity 1
  pushed,  \* what was pushed last, if anything
  up,      \* whether the connection stands
  disk,    \* the user's theme file
  scene,
  left     \* what is left of the scene's bounds

vars == <<m, cmds, world, chan, pushed, up, disk, scene, left>>

Orders(S) == {s \in [1 .. Cardinality(S) -> S] : \A i, j \in DOMAIN s : i # j => s[i] # s[j]}
One(x)    == SetToBag({x})
OneEach(S) == SetToBag(S)

(***************************************************************************)
(* Messages and Update.                                                    *)
(***************************************************************************)
Status(s) == [k |-> "status", s |-> s]

engineEventUnclamped(mm, list) ==
  LET a == revealJustAdded(dropVanishedLabelFilter([mm EXCEPT !.torrents = list]))
      d == syncDetail(a.m)
  IN  Result(d.m, {Listen} \cup a.c \cup d.c)

engineEventOnce(mm, list) ==
  LET a == revealJustAdded(dropVanishedLabelFilter([mm EXCEPT !.torrents = list]))
      d == syncDetail(clampCursor(a.m))
  IN  Result(d.m, (IF list = <<>> THEN {} ELSE {Listen}) \cup a.c \cup d.c)

engineEvent(mm, list) ==
  LET a == revealJustAdded(dropVanishedLabelFilter([mm EXCEPT !.torrents = list]))
      d == syncDetail(clampCursor(a.m))
  IN  Result(d.m, {Listen} \cup a.c \cup d.c)

detailLoadedAnyway(mm, g) ==
  Only([mm EXCEPT !.detail = g.detail, !.detailLoaded = TRUE, !.detailCursor = Clamped(@, Len(g.detail.files))])

detailLoaded(mm, g) ==
  IF ~g.ok THEN setStatus(mm, "err")
  ELSE IF g.detail.id # mm.detailID THEN Only(mm)
  ELSE Only([mm EXCEPT !.detail = g.detail, !.detailLoaded = TRUE,
                       !.detailCursor = Clamped(@, Len(g.detail.files))])

torrentsAdded(mm, ids) == setStatus([mm EXCEPT !.pendingReveal = ids], "ok")

Update(mm, g) ==
  CASE g.k = "event"  -> engineEvent(mm, g.list)
    [] g.k = "closed" -> Only([mm EXCEPT !.status = "lost", !.daemonDown = TRUE])
    [] g.k = "added"  -> torrentsAdded(mm, g.ids)
    [] g.k = "find"   -> Only(applyFindResults(mm, g))
    [] g.k = "detail" -> detailLoaded(mm, g)
    [] OTHER          -> setStatus(mm, g.s)

Take(r) == m' = r.m /\ cmds' = cmds (+) OneEach(r.c)

(***************************************************************************)
(* The user.                                                               *)
(***************************************************************************)
Typing(key) ==
  key \in Runes => /\ m.mode = "search" => m.searchQuery < MaxText
                   /\ m.mode = "find" /\ ~Overlay(m) => m.findQuery < MaxText

Press(key) ==
  /\ ~m.quitting /\ left.keys > 0 /\ key \in scene.keys /\ Typing(key)
  /\ \E line \in IF m.mode = "command" /\ key \in Runes THEN scene.lines ELSE {m.commandBuf} :
     \E late \in {FALSE, key = "d"} :
       Take(handleKey(m, key, [line |-> line, late |-> late, disk |-> disk]))
  /\ left' = [left EXCEPT !.keys = @ - 1]
  /\ UNCHANGED <<world, chan, pushed, up, disk, scene>>

Mouse(ev) ==
  /\ ~m.quitting /\ left.keys > 0 /\ ev \in scene.mice
  /\ Take(handleMouse(m, ev))
  /\ left' = [left EXCEPT !.keys = @ - 1]
  /\ UNCHANGED <<world, chan, pushed, up, disk, scene>>

(***************************************************************************)
(* Commands. Each is a call to the daemon, or several in a row; Update     *)
(* takes the message it ends with when the last call is served.            *)
(***************************************************************************)
Reply(c, g) == LET r == Update(m, g) IN m' = r.m /\ cmds' = (cmds (-) One(c)) (+) OneEach(r.c)
Becomes(c, d) == cmds' = (cmds (-) One(c)) (+) One(d) /\ UNCHANGED m

\* Whether a call about id succeeds: not without the torrent or the
\* connection.
MayGo(id, ok) == (ok => up /\ id \in DOMAIN world) /\ (~ok => scene.flaky \/ ~up \/ id \notin DOMAIN world)

\* The state a snapshot shows after a pause or a resume.
StateOf(t, paused) ==
  IF t.state \in {"error", "checking"} THEN t.state
  ELSE IF paused THEN "paused"
  ELSE IF t.state \in {"blocked", "low disk"} THEN t.state
  ELSE IF t.done THEN "seeding" ELSE "downloading"
Paused(t, paused) == [t EXCEPT !.paused = paused, !.state = StateOf(t, paused)]

\* What the daemon makes of one call of a batch.
Served(op, id, was) ==
  LET t == world[id]
  IN  CASE op.do = "remove" -> [j \in DOMAIN world \ {id} |-> world[j]]
        [] op.do = "purge"  -> [world EXCEPT ![id] = Paused([t EXCEPT !.done = FALSE], TRUE)]
        [] op.do = "toggle" -> [world EXCEPT ![id] = Paused(t, ~was)]
        [] op.do \in {"pause", "resume"} -> [world EXCEPT ![id] = Paused(t, op.do = "pause")]
        [] op.do = "label"  -> [world EXCEPT ![id].label = op.label]
        [] OTHER            -> world

RunBatch(c) ==
  /\ c.k = "batch"
  /\ \/ /\ c.ids # <<>>
        /\ \E ok \in BOOLEAN :
             /\ MayGo(c.ids[1][1], ok)
             /\ world' = IF ok THEN Served(c.op, c.ids[1][1], c.ids[1][2]) ELSE world
             /\ Becomes(c, [c EXCEPT !.ids = Tail(@), !.ok = @ /\ ok])
     \/ c.ids = <<>> /\ Reply(c, Status(IF c.ok THEN "ok" ELSE "err")) /\ UNCHANGED world

NewTorrent(id) == [state |-> "downloading", paused |-> FALSE, done |-> FALSE, label |-> NoLabel, rank |-> 0,
                   files |-> [i \in DOMAIN FileLen[id] |-> 2]]

\* The daemon adds the torrents of a batch one by one and answers once; one
\* that fails makes the answer an error, and leaves the others added.
RunAdd(c) ==
  /\ c.k = "add"
  /\ \/ /\ c.links # {} /\ up
        /\ \E id \in c.links :
             /\ world' = IF id \in DOMAIN world THEN world
                         ELSE [j \in DOMAIN world \cup {id} |-> IF j = id THEN NewTorrent(id) ELSE world[j]]
             /\ Becomes(c, [c EXCEPT !.links = @ \ {id}, !.ids = @ \cup {id}])
     \/ c.links = {} /\ Reply(c, [k |-> "added", ids |-> c.ids]) /\ UNCHANGED world
     \/ (~up \/ scene.flaky) /\ Reply(c, Status("err")) /\ UNCHANGED world

RunDetail(c) ==
  /\ c.k = "detail" /\ UNCHANGED world
  /\ \E ok \in BOOLEAN :
       /\ MayGo(c.id, ok)
       /\ Reply(c, [k |-> "detail", ok |-> ok, detail |->
            IF ~ok THEN NoDetail
            ELSE [id |-> c.id, files |-> [i \in DOMAIN world[c.id].files |->
                                           [of |-> c.id, i |-> i, prio |-> world[c.id].files[i]]]]])

RunFind(c) ==
  /\ c.k = "find" /\ UNCHANGED world
  /\ \E rs \in (IF up THEN scene.offers ELSE {}) \cup (IF up /\ ~scene.flaky THEN {} ELSE {<<>>}) :
       Reply(c, [k |-> "find", seq |-> c.seq, q |-> c.q, results |-> rs])

\* Sets the priority, then reads the detail back.
RunPriority(c) ==
  /\ c.k = "prio"
  /\ LET known == up /\ c.id \in DOMAIN world /\ c.i \in DOMAIN world[c.id].files
     IN  \/ known /\ world' = [world EXCEPT ![c.id].files[c.i] = c.p] /\ Becomes(c, LoadDetail(c.id))
         \/ (~known \/ scene.flaky) /\ UNCHANGED world /\ Reply(c, Status("err"))

\* Previewing, opening a folder, a limit, a move, or an error to show.
RunOther(c) ==
  /\ c.k \in {"preview", "other"} /\ UNCHANGED world
  /\ \E s \in {"ok", "err"} :
       /\ c.k = "other" /\ c.what = "complain" => s = "err"
       /\ c.k = "preview" => MayGo(c.id, s = "ok")
       /\ Reply(c, Status(s))

\* A receive from the channel, which gives what it still holds before it
\* tells that it is closed.
RunListen(c) ==
  /\ ~m.quitting /\ c.k = "listen" /\ (chan # <<>> \/ ~up) /\ chan' = <<>>
  /\ Reply(c, IF chan # <<>> THEN [k |-> "event", list |-> chan[1]] ELSE [k |-> "closed"])
  /\ UNCHANGED <<world, pushed, up, disk, scene, left>>

Run(c) ==
  /\ ~m.quitting
  /\ \/ RunBatch(c) \/ RunAdd(c) \/ RunDetail(c) \/ RunFind(c) \/ RunPriority(c) \/ RunOther(c)
  /\ UNCHANGED <<chan, pushed, up, disk, scene, left>>

\* The timers: a tick and the message it sends.
Expire(c) ==
  /\ ~m.quitting /\ c.k = "timer"
  /\ m' = clearStatus(m, c.seq) /\ cmds' = cmds (-) One(c)
  /\ UNCHANGED <<world, chan, pushed, up, disk, scene, left>>

ThemeTick ==
  /\ ~m.quitting /\ BagIn(ThemeWatch, cmds)
  /\ LET r == checkThemeFile(m, disk)
     IN  m' = r.m /\ cmds' = (cmds (-) One(ThemeWatch)) (+) OneEach(r.c)
  /\ UNCHANGED <<world, chan, pushed, up, disk, scene, left>>

(***************************************************************************)
(* The daemon and the disk.                                                *)
(***************************************************************************)
SnapshotOf(id) ==
  [id |-> id, state |-> world[id].state, paused |-> world[id].paused, done |-> world[id].done,
   label |-> world[id].label, rank |-> world[id].rank]

\* The daemon goes through a map: the order is any. The client replaces an
\* event nobody has received yet.
Push ==
  /\ up /\ (pushed # <<world>> \/ left.ticks > 0)
  /\ \E o \in Orders(DOMAIN world) : chan' = <<[i \in DOMAIN o |-> SnapshotOf(o[i])]>>
  /\ pushed' = <<world>> /\ left' = [left EXCEPT !.ticks = IF pushed = <<world>> THEN @ - 1 ELSE @]
  /\ UNCHANGED <<m, cmds, world, up, disk, scene>>

\* A torrent makes progress, or another client changes, adds or removes it.
Elsewhere(c) ==
  /\ up /\ left.changes > 0 /\ c \in scene.changes
  /\ world' = IF c.to = <<>> THEN [j \in DOMAIN world \ {c.id} |-> world[j]]
              ELSE [j \in DOMAIN world \cup {c.id} |-> IF j # c.id THEN world[j] ELSE c.to[1]]
  /\ world' # world
  /\ left' = [left EXCEPT !.changes = @ - 1]
  /\ UNCHANGED <<m, cmds, chan, pushed, up, disk, scene>>

Disconnect ==
  /\ up /\ scene.drops /\ up' = FALSE
  /\ UNCHANGED <<m, cmds, world, chan, pushed, disk, scene, left>>

EditTheme ==
  /\ left.edits > 0 /\ left' = [left EXCEPT !.edits = @ - 1]
  /\ \E s \in {"good", "bad", "gone"} : disk' = [v |-> disk.v + 1, state |-> s]
  /\ UNCHANGED <<m, cmds, world, chan, pushed, up, scene>>

(***************************************************************************)
(* The specification.                                                      *)
(***************************************************************************)
Init ==
  /\ scene \in Scenes
  /\ m = New(scene.finder)
  /\ cmds = OneEach({Listen, ThemeWatch})
  /\ world = scene.world /\ chan = <<>> /\ pushed = <<>> /\ up = TRUE
  /\ disk = [v |-> 1, state |-> "good"]
  /\ left = scene.left

Next ==
  \/ \E key \in scene.keys : Press(key)
  \/ \E ev \in scene.mice : Mouse(ev)
  \/ \E c \in BagToSet(cmds) : Run(c) \/ RunListen(c) \/ Expire(c)
  \/ ThemeTick \/ Push \/ (\E c \in scene.changes : Elsewhere(c)) \/ Disconnect \/ EditTheme

Spec == Init /\ [][Next]_vars

\* The runtime runs every command and the daemon pushes what has changed:
\* none of these steps stays possible for ever. (Each makes its own
\* condition false, so this is weak fairness of the four steps.)
ListenReady == ~m.quitting /\ BagIn(Listen, cmds) /\ (chan # <<>> \/ ~up)
TimerReady  == ~m.quitting /\ \E c \in BagToSet(cmds) : c.k = "timer"
ThemeReady  == ~m.quitting /\ BagIn(ThemeWatch, cmds) /\ ~m.themePicker
               /\ stampOf(m.theme.name, disk) \notin {0, m.themeStamp}
PushReady   == up /\ pushed # <<world>>
Fairness    == []<>~ListenReady /\ []<>~TimerReady /\ []<>~ThemeReady /\ []<>~PushReady
FairSpec == Spec /\ Fairness

(***************************************************************************)
(* Properties.                                                             *)
(***************************************************************************)
Listed == {m.torrents[i] : i \in DOMAIN m.torrents}

\* Whatever keys, mouse events, pushes and answers arrive in whatever order,
\* the list has snapshots of different torrents, the cursor is on a row of it,
\* or at 0 when it has none, and that row is among the rows drawn
\* (clampCursor, update.go; scrollWindow, list.go).
CursorInSight ==
  LET start == scrollWindow(m.cursor, rows(m), ListRows)
  IN  /\ Listed \subseteq Snapshots /\ Cardinality({t.id : t \in Listed}) = Len(m.torrents)
      /\ m.cursor \in 0 .. rows(m) - 1 \/ (m.cursor = 0 /\ rows(m) = 0)
      /\ rows(m) > 0 => m.cursor \in start .. start + ListRows - 1 /\ (start > 0 => start + ListRows <= rows(m))

\* What the detail pane shows as loaded, its files included, belongs to the
\* torrent it was asked for, however late the replies come, and a preview
\* plays a file of the torrent it names (detailLoadedMsg, syncDetail,
\* previewFile).
DetailBelongs ==
  /\ m.detailLoaded => /\ m.detail.id = m.detailID
                       /\ \A i \in DOMAIN m.detail.files : m.detail.files[i].of = m.detailID
  /\ \A c \in BagToSet(cmds) : c.k = "preview" => c.file.of = c.id

\* The overlay never shows the results of another search than the one it
\* names, and a reply that comes after it was closed does not bring it back
\* (applyFindResults, closeFind, find.go).
FindAnswersQuery ==
  [][m'.findState = "loaded" => m'.findFor = m'.findQuery /\ m.findState # "closed"]_vars

\* Marks belong to the view they were made in: while the list stays the
\* same, no key and no click hides a marked row (selectSidebar and
\* handleSearchKey, update.go).
HiddenMarks(mm) == {i \in DOMAIN mm.torrents \ shown(mm) : mm.torrents[i].id \in mm.selected}
MarksStayInSight == [][m'.torrents = m.torrents => HiddenMarks(m') \subseteq HiddenMarks(m)]_vars

\* A push that carries a torrent just added leaves it in sight, whatever
\* filters and search were on (revealJustAdded, label.go).
Received == chan # <<>> /\ chan' = <<>>
AddedInSight ==
  [][Received => \A i \in DOMAIN m'.torrents :
       m'.torrents[i].id \in m.pendingReveal \ m'.pendingReveal => i \in shown(m')]_vars

\* A departure, refuted by adding two torrents at once while the daemon pushes
\* between the two: "Ids not in the snapshot yet are left pending for the next
\* one" (label.go).
LeftPending ==
  [][Received => m.pendingReveal \ m'.pendingReveal \subseteq {t.id : t \in Listed'}]_vars

\* The list catches up with the daemon, or the bar says that it is gone
\* (listenForEvents, model.go).
CatchesUp ==
  []<>(m.quitting \/ IF up THEN Listed = {SnapshotOf(id) : id \in DOMAIN world} ELSE m.daemonDown)

\* A change of the theme's file is noticed once the picker is closed, and
\* shown if the picker was never opened and the file is good
\* (checkThemeFile, themewatch.go).
Unwatched == m.quitting \/ m.theme.name = "base" \/ disk.state = "gone"
ThemeFollows ==
  /\ []<>(Unwatched \/ m.themePicker \/ m.themeStamp = disk.v)
  /\ [](~m.themePicker) => []<>(Unwatched \/ disk.state = "bad" \/ m.theme.v = disk.v)
=============================================================================
