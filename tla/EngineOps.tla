------------------------------ MODULE EngineOps ------------------------------
(***************************************************************************)
(* internal/engine/ops.go (with label.go, seedlimit.go, selectfiles.go):   *)
(* the operations a client calls, and the goroutines they start.  A call   *)
(* whose lookup finds nothing returns ErrNotFound and changes nothing, so  *)
(* the first step of an operation has the lookup as its guard.             *)
(*                                                                         *)
(* Every operation ends with snapshotAndBroadcastNow, which changes only   *)
(* the subscribers' channels: no property here reads those.                *)
(***************************************************************************)
EXTENDS EngineSession

CONSTANTS
  Ops,       \* the operations clients call, and what else may happen
  AddOpts,   \* what they add with: a directory, a magnet or a .torrent,
             \* paused or not, a file selection or none
  SetPrios   \* the priorities they set

ASSUME CallsAssumption ==
  /\ SetPrios \subseteq Prios
  /\ AddOpts \subseteq [dir: Dirs, magnet: BOOLEAN, paused: BOOLEAN,
                        pick: BOOLEAN, sel: SUBSET Files]

Up == At(Main, "up")

(* A client calls op: lookup under e.mu, then the operation's first label. *)
Call(c, op, l, locals) ==
  /\ At(c, "idle") /\ Up
  /\ op \in Ops
  /\ budget.ops > 0
  /\ budget' = [budget EXCEPT !.ops = @ - 1]
  /\ SetLoc(c, locals)
  /\ Goto(c, l)
  /\ UNCHANGED <<engineVars, libVars, guardVars, diskVars, saveVars, mainVars,
                 tk, hooks>>

(* Variant for sensitivity: the lookup's result is not kept.               *)
FoundNothing(id) == [Loc0 EXCEPT !.id = id]

Found(id) == [Loc0 EXCEPT !.id = id, !.o = torrents[id]]

(* Return from an operation: a structural one unlocks opMu on the way out. *)
EndOp(p) ==
  /\ At(p, "end")
  /\ opMu' = IF loc[p].op # "" THEN [opMu EXCEPT ![loc[p].o] = NoThread] ELSE opMu
  /\ Return(p)
  /\ UNCHANGED <<torrents, tr, nobj, checkWG, canceled, libVars, guardVars,
                 diskVars, saveVars, mainVars, tk, hooks, budget>>

-----------------------------------------------------------------------------
(* AddMagnet, AddTorrentFile and addSpec.                                  *)

(* flag is opts.Paused, dir opts.SavePath, pick whether opts.Files is      *)
(* given, sel the files it matches.                                        *)
CallAdd(c) ==
  \E i \in Ids, opts \in AddOpts :
    Call(c, "add", "add.spec",
         [Loc0 EXCEPT !.id = i, !.dir = opts.dir, !.magnet = opts.magnet,
                      !.flag = opts.paused, !.pick = opts.pick, !.sel = opts.sel])

(* The library is given the torrent before e.torrents is looked at.  A     *)
(* .torrent carries its metadata, a magnet does not.                       *)
AddSpec(p) ==
  /\ At(p, "add.spec")
  /\ AddTorrentSpec(loc[p].id, loc[p].dir, ~loc[p].magnet)
  /\ SetLoc(p, [loc[p] EXCEPT !.t = AddedInst(loc[p].id)])
  /\ Goto(p, "add.track")
  /\ UNCHANGED <<engineVars, guardVars, diskVars, saveVars, mainVars, tk,
                 hooks, budget>>

(* Under e.mu: a torrent already tracked is only ever tightened to paused, *)
(* a new one is tracked; the flow is decided for whichever is there.       *)
AddTrack(p) ==
  /\ At(p, "add.track")
  /\ LET i == loc[p].id
         o == IF torrents[i] # NoObj THEN torrents[i] ELSE nobj + 1
         x == IF torrents[i] # NoObj
              THEN [tr[o] EXCEPT !.paused = @ \/ loc[p].flag]
              ELSE NewTracked(loc[p].t, loc[p].dir, loc[p].magnet, loc[p].flag)
     IN /\ o \in Objs
        /\ torrents' = [torrents EXCEPT ![i] = o]
        /\ SetTr(o, x)
        /\ nobj' = IF torrents[i] # NoObj THEN nobj ELSE nobj + 1
        /\ SetLoc(p, Decide(loc[p], x, "add.spawn"))
  /\ Goto(p, "flow.down")
  /\ UNCHANGED <<opMu, checkWG, canceled, libVars, guardVars, diskVars,
                 saveVars, mainVars, tk, hooks, budget>>

(* The metadata goroutine is started, and the add is saved.                *)
AddSpawn(p) ==
  /\ At(p, "add.spawn")
  /\ \E w \in Waiters : At(w, "off")
  /\ LET w == CHOOSE x \in Waiters : At(x, "off") IN
       /\ SetLoc(w, [loc[p] EXCEPT !.ret = "off"])
       /\ IF StateDir
          THEN /\ pc' = [pc EXCEPT ![p] = "save.check", ![w] = "wait.info"]
               /\ SetSave(p, [save[p] EXCEPT !.k = "end"])
          ELSE /\ pc' = [pc EXCEPT ![p] = "end", ![w] = "wait.info"]
               /\ UNCHANGED save
  /\ UNCHANGED <<engineVars, libVars, guardVars, diskVars, saveMu, mainVars,
                 tk, hooks, budget>>

(* The goroutine: GotInfo, or the engine closing.  A selection is applied, *)
(* a torrent that was not added paused gets its files marked wanted.       *)
WaitInfo(w) ==
  /\ At(w, "wait.info")
  /\ \/ /\ lib[loc[w].t].info
        /\ IF loc[w].pick \/ loc[w].flag
           THEN /\ Goto(w, IF loc[w].pick THEN "wait.select" ELSE "wait.save")
                /\ UNCHANGED loc
           ELSE /\ Goto(w, "wait.mark")                  \* chosenFilesOf
                /\ LET o == torrents[loc[w].id] IN
                     SetLoc(w, [loc[w] EXCEPT
                                  !.chosen = IF o = NoObj THEN {} ELSE tr[o].chosenFiles])
     \/ /\ closing
        /\ Goto(w, "off")
        /\ SetLoc(w, Loc0)
  /\ UNCHANGED <<engineVars, libVars, guardVars, diskVars, saveVars, mainVars,
                 tk, hooks, budget>>

(* downloadUnchosenFiles on the instance the add returned.  (The loop is   *)
(* one step: its calls touch one file each.)                               *)
MarkWanted(t, chosen) ==
  SetPrio(t, [f \in Files |-> IF f \in chosen THEN lib[t].prio[f] ELSE "Normal"])

WaitMark(w) ==
  /\ At(w, "wait.mark")
  /\ MarkWanted(loc[w].t, loc[w].chosen)
  /\ Goto(w, "wait.save")
  /\ UNCHANGED <<engineVars, ninst, client, guardVars, diskVars, saveVars,
                 mainVars, loc, tk, hooks, budget>>

(* applyFileSelection: the priorities, then the chosen set under e.mu.     *)
WaitSelect(w) ==
  /\ At(w, "wait.select")
  /\ SetPrio(loc[w].t, [f \in Files |-> IF f \in loc[w].sel THEN "Normal" ELSE "None"])
  /\ Goto(w, "wait.chosen")
  /\ UNCHANGED <<engineVars, ninst, client, guardVars, diskVars, saveVars,
                 mainVars, loc, tk, hooks, budget>>

WaitChosen(w) ==
  /\ At(w, "wait.chosen")
  /\ LET o == torrents[loc[w].id] IN
       IF o = NoObj THEN UNCHANGED tr ELSE SetTr(o, [tr[o] EXCEPT !.chosenFiles = Files])
  /\ Goto(w, "wait.save")
  /\ UNCHANGED <<torrents, nobj, opMu, checkWG, canceled, libVars, guardVars,
                 diskVars, saveVars, mainVars, loc, tk, hooks, budget>>

(* Saved again: now there is a metainfo.                                   *)
WaitSave(w) ==
  /\ At(w, "wait.save")
  /\ Persist(w, "off")
  /\ SetLoc(w, Loc0)
  /\ UNCHANGED <<engineVars, libVars, guardVars, diskVars, saveMu, mainVars,
                 tk, hooks, budget>>

WaiterStep(w) ==
  WaitInfo(w) \/ WaitMark(w) \/ WaitSelect(w) \/ WaitChosen(w) \/ WaitSave(w)

AddStep(p) == AddSpec(p) \/ AddTrack(p) \/ AddSpawn(p)

-----------------------------------------------------------------------------
(* SetPaused, also called by the tick at a seeding limit.                  *)

CallSetPaused(c) ==
  \E i \in Ids, paused \in BOOLEAN :
    /\ torrents[i] # NoObj
    /\ Call(c, "pause", "pause.set", [Found(i) EXCEPT !.flag = paused])

(* cancelCheckLocked(x), for a tracked struct x.                           *)
Cancel(x) == [k \in Checkers |-> canceled[k] \/ x.cancelCheck = k]

SetPaused(p) ==
  /\ At(p, "pause.set")
  /\ LET o == loc[p].o
         x == [tr[o] EXCEPT !.paused = loc[p].flag]
     IN /\ SetTr(o, x)
        /\ canceled' = IF loc[p].flag THEN Cancel(x) ELSE canceled
        /\ SetLoc(p, Decide(loc[p], x,
                            IF loc[p].flag THEN "pause.save" ELSE "pause.chosen"))
  /\ Goto(p, "flow.down")
  /\ UNCHANGED <<torrents, nobj, opMu, checkWG, libVars, guardVars, diskVars,
                 saveVars, mainVars, tk, hooks, budget>>

(* Resuming: chosenFilesOf(id), then downloadUnchosenFiles(tr.t, ...).     *)
SetPausedChosen(p) ==
  /\ At(p, "pause.chosen")
  /\ LET o == torrents[loc[p].id] IN
       SetLoc(p, [loc[p] EXCEPT !.chosen = IF o = NoObj THEN {} ELSE tr[o].chosenFiles])
  /\ Goto(p, "pause.mark")
  /\ UNCHANGED <<engineVars, libVars, guardVars, diskVars, saveVars, mainVars,
                 tk, hooks, budget>>

SetPausedMark(p) ==
  /\ At(p, "pause.mark")
  /\ LET t == tr[loc[p].o].t IN
       IF lib[t].info THEN MarkWanted(t, loc[p].chosen) ELSE UNCHANGED lib
  /\ Goto(p, "pause.save")
  /\ UNCHANGED <<engineVars, ninst, client, guardVars, diskVars, saveVars,
                 mainVars, loc, tk, hooks, budget>>

SetPausedSave(p) ==
  /\ At(p, "pause.save")
  /\ Persist(p, "end")
  /\ UNCHANGED <<engineVars, libVars, guardVars, diskVars, saveMu, mainVars,
                 loc, tk, hooks, budget>>

PauseStep(p) ==
  SetPaused(p) \/ SetPausedChosen(p) \/ SetPausedMark(p) \/ SetPausedSave(p)

-----------------------------------------------------------------------------
(* SetFilePriority, also called by a restore.                              *)

CallSetFilePriority(c) ==
  \E i \in Ids, f \in Files, q \in SetPrios :
    /\ torrents[i] # NoObj
    /\ Call(c, "prio", "prio.set", [Found(i) EXCEPT !.file = f, !.prio = q])

SetFilePriority(p) ==
  /\ At(p, "prio.set")
  /\ LET t == tr[loc[p].o].t IN
       IF lib[t].info
       THEN /\ SetPrio(t, [lib[t].prio EXCEPT ![loc[p].file] = toLibPriority(loc[p].prio)])
            /\ Goto(p, "prio.chosen")
       ELSE /\ Goto(p, "end")
            /\ UNCHANGED lib
  /\ UNCHANGED <<engineVars, ninst, client, guardVars, diskVars, saveVars,
                 mainVars, loc, tk, hooks, budget>>

SetFilePriorityChosen(p) ==
  /\ At(p, "prio.chosen")
  /\ SetTr(loc[p].o, [tr[loc[p].o] EXCEPT !.chosenFiles = @ \cup {loc[p].file}])
  /\ Persist(p, "end")
  /\ UNCHANGED <<torrents, nobj, opMu, checkWG, canceled, libVars, guardVars,
                 diskVars, saveMu, mainVars, loc, tk, hooks, budget>>

-----------------------------------------------------------------------------
(* SetTorrentRateLimit, SetSeedLimit, SetLabel: one field under e.mu, then *)
(* a save.  A negative rate leaves that direction as it is.                *)

CallSetter(c) ==
  \E i \in Ids, op \in {"rate", "seed", "label"} :
    /\ torrents[i] # NoObj
    /\ Call(c, op, op, Found(i))

SetTorrentRateLimit(p) ==
  /\ At(p, "rate")
  /\ \E up, down \in {-1, 0, 1} :
       SetTr(loc[p].o, [tr[loc[p].o] EXCEPT !.upLimit = IF up >= 0 THEN up ELSE @,
                                            !.downLimit = IF down >= 0 THEN down ELSE @])
  /\ Persist(p, "end")
  /\ UNCHANGED <<torrents, nobj, opMu, checkWG, canceled, libVars, guardVars,
                 diskVars, saveMu, mainVars, loc, tk, hooks, budget>>

SetSeedLimit(p) ==
  /\ At(p, "seed")
  /\ \E v \in {-1, 0, 1} : SetTr(loc[p].o, [tr[loc[p].o] EXCEPT !.seedLimit = v])
  /\ Persist(p, "end")
  /\ UNCHANGED <<torrents, nobj, opMu, checkWG, canceled, libVars, guardVars,
                 diskVars, saveMu, mainVars, loc, tk, hooks, budget>>

SetLabel(p) ==
  /\ At(p, "label")
  /\ \E v \in Labels : SetTr(loc[p].o, [tr[loc[p].o] EXCEPT !.label = v])
  /\ Persist(p, "end")
  /\ UNCHANGED <<torrents, nobj, opMu, checkWG, canceled, libVars, guardVars,
                 diskVars, saveMu, mainVars, loc, tk, hooks, budget>>

FieldStep(p) ==
  \/ SetFilePriority(p) \/ SetFilePriorityChosen(p)
  \/ SetTorrentRateLimit(p) \/ SetSeedLimit(p) \/ SetLabel(p)

-----------------------------------------------------------------------------
(* PrepareStream: resume the torrent if it is paused, then raise the file  *)
(* if it is below high.  t is the instance whose file was looked up; both  *)
(* calls look the torrent up again by id, and may not find it.             *)

CallPrepareStream(c) ==
  \E i \in Ids, f \in Files :
    /\ torrents[i] # NoObj
    /\ lib[tr[torrents[i]].t].info
    /\ Call(c, "stream", "stream.paused",
            [Found(i) EXCEPT !.file = f, !.t = tr[torrents[i]].t])

PrepareStreamPaused(p) ==
  /\ At(p, "stream.paused")
  /\ Goto(p, IF tr[loc[p].o].paused THEN "stream.resume" ELSE "stream.prio")
  /\ UNCHANGED <<engineVars, libVars, guardVars, diskVars, saveVars, mainVars,
                 loc, tk, hooks, budget>>

PrepareStreamResume(p) ==
  /\ At(p, "stream.resume")
  /\ IF torrents[loc[p].id] = NoObj
     THEN /\ Goto(p, "end")
          /\ UNCHANGED loc
     ELSE /\ Goto(p, "pause.set")
          /\ SetLoc(p, [loc[p] EXCEPT !.o = torrents[loc[p].id], !.flag = FALSE,
                                      !.ret = "stream.prio"])
  /\ UNCHANGED <<engineVars, libVars, guardVars, diskVars, saveVars, mainVars,
                 tk, hooks, budget>>

PrepareStreamPrio(p) ==
  /\ At(p, "stream.prio")
  /\ LET o == torrents[loc[p].id] IN
       IF /\ o # NoObj
          /\ fromLibPriority(lib[loc[p].t].prio[loc[p].file]) \in {"none", "low", "normal"}
       THEN /\ Goto(p, "prio.set")
            /\ SetLoc(p, [loc[p] EXCEPT !.o = o, !.prio = "high", !.ret = "idle"])
       ELSE /\ Goto(p, "end")
            /\ SetLoc(p, [loc[p] EXCEPT !.ret = "idle"])
  /\ UNCHANGED <<engineVars, libVars, guardVars, diskVars, saveVars, mainVars,
                 tk, hooks, budget>>

StreamStep(p) ==
  PrepareStreamPaused(p) \/ PrepareStreamResume(p) \/ PrepareStreamPrio(p)
=============================================================================
