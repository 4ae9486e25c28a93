--------------------------- MODULE EngineSession ---------------------------
(***************************************************************************)
(* internal/engine/session.go: persist and SaveSession, run by every       *)
(* thread that has changed something, and RestoreSession, run by the       *)
(* daemon's main goroutine before any client is served.                    *)
(***************************************************************************)
EXTENDS EngineState

(* recordLocked: a torrent's record, file priorities only once there is    *)
(* metadata, and only those that are not normal.                           *)
RecordOf(o) ==
  LET x == tr[o] IN
  [saved |-> TRUE, magnet |-> x.magnet, savePath |-> x.savePath, paused |-> x.paused,
   downLimit |-> x.downLimit, upLimit |-> x.upLimit,
   downloaded |-> x.base + lib[x.t].bytes, seedLimit |-> x.seedLimit,
   completedAt |-> x.completedAt, label |-> x.label,
   prio |-> [f \in Files |-> IF lib[x.t].info
                             THEN fromLibPriority(lib[x.t].prio[f])
                             ELSE "normal"]]

Records == [i \in Ids |-> IF torrents[i] = NoObj THEN NoRec ELSE RecordOf(torrents[i])]

(* persist() as the tail of an operation: continue at k.  Without a state  *)
(* directory SaveSession returns at once.                                  *)
Persist(p, k) ==
  IF StateDir
  THEN /\ Goto(p, "save.check")
       /\ SetSave(p, [save[p] EXCEPT !.k = k])
  ELSE /\ Goto(p, k)
       /\ UNCHANGED save

(* Variant for sensitivity: saves are not suppressed during a restore.     *)
PersistAlways(p) ==
  /\ At(p, "save.check")
  /\ Goto(p, "save.gather")
  /\ UNCHANGED <<engineVars, libVars, guardVars, diskVars, saveVars, mainVars,
                 loc, tk, hooks, budget>>

(* persist: suppressed while a restore is in progress.                     *)
PersistCheck(p) ==
  /\ At(p, "save.check")
  /\ IF restoring
     THEN /\ Goto(p, save[p].k)
          /\ SetSave(p, Save0)
     ELSE /\ Goto(p, "save.gather")
          /\ UNCHANGED save
  /\ UNCHANGED <<engineVars, libVars, guardVars, diskVars, saveMu, mainVars,
                 loc, tk, hooks, budget>>

(* Variant for sensitivity: saveMu is not waited for.                      *)
SaveGatherUnlocked(p) ==
  /\ At(p, "save.gather")
  /\ saveMu' = p
  /\ SetSave(p, [save[p] EXCEPT !.draft = Records])
  /\ Goto(p, "save.meta")
  /\ UNCHANGED <<engineVars, libVars, guardVars, diskVars, mainVars, loc,
                 tk, hooks, budget>>

(* SaveSession: take saveMu, then the records under e.mu.                  *)
SaveGather(p) ==
  /\ At(p, "save.gather")
  /\ saveMu = NoThread
  /\ saveMu' = p
  /\ SetSave(p, [save[p] EXCEPT !.draft = Records])
  /\ Goto(p, "save.meta")
  /\ UNCHANGED <<engineVars, libVars, guardVars, diskVars, mainVars, loc,
                 tk, hooks, budget>>

(* Variant for sensitivity: only magnets get a metainfo file.              *)
SaveMetaMagnets(p) ==
  /\ At(p, "save.meta")
  /\ SetSave(p, [save[p] EXCEPT
                  !.todo = {i \in Ids : /\ torrents[i] # NoObj
                                        /\ tr[torrents[i]].magnet
                                        /\ lib[tr[torrents[i]].t].info}])
  /\ Goto(p, "save.write")
  /\ UNCHANGED <<engineVars, libVars, guardVars, diskVars, saveMu, mainVars,
                 loc, tk, hooks, budget>>

(* saveMetainfo, first half: which torrents have metadata, under e.mu.     *)
SaveMetaCollect(p) ==
  /\ At(p, "save.meta")
  /\ SetSave(p, [save[p] EXCEPT
                  !.todo = {i \in Ids : torrents[i] # NoObj /\ lib[tr[torrents[i]].t].info}])
  /\ Goto(p, "save.write")
  /\ UNCHANGED <<engineVars, libVars, guardVars, diskVars, saveMu, mainVars,
                 loc, tk, hooks, budget>>

(* saveMetainfo, second half: each one that has no file yet gets one; a    *)
(* file that cannot be written is logged and skipped.                      *)
SaveMetaWrite(p) ==
  /\ At(p, "save.write")
  /\ \E i \in save[p].todo :
       /\ SetSave(p, [save[p] EXCEPT !.todo = @ \ {i}])
       /\ \/ /\ metainfo' = metainfo \cup {i}
             /\ UNCHANGED budget
          \/ /\ i \notin metainfo
             /\ budget.faults > 0
             /\ budget' = [budget EXCEPT !.faults = @ - 1]
             /\ UNCHANGED metainfo
  /\ UNCHANGED <<engineVars, libVars, guardVars, session, data, saveMu,
                 mainVars, pc, loc, tk, hooks>>

(* writeFileAtomic onto session.json, and saveMu is released; a failed     *)
(* write is logged and leaves the old file.                                *)
SaveWrite(p) ==
  /\ At(p, "save.write")
  /\ save[p].todo = {}
  /\ \/ /\ session' = save[p].draft
        /\ UNCHANGED budget
     \/ /\ budget.faults > 0
        /\ budget' = [budget EXCEPT !.faults = @ - 1]
        /\ UNCHANGED session
  /\ saveMu' = NoThread
  /\ SetSave(p, Save0)
  /\ Goto(p, save[p].k)
  /\ UNCHANGED <<engineVars, libVars, guardVars, metainfo, data, mainVars,
                 loc, tk, hooks>>

(* The state directory cannot be created: logged, and nothing is written.  *)
SaveDirFails(p) ==
  /\ At(p, "save.meta")
  /\ budget.faults > 0
  /\ budget' = [budget EXCEPT !.faults = @ - 1]
  /\ saveMu' = NoThread
  /\ SetSave(p, Save0)
  /\ Goto(p, save[p].k)
  /\ UNCHANGED <<engineVars, libVars, guardVars, diskVars, mainVars, loc, tk,
                 hooks>>

PersistStep(p) ==
  \/ PersistCheck(p) \/ SaveGather(p) \/ SaveMetaCollect(p)
  \/ SaveMetaWrite(p) \/ SaveWrite(p) \/ SaveDirFails(p)

-----------------------------------------------------------------------------
(* RestoreSession, on the main goroutine.                                  *)

(* A session file that cannot be read or parsed is reported, and the       *)
(* daemon comes up without it.                                             *)
RestoreRead ==
  /\ At(Main, "restore.read")
  /\ \/ /\ StateDir
        /\ restoring' = TRUE
        /\ rs' = session
        /\ Goto(Main, "restore.next")
        /\ UNCHANGED budget
     \/ /\ ~StateDir
        /\ Goto(Main, "up")
        /\ UNCHANGED <<restoring, rs, budget>>
     \/ /\ StateDir /\ budget.faults > 0
        /\ budget' = [budget EXCEPT !.faults = @ - 1]
        /\ Goto(Main, "up")
        /\ UNCHANGED <<restoring, rs>>
  /\ UNCHANGED <<engineVars, libVars, guardVars, diskVars, saveVars, closing,
                 loc, tk, hooks>>

(* restoreOne: from the saved metainfo if there is one, else from the      *)
(* magnet; the add itself is addSpec.  A record with neither, or an add    *)
(* that fails, is logged and skipped.                                      *)
RestoreNext ==
  /\ At(Main, "restore.next")
  /\ \E i \in Ids :
       /\ rs[i] # NoRec
       /\ \/ /\ i \in metainfo \/ rs[i].magnet
             /\ SetLoc(Main, [Loc0 EXCEPT !.id = i, !.dir = rs[i].savePath,
                                       !.flag = rs[i].paused,
                                       !.magnet = i \notin metainfo,
                                       !.ret = "restore.limits"])
             /\ Goto(Main, "add.spec")
             /\ UNCHANGED <<rs, budget>>
          \/ /\ i \notin metainfo /\ ~rs[i].magnet
             /\ rs' = [rs EXCEPT ![i] = NoRec]
             /\ UNCHANGED <<pc, loc, budget>>
          \/ /\ budget.faults > 0
             /\ budget' = [budget EXCEPT !.faults = @ - 1]
             /\ rs' = [rs EXCEPT ![i] = NoRec]
             /\ UNCHANGED <<pc, loc>>
  /\ UNCHANGED <<engineVars, libVars, guardVars, diskVars, saveVars,
                 restoring, closing, tk, hooks>>

(* SetTorrentRateLimit from the record; its persist is suppressed.         *)
RestoreLimits ==
  /\ At(Main, "restore.limits")
  /\ LET i == loc[Main].id  o == torrents[i] IN
       IF rs[i].upLimit # 0 \/ rs[i].downLimit # 0
       THEN SetTr(o, [tr[o] EXCEPT !.upLimit = rs[i].upLimit,
                                   !.downLimit = rs[i].downLimit])
       ELSE UNCHANGED tr
  /\ Goto(Main, "restore.prios")
  /\ SetLoc(Main, [loc[Main] EXCEPT
                     !.sel = {f \in Files : rs[loc[Main].id].prio[f] # "normal"}])
  /\ UNCHANGED <<torrents, nobj, opMu, checkWG, canceled, libVars, guardVars,
                 diskVars, saveVars, mainVars, tk, hooks, budget>>

(* SetFilePriority for each file the record lists, in turn; one whose      *)
(* lookup fails is logged and passed over.                                 *)
RestorePrios ==
  /\ At(Main, "restore.prios")
  /\ \/ \E f \in loc[Main].sel :
          /\ torrents[loc[Main].id] # NoObj
          /\ SetLoc(Main, [loc[Main] EXCEPT !.sel = @ \ {f}, !.file = f,
                                            !.prio = rs[loc[Main].id].prio[f],
                                            !.o = torrents[loc[Main].id],
                                            !.ret = "restore.prios"])
          /\ Goto(Main, "prio.set")
     \/ /\ loc[Main].sel = {} \/ torrents[loc[Main].id] = NoObj
        /\ Goto(Main, "restore.final")
        /\ UNCHANGED loc
  /\ UNCHANGED <<engineVars, libVars, guardVars, diskVars, saveVars, mainVars,
                 tk, hooks, budget>>

(* Variant for sensitivity: the label is not put back.                     *)
RestoreFinalNoLabel ==
  /\ At(Main, "restore.final")
  /\ LET i == loc[Main].id  o == torrents[i] IN
       /\ SetTr(o, [tr[o] EXCEPT !.base = rs[i].downloaded,
                                 !.seedLimit = rs[i].seedLimit,
                                 !.completedAt = rs[i].completedAt,
                                 !.completeLogged = rs[i].completedAt])
       /\ rs' = [rs EXCEPT ![i] = NoRec]
  /\ SetLoc(Main, Loc0)
  /\ Goto(Main, "restore.next")
  /\ UNCHANGED <<torrents, nobj, opMu, checkWG, canceled, libVars, guardVars,
                 diskVars, saveVars, restoring, closing, tk, hooks, budget>>

(* The rest of the record, under e.mu; then the next one.                  *)
RestoreFinal ==
  /\ At(Main, "restore.final")
  /\ LET i == loc[Main].id  o == torrents[i] IN
       /\ SetTr(o, [tr[o] EXCEPT !.base = rs[i].downloaded,
                                 !.seedLimit = rs[i].seedLimit,
                                 !.completedAt = rs[i].completedAt,
                                 !.label = rs[i].label,
                                 !.completeLogged = rs[i].completedAt])
       /\ rs' = [rs EXCEPT ![i] = NoRec]
  /\ SetLoc(Main, Loc0)
  /\ Goto(Main, "restore.next")
  /\ UNCHANGED <<torrents, nobj, opMu, checkWG, canceled, libVars, guardVars,
                 diskVars, saveVars, restoring, closing, tk, hooks, budget>>

(* The deferred end: restoring is cleared and the session saved once.      *)
RestoreDone ==
  /\ At(Main, "restore.next")
  /\ \A i \in Ids : rs[i] = NoRec
  /\ restoring' = FALSE
  /\ Persist(Main, "up")
  /\ UNCHANGED <<engineVars, libVars, guardVars, diskVars, saveMu, closing,
                 rs, loc, tk, hooks, budget>>

RestoreStep ==
  \/ RestoreRead \/ RestoreNext \/ RestoreLimits \/ RestorePrios
  \/ RestoreFinal \/ RestoreDone
=============================================================================
