----------------------------- MODULE EngineStruct -----------------------------
(***************************************************************************)
(* internal/engine/ops.go, the rest: hash checks, and the operations that  *)
(* replace or drop a torrent's library instance - remove, purge and move,  *)
(* which take the tracked struct's opMu and call off its hash check first. *)
(***************************************************************************)
EXTENDS EngineOps

Fault == /\ budget.faults > 0
         /\ budget' = [budget EXCEPT !.faults = @ - 1]

-----------------------------------------------------------------------------
(* beginCheck, then the goroutine.  loc.flag tells a move's check, which   *)
(* releases the hold at its end, from a recheck's.                         *)

CallForceRecheck(c) ==
  \E i \in Ids :
    /\ torrents[i] # NoObj
    /\ lib[tr[torrents[i]].t].info
    /\ Call(c, "recheck", "check.add", Found(i))

(* checkWG.Add comes before the critical section that publishes the cancel *)
(* function.                                                               *)
BeginCheckAdd(p) ==
  /\ At(p, "check.add")
  /\ checkWG' = [checkWG EXCEPT ![loc[p].o] = @ + 1]
  /\ Goto(p, "check.begin")
  /\ UNCHANGED <<torrents, tr, nobj, opMu, canceled, libVars, guardVars,
                 diskVars, saveVars, mainVars, loc, tk, hooks, budget>>

(* Variant for sensitivity: the cancel function is not published.          *)
BeginCheckPrivate(p) ==
  /\ At(p, "check.begin")
  /\ \E k \in Checkers : At(k, "off")
  /\ LET k == CHOOSE x \in Checkers : At(x, "off")
         o == loc[p].o
     IN /\ canceled' = [Cancel(tr[o]) EXCEPT ![k] = FALSE]
        /\ SetTr(o, [tr[o] EXCEPT !.checking = TRUE])
        /\ SetLoc(k, [Loc0 EXCEPT !.id = loc[p].id, !.o = o,
                                                  !.flag = loc[p].op = "move"])
        /\ pc' = [pc EXCEPT ![k] = "check.read", ![p] = "end"]
  /\ UNCHANGED <<torrents, nobj, opMu, checkWG, libVars, guardVars, diskVars,
                 saveVars, mainVars, tk, hooks, budget>>

(* A check already running is cancelled; slot k is the new one's context   *)
(* and goroutine.                                                          *)
BeginCheck(p) ==
  /\ At(p, "check.begin")
  /\ \E k \in Checkers : At(k, "off")
  /\ LET k == CHOOSE x \in Checkers : At(x, "off")
         o == loc[p].o
     IN /\ canceled' = [Cancel(tr[o]) EXCEPT ![k] = FALSE]
        /\ SetTr(o, [tr[o] EXCEPT !.cancelCheck = k, !.checking = TRUE])
        /\ SetLoc(k, [Loc0 EXCEPT !.id = loc[p].id, !.o = o,
                                                  !.flag = loc[p].op = "move"])
        /\ pc' = [pc EXCEPT ![k] = "check.read", ![p] = "end"]
  /\ UNCHANGED <<torrents, nobj, opMu, checkWG, libVars, guardVars, diskVars,
                 saveVars, mainVars, tk, hooks, budget>>

(* verifyPieces: the instance is read once; the context is looked at       *)
(* between pieces, and a piece being hashed is given up on a cancel.       *)
VerifyRead(k) ==
  /\ At(k, "check.read")
  /\ SetLoc(k, [loc[k] EXCEPT !.t = tr[loc[k].o].t])
  /\ Goto(k, "check.loop")
  /\ UNCHANGED <<engineVars, libVars, guardVars, diskVars, saveVars, mainVars,
                 tk, hooks, budget>>

VerifyLoop(k) ==
  /\ At(k, "check.loop")
  /\ IF loc[k].done < Pieces /\ ~canceled[k]
     THEN /\ Goto(k, "check.hash")
          /\ UNCHANGED loc
     ELSE /\ Goto(k, "check.clear")
          /\ SetLoc(k, [loc[k] EXCEPT
                          !.err = IF loc[k].done < Pieces THEN "canceled" ELSE ""])
  /\ UNCHANGED <<engineVars, libVars, guardVars, diskVars, saveVars, mainVars,
                 tk, hooks, budget>>

(* Variant for sensitivity: a piece that does not verify is tried again.   *)
VerifyPieceRetries(k) ==
  /\ At(k, "check.hash")
  /\ SetLoc(k, [loc[k] EXCEPT !.done = IF lib[loc[k].t].have THEN @ + 1 ELSE @])
  /\ Goto(k, "check.loop")
  /\ UNCHANGED <<engineVars, libVars, guardVars, diskVars, saveVars, mainVars,
                 tk, hooks, budget>>

VerifyPiece(k) ==
  /\ At(k, "check.hash")
  /\ \/ /\ SetLoc(k, [loc[k] EXCEPT !.done = @ + 1])
        /\ Goto(k, "check.loop")
        /\ UNCHANGED budget
     \/ /\ canceled[k]
        /\ SetLoc(k, [loc[k] EXCEPT !.err = "canceled"])
        /\ Goto(k, "check.clear")
        /\ UNCHANGED budget
     \/ /\ Fault
        /\ SetLoc(k, [loc[k] EXCEPT !.err = "failed"])
        /\ Goto(k, "check.clear")
  /\ UNCHANGED <<engineVars, libVars, guardVars, diskVars, saveVars, mainVars,
                 tk, hooks>>

(* done(): whatever cancel function the struct holds is cleared, then      *)
(* checkWG.Done.                                                           *)
CheckClear(k) ==
  /\ At(k, "check.clear")
  /\ canceled' = [canceled EXCEPT ![k] = TRUE]
  /\ SetTr(loc[k].o, [tr[loc[k].o] EXCEPT !.cancelCheck = NoThread, !.checking = FALSE])
  /\ Goto(k, "check.done")
  /\ UNCHANGED <<torrents, nobj, opMu, checkWG, libVars, guardVars, diskVars,
                 saveVars, mainVars, loc, tk, hooks, budget>>

CheckDone(k) ==
  /\ At(k, "check.done")
  /\ checkWG' = [checkWG EXCEPT ![loc[k].o] = @ - 1]
  /\ Goto(k, "check.end")
  /\ UNCHANGED <<torrents, tr, nobj, opMu, canceled, libVars, guardVars,
                 diskVars, saveVars, mainVars, loc, tk, hooks, budget>>

(* A failure is recorded, a cancel is not; a move's check takes the hold   *)
(* off and lets the torrent go again.                                      *)
CheckEnd(k) ==
  /\ At(k, "check.end")
  /\ LET o == loc[k].o
         x == [tr[o] EXCEPT !.lastErr = @ \/ loc[k].err = "failed",
                            !.holdData = @ /\ ~loc[k].flag]
     IN /\ SetTr(o, x)
        /\ IF loc[k].flag
           THEN /\ SetLoc(k, Decide(loc[k], x, "check.off"))
                /\ Goto(k, "flow.down")
           ELSE /\ SetLoc(k, Loc0)
                /\ Goto(k, "off")
  /\ UNCHANGED <<torrents, nobj, opMu, checkWG, canceled, libVars, guardVars,
                 diskVars, saveVars, mainVars, tk, hooks, budget>>

CheckOff(k) ==
  /\ At(k, "check.off")
  /\ SetLoc(k, Loc0)
  /\ Goto(k, "off")
  /\ UNCHANGED <<engineVars, libVars, guardVars, diskVars, saveVars, mainVars,
                 tk, hooks, budget>>

CheckerStep(k) ==
  \/ VerifyRead(k) \/ VerifyLoop(k) \/ VerifyPiece(k)
  \/ CheckClear(k) \/ CheckDone(k) \/ CheckEnd(k) \/ CheckOff(k)

-----------------------------------------------------------------------------
(* What remove, purge and move share: lookup, opMu, quiesceCheck.          *)

CallStruct(c) ==
  \E i \in Ids, op \in {"remove", "purge", "move"}, d \in Dirs, flag \in BOOLEAN :
    /\ torrents[i] # NoObj
    /\ op = "move" \/ d = DataDir
    /\ op = "remove" \/ ~flag              \* deleteData
    /\ Call(c, op, "op.lock", [Found(i) EXCEPT !.op = op, !.dir = d, !.flag = flag])

(* Variants for sensitivity: opMu is not waited for, nor is the check.     *)
LockOpShared(p) ==
  /\ At(p, "op.lock")
  /\ opMu' = [opMu EXCEPT ![loc[p].o] = p]
  /\ Goto(p, "op.cancel")
  /\ UNCHANGED <<torrents, tr, nobj, checkWG, canceled, libVars, guardVars,
                 diskVars, saveVars, mainVars, loc, tk, hooks, budget>>

QuiesceNoWait(p) ==
  /\ At(p, "op.wait")
  /\ Goto(p, loc[p].op)
  /\ UNCHANGED <<engineVars, libVars, guardVars, diskVars, saveVars, mainVars,
                 loc, tk, hooks, budget>>

LockOp(p) ==
  /\ At(p, "op.lock")
  /\ opMu[loc[p].o] = NoThread
  /\ opMu' = [opMu EXCEPT ![loc[p].o] = p]
  /\ Goto(p, "op.cancel")
  /\ UNCHANGED <<torrents, tr, nobj, checkWG, canceled, libVars, guardVars,
                 diskVars, saveVars, mainVars, loc, tk, hooks, budget>>

QuiesceCancel(p) ==
  /\ At(p, "op.cancel")
  /\ canceled' = Cancel(tr[loc[p].o])
  /\ Goto(p, "op.wait")
  /\ UNCHANGED <<torrents, tr, nobj, opMu, checkWG, libVars, guardVars,
                 diskVars, saveVars, mainVars, loc, tk, hooks, budget>>

QuiesceWait(p) ==
  /\ At(p, "op.wait")
  /\ checkWG[loc[p].o] = 0
  /\ Goto(p, loc[p].op)
  /\ UNCHANGED <<engineVars, libVars, guardVars, diskVars, saveVars, mainVars,
                 loc, tk, hooks, budget>>

-----------------------------------------------------------------------------
(* RemoveTorrent.                                                          *)

(* The second look, under e.mu: some torrent must still answer to the id.  *)
RemoveDelete(p) ==
  /\ At(p, "remove")
  /\ IF torrents[loc[p].id] = NoObj
     THEN /\ Goto(p, "end")
          /\ UNCHANGED torrents
     ELSE /\ torrents' = [torrents EXCEPT ![loc[p].id] = NoObj]
          /\ Goto(p, "remove.drop")
  /\ UNCHANGED <<tr, nobj, opMu, checkWG, canceled, libVars, guardVars,
                 diskVars, saveVars, mainVars, loc, tk, hooks, budget>>

RemoveDrop(p) ==
  /\ At(p, "remove.drop")
  /\ Drop(tr[loc[p].o].t)
  /\ Goto(p, "remove.files")
  /\ UNCHANGED <<engineVars, guardVars, diskVars, saveVars, mainVars, loc, tk,
                 hooks, budget>>

(* dataPaths is empty without metadata.                                    *)
DeleteData(id, t, dir) ==
  data' = IF lib[t].info THEN [data EXCEPT ![id] = @ \ {dir}] ELSE data

RemoveFiles(p) ==
  /\ At(p, "remove.files")
  /\ LET x == tr[loc[p].o] IN
       IF loc[p].flag THEN DeleteData(loc[p].id, x.t, x.savePath) ELSE UNCHANGED data
  /\ Goto(p, "remove.meta")
  /\ UNCHANGED <<engineVars, libVars, guardVars, session, metainfo, saveVars,
                 mainVars, loc, tk, hooks, budget>>

(* removeMetainfo, then persist.                                           *)
RemoveMeta(p) ==
  /\ At(p, "remove.meta")
  /\ metainfo' = IF StateDir THEN metainfo \ {loc[p].id} ELSE metainfo
  /\ Persist(p, "end")
  /\ UNCHANGED <<engineVars, libVars, guardVars, session, data, saveMu,
                 mainVars, loc, tk, hooks, budget>>

-----------------------------------------------------------------------------
(* Steps purge and move have in common.                                    *)

(* The instance and save path they work on, read once under e.mu; refused  *)
(* without metadata.  A move also needs to create its destination.         *)
StructRead(p, l) ==
  /\ LET x == tr[loc[p].o] IN
       IF lib[x.t].info
       THEN /\ SetLoc(p, [loc[p] EXCEPT !.t = x.t, !.old = x.savePath])
            /\ Goto(p, l)
       ELSE /\ Goto(p, "end")
            /\ UNCHANGED loc
  /\ UNCHANGED <<engineVars, libVars, guardVars, diskVars, saveVars, mainVars,
                 tk, hooks, budget>>

(* The hold, and the switches turned off; k follows applyFlow.             *)
StructHold(p, paused, k) ==
  /\ LET o == loc[p].o
         x == [tr[o] EXCEPT !.holdData = TRUE, !.paused = @ \/ paused]
     IN /\ SetTr(o, x)
        /\ SetLoc(p, Decide(loc[p], x, k))
  /\ Goto(p, "flow.down")
  /\ UNCHANGED <<torrents, nobj, opMu, checkWG, canceled, libVars, guardVars,
                 diskVars, saveVars, mainVars, tk, hooks, budget>>

(* foldCounters, before the instance that counted is dropped.              *)
FoldCounters(p, l) ==
  /\ SetTr(loc[p].o, [tr[loc[p].o] EXCEPT !.base = @ + lib[loc[p].t].bytes])
  /\ Goto(p, l)
  /\ UNCHANGED <<torrents, nobj, opMu, checkWG, canceled, libVars, guardVars,
                 diskVars, saveVars, mainVars, loc, tk, hooks, budget>>

DropOld(p, l) ==
  /\ Drop(loc[p].t)
  /\ Goto(p, l)
  /\ UNCHANGED <<engineVars, guardVars, diskVars, saveVars, mainVars, loc, tk,
                 hooks, budget>>

(* Variant for sensitivity: the hold is left on.                           *)
FailedHeld(x) == [x EXCEPT !.lastErr = TRUE]

(* moveFailed and purgeFailed: the error is shown and the hold comes off.  *)
Failed(x) == [x EXCEPT !.lastErr = TRUE, !.holdData = FALSE]

-----------------------------------------------------------------------------
(* PurgeData.                                                              *)

PurgeRead(p) == At(p, "purge") /\ StructRead(p, "purge.hold")
PurgeHold(p) == At(p, "purge.hold") /\ StructHold(p, TRUE, "purge.fold")
PurgeFold(p) == At(p, "purge.fold") /\ FoldCounters(p, "purge.drop")
PurgeDrop(p) == At(p, "purge.drop") /\ DropOld(p, "purge.delete")

PurgeDelete(p) ==
  /\ At(p, "purge.delete")
  /\ DeleteData(loc[p].id, loc[p].t, loc[p].old)
  /\ Goto(p, "purge.readd")
  /\ UNCHANGED <<engineVars, libVars, guardVars, session, metainfo, saveVars,
                 mainVars, loc, tk, hooks, budget>>

(* The torrent is added again; ft carries the fresh instance.              *)
PurgeReadd(p) ==
  /\ At(p, "purge.readd")
  /\ \/ /\ AddTorrentSpec(loc[p].id, loc[p].old, TRUE)
        /\ SetLoc(p, [loc[p] EXCEPT !.ft = AddedInst(loc[p].id)])
        /\ Goto(p, "purge.swap")
        /\ UNCHANGED budget
     \/ /\ Fault
        /\ Goto(p, "purge.failed")
        /\ UNCHANGED <<libVars, loc>>
  /\ UNCHANGED <<engineVars, guardVars, diskVars, saveVars, mainVars, tk, hooks>>

(* Variant for sensitivity: a purge makes the torrent new to the hook.     *)
PurgeSwapForgets(p) ==
  /\ At(p, "purge.swap")
  /\ LET o == loc[p].o
         x == [tr[o] EXCEPT !.t = loc[p].ft, !.holdData = FALSE, !.completeLogged = FALSE]
     IN /\ SetTr(o, x)
        /\ SetLoc(p, Decide([loc[p] EXCEPT !.t = NoInst], x, "purge.save"))
  /\ Goto(p, "flow.down")
  /\ UNCHANGED <<torrents, nobj, opMu, checkWG, canceled, libVars, guardVars,
                 diskVars, saveVars, mainVars, tk, hooks, budget>>

PurgeSwap(p) ==
  /\ At(p, "purge.swap")
  /\ LET o == loc[p].o
         x == [tr[o] EXCEPT !.t = loc[p].ft, !.holdData = FALSE]
     IN /\ SetTr(o, x)
        /\ SetLoc(p, Decide([loc[p] EXCEPT !.t = NoInst], x, "purge.save"))
  /\ Goto(p, "flow.down")
  /\ UNCHANGED <<torrents, nobj, opMu, checkWG, canceled, libVars, guardVars,
                 diskVars, saveVars, mainVars, tk, hooks, budget>>

PurgeSave(p) ==
  /\ At(p, "purge.save")
  /\ Persist(p, "end")
  /\ UNCHANGED <<engineVars, libVars, guardVars, diskVars, saveMu, mainVars,
                 loc, tk, hooks, budget>>

PurgeFailed(p) ==
  /\ At(p, "purge.failed")
  /\ SetTr(loc[p].o, Failed(tr[loc[p].o]))
  /\ SetLoc(p, [loc[p] EXCEPT !.t = NoInst])
  /\ Persist(p, "end")
  /\ UNCHANGED <<torrents, nobj, opMu, checkWG, canceled, libVars, guardVars,
                 diskVars, saveMu, mainVars, tk, hooks, budget>>

PurgeStep(p) ==
  \/ PurgeRead(p) \/ PurgeHold(p) \/ PurgeFold(p) \/ PurgeDrop(p)
  \/ PurgeDelete(p) \/ PurgeReadd(p) \/ PurgeSwap(p) \/ PurgeSave(p)
  \/ PurgeFailed(p)

-----------------------------------------------------------------------------
(* MoveStorage.                                                            *)

MoveRead(p) == At(p, "move") /\ StructRead(p, "move.mkdir")

(* A destination that cannot be created fails the move before the hold.    *)
MoveMkdir(p) ==
  /\ At(p, "move.mkdir")
  /\ \/ /\ Goto(p, "move.hold")
        /\ UNCHANGED <<budget, loc>>
     \/ /\ Fault
        /\ Goto(p, "end")
        /\ SetLoc(p, [loc[p] EXCEPT !.t = NoInst])
  /\ UNCHANGED <<engineVars, libVars, guardVars, diskVars, saveVars, mainVars,
                 tk, hooks>>

MoveHold(p) == At(p, "move.hold") /\ StructHold(p, FALSE, "move.prios")

MovePrios(p) ==
  /\ At(p, "move.prios")
  /\ SetLoc(p, [loc[p] EXCEPT
                  !.prios = [f \in Files |-> fromLibPriority(lib[loc[p].t].prio[f])]])
  /\ Goto(p, "move.files")
  /\ UNCHANGED <<engineVars, libVars, guardVars, diskVars, saveVars, mainVars,
                 tk, hooks, budget>>

(* Each file, finished or not, is moved; a failure half way leaves data in *)
(* both places, one in rebuilding the spec after it all of it in the new.  *)
MoveFiles(p) ==
  /\ At(p, "move.files")
  /\ LET i == loc[p].id  from == loc[p].old  to == loc[p].dir
         moved == [data EXCEPT ![i] = IF from \in @ THEN (@ \ {from}) \cup {to} ELSE @]
         half  == [data EXCEPT ![i] = IF from \in @ THEN @ \cup {to} ELSE @]
     IN \/ /\ data' = moved
           /\ Goto(p, "move.fold")
           /\ UNCHANGED budget
        \/ /\ Fault
           /\ data' \in {data, half, moved}
           /\ Goto(p, "move.failed")
  /\ UNCHANGED <<engineVars, libVars, guardVars, session, metainfo, saveVars,
                 mainVars, loc, tk, hooks>>

MoveFold(p) == At(p, "move.fold") /\ FoldCounters(p, "move.drop")
MoveDrop(p) == At(p, "move.drop") /\ DropOld(p, "move.readd")

MoveReadd(p) ==
  /\ At(p, "move.readd")
  /\ \/ /\ AddTorrentSpec(loc[p].id, loc[p].dir, TRUE)
        /\ SetLoc(p, [loc[p] EXCEPT !.ft = AddedInst(loc[p].id)])
        /\ Goto(p, "move.reprio")
        /\ UNCHANGED budget
     \/ /\ Fault
        /\ Goto(p, "move.lost")
        /\ UNCHANGED <<libVars, loc>>
  /\ UNCHANGED <<engineVars, guardVars, diskVars, saveVars, mainVars, tk, hooks>>

(* The re-add failed: the new save path is recorded, saved, and the move   *)
(* reported as failed.                                                     *)
MoveLost(p) ==
  /\ At(p, "move.lost")
  /\ SetTr(loc[p].o, [tr[loc[p].o] EXCEPT !.savePath = loc[p].dir])
  /\ SetLoc(p, [loc[p] EXCEPT !.t = NoInst])
  /\ Persist(p, "move.failed")
  /\ UNCHANGED <<torrents, nobj, opMu, checkWG, canceled, libVars, guardVars,
                 diskVars, saveMu, mainVars, tk, hooks, budget>>

MoveFailed(p) ==
  /\ At(p, "move.failed")
  /\ LET o == loc[p].o IN
       /\ SetTr(o, Failed(tr[o]))
       /\ SetLoc(p, Decide([loc[p] EXCEPT !.t = NoInst], Failed(tr[o]), "end"))
  /\ Goto(p, "flow.down")
  /\ UNCHANGED <<torrents, nobj, opMu, checkWG, canceled, libVars, guardVars,
                 diskVars, saveVars, mainVars, tk, hooks, budget>>

(* Variant for sensitivity: the moved torrent wants every file.            *)
MoveReprioAll(p) ==
  /\ At(p, "move.reprio")
  /\ SetPrio(loc[p].ft, [f \in Files |-> "Normal"])
  /\ Goto(p, "move.swap")
  /\ UNCHANGED <<engineVars, ninst, client, guardVars, diskVars, saveVars,
                 mainVars, loc, tk, hooks, budget>>

(* applyFilePriorities on the fresh instance.                              *)
MoveReprio(p) ==
  /\ At(p, "move.reprio")
  /\ SetPrio(loc[p].ft, [f \in Files |-> toLibPriority(loc[p].prios[f])])
  /\ Goto(p, "move.swap")
  /\ UNCHANGED <<engineVars, ninst, client, guardVars, diskVars, saveVars,
                 mainVars, loc, tk, hooks, budget>>

(* The struct takes the fresh instance; beginCheck follows.  The session   *)
(* is not saved.                                                           *)
MoveSwap(p) ==
  /\ At(p, "move.swap")
  /\ SetTr(loc[p].o, [tr[loc[p].o] EXCEPT !.t = loc[p].ft, !.savePath = loc[p].dir])
  /\ SetLoc(p, [loc[p] EXCEPT !.t = NoInst])
  /\ Goto(p, "check.add")
  /\ UNCHANGED <<torrents, nobj, opMu, checkWG, canceled, libVars, guardVars,
                 diskVars, saveVars, mainVars, tk, hooks, budget>>

MoveStep(p) ==
  \/ MoveRead(p) \/ MoveMkdir(p) \/ MoveHold(p) \/ MovePrios(p)
  \/ MoveFiles(p) \/ MoveFold(p) \/ MoveDrop(p) \/ MoveReadd(p)
  \/ MoveLost(p) \/ MoveFailed(p) \/ MoveReprio(p) \/ MoveSwap(p)

RemoveStep(p) ==
  RemoveDelete(p) \/ RemoveDrop(p) \/ RemoveFiles(p) \/ RemoveMeta(p)

StructStep(p) ==
  \/ BeginCheckAdd(p) \/ BeginCheck(p)
  \/ LockOp(p) \/ QuiesceCancel(p) \/ QuiesceWait(p)
  \/ RemoveStep(p) \/ PurgeStep(p) \/ MoveStep(p)
=============================================================================
