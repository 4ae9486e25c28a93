----------------------------- MODULE EngineProofs -----------------------------
(***************************************************************************)
(* The engine's inductive invariant, concluded: purge and move, the tick   *)
(* loop, restoring, ending a process - and the theorems that follow, the   *)
(* last of them, about holds, from a stronger invariant.                   *)
(***************************************************************************)
EXTENDS EngineOpsProofs

-----------------------------------------------------------------------------
(* Purge and move: the steps they share.                                   *)

(* StructRead: the instance and save path are the struct's own.            *)
LEMMA StructReadInv ==
  ASSUME Inv, NEW p \in Threads, pc[p] \in StructLabels, pc[p] # "op.lock",
         NEW c \in StructLabels, c # "op.lock", c \notin NeedsFresh, StructRead(p, c)
  PROVE  Inv'
<1>0. ThreadTypes /\ TallyTypes
  BY ThreadFacts
<1>1. /\ loc[p] \in Locals /\ tr[loc[p].o].t \in Insts /\ tr[loc[p].o].savePath \in Dirs
  BY StructAt
<1>2. /\ UNCHANGED <<engineVars, libVars, guardVars, diskVars, saveVars, mainVars, tk, hooks>>
      /\ UNCHANGED budget
      /\ \/ Moves(p, c, [loc[p] EXCEPT !.t = tr[loc[p].o].t, !.old = tr[loc[p].o].savePath])
         \/ Goto(p, "end") /\ UNCHANGED loc
  BY DEF StructRead, Moves, SetLoc, Goto
<1>3. budget' \in Budget
  BY <1>0, <1>2 DEF TallyTypes
<1>4. CASE Goto(p, "end") /\ UNCHANGED loc
  <2>1. "end" \notin NeedsInst /\ "end" \notin NeedsFresh
    BY DEF NeedsInst, NeedsFresh
  <2>2. "end" \in Places /\ Goes(p, "end", loc[p]) /\ LocalOK(p, "end", loc[p], save[p].k, nobj)
    BY <2>1, OpGoes
  <2>3. Moves(p, "end", loc[p])
    BY <1>0, <1>4, GotoMoves
  <2>4. QED
    BY <1>1, <1>2, <1>3, <2>2, <2>3, StepMoves
<1>5. CASE Moves(p, c, [loc[p] EXCEPT !.t = tr[loc[p].o].t, !.old = tr[loc[p].o].savePath])
  <2> DEFINE l == [loc[p] EXCEPT !.t = tr[loc[p].o].t, !.old = tr[loc[p].o].savePath]
  <2>1. /\ l \in Locals /\ l.op = loc[p].op /\ l.o = loc[p].o /\ l.ret = loc[p].ret
        /\ l.t = tr[l.o].t /\ l.old = tr[l.o].savePath /\ l.t = tr[loc[p].o].t
    BY <1>1 DEF Locals
  <2>2. l.t # NoInst
    BY <1>1, <2>1 DEF Insts, NoInst
  <2>3. Moves(p, c, l)
    BY <1>5
  <2> HIDE DEF l
  <2>4. c \in Places /\ Goes(p, c, l) /\ LocalOK(p, c, l, save[p].k, nobj)
    BY <2>1, <2>2, OpGoes
  <2>5. QED
    BY <1>2, <1>3, <2>1, <2>3, <2>4, StepMoves
<1>6. QED
  BY <1>2, <1>4, <1>5

LEMMA StructHoldInv ==
  ASSUME Inv, NEW p \in Threads, pc[p] \in StructLabels, pc[p] \in NeedsInst,
         pc[p] # "op.lock", NEW k \in StructLabels, k \in FlowNext, k # "op.lock",
         k \notin NeedsFresh, NEW b \in BOOLEAN, StructHold(p, b, k)
  PROVE  Inv'
<1>1. /\ loc[p] \in Locals /\ loc[p].o # NoObj /\ loc[p].t \in Insts
      /\ tr[loc[p].o] \in Tracked
  BY StructAt
<1> DEFINE x == [tr[loc[p].o] EXCEPT !.holdData = TRUE, !.paused = @ \/ b]
<1>2. x \in Tracked /\ x.t = tr[loc[p].o].t /\ x.savePath = tr[loc[p].o].savePath
  <2>1. ASSUME NEW y \in Tracked
        PROVE  LET z == [y EXCEPT !.holdData = TRUE, !.paused = @ \/ b] IN
               z \in Tracked /\ z.t = y.t /\ z.savePath = y.savePath
    BY DEF Tracked
  <2>2. QED
    BY <1>1, <2>1
<1>3. /\ SetTr(loc[p].o, x) /\ Moves(p, "flow.down", Decide(loc[p], x, k))
      /\ UNCHANGED <<torrents, nobj, opMu, checkWG>> /\ UNCHANGED canceled
      /\ UNCHANGED <<libVars, guardVars, diskVars, saveVars, mainVars, tk, hooks>>
      /\ UNCHANGED budget
  BY DEF StructHold, Moves, SetLoc, Goto
<1> HIDE DEF x
<1>4. loc[p].t # NoInst
  BY <1>1 DEF Insts, NoInst
<1>5. LocalOK(p, k, loc[p], save[p].k, nobj)
  BY <1>4, OpGoes
<1>6. canceled' \in [Checkers -> BOOLEAN]
  BY <1>3 DEF Inv, TypeOK, EngineTypes
<1>7. QED
  BY <1>1, <1>2, <1>3, <1>5, <1>6, StepFlow

(* foldCounters: a total stays a number.                                   *)
LEMMA FoldInv ==
  ASSUME Inv, NEW p \in Threads, pc[p] \in StructLabels, pc[p] \in NeedsInst,
         pc[p] # "op.lock", NEW c \in StructLabels, c # "op.lock", c \notin NeedsFresh,
         FoldCounters(p, c)
  PROVE  Inv'
<1>0. LibTypes /\ ThreadTypes /\ TallyTypes /\ EngineTypes
  BY ThreadFacts
<1>1. /\ loc[p] \in Locals /\ loc[p].o \in Objs /\ loc[p].t \in Insts
      /\ tr[loc[p].o] \in Tracked
  BY StructAt
<1>2. lib[loc[p].t].bytes \in Nat
  BY <1>0, <1>1 DEF LibTypes, Instance
<1> DEFINE x == [tr[loc[p].o] EXCEPT !.base = @ + lib[loc[p].t].bytes]
<1>3. x \in Tracked /\ x.t = tr[loc[p].o].t /\ x.savePath = tr[loc[p].o].savePath
  <2>1. ASSUME NEW y \in Tracked, NEW n \in Nat
        PROVE  LET z == [y EXCEPT !.base = @ + n] IN
               z \in Tracked /\ z.t = y.t /\ z.savePath = y.savePath
    <3>1. y.base + n \in Nat
      BY DEF Tracked
    <3>2. QED
      BY <3>1 DEF Tracked
  <2>2. QED
    BY <1>1, <1>2, <2>1
<1>4. /\ SetTr(loc[p].o, x) /\ Goto(p, c) /\ UNCHANGED loc
      /\ UNCHANGED <<torrents, nobj, opMu, checkWG>> /\ UNCHANGED canceled
      /\ UNCHANGED <<libVars, guardVars, diskVars, saveVars, mainVars, tk, hooks>>
      /\ UNCHANGED budget
  BY DEF FoldCounters
<1> HIDE DEF x
<1>5. loc[p].t # NoInst
  BY <1>1 DEF Insts, NoInst
<1>6. c \in Places /\ Goes(p, c, loc[p]) /\ LocalOK(p, c, loc[p], save[p].k, nobj)
  BY <1>5, OpGoes
<1>7. canceled' \in [Checkers -> BOOLEAN] /\ budget' \in Budget
  BY <1>0, <1>4 DEF EngineTypes, TallyTypes
<1>8. Moves(p, c, loc[p])
  BY <1>0, <1>4, GotoMoves
<1>9. QED
  BY <1>1, <1>3, <1>4, <1>6, <1>7, <1>8, StepStruct

(* Steps that change the library or the data on disk only.                 *)
LEMMA StructLib ==
  ASSUME Inv, NEW p \in Threads, pc[p] \in StructLabels, pc[p] # "op.lock",
         NEW c \in StructLabels, c # "op.lock",
         c \in NeedsInst => loc[p].t # NoInst, c \in NeedsFresh => loc[p].ft # NoInst,
         Goto(p, c), UNCHANGED loc, LibTypes', DiskTypes',
         UNCHANGED <<engineVars, guardVars, saveVars, mainVars, tk, hooks>>,
         budget' \in Budget
  PROVE  Inv'
<1>1. c \in Places /\ Goes(p, c, loc[p]) /\ LocalOK(p, c, loc[p], save[p].k, nobj)
  BY OpGoes
<1>2. Moves(p, c, loc[p]) /\ loc[p] \in Locals
  BY ThreadFacts, GotoMoves
<1>3. QED
  BY <1>1, <1>2, StepLib

LEMMA DropOldInv ==
  ASSUME Inv, NEW p \in Threads, pc[p] \in StructLabels, pc[p] \in NeedsInst,
         pc[p] # "op.lock", NEW c \in StructLabels, c # "op.lock", c \notin NeedsFresh,
         DropOld(p, c)
  PROVE  Inv'
<1>0. LibTypes /\ DiskTypes /\ TallyTypes
  BY ThreadFacts
<1>1. loc[p].t \in Insts
  BY StructAt
<1>2. /\ Drop(loc[p].t) /\ Goto(p, c) /\ UNCHANGED loc /\ UNCHANGED budget
      /\ UNCHANGED <<engineVars, guardVars, saveVars, mainVars, tk, hooks>>
      /\ UNCHANGED diskVars
  BY DEF DropOld
<1>3. LibTypes' /\ DiskTypes' /\ budget' \in Budget
  BY <1>0, <1>1, <1>2, DropTypes, SameTypes DEF TallyTypes
<1>4. loc[p].t # NoInst
  BY <1>1 DEF Insts, NoInst
<1>5. QED
  BY <1>2, <1>3, <1>4, StructLib

(* The torrent is added again under directory d, or that fails.            *)
LEMMA ReaddInv ==
  ASSUME Inv, NEW p \in Threads, pc[p] \in StructLabels, pc[p] # "op.lock",
         NEW d \in Dirs, NEW c \in StructLabels, c # "op.lock", c \notin NeedsInst,
         AddTorrentSpec(loc[p].id, d, TRUE),
         SetLoc(p, [loc[p] EXCEPT !.ft = AddedInst(loc[p].id)]), Goto(p, c),
         UNCHANGED <<engineVars, guardVars, saveVars, mainVars, tk, hooks>>,
         UNCHANGED diskVars, UNCHANGED budget
  PROVE  Inv'
<1>0. LibTypes /\ DiskTypes /\ TallyTypes
  BY ThreadFacts
<1>1. loc[p] \in Locals /\ loc[p].id \in Ids
  BY ThreadFacts DEF Locals
<1>2. LibTypes' /\ AddedInst(loc[p].id) \in Insts
  BY <1>0, <1>1, AddTypes
<1> DEFINE l == [loc[p] EXCEPT !.ft = AddedInst(loc[p].id)]
<1>3. /\ l \in Locals /\ l.op = loc[p].op /\ l.o = loc[p].o /\ l.ret = loc[p].ret
      /\ l.t = loc[p].t /\ l.old = loc[p].old /\ l.ft = AddedInst(loc[p].id)
  BY <1>1, <1>2 DEF Locals
<1>4. l.ft # NoInst
  BY <1>2, <1>3 DEF Insts, NoInst
<1>5. Moves(p, c, l)
  BY DEF Moves, SetLoc, Goto
<1> HIDE DEF l
<1>6. c \in Places /\ Goes(p, c, l) /\ LocalOK(p, c, l, save[p].k, nobj)
  BY <1>3, <1>4, OpGoes
<1>7. DiskTypes' /\ budget' \in Budget
  BY <1>0, SameTypes DEF TallyTypes
<1>8. QED
  BY <1>2, <1>3, <1>5, <1>6, <1>7, StepLib

(* A failing call.                                                         *)
LEMMA FaultTypes ==
  ASSUME Inv, Fault
  PROVE  budget' \in Budget
  BY BudgetTypes DEF Fault, Inv, TypeOK, TallyTypes

LEMMA FailedTypes ==
  ASSUME NEW x \in Tracked
  PROVE  Failed(x) \in Tracked /\ Failed(x).t = x.t /\ Failed(x).savePath = x.savePath
  BY DEF Failed, Tracked

(* The holder of opMu gives its struct another instance or save path: the  *)
(* other operations know nothing of this one's.                            *)
LEMMA SwapKept ==
  ASSUME Inv, NEW p \in Threads, pc[p] \in StructLabels, pc[p] # "op.lock",
         NEW x \in Tracked, x.t \in Insts, SetTr(loc[p].o, x),
         UNCHANGED <<torrents, nobj, opMu, checkWG, canceled>>
  PROVE  Kept(p) /\ EngineTypes' /\ opMu'[loc[p].o] = p
<1>0. EngineTypes /\ StructsOK /\ nobj \in Int
  BY ThreadFacts
<1>1. loc[p].op # "" /\ loc[p].o \in Objs
  BY StructAt
<1>2. opMu[loc[p].o] = p
  BY <1>1 DEF Inv, OpMuHeld, HoldsOpMu
<1>3. /\ tr' \in [Objs -> Tracked] /\ tr'[loc[p].o] = x
      /\ \A o \in Objs : o # loc[p].o => tr'[o] = tr[o]
  BY <1>0, <1>1 DEF EngineTypes, SetTr
<1>4. EngineTypes'
  BY <1>0, <1>3 DEF EngineTypes
<1>5. x.t # NoInst
  BY DEF Insts, NoInst
<1>6. StructsOK'
  BY <1>0, <1>3, <1>5 DEF StructsOK
<1>7. InstancesKept(p)
  BY <1>2, <1>3 DEF InstancesKept
<1>8. QED
  BY <1>0, <1>2, <1>4, <1>6, <1>7 DEF Kept, MutexKept

LEMMA StepSwap ==
  ASSUME Inv, NEW p \in Threads, pc[p] \in StructLabels, pc[p] # "op.lock",
         NEW x \in Tracked, x.t \in Insts, SetTr(loc[p].o, x),
         UNCHANGED <<torrents, nobj, opMu, checkWG, canceled>>,
         NEW c \in Places, NEW l \in Locals, Moves(p, c, l), l.o = loc[p].o,
         l.t = NoInst, LocalOK(p, c, l, save[p].k, nobj),
         UNCHANGED <<libVars, guardVars, diskVars, saveVars, mainVars, tk, hooks>>,
         UNCHANGED budget
  PROVE  Inv'
<1>1. Kept(p) /\ EngineTypes' /\ opMu'[loc[p].o] = p
  BY SwapKept
<1>2. budget' \in Budget /\ UNCHANGED save
  BY ThreadFacts DEF TallyTypes, saveVars
<1>3. Typed
  BY <1>1, <1>2, SameTypes DEF Typed
<1>4. OwnsOK(p, c, l)
  BY <1>1 DEF OwnsOK
<1>5. QED
  BY <1>1, <1>2, <1>3, <1>4, FrameMoves

LEMMA ForgetFacts ==
  ASSUME NEW l \in Locals
  PROVE  LET m == [l EXCEPT !.t = NoInst] IN
         /\ m \in Locals /\ m.t = NoInst /\ m.o = l.o /\ m.op = l.op
         /\ m.ret = l.ret /\ m.ft = l.ft
  BY DEF Locals

-----------------------------------------------------------------------------
(* PurgeData.                                                              *)

LEMMA PurgeLabels ==
  LET P == {"purge", "purge.hold", "purge.fold", "purge.drop", "purge.delete",
            "purge.readd", "purge.swap", "purge.save", "purge.failed"} IN
  /\ P \subseteq StructLabels /\ "op.lock" \notin P
  /\ {"purge.hold", "purge.fold", "purge.drop", "purge.delete"} \subseteq NeedsInst
  /\ "purge.readd" \notin NeedsInst /\ "purge.swap" \notin NeedsInst
  /\ "purge.save" \notin NeedsInst /\ "purge.failed" \notin NeedsInst
  /\ P \cap NeedsFresh = {"purge.swap"}
  /\ "purge.fold" \in FlowNext /\ "purge.save" \in FlowNext
  /\ "end" \in SaveNext /\ "end" \notin NeedsInst /\ "end" \notin NeedsFresh
  BY DEF StructLabels, NeedsInst, NeedsFresh, FlowNext, SaveNext

LEMMA PurgeStartInv ==
  ASSUME Inv, NEW p \in Threads,
         PurgeRead(p) \/ PurgeHold(p) \/ PurgeFold(p) \/ PurgeDrop(p)
  PROVE  Inv'
<1>1. CASE PurgeRead(p)
  <2>1. pc[p] = "purge" /\ StructRead(p, "purge.hold")
    BY <1>1 DEF PurgeRead, At
  <2>2. QED
    BY <2>1, PurgeLabels, StructReadInv
<1>2. CASE PurgeHold(p)
  <2>1. pc[p] = "purge.hold" /\ StructHold(p, TRUE, "purge.fold")
    BY <1>2 DEF PurgeHold, At
  <2>2. QED
    BY <2>1, PurgeLabels, StructHoldInv
<1>3. CASE PurgeFold(p)
  <2>1. pc[p] = "purge.fold" /\ FoldCounters(p, "purge.drop")
    BY <1>3 DEF PurgeFold, At
  <2>2. QED
    BY <2>1, PurgeLabels, FoldInv
<1>4. CASE PurgeDrop(p)
  <2>1. pc[p] = "purge.drop" /\ DropOld(p, "purge.delete")
    BY <1>4 DEF PurgeDrop, At
  <2>2. QED
    BY <2>1, PurgeLabels, DropOldInv
<1>5. QED
  BY <1>1, <1>2, <1>3, <1>4

LEMMA PurgeDeleteInv ==
  ASSUME Inv, NEW p \in Threads, PurgeDelete(p)
  PROVE  Inv'
<1>0. LibTypes /\ DiskTypes /\ TallyTypes /\ loc[p] \in Locals
  BY ThreadFacts
<1>1. /\ pc[p] = "purge.delete" /\ DeleteData(loc[p].id, loc[p].t, loc[p].old)
      /\ Goto(p, "purge.readd") /\ UNCHANGED loc /\ UNCHANGED budget
      /\ UNCHANGED <<engineVars, guardVars, saveVars, mainVars, tk, hooks>>
      /\ UNCHANGED libVars /\ UNCHANGED <<session, metainfo>>
  BY DEF PurgeDelete, At
<1>2. loc[p].id \in Ids
  BY <1>0 DEF Locals
<1>3. DiskTypes' /\ LibTypes' /\ budget' \in Budget
  BY <1>0, <1>1, <1>2, DeleteTypes, SameTypes DEF TallyTypes
<1>4. QED
  BY <1>1, <1>3, PurgeLabels, StructLib

LEMMA PurgeReaddInv ==
  ASSUME Inv, NEW p \in Threads, PurgeReadd(p)
  PROVE  Inv'
<1>0. LibTypes /\ DiskTypes /\ loc[p] \in Locals
  BY ThreadFacts
<1>1. /\ pc[p] = "purge.readd" /\ UNCHANGED diskVars
      /\ UNCHANGED <<engineVars, guardVars, saveVars, mainVars, tk, hooks>>
      /\ \/ /\ AddTorrentSpec(loc[p].id, loc[p].old, TRUE)
            /\ SetLoc(p, [loc[p] EXCEPT !.ft = AddedInst(loc[p].id)])
            /\ Goto(p, "purge.swap") /\ UNCHANGED budget
         \/ Fault /\ Goto(p, "purge.failed") /\ UNCHANGED libVars /\ UNCHANGED loc
  BY DEF PurgeReadd, At
<1>2. loc[p].old \in Dirs
  BY <1>0 DEF Locals
<1>3. CASE /\ AddTorrentSpec(loc[p].id, loc[p].old, TRUE)
           /\ SetLoc(p, [loc[p] EXCEPT !.ft = AddedInst(loc[p].id)])
           /\ Goto(p, "purge.swap") /\ UNCHANGED budget
  BY <1>1, <1>2, <1>3, PurgeLabels, ReaddInv
<1>4. CASE Fault /\ Goto(p, "purge.failed") /\ UNCHANGED libVars /\ UNCHANGED loc
  <2>1. LibTypes' /\ DiskTypes' /\ budget' \in Budget
    BY <1>1, <1>4, SameTypes, FaultTypes
  <2>2. "purge.failed" \notin NeedsFresh
    BY PurgeLabels
  <2>3. QED
    BY <1>1, <1>4, <2>1, <2>2, PurgeLabels, StructLib
<1>5. QED
  BY <1>1, <1>3, <1>4

LEMMA PurgeSwapInv ==
  ASSUME Inv, NEW p \in Threads, PurgeSwap(p)
  PROVE  Inv'
<1> DEFINE l == [loc[p] EXCEPT !.t = NoInst]
           x == [tr[loc[p].o] EXCEPT !.t = loc[p].ft, !.holdData = FALSE]
<1>1. /\ pc[p] = "purge.swap" /\ SetTr(loc[p].o, x)
      /\ Moves(p, "flow.down", Decide(l, x, "purge.save"))
      /\ UNCHANGED <<torrents, nobj, opMu, checkWG, canceled>>
      /\ UNCHANGED <<libVars, guardVars, diskVars, saveVars, mainVars, tk, hooks>>
      /\ UNCHANGED budget
  BY DEF PurgeSwap, At, Moves, SetLoc, Goto
<1>2. /\ loc[p] \in Locals /\ loc[p].ft \in Insts /\ tr[loc[p].o] \in Tracked
  BY <1>1, StructAt, PurgeLabels
<1>3. x \in Tracked /\ x.t \in Insts
  <2>1. ASSUME NEW y \in Tracked, NEW t \in Insts
        PROVE  LET z == [y EXCEPT !.t = t, !.holdData = FALSE] IN z \in Tracked /\ z.t = t
    BY DEF Tracked
  <2>2. QED
    BY <1>2, <2>1
<1>4. /\ l \in Locals /\ l.t = NoInst /\ l.o = loc[p].o /\ l.op = loc[p].op
      /\ l.ret = loc[p].ret
  BY <1>2, ForgetFacts
<1> HIDE DEF l, x
<1>5. LocalOK(p, "purge.save", l, save[p].k, nobj)
  <2>1. "purge.save" \notin NeedsFresh
    BY PurgeLabels
  <2>2. QED
    BY <1>1, <1>4, <2>1, PurgeLabels, OpGoes
<1>6. /\ "flow.down" \in Places /\ Decide(l, x, "purge.save") \in Locals
      /\ LocalOK(p, "flow.down", Decide(l, x, "purge.save"), save[p].k, nobj)
  BY <1>3, <1>4, <1>5, PurgeLabels, DecidePlace
<1>7. /\ Decide(l, x, "purge.save").o = loc[p].o /\ Decide(l, x, "purge.save").t = NoInst
  BY <1>3, <1>4, PurgeLabels, DecideFacts
<1>8. pc[p] \in StructLabels /\ pc[p] # "op.lock"
  BY <1>1, PurgeLabels
<1>9. QED
  BY <1>1, <1>3, <1>6, <1>7, <1>8, StepSwap

LEMMA PurgeSaveInv ==
  ASSUME Inv, NEW p \in Threads, PurgeSave(p) \/ PurgeFailed(p)
  PROVE  Inv'
<1>0. /\ ThreadTypes /\ DiskTypes /\ MainTypes /\ TallyTypes /\ loc[p] \in Locals
  BY ThreadFacts
<1>1. CASE PurgeSave(p)
  <2>1. /\ pc[p] = "purge.save" /\ Persist(p, "end") /\ UNCHANGED loc
        /\ UNCHANGED <<engineVars, libVars, guardVars, saveMu, tk, hooks>>
        /\ UNCHANGED diskVars /\ UNCHANGED mainVars /\ UNCHANGED budget
    BY <1>1 DEF PurgeSave, At
  <2>2. SetLoc(p, loc[p])
    BY <1>0, <2>1 DEF SetLoc, ThreadTypes
  <2>3. DiskTypes' /\ MainTypes' /\ budget' \in Budget
    BY <1>0, <2>1, SameTypes DEF TallyTypes
  <2>4. Goes(p, "end", loc[p]) /\ LocalOK(p, "end", loc[p], save[p].k, nobj)
    BY <2>1, PurgeLabels, OpGoes
  <2>5. "end" \in SaveNext
    BY PurgeLabels
  <2>6. QED
    BY <1>0, <2>1, <2>2, <2>3, <2>4, <2>5, StepSave
<1>2. CASE PurgeFailed(p)
  <2> DEFINE l == [loc[p] EXCEPT !.t = NoInst]
             x == Failed(tr[loc[p].o])
  <2>1. /\ pc[p] = "purge.failed" /\ Persist(p, "end") /\ SetLoc(p, l)
        /\ SetTr(loc[p].o, x)
        /\ UNCHANGED <<torrents, nobj, opMu, checkWG, canceled, libVars, guardVars,
                       diskVars, saveMu, mainVars, tk, hooks, budget>>
    BY <1>2 DEF PurgeFailed, At
  <2>2. tr[loc[p].o] \in Tracked
    BY <2>1, StructAt, PurgeLabels
  <2>3. x \in Tracked /\ x.t = tr[loc[p].o].t /\ x.savePath = tr[loc[p].o].savePath
    BY <2>2, FailedTypes
  <2>4. /\ l \in Locals /\ l.t = NoInst /\ l.o = loc[p].o /\ l.op = loc[p].op
        /\ l.ret = loc[p].ret
    BY <1>0, ForgetFacts
  <2> HIDE DEF l, x
  <2>5. Goes(p, "end", l) /\ LocalOK(p, "end", l, save[p].k, nobj)
    BY <2>1, <2>4, PurgeLabels, OpGoes
  <2>6. "end" \in SaveNext
    BY PurgeLabels
  <2>7. QED
    BY <2>1, <2>3, <2>4, <2>5, <2>6, StepStructSave
<1>3. QED
  BY <1>1, <1>2

LEMMA PurgeInv ==
  ASSUME Inv, NEW p \in Threads, PurgeStep(p)
  PROVE  Inv'
  BY PurgeStartInv, PurgeDeleteInv, PurgeReaddInv, PurgeSwapInv, PurgeSaveInv
     DEF PurgeStep

-----------------------------------------------------------------------------
(* MoveStorage.                                                            *)

LEMMA MoveLabels ==
  LET M == {"move", "move.mkdir", "move.hold", "move.prios", "move.files",
            "move.fold", "move.drop", "move.readd", "move.lost",
            "move.failed", "move.reprio", "move.swap"} IN
  /\ M \subseteq StructLabels /\ "op.lock" \notin M
  /\ {"move.mkdir", "move.hold", "move.prios", "move.files", "move.fold",
      "move.drop"} \subseteq NeedsInst
  /\ NeedsInst \cap {"move.readd", "move.lost", "move.failed", "move.reprio",
                     "move.swap", "end", "check.add"} = {}
  /\ M \cap NeedsFresh = {"move.reprio", "move.swap"}
  /\ "move.prios" \in FlowNext /\ "end" \in FlowNext
  /\ "move.failed" \in SaveNext /\ "check.add" \notin NeedsFresh
  /\ "end" \notin NeedsFresh
  BY DEF StructLabels, NeedsInst, NeedsFresh, FlowNext, SaveNext

LEMMA MoveSharedInv ==
  ASSUME Inv, NEW p \in Threads,
         MoveRead(p) \/ MoveHold(p) \/ MoveFold(p) \/ MoveDrop(p)
  PROVE  Inv'
<1>1. CASE MoveRead(p)
  <2>1. pc[p] = "move" /\ StructRead(p, "move.mkdir")
    BY <1>1 DEF MoveRead, At
  <2>2. QED
    BY <2>1, MoveLabels, StructReadInv
<1>2. CASE MoveHold(p)
  <2>1. pc[p] = "move.hold" /\ StructHold(p, FALSE, "move.prios")
    BY <1>2 DEF MoveHold, At
  <2>2. QED
    BY <2>1, MoveLabels, StructHoldInv
<1>3. CASE MoveFold(p)
  <2>1. pc[p] = "move.fold" /\ FoldCounters(p, "move.drop")
    BY <1>3 DEF MoveFold, At
  <2>2. QED
    BY <2>1, MoveLabels, FoldInv
<1>4. CASE MoveDrop(p)
  <2>1. pc[p] = "move.drop" /\ DropOld(p, "move.readd")
    BY <1>4 DEF MoveDrop, At
  <2>2. QED
    BY <2>1, MoveLabels, DropOldInv
<1>5. QED
  BY <1>1, <1>2, <1>3, <1>4

LEMMA MoveMkdirInv ==
  ASSUME Inv, NEW p \in Threads, MoveMkdir(p)
  PROVE  Inv'
<1>0. LibTypes /\ DiskTypes /\ TallyTypes /\ loc[p] \in Locals
  BY ThreadFacts
<1>1. /\ pc[p] = "move.mkdir"
      /\ UNCHANGED <<engineVars, libVars, guardVars, diskVars, saveVars, mainVars, tk, hooks>>
      /\ \/ Goto(p, "move.hold") /\ UNCHANGED budget /\ UNCHANGED loc
         \/ Fault /\ Moves(p, "end", [loc[p] EXCEPT !.t = NoInst])
  BY DEF MoveMkdir, At, Moves, SetLoc, Goto
<1>2. CASE Goto(p, "move.hold") /\ UNCHANGED budget /\ UNCHANGED loc
  <2>1. loc[p].t \in Insts
    BY <1>1, StructAt, MoveLabels
  <2>2. loc[p].t # NoInst
    BY <2>1 DEF Insts, NoInst
  <2>3. LibTypes' /\ DiskTypes' /\ budget' \in Budget
    BY <1>0, <1>1, <1>2, SameTypes DEF TallyTypes
  <2>4. UNCHANGED <<engineVars, guardVars, saveVars, mainVars, tk, hooks>>
    BY <1>1
  <2>5. "move.hold" \notin NeedsFresh
    BY MoveLabels
  <2>6. QED
    BY <1>1, <1>2, <2>2, <2>3, <2>4, <2>5, MoveLabels, StructLib
<1>3. CASE Fault /\ Moves(p, "end", [loc[p] EXCEPT !.t = NoInst])
  <2> DEFINE l == [loc[p] EXCEPT !.t = NoInst]
  <2>1. /\ l \in Locals /\ l.t = NoInst /\ l.o = loc[p].o /\ l.op = loc[p].op
        /\ l.ret = loc[p].ret
    BY <1>0, ForgetFacts
  <2>2. Moves(p, "end", l)
    BY <1>3
  <2> HIDE DEF l
  <2>3. "end" \in Places /\ Goes(p, "end", l) /\ LocalOK(p, "end", l, save[p].k, nobj)
    BY <1>1, <2>1, MoveLabels, OpGoes
  <2>4. budget' \in Budget
    BY <1>3, FaultTypes
  <2>5. QED
    BY <1>1, <2>1, <2>2, <2>3, <2>4, StepMoves
<1>4. QED
  BY <1>1, <1>2, <1>3

LEMMA MovePriosInv ==
  ASSUME Inv, NEW p \in Threads, MovePrios(p)
  PROVE  Inv'
<1>0. LibTypes /\ DiskTypes /\ TallyTypes /\ loc[p] \in Locals
  BY ThreadFacts
<1> DEFINE q == [f \in Files |-> fromLibPriority(lib[loc[p].t].prio[f])]
           l == [loc[p] EXCEPT !.prios = q]
<1>1. /\ pc[p] = "move.prios" /\ Moves(p, "move.files", l)
      /\ UNCHANGED <<engineVars, libVars, guardVars, diskVars, saveVars, mainVars, tk, hooks>>
      /\ UNCHANGED budget
  BY DEF MovePrios, At, Moves, SetLoc, Goto
<1>2. q \in [Files -> Prios]
  BY DEF fromLibPriority, Prios
<1>3. loc[p].t \in Insts
  BY <1>1, StructAt, MoveLabels
<1> HIDE DEF q
<1>4. /\ l \in Locals /\ l.t = loc[p].t /\ l.o = loc[p].o /\ l.op = loc[p].op
      /\ l.ret = loc[p].ret /\ l.old = loc[p].old
  BY <1>0, <1>2 DEF Locals
<1>5. l.t # NoInst
  BY <1>3, <1>4 DEF Insts, NoInst
<1> HIDE DEF l
<1>6. /\ "move.files" \in Places /\ Goes(p, "move.files", l)
      /\ LocalOK(p, "move.files", l, save[p].k, nobj)
  <2>1. "move.files" \notin NeedsFresh /\ "move.files" # "op.lock"
    BY MoveLabels
  <2>2. QED
    BY <1>1, <1>4, <1>5, <2>1, MoveLabels, OpGoes
<1>7. budget' \in Budget
  BY <1>0, <1>1 DEF TallyTypes
<1>8. QED
  BY <1>1, <1>4, <1>6, <1>7, StepMoves

LEMMA MoveFilesInv ==
  ASSUME Inv, NEW p \in Threads, MoveFiles(p)
  PROVE  Inv'
<1>0. LibTypes /\ DiskTypes /\ TallyTypes /\ loc[p] \in Locals
  BY ThreadFacts
<1>1. loc[p].id \in Ids /\ loc[p].dir \in Dirs
  BY <1>0 DEF Locals
<1>2. /\ pc[p] = "move.files" /\ UNCHANGED loc /\ UNCHANGED libVars
      /\ UNCHANGED <<session, metainfo>>
      /\ UNCHANGED <<engineVars, guardVars, saveVars, mainVars, tk, hooks>>
      /\ \/ /\ data' = [data EXCEPT ![loc[p].id] =
                          IF loc[p].old \in @ THEN (@ \ {loc[p].old}) \cup {loc[p].dir} ELSE @]
            /\ Goto(p, "move.fold") /\ UNCHANGED budget
         \/ /\ Fault /\ Goto(p, "move.failed")
            /\ data' \in {data,
                 [data EXCEPT ![loc[p].id] =
                    IF loc[p].old \in @ THEN @ \cup {loc[p].dir} ELSE @],
                 [data EXCEPT ![loc[p].id] =
                    IF loc[p].old \in @ THEN (@ \ {loc[p].old}) \cup {loc[p].dir} ELSE @]}
  BY DEF MoveFiles, At
<1>3. data' \in [Ids -> SUBSET Dirs]
  BY <1>0, <1>1, <1>2 DEF DiskTypes
<1>4. LibTypes' /\ DiskTypes'
  BY <1>0, <1>2, <1>3, SameTypes DEF DiskTypes
<1>5. budget' \in Budget
  BY <1>0, <1>2, FaultTypes DEF TallyTypes
<1>6. loc[p].t \in Insts
  BY <1>2, StructAt, MoveLabels
<1>7. loc[p].t # NoInst
  BY <1>6 DEF Insts, NoInst
<1>8. ASSUME NEW c \in {"move.fold", "move.failed"}, Goto(p, c)
      PROVE  Inv'
  <2>1. c \in StructLabels /\ c # "op.lock" /\ c \notin NeedsFresh
    BY MoveLabels
  <2>2. QED
    BY <1>2, <1>4, <1>5, <1>7, <1>8, <2>1, MoveLabels, StructLib
<1>9. QED
  BY <1>2, <1>8

LEMMA MoveReaddInv ==
  ASSUME Inv, NEW p \in Threads, MoveReadd(p)
  PROVE  Inv'
<1>0. LibTypes /\ DiskTypes /\ loc[p] \in Locals
  BY ThreadFacts
<1>1. /\ pc[p] = "move.readd" /\ UNCHANGED diskVars
      /\ UNCHANGED <<engineVars, guardVars, saveVars, mainVars, tk, hooks>>
      /\ \/ /\ AddTorrentSpec(loc[p].id, loc[p].dir, TRUE)
            /\ SetLoc(p, [loc[p] EXCEPT !.ft = AddedInst(loc[p].id)])
            /\ Goto(p, "move.reprio") /\ UNCHANGED budget
         \/ Fault /\ Goto(p, "move.lost") /\ UNCHANGED libVars /\ UNCHANGED loc
  BY DEF MoveReadd, At
<1>2. loc[p].dir \in Dirs
  BY <1>0 DEF Locals
<1>3. CASE /\ AddTorrentSpec(loc[p].id, loc[p].dir, TRUE)
           /\ SetLoc(p, [loc[p] EXCEPT !.ft = AddedInst(loc[p].id)])
           /\ Goto(p, "move.reprio") /\ UNCHANGED budget
  BY <1>1, <1>2, <1>3, MoveLabels, ReaddInv
<1>4. CASE Fault /\ Goto(p, "move.lost") /\ UNCHANGED libVars /\ UNCHANGED loc
  <2>1. LibTypes' /\ DiskTypes' /\ budget' \in Budget
    BY <1>1, <1>4, SameTypes, FaultTypes
  <2>2. "move.lost" \notin NeedsFresh
    BY MoveLabels
  <2>3. QED
    BY <1>1, <1>4, <2>1, <2>2, MoveLabels, StructLib
<1>5. QED
  BY <1>1, <1>3, <1>4

LEMMA MoveLostInv ==
  ASSUME Inv, NEW p \in Threads, MoveLost(p)
  PROVE  Inv'
<1>0. LibTypes /\ DiskTypes /\ TallyTypes /\ loc[p] \in Locals
  BY ThreadFacts
<1> DEFINE l == [loc[p] EXCEPT !.t = NoInst]
           x == [tr[loc[p].o] EXCEPT !.savePath = loc[p].dir]
<1>1. /\ pc[p] = "move.lost" /\ SetTr(loc[p].o, x) /\ SetLoc(p, l)
      /\ Persist(p, "move.failed") /\ UNCHANGED saveMu
      /\ UNCHANGED <<torrents, nobj, opMu, checkWG, canceled>>
      /\ UNCHANGED libVars /\ UNCHANGED guardVars /\ UNCHANGED diskVars
      /\ UNCHANGED mainVars /\ UNCHANGED <<tk, hooks>> /\ UNCHANGED budget
  BY DEF MoveLost, At
<1>2. /\ pc[p] \in StructLabels /\ pc[p] # "op.lock"
      /\ tr[loc[p].o] \in Tracked /\ tr[loc[p].o].t \in Insts
  BY <1>1, StructAt, MoveLabels
<1>3. x \in Tracked /\ x.t \in Insts
  <2>1. ASSUME NEW y \in Tracked, NEW d \in Dirs
        PROVE  LET z == [y EXCEPT !.savePath = d] IN z \in Tracked /\ z.t = y.t
    BY DEF Tracked
  <2>2. loc[p].dir \in Dirs
    BY <1>0 DEF Locals
  <2>3. QED
    BY <1>2, <2>1, <2>2
<1>4. /\ l \in Locals /\ l.t = NoInst /\ l.o = loc[p].o /\ l.op = loc[p].op
      /\ l.ret = loc[p].ret
  BY <1>0, ForgetFacts
<1> HIDE DEF l, x
<1>5. Kept(p) /\ EngineTypes' /\ opMu'[loc[p].o] = p
  BY <1>1, <1>2, <1>3, SwapKept
<1>6. LocalOK(p, "move.failed", l, save[p].k, nobj') /\ "move.failed" \in SaveNext
  <2>1. "move.failed" \notin NeedsFresh /\ nobj' = nobj /\ "move.failed" # "op.lock"
    BY <1>1, MoveLabels
  <2>2. LocalOK(p, "move.failed", l, save[p].k, nobj)
    BY <1>2, <1>4, <2>1, MoveLabels, OpGoes
  <2>3. QED
    BY <2>1, <2>2, MoveLabels
<1>7. OwnsOK(p, "move.failed", l)
  BY <1>4, <1>5 DEF OwnsOK
<1>8. budget' \in Budget
  BY <1>0, <1>1 DEF TallyTypes
<1>9. LibTypes' /\ GuardTypes' /\ DiskTypes' /\ MainTypes' /\ TallyTypes'
  BY <1>1, <1>8, SameTypes
<1>10. QED
  BY <1>1, <1>4, <1>5, <1>6, <1>7, <1>9, StepPersist

LEMMA MoveFailedInv ==
  ASSUME Inv, NEW p \in Threads, MoveFailed(p)
  PROVE  Inv'
<1> DEFINE l == [loc[p] EXCEPT !.t = NoInst]
           x == Failed(tr[loc[p].o])
<1>1. /\ pc[p] = "move.failed" /\ SetTr(loc[p].o, x)
      /\ Moves(p, "flow.down", Decide(l, x, "end"))
      /\ UNCHANGED <<torrents, nobj, opMu, checkWG>> /\ UNCHANGED canceled
      /\ UNCHANGED <<libVars, guardVars, diskVars, saveVars, mainVars, tk, hooks>>
      /\ UNCHANGED budget
  BY DEF MoveFailed, At, Moves, SetLoc, Goto
<1>2. /\ loc[p] \in Locals /\ loc[p].o # NoObj /\ tr[loc[p].o] \in Tracked
  BY <1>1, StructAt, MoveLabels
<1>3. x \in Tracked /\ x.t = tr[loc[p].o].t /\ x.savePath = tr[loc[p].o].savePath
  BY <1>2, FailedTypes
<1>4. /\ l \in Locals /\ l.t = NoInst /\ l.o = loc[p].o /\ l.op = loc[p].op
      /\ l.ret = loc[p].ret
  BY <1>2, ForgetFacts
<1> HIDE DEF l, x
<1>5. LocalOK(p, "end", l, save[p].k, nobj) /\ "end" \in FlowNext
  BY <1>1, <1>4, MoveLabels, OpGoes
<1>6. canceled' \in [Checkers -> BOOLEAN] /\ pc[p] # "op.lock"
  BY <1>1 DEF Inv, TypeOK, EngineTypes
<1>7. QED
  BY <1>1, <1>2, <1>3, <1>4, <1>5, <1>6, StepFlow

LEMMA MoveReprioInv ==
  ASSUME Inv, NEW p \in Threads, MoveReprio(p)
  PROVE  Inv'
<1>0. LibTypes /\ DiskTypes /\ TallyTypes
  BY ThreadFacts
<1> DEFINE q == [f \in Files |-> toLibPriority(loc[p].prios[f])]
<1>1. /\ pc[p] = "move.reprio" /\ SetPrio(loc[p].ft, q) /\ Goto(p, "move.swap")
      /\ UNCHANGED <<ninst, client>> /\ UNCHANGED loc /\ UNCHANGED diskVars
      /\ UNCHANGED <<engineVars, guardVars, saveVars, mainVars, tk, hooks>>
      /\ UNCHANGED budget
  BY DEF MoveReprio, At
<1>2. q \in [Files -> LibPrios]
  BY DEF toLibPriority, LibPrios
<1> HIDE DEF q
<1>3. LibTypes' /\ DiskTypes' /\ budget' \in Budget
  BY <1>0, <1>1, <1>2, PrioTypes, SameTypes DEF TallyTypes
<1>4. loc[p].ft \in Insts
  BY <1>1, StructAt, MoveLabels
<1>5. loc[p].ft # NoInst
  BY <1>4 DEF Insts, NoInst
<1>6. QED
  BY <1>1, <1>3, <1>5, MoveLabels, StructLib

LEMMA MoveSwapInv ==
  ASSUME Inv, NEW p \in Threads, MoveSwap(p)
  PROVE  Inv'
<1> DEFINE l == [loc[p] EXCEPT !.t = NoInst]
           x == [tr[loc[p].o] EXCEPT !.t = loc[p].ft, !.savePath = loc[p].dir]
<1>1. /\ pc[p] = "move.swap" /\ SetTr(loc[p].o, x) /\ Moves(p, "check.add", l)
      /\ UNCHANGED <<torrents, nobj, opMu, checkWG, canceled>>
      /\ UNCHANGED <<libVars, guardVars, diskVars, saveVars, mainVars, tk, hooks>>
      /\ UNCHANGED budget
  BY DEF MoveSwap, At, Moves, SetLoc, Goto
<1>2. /\ loc[p] \in Locals /\ loc[p].ft \in Insts /\ tr[loc[p].o] \in Tracked
  BY <1>1, StructAt, MoveLabels
<1>3. x \in Tracked /\ x.t \in Insts
  <2>1. ASSUME NEW y \in Tracked, NEW t \in Insts, NEW d \in Dirs
        PROVE  [y EXCEPT !.t = t, !.savePath = d] \in Tracked
    BY DEF Tracked
  <2>2. loc[p].dir \in Dirs
    BY <1>2 DEF Locals
  <2>3. x \in Tracked
    BY <1>2, <2>1, <2>2
  <2>4. x.t = loc[p].ft
    BY <1>2 DEF Tracked
  <2>5. QED
    BY <1>2, <2>3, <2>4
<1>4. /\ l \in Locals /\ l.t = NoInst /\ l.o = loc[p].o /\ l.op = loc[p].op
      /\ l.ret = loc[p].ret
  BY <1>2, ForgetFacts
<1> HIDE DEF l, x
<1>5. "check.add" \in Places /\ LocalOK(p, "check.add", l, save[p].k, nobj)
  BY <1>1, <1>4, MoveLabels, OpGoes
<1>6. pc[p] \in StructLabels /\ pc[p] # "op.lock"
  BY <1>1, MoveLabels
<1>7. QED
  BY <1>1, <1>3, <1>4, <1>5, <1>6, StepSwap

LEMMA MoveInv ==
  ASSUME Inv, NEW p \in Threads, MoveStep(p)
  PROVE  Inv'
  BY MoveSharedInv, MoveMkdirInv, MovePriosInv, MoveFilesInv, MoveReaddInv,
     MoveLostInv, MoveFailedInv, MoveReprioInv, MoveSwapInv DEF MoveStep

LEMMA StructInv ==
  ASSUME Inv, NEW p \in Threads, StructStep(p)
  PROVE  Inv'
  BY BeginCheckAddInv, BeginCheckInv, LockOpInv, QuiesceInv, RemoveInv, PurgeInv,
     MoveInv DEF StructStep

-----------------------------------------------------------------------------
(* The tick loop and the main goroutine: threads without an operation.     *)

LEMMA OtherFrame ==
  ASSUME Inv, NEW p \in Threads, NEW c \in OtherLabels, NEW l \in Locals,
         Moves(p, c, l), l.op = "", l.o <= nobj, c \in NeedsObj => l.o # NoObj,
         c \in NeedsInst => l.t # NoInst, l.ret = "stream.prio" => l.t # NoInst,
         Typed, Kept(p), UNCHANGED nobj,
         \A q \in Threads : q # p => save'[q].k = save[q].k
  PROVE  Inv'
<1>1. c \in Places /\ LocalOK(p, c, l, save'[p].k, nobj)
  BY OtherPlace
<1>2. OwnsOK(p, c, l)
  BY DEF OwnsOK
<1>3. QED
  BY <1>1, <1>2, FrameMoves

LEMMA OtherGoto ==
  ASSUME Inv, NEW p \in Threads, pc[p] \in OtherLabels \ {"check.add", "check.begin", "end"},
         NEW c \in OtherLabels, c \notin NeedsObj, c \notin NeedsInst,
         Goto(p, c), UNCHANGED loc, Typed, Kept(p), UNCHANGED nobj,
         \A q \in Threads : q # p => save'[q].k = save[q].k
  PROVE  Inv'
<1>1. /\ loc[p] \in Locals /\ loc[p].op = "" /\ loc[p].o <= nobj
      /\ loc[p].ret = "stream.prio" => loc[p].t # NoInst
  BY OtherAt
<1>2. Moves(p, c, loc[p])
  BY ThreadFacts, GotoMoves
<1>3. QED
  BY <1>1, <1>2, OtherFrame

LEMMA MainThreads == Tick \in Threads /\ Main \in Threads /\ Tick # Main
  BY ThreadsAssumption DEF Threads, Callers

LEMMA TickLabels ==
  LET T == {"tick", "tick.disk", "tick.decide", "tick.apply", "tick.stop", "tick.hook"} IN
  /\ T \subseteq OtherLabels \ {"check.add", "check.begin", "end"}
  /\ T \cap NeedsObj = {} /\ T \cap NeedsInst = {}
  /\ "tick.apply" \in SaveNext /\ "tick.apply" \in FlowNext
  /\ "pause.set" \in OtherLabels /\ "pause.set" \notin NeedsInst
  BY DEF OtherLabels, NeedsObj, NeedsInst, StructLabels, SaveNext, FlowNext

LEMMA TickStartInv ==
  ASSUME Inv, TickStart \/ TickDisk
  PROVE  Inv'
<1>0. GuardTypes /\ TallyTypes
  BY MainThreads, ThreadFacts
<1>1. /\ UNCHANGED engineVars /\ UNCHANGED libVars /\ UNCHANGED diskVars
      /\ UNCHANGED saveVars /\ UNCHANGED mainVars /\ UNCHANGED loc
      /\ UNCHANGED <<tk, hooks>>
      /\ \/ /\ pc[Tick] = "tick" /\ Goto(Tick, "tick.disk") /\ UNCHANGED lowDisk
            /\ budget' = [budget EXCEPT !.ticks = @ - TickCost]
            /\ blocked' \in IF RequireVPN THEN BOOLEAN ELSE {FALSE}
         \/ /\ pc[Tick] = "tick.disk" /\ Goto(Tick, "tick.decide")
            /\ UNCHANGED blocked /\ UNCHANGED budget
            /\ lowDisk' \in IF MinFreeSpace THEN BOOLEAN ELSE {FALSE}
  BY DEF TickStart, TickDisk, At
<1>2. budget' \in Budget
  BY <1>0, <1>1, BudgetTypes DEF TallyTypes
<1>3. GuardTypes'
  BY <1>0, <1>1 DEF GuardTypes
<1>4. Typed
  BY <1>1, <1>2, <1>3, SameTypes DEF Typed
<1>5. Kept(Tick) /\ UNCHANGED nobj /\ UNCHANGED save
  BY <1>1, KeptUnchanged DEF engineVars, saveVars
<1>6. ASSUME NEW c \in {"tick.disk", "tick.decide"}, Goto(Tick, c),
             pc[Tick] \in {"tick", "tick.disk"}
      PROVE  Inv'
  <2>1. /\ c \in OtherLabels /\ c \notin NeedsObj /\ c \notin NeedsInst
        /\ pc[Tick] \in OtherLabels \ {"check.add", "check.begin", "end"}
    BY <1>6, TickLabels
  <2>2. QED
    BY <1>1, <1>4, <1>5, <1>6, <2>1, MainThreads, OtherGoto
<1>7. QED
  BY <1>1, <1>6

(* The tick's critical section keeps every struct's instance.              *)
LEMMA TickDecideInv ==
  ASSUME Inv, TickDecide
  PROVE  Inv'
<1>0. EngineTypes /\ ThreadTypes /\ TallyTypes /\ StructsOK /\ SaveTypes /\ nobj \in Int
  BY MainThreads, ThreadFacts
<1>1. PICK down \in [TrackedIds -> Rates], up \in [TrackedIds -> Rates],
           stop \in SUBSET {i \in TrackedIds : MayReachLimit(tr[torrents[i]])} :
       LET rated(i) == [tr[torrents[i]] EXCEPT !.lastDownBPS = down[i], !.lastUpBPS = up[i]]
           finished == {i \in TrackedIds : Complete(tr[torrents[i]].t)}
           started  == {i \in finished : ~tr[torrents[i]].completedAt}
           ticked(i) == [rated(i) EXCEPT !.completeLogged = @ \/ i \in finished,
                                         !.completedAt = @ \/ i \in finished]
       IN /\ tr' = [o \in Objs |->
                      IF \E i \in TrackedIds : torrents[i] = o
                      THEN ticked(CHOOSE i \in TrackedIds : torrents[i] = o)
                      ELSE tr[o]]
          /\ tk' = [flows |-> {[ft |-> rated(i).t, down |-> DownFlow(rated(i), Guarded),
                                up |-> UpFlow(rated(i), Guarded)] : i \in TrackedIds},
                    stop  |-> stop,
                    done  |-> {i \in finished : ~tr[torrents[i]].completeLogged}]
          /\ IF started # {}
             THEN Persist(Tick, "tick.apply")
             ELSE Goto(Tick, "tick.apply") /\ UNCHANGED save
  BY DEF TickDecide
<1> DEFINE rated(i) == [tr[torrents[i]] EXCEPT !.lastDownBPS = down[i], !.lastUpBPS = up[i]]
           finished == {i \in TrackedIds : Complete(tr[torrents[i]].t)}
           ticked(i) == [rated(i) EXCEPT !.completeLogged = @ \/ i \in finished,
                                         !.completedAt = @ \/ i \in finished]
<1>2. /\ tr' = [o \in Objs |->
                  IF \E i \in TrackedIds : torrents[i] = o
                  THEN ticked(CHOOSE i \in TrackedIds : torrents[i] = o)
                  ELSE tr[o]]
      /\ tk' = [flows |-> {[ft |-> rated(i).t, down |-> DownFlow(rated(i), Guarded),
                            up |-> UpFlow(rated(i), Guarded)] : i \in TrackedIds},
                stop  |-> stop,
                done  |-> {i \in finished : ~tr[torrents[i]].completeLogged}]
      /\ Persist(Tick, "tick.apply") \/ (Goto(Tick, "tick.apply") /\ UNCHANGED save)
  BY <1>1, Zenon
<1>3. /\ pc[Tick] = "tick.decide" /\ UNCHANGED loc /\ UNCHANGED saveMu
      /\ UNCHANGED torrents /\ UNCHANGED nobj /\ UNCHANGED opMu
      /\ UNCHANGED checkWG /\ UNCHANGED canceled
      /\ UNCHANGED libVars /\ UNCHANGED guardVars /\ UNCHANGED diskVars
      /\ UNCHANGED mainVars /\ UNCHANGED hooks /\ UNCHANGED budget
  BY DEF TickDecide, At
<1>4. ASSUME NEW i \in TrackedIds
      PROVE  /\ i \in Ids /\ torrents[i] \in Objs /\ tr[torrents[i]] \in Tracked
             /\ tr[torrents[i]].t \in Insts
             /\ rated(i) \in Tracked /\ rated(i).t = tr[torrents[i]].t
             /\ ticked(i) \in Tracked /\ ticked(i).t = tr[torrents[i]].t
             /\ ticked(i).savePath = tr[torrents[i]].savePath
  <2>1. /\ i \in Ids /\ torrents[i] \in Objs /\ tr[torrents[i]] \in Tracked
        /\ tr[torrents[i]].t \in Insts
    BY ObjFor DEF TrackedIds
  <2>2. down[i] \in Rates /\ up[i] \in Rates
    OBVIOUS
  <2>3. ASSUME NEW y \in Tracked, NEW r \in Rates, NEW s \in Rates
        PROVE  LET z == [y EXCEPT !.lastDownBPS = r, !.lastUpBPS = s] IN
               z \in Tracked /\ z.t = y.t /\ z.savePath = y.savePath
    BY DEF Tracked
  <2>4. ASSUME NEW y \in Tracked, NEW b
        PROVE  LET z == [y EXCEPT !.completeLogged = @ \/ b, !.completedAt = @ \/ b] IN
               z \in Tracked /\ z.t = y.t /\ z.savePath = y.savePath
    <3>1. (y.completeLogged \/ b) \in BOOLEAN /\ (y.completedAt \/ b) \in BOOLEAN
      OBVIOUS
    <3>2. ASSUME NEW c \in BOOLEAN, NEW d \in BOOLEAN
          PROVE  [y EXCEPT !.completeLogged = c, !.completedAt = d] \in Tracked
      BY DEF Tracked
    <3>3. [y EXCEPT !.completeLogged = @ \/ b, !.completedAt = @ \/ b] \in Tracked
      BY <3>1, <3>2
    <3>4. QED
      BY <3>3 DEF Tracked
  <2>5. /\ rated(i) \in Tracked /\ rated(i).t = tr[torrents[i]].t
        /\ rated(i).savePath = tr[torrents[i]].savePath
    <3>1. rated(i) \in Tracked
      BY <2>1, <2>2, <2>3
    <3>2. rated(i).t = tr[torrents[i]].t /\ rated(i).savePath = tr[torrents[i]].savePath
      BY <2>1 DEF Tracked
    <3>3. QED
      BY <3>1, <3>2
  <2> HIDE DEF rated, finished
  <2>6. /\ ticked(i) \in Tracked /\ ticked(i).t = rated(i).t
        /\ ticked(i).savePath = rated(i).savePath
    BY <2>4, <2>5
  <2>7. QED
    BY <2>1, <2>5, <2>6
<1> HIDE DEF rated, ticked, finished
<1>5. ASSUME NEW o \in Objs
      PROVE  tr'[o] \in Tracked /\ tr'[o].t = tr[o].t /\ tr'[o].savePath = tr[o].savePath
  <2>1. CASE \E i \in TrackedIds : torrents[i] = o
    <3>1. PICK i \in TrackedIds : torrents[i] = o /\ tr'[o] = ticked(i)
      BY <1>2, <2>1
    <3>2. QED
      BY <1>4, <3>1
  <2>2. CASE ~\E i \in TrackedIds : torrents[i] = o
    BY <1>0, <1>2, <2>2 DEF EngineTypes
  <2>3. QED
    BY <2>1, <2>2
<1>6. tr' \in [Objs -> Tracked]
  <2>1. DOMAIN tr' = Objs /\ tr' = [o \in Objs |-> tr'[o]]
    BY <1>2
  <2>2. QED
    BY <1>5, <2>1
<1>7. EngineTypes'
  BY <1>0, <1>3, <1>6 DEF EngineTypes
<1>8. Kept(Tick)
  <2>1. StructsOK'
    BY <1>0, <1>3, <1>5 DEF StructsOK
  <2>2. InstancesKept(Tick)
    BY <1>5 DEF InstancesKept
  <2>3. MutexKept(Tick) /\ nobj <= nobj'
    BY <1>0, <1>3 DEF MutexKept
  <2>4. QED
    BY <2>1, <2>2, <2>3 DEF Kept
<1>9. tk' \in Ticking
  <2>1. ASSUME NEW i \in TrackedIds
        PROVE  [ft |-> rated(i).t, down |-> DownFlow(rated(i), Guarded),
                up |-> UpFlow(rated(i), Guarded)]
                 \in [ft: Insts, down: BOOLEAN, up: BOOLEAN]
    <3>1. DownFlow(rated(i), Guarded) \in BOOLEAN /\ UpFlow(rated(i), Guarded) \in BOOLEAN
      BY DEF DownFlow, UpFlow
    <3>2. rated(i).t \in Insts
      BY <1>4
    <3>3. QED
      BY <3>1, <3>2
  <2>2. {[ft |-> rated(i).t, down |-> DownFlow(rated(i), Guarded),
          up |-> UpFlow(rated(i), Guarded)] : i \in TrackedIds}
          \in SUBSET [ft: Insts, down: BOOLEAN, up: BOOLEAN]
    BY <2>1
  <2>3. /\ stop \in SUBSET Ids
        /\ {i \in finished : ~tr[torrents[i]].completeLogged} \in SUBSET Ids
    BY DEF TrackedIds, finished
  <2>4. ASSUME NEW a \in SUBSET [ft: Insts, down: BOOLEAN, up: BOOLEAN],
               NEW b \in SUBSET Ids, NEW c \in SUBSET Ids
        PROVE  [flows |-> a, stop |-> b, done |-> c] \in Ticking
    BY DEF Ticking
  <2>5. QED
    BY <1>2, <2>2, <2>3, <2>4, Zenon
<1>10. /\ LibTypes' /\ GuardTypes' /\ DiskTypes' /\ MainTypes' /\ TallyTypes'
  BY <1>0, <1>3, <1>9, SameTypes DEF TallyTypes
<1>11. /\ loc[Tick] \in Locals /\ loc[Tick].op = "" /\ loc[Tick].o <= nobj
       /\ loc[Tick].ret = "stream.prio" => loc[Tick].t # NoInst
  BY <1>3, MainThreads, TickLabels, OtherAt
<1>12. CASE Persist(Tick, "tick.apply")
  <2>1. LocalOK(Tick, "tick.apply", loc[Tick], save[Tick].k, nobj')
    BY <1>3, <1>11, TickLabels, OtherPlace
  <2>2. SetLoc(Tick, loc[Tick])
    BY <1>0, <1>3, MainThreads DEF SetLoc, ThreadTypes
  <2>3. OwnsOK(Tick, "tick.apply", loc[Tick])
    BY <1>11 DEF OwnsOK
  <2>4. QED
    BY <1>3, <1>7, <1>8, <1>10, <1>11, <1>12, <2>1, <2>2, <2>3, MainThreads,
       TickLabels, StepPersist
<1>13. CASE Goto(Tick, "tick.apply") /\ UNCHANGED save
  <2>1. SaveTypes'
    BY <1>0, <1>3, <1>13 DEF SaveTypes
  <2>2. Typed
    BY <1>7, <1>10, <2>1 DEF Typed
  <2>3. QED
    BY <1>3, <1>8, <1>13, <2>2, MainThreads, TickLabels, OtherGoto
<1>14. QED
  BY <1>2, <1>12, <1>13

LEMMA TickApplyInv ==
  ASSUME Inv, TickApply
  PROVE  Inv'
<1>0. TallyTypes /\ ThreadTypes
  BY MainThreads, ThreadFacts
<1>1. /\ pc[Tick] = "tick.apply"
      /\ UNCHANGED engineVars /\ UNCHANGED libVars /\ UNCHANGED guardVars
      /\ UNCHANGED diskVars /\ UNCHANGED saveVars /\ UNCHANGED mainVars
      /\ UNCHANGED hooks /\ UNCHANGED budget
  BY DEF TickApply, At
<1>2. /\ loc[Tick] \in Locals /\ loc[Tick].op = "" /\ loc[Tick].o <= nobj
      /\ loc[Tick].ret = "stream.prio" => loc[Tick].t # NoInst
  BY <1>1, MainThreads, TickLabels, OtherAt
<1>3. Kept(Tick) /\ UNCHANGED nobj /\ UNCHANGED save
  BY <1>1, KeptUnchanged DEF engineVars, saveVars
<1>4. CASE /\ tk.flows = {} /\ Goto(Tick, "tick.stop") /\ UNCHANGED tk /\ UNCHANGED loc
  <2>1. budget' \in Budget /\ UNCHANGED <<tk, hooks>>
    BY <1>0, <1>1, <1>4 DEF TallyTypes
  <2>2. Typed
    BY <1>1, <2>1, SameTypes DEF Typed
  <2>3. QED
    BY <1>1, <1>3, <1>4, <2>2, MainThreads, TickLabels, OtherGoto
<1>5. ASSUME NEW f \in tk.flows,
             tk' = [tk EXCEPT !.flows = @ \ {f}],
             SetLoc(Tick, [loc[Tick] EXCEPT !.ft = f.ft, !.down = f.down,
                                            !.up = f.up, !.fk = "tick.apply"]),
             Goto(Tick, "flow.down")
      PROVE  Inv'
  <2>1. tk' \in Ticking
    BY <1>0, <1>5 DEF TallyTypes, Ticking
  <2>2. f.ft \in Insts /\ f.down \in BOOLEAN /\ f.up \in BOOLEAN
    BY <1>0 DEF TallyTypes, Ticking
  <2>3. TallyTypes'
    BY <1>0, <1>1, <2>1 DEF TallyTypes
  <2>4. Typed
    BY <1>1, <2>3, SameTypes DEF Typed
  <2> DEFINE l == [loc[Tick] EXCEPT !.ft = f.ft, !.down = f.down, !.up = f.up,
                                    !.fk = "tick.apply"]
  <2>5. /\ l \in Locals /\ l.op = "" /\ l.o = loc[Tick].o /\ l.ret = loc[Tick].ret
        /\ l.t = loc[Tick].t /\ l.fk = "tick.apply" /\ l.ft = f.ft
    <3>1. "tick.apply" \in FlowNext
      BY TickLabels
    <3>2. f.ft \in Insts \cup {NoInst} /\ "tick.apply" \in FlowNext \cup {""}
      BY <2>2, <3>1
    <3>3. l \in Locals
      BY <1>2, <2>2, <3>2 DEF Locals
    <3>4. QED
      BY <1>2, <3>3 DEF Locals
  <2>6. Moves(Tick, "flow.down", l)
    BY <1>5 DEF Moves, SetLoc, Goto
  <2> HIDE DEF l
  <2>7. LocalOK(Tick, "tick.apply", l, save[Tick].k, nobj)
    BY <1>2, <2>5, TickLabels, OtherPlace
  <2>8. "flow.down" \in Places /\ LocalOK(Tick, "flow.down", l, save'[Tick].k, nobj)
    BY <2>2, <2>5, <2>7, TickLabels, FlowPlace
  <2>9. OwnsOK(Tick, "flow.down", l)
    BY <2>5 DEF OwnsOK
  <2>10. QED
    BY <1>3, <2>4, <2>5, <2>6, <2>8, <2>9, MainThreads, FrameMoves
<1>6. QED
  BY <1>4, <1>5 DEF TickApply

LEMMA TickStopInv ==
  ASSUME Inv, TickStop
  PROVE  Inv'
<1>0. TallyTypes /\ ThreadTypes
  BY MainThreads, ThreadFacts
<1>1. /\ pc[Tick] = "tick.stop"
      /\ UNCHANGED engineVars /\ UNCHANGED libVars /\ UNCHANGED guardVars
      /\ UNCHANGED diskVars /\ UNCHANGED saveVars /\ UNCHANGED mainVars
      /\ UNCHANGED hooks /\ UNCHANGED budget
  BY DEF TickStop, At
<1>2. /\ loc[Tick] \in Locals /\ loc[Tick].op = "" /\ loc[Tick].o <= nobj
      /\ loc[Tick].ret = "stream.prio" => loc[Tick].t # NoInst
  BY <1>1, MainThreads, TickLabels, OtherAt
<1>3. Kept(Tick) /\ UNCHANGED nobj /\ UNCHANGED save
  BY <1>1, KeptUnchanged DEF engineVars, saveVars
<1>4. CASE /\ tk.stop = {} /\ Goto(Tick, "tick.hook") /\ SetLoc(Tick, Loc0) /\ UNCHANGED tk
  <2>1. budget' \in Budget /\ UNCHANGED <<tk, hooks>>
    BY <1>0, <1>1, <1>4 DEF TallyTypes
  <2>2. Typed
    BY <1>1, <2>1, SameTypes DEF Typed
  <2>3. Moves(Tick, "tick.hook", Loc0)
    BY <1>4 DEF Moves, SetLoc, Goto
  <2>4. Loc0.o <= nobj
    BY NullNobj
  <2>5. QED
    BY <1>3, <2>2, <2>3, <2>4, MainThreads, TickLabels, NullTypes, OtherFrame
<1>5. ASSUME NEW i \in tk.stop, tk' = [tk EXCEPT !.stop = @ \ {i}]
      PROVE  Typed /\ i \in Ids
  <2>1. tk' \in Ticking /\ i \in Ids
    BY <1>0, <1>5 DEF TallyTypes, Ticking
  <2>2. TallyTypes'
    BY <1>0, <1>1, <2>1 DEF TallyTypes
  <2>3. QED
    BY <1>1, <2>1, <2>2, SameTypes DEF Typed
<1>6. ASSUME NEW i \in tk.stop, tk' = [tk EXCEPT !.stop = @ \ {i}], UNCHANGED <<pc, loc>>
      PROVE  Inv'
  <2>1. Goto(Tick, "tick.stop") /\ UNCHANGED loc
    BY <1>0, <1>1, <1>6, MainThreads DEF Goto, ThreadTypes
  <2>2. QED
    BY <1>1, <1>3, <1>5, <1>6, <2>1, MainThreads, TickLabels, OtherGoto
<1>7. ASSUME NEW i \in tk.stop, tk' = [tk EXCEPT !.stop = @ \ {i}], torrents[i] # NoObj,
             SetLoc(Tick, [Found(i) EXCEPT !.flag = TRUE, !.ret = "tick.stop"]),
             Goto(Tick, "pause.set")
      PROVE  Inv'
  <2>1. Typed /\ i \in Ids
    BY <1>5, <1>7
  <2>2. /\ Found(i) \in Locals /\ Found(i).o <= nobj /\ Found(i).o # NoObj
        /\ Found(i).op = ""
    BY <1>7, <2>1, FoundFacts
  <2> DEFINE l == [Found(i) EXCEPT !.flag = TRUE, !.ret = "tick.stop"]
  <2>3. l \in Locals /\ l.o = Found(i).o /\ l.op = "" /\ l.ret = "tick.stop"
    <3>1. ASSUME NEW m \in Locals
          PROVE  LET z == [m EXCEPT !.flag = TRUE, !.ret = "tick.stop"] IN
                 z \in Locals /\ z.o = m.o /\ z.op = m.op /\ z.ret = "tick.stop"
      BY DEF Locals, RetNext
    <3>2. QED
      BY <2>2, <3>1
  <2>4. Moves(Tick, "pause.set", l)
    BY <1>7 DEF Moves, SetLoc, Goto
  <2> HIDE DEF l
  <2>5. QED
    BY <1>3, <2>1, <2>2, <2>3, <2>4, MainThreads, TickLabels, OtherFrame
<1>8. QED
  BY <1>4, <1>6, <1>7 DEF TickStop

LEMMA TickHookInv ==
  ASSUME Inv, TickHook
  PROVE  Inv'
<1>0. TallyTypes /\ ThreadTypes
  BY MainThreads, ThreadFacts
<1>1. /\ pc[Tick] = "tick.hook" /\ Goto(Tick, "tick") /\ UNCHANGED loc
      /\ UNCHANGED engineVars /\ UNCHANGED libVars /\ UNCHANGED guardVars
      /\ UNCHANGED diskVars /\ UNCHANGED saveVars /\ UNCHANGED mainVars
      /\ hooks' = [i \in Ids |-> IF i \in tk.done THEN hooks[i] + 1 ELSE hooks[i]]
      /\ tk' = Tk0 /\ UNCHANGED budget
  BY DEF TickHook, At
<1>2. hooks' \in [Ids -> Nat]
  BY <1>0, <1>1 DEF TallyTypes
<1>3. TallyTypes'
  BY <1>0, <1>1, <1>2, NullTypes DEF TallyTypes
<1>4. Typed
  BY <1>1, <1>3, SameTypes DEF Typed
<1>5. Kept(Tick) /\ UNCHANGED nobj /\ UNCHANGED save
  BY <1>1, KeptUnchanged DEF engineVars, saveVars
<1>6. QED
  BY <1>1, <1>4, <1>5, MainThreads, TickLabels, OtherGoto

LEMMA TickInv ==
  ASSUME Inv, TickStep
  PROVE  Inv'
  BY TickStartInv, TickDecideInv, TickApplyInv, TickStopInv, TickHookInv DEF TickStep

-----------------------------------------------------------------------------
(* RestoreSession.                                                         *)

LEMMA RestoreLabels ==
  LET R == {"new", "restore.read", "restore.next", "restore.limits",
            "restore.prios", "restore.final", "up", "close.cancel",
            "close.wait", "add.spec"} IN
  /\ R \subseteq OtherLabels \ {"check.add", "check.begin", "end"}
  /\ R \cap NeedsObj = {} /\ R \cap NeedsInst = {}
  /\ "up" \in SaveNext /\ "close.cancel" \in SaveNext
  /\ "prio.set" \in OtherLabels /\ "prio.set" \notin NeedsInst
  BY DEF OtherLabels, NeedsObj, NeedsInst, StructLabels, SaveNext

LEMMA RecordFacts ==
  ASSUME NEW r \in Record \cup {NoRec}
  PROVE  /\ r.savePath \in Dirs /\ r.paused \in BOOLEAN /\ r.magnet \in BOOLEAN
         /\ r.downLimit \in {0, 1} /\ r.upLimit \in {0, 1} /\ r.downloaded \in Nat
         /\ r.seedLimit \in {-1, 0, 1} /\ r.completedAt \in BOOLEAN
         /\ r.label \in Labels /\ r.prio \in [Files -> Prios]
<1>1. CASE r \in Record
  BY <1>1 DEF Record
<1>2. CASE r = NoRec
  <2>1. DataDir \in Dirs /\ "" \in Labels
    BY ConfigAssumption
  <2>2. [f \in Files |-> "normal"] \in [Files -> Prios]
    BY DEF Prios
  <2>3. QED
    BY <1>2, <2>1, <2>2 DEF NoRec
<1>3. QED
  BY <1>1, <1>2

LEMMA RestoreReadInv ==
  ASSUME Inv, RestoreRead
  PROVE  Inv'
<1>0. TallyTypes /\ MainTypes /\ DiskTypes
  BY MainThreads, ThreadFacts
<1>1. /\ pc[Main] = "restore.read" /\ UNCHANGED loc
      /\ UNCHANGED engineVars /\ UNCHANGED libVars /\ UNCHANGED guardVars
      /\ UNCHANGED diskVars /\ UNCHANGED saveVars /\ UNCHANGED closing
      /\ UNCHANGED <<tk, hooks>>
      /\ \/ restoring' = TRUE /\ rs' = session
         \/ UNCHANGED restoring /\ UNCHANGED rs
      /\ UNCHANGED budget \/ budget' = [budget EXCEPT !.faults = @ - 1]
      /\ Goto(Main, "restore.next") \/ Goto(Main, "up")
  BY DEF RestoreRead, At
<1>2. budget' \in Budget
  BY <1>0, <1>1, BudgetTypes DEF TallyTypes
<1>3. MainTypes'
  BY <1>0, <1>1 DEF MainTypes, DiskTypes
<1>4. Typed
  BY <1>1, <1>2, <1>3, SameTypes DEF Typed
<1>5. Kept(Main) /\ UNCHANGED nobj /\ UNCHANGED save
  BY <1>1, KeptUnchanged DEF engineVars, saveVars
<1>6. ASSUME NEW c \in {"restore.next", "up"}, Goto(Main, c)
      PROVE  Inv'
  <2>1. c \in OtherLabels /\ c \notin NeedsObj /\ c \notin NeedsInst
    BY RestoreLabels
  <2>2. QED
    BY <1>1, <1>4, <1>5, <1>6, <2>1, MainThreads, RestoreLabels, OtherGoto
<1>7. QED
  BY <1>1, <1>6

LEMMA RestoreNextInv ==
  ASSUME Inv, RestoreNext
  PROVE  Inv'
<1>0. TallyTypes /\ MainTypes /\ DiskTypes /\ ThreadTypes
  BY MainThreads, ThreadFacts
<1>1. /\ pc[Main] = "restore.next"
      /\ UNCHANGED engineVars /\ UNCHANGED libVars /\ UNCHANGED guardVars
      /\ UNCHANGED diskVars /\ UNCHANGED saveVars /\ UNCHANGED restoring
      /\ UNCHANGED closing /\ UNCHANGED <<tk, hooks>>
  BY DEF RestoreNext, At
<1>2. Kept(Main) /\ UNCHANGED nobj /\ UNCHANGED save
  BY <1>1, KeptUnchanged DEF engineVars, saveVars
<1>3. ASSUME NEW i \in Ids,
             SetLoc(Main, [Loc0 EXCEPT !.id = i, !.dir = rs[i].savePath,
                                       !.flag = rs[i].paused,
                                       !.magnet = i \notin metainfo,
                                       !.ret = "restore.limits"]),
             Goto(Main, "add.spec"), UNCHANGED rs, UNCHANGED budget
      PROVE  Inv'
  <2>1. budget' \in Budget /\ UNCHANGED mainVars
    BY <1>0, <1>1, <1>3 DEF TallyTypes, mainVars
  <2>2. Typed
    BY <1>1, <2>1, SameTypes DEF Typed
  <2>3. rs[i].savePath \in Dirs /\ rs[i].paused \in BOOLEAN
    BY <1>0, RecordFacts DEF MainTypes
  <2> DEFINE l == [Loc0 EXCEPT !.id = i, !.dir = rs[i].savePath, !.flag = rs[i].paused,
                               !.magnet = i \notin metainfo, !.ret = "restore.limits"]
  <2>4. l \in Locals /\ l.o = Loc0.o /\ l.op = Loc0.op /\ l.ret = "restore.limits"
    <3>1. Loc0 \in Locals /\ "restore.limits" \in RetNext /\ (i \notin metainfo) \in BOOLEAN
      BY NullTypes DEF RetNext
    <3> DEFINE l1 == [Loc0 EXCEPT !.id = i]
               l2 == [l1 EXCEPT !.dir = rs[i].savePath]
               l3 == [l2 EXCEPT !.flag = rs[i].paused]
               l4 == [l3 EXCEPT !.magnet = i \notin metainfo]
    <3>2. l1 \in Locals /\ Alike(l1, Loc0)
      BY <3>1, Locals_id, Zenon
    <3> HIDE DEF l1
    <3>3. l2 \in Locals /\ Alike(l2, l1)
      BY <2>3, <3>2, Locals_dir, Zenon
    <3> HIDE DEF l2
    <3>4. l3 \in Locals /\ Alike(l3, l2)
      BY <2>3, <3>3, Locals_flag, Zenon
    <3> HIDE DEF l3
    <3>5. l4 \in Locals /\ Alike(l4, l3)
      BY <3>1, <3>4, Locals_magnet, Zenon
    <3>6. l = [l4 EXCEPT !.ret = "restore.limits"]
      BY DEF l1, l2, l3
    <3> HIDE DEF l, l4
    <3>7. l \in Locals /\ l.o = l4.o /\ l.op = l4.op /\ l.ret = "restore.limits"
      BY <3>1, <3>5, <3>6, Locals_ret, Zenon
    <3>8. QED
      BY <3>2, <3>3, <3>4, <3>5, <3>7 DEF Alike
  <2>5. Moves(Main, "add.spec", l)
    BY <1>3 DEF Moves, SetLoc, Goto
  <2>6. l.o <= nobj /\ l.op = ""
    BY <2>4, NullNobj, NullTypes
  <2> HIDE DEF l
  <2>7. QED
    BY <1>2, <2>2, <2>4, <2>5, <2>6, MainThreads, RestoreLabels, OtherFrame
<1>4. ASSUME NEW i \in Ids, rs' = [rs EXCEPT ![i] = NoRec], UNCHANGED <<pc, loc>>,
             UNCHANGED budget \/ budget' = [budget EXCEPT !.faults = @ - 1]
      PROVE  Inv'
  <2>1. budget' \in Budget
    BY <1>0, <1>4, BudgetTypes DEF TallyTypes
  <2>2. MainTypes'
    BY <1>0, <1>1, <1>4 DEF MainTypes
  <2>3. Typed
    BY <1>1, <2>1, <2>2, SameTypes DEF Typed
  <2>4. Goto(Main, "restore.next") /\ UNCHANGED loc
    BY <1>0, <1>1, <1>4, MainThreads DEF Goto, ThreadTypes
  <2>5. QED
    BY <1>1, <1>2, <2>3, <2>4, MainThreads, RestoreLabels, OtherGoto
<1>5. QED
  BY <1>3, <1>4 DEF RestoreNext

(* What is known of the record being restored, and of its struct.          *)
LEMMA RestoringFacts ==
  ASSUME Inv, pc[Main] \in {"restore.limits", "restore.prios", "restore.final"}
  PROVE  /\ loc[Main] \in Locals /\ loc[Main].op = "" /\ loc[Main].o <= nobj
         /\ loc[Main].ret = "stream.prio" => loc[Main].t # NoInst
         /\ loc[Main].id \in Ids /\ rs[loc[Main].id] \in Record \cup {NoRec}
         /\ torrents[loc[Main].id] \in Objs \cup {NoObj}
         /\ torrents[loc[Main].id] <= nobj
         /\ \A o \in Objs : tr[o] \in Tracked
<1>1. /\ loc[Main] \in Locals /\ loc[Main].op = "" /\ loc[Main].o <= nobj
      /\ loc[Main].ret = "stream.prio" => loc[Main].t # NoInst
  BY MainThreads, RestoreLabels, OtherAt
<1>2. loc[Main].id \in Ids
  BY <1>1 DEF Locals
<1>3. EngineTypes /\ MainTypes /\ StructsOK
  BY MainThreads, ThreadFacts
<1>4. QED
  BY <1>1, <1>2, <1>3 DEF EngineTypes, MainTypes, StructsOK

LEMMA RestoreLimitsInv ==
  ASSUME Inv, RestoreLimits
  PROVE  Inv'
<1>0. TallyTypes /\ ThreadTypes /\ EngineTypes
  BY MainThreads, ThreadFacts
<1> DEFINE i == loc[Main].id
           o == torrents[i]
           x == [tr[o] EXCEPT !.upLimit = rs[i].upLimit, !.downLimit = rs[i].downLimit]
           l == [loc[Main] EXCEPT !.sel = {f \in Files : rs[i].prio[f] # "normal"}]
<1>1. /\ pc[Main] = "restore.limits" /\ Moves(Main, "restore.prios", l)
      /\ SetTr(o, x) \/ UNCHANGED tr
      /\ UNCHANGED <<torrents, nobj, opMu, checkWG>> /\ UNCHANGED canceled
      /\ UNCHANGED <<libVars, guardVars, diskVars, saveVars, mainVars, tk, hooks>>
      /\ UNCHANGED budget
  BY DEF RestoreLimits, At, Moves, SetLoc, Goto
<1>2. /\ loc[Main] \in Locals /\ loc[Main].op = "" /\ loc[Main].o <= nobj
      /\ loc[Main].ret = "stream.prio" => loc[Main].t # NoInst
      /\ rs[i] \in Record \cup {NoRec} /\ \A b \in Objs : tr[b] \in Tracked
  BY <1>1, RestoringFacts
<1>3. o \in Objs => x \in Tracked /\ x.t = tr[o].t /\ x.savePath = tr[o].savePath
  <2>1. rs[i].upLimit \in {0, 1} /\ rs[i].downLimit \in {0, 1}
    BY <1>2, RecordFacts
  <2>2. ASSUME NEW y \in Tracked, NEW u \in {0, 1}, NEW d \in {0, 1}
        PROVE  LET z == [y EXCEPT !.upLimit = u, !.downLimit = d] IN
               z \in Tracked /\ z.t = y.t /\ z.savePath = y.savePath
    <3> DEFINE w == [y EXCEPT !.upLimit = u]
               z == [w EXCEPT !.downLimit = d]
    <3>1. w \in Tracked /\ w.t = y.t /\ w.savePath = y.savePath
      BY DEF Tracked
    <3> HIDE DEF w
    <3>2. z \in Tracked /\ z.t = w.t /\ z.savePath = w.savePath
      BY <3>1 DEF Tracked
    <3>3. z = [y EXCEPT !.upLimit = u, !.downLimit = d]
      BY DEF w
    <3>4. QED
      BY <3>1, <3>2, <3>3
  <2> HIDE DEF o, i
  <2> DEFINE u == rs[i].upLimit
             d == rs[i].downLimit
  <2> HIDE DEF u, d
  <2>3. u \in {0, 1} /\ d \in {0, 1}
    BY <2>1 DEF u, d
  <2>4. x = [tr[o] EXCEPT !.upLimit = u, !.downLimit = d]
    BY DEF u, d
  <2> HIDE DEF x
  <2>5. ASSUME NEW y \in Tracked, x = [y EXCEPT !.upLimit = u, !.downLimit = d]
        PROVE  x \in Tracked /\ x.t = y.t /\ x.savePath = y.savePath
    BY <2>2, <2>3, <2>5, Zenon
  <2>6. QED
    BY <1>2, <2>4, <2>5, Zenon
<1>4. /\ l \in Locals /\ l.op = "" /\ l.o = loc[Main].o /\ l.ret = loc[Main].ret
      /\ l.t = loc[Main].t
  BY <1>2 DEF Locals
<1> HIDE DEF l, x, o, i
<1>5. "restore.prios" \in Places /\ Goes(Main, "restore.prios", l)
      /\ LocalOK(Main, "restore.prios", l, save[Main].k, nobj)
  BY <1>2, <1>4, RestoreLabels, OtherPlace
<1>6. budget' \in Budget /\ canceled' \in [Checkers -> BOOLEAN]
  BY <1>0, <1>1 DEF TallyTypes, EngineTypes
<1>7. CASE SetTr(o, x)
  BY <1>1, <1>3, <1>4, <1>5, <1>6, <1>7, MainThreads, StepStruct
<1>8. CASE UNCHANGED tr
  <2>1. UNCHANGED <<engineVars, libVars, guardVars, diskVars, saveVars, mainVars, tk, hooks>>
    BY <1>1, <1>8 DEF engineVars
  <2>2. QED
    BY <1>1, <1>4, <1>5, <1>6, <2>1, MainThreads, StepMoves
<1>9. QED
  BY <1>1, <1>7, <1>8

LEMMA RestorePriosInv ==
  ASSUME Inv, RestorePrios
  PROVE  Inv'
<1>0. TallyTypes /\ ThreadTypes
  BY MainThreads, ThreadFacts
<1>1. /\ pc[Main] = "restore.prios"
      /\ UNCHANGED <<engineVars, libVars, guardVars, diskVars, saveVars, mainVars, tk, hooks>>
      /\ UNCHANGED budget
  BY DEF RestorePrios, At
<1>2. /\ loc[Main] \in Locals /\ loc[Main].op = "" /\ loc[Main].o <= nobj
      /\ loc[Main].ret = "stream.prio" => loc[Main].t # NoInst
      /\ rs[loc[Main].id] \in Record \cup {NoRec}
      /\ torrents[loc[Main].id] \in Objs \cup {NoObj} /\ torrents[loc[Main].id] <= nobj
  BY <1>1, RestoringFacts
<1>3. budget' \in Budget
  BY <1>0, <1>1 DEF TallyTypes
<1>4. CASE Goto(Main, "restore.final") /\ UNCHANGED loc
  <2>1. Moves(Main, "restore.final", loc[Main])
    BY <1>0, <1>4, MainThreads, GotoMoves
  <2>2. QED
    BY <1>1, <1>2, <1>3, <2>1, MainThreads, RestoreLabels, OtherMoves
<1>5. ASSUME NEW f \in loc[Main].sel, torrents[loc[Main].id] # NoObj,
             SetLoc(Main, [loc[Main] EXCEPT !.sel = @ \ {f}, !.file = f,
                                            !.prio = rs[loc[Main].id].prio[f],
                                            !.o = torrents[loc[Main].id],
                                            !.ret = "restore.prios"]),
             Goto(Main, "prio.set")
      PROVE  Inv'
  <2>1. f \in Files
    BY <1>2 DEF Locals
  <2>2. rs[loc[Main].id].prio[f] \in Prios
    BY <1>2, <2>1, RecordFacts
  <2> DEFINE l == [loc[Main] EXCEPT !.sel = @ \ {f}, !.file = f,
                                    !.prio = rs[loc[Main].id].prio[f],
                                    !.o = torrents[loc[Main].id], !.ret = "restore.prios"]
  <2>3. l \in Locals /\ l.o = torrents[loc[Main].id] /\ l.op = "" /\ l.ret = "restore.prios"
    <3>1. l \in Locals
      BY <1>2, <2>1, <2>2 DEF Locals, RetNext
    <3>2. QED
      BY <1>2, <3>1 DEF Locals
  <2>4. Moves(Main, "prio.set", l)
    BY <1>5 DEF Moves, SetLoc, Goto
  <2> HIDE DEF l
  <2>5. QED
    BY <1>1, <1>2, <1>3, <1>5, <2>3, <2>4, MainThreads, RestoreLabels, OtherMoves
<1>6. QED
  BY <1>4, <1>5 DEF RestorePrios

LEMMA RestoreFinalInv ==
  ASSUME Inv, RestoreFinal
  PROVE  Inv'
<1>0. TallyTypes /\ ThreadTypes /\ EngineTypes /\ MainTypes
  BY MainThreads, ThreadFacts
<1> DEFINE i == loc[Main].id
           o == torrents[i]
           x == [tr[o] EXCEPT !.base = rs[i].downloaded, !.seedLimit = rs[i].seedLimit,
                              !.completedAt = rs[i].completedAt, !.label = rs[i].label,
                              !.completeLogged = rs[i].completedAt]
<1>1. /\ pc[Main] = "restore.final" /\ Moves(Main, "restore.next", Loc0)
      /\ SetTr(o, x) /\ rs' = [rs EXCEPT ![i] = NoRec]
      /\ UNCHANGED <<torrents, nobj, opMu>> /\ UNCHANGED <<checkWG, canceled>>
      /\ UNCHANGED libVars /\ UNCHANGED guardVars /\ UNCHANGED diskVars
      /\ UNCHANGED saveVars /\ UNCHANGED <<restoring, closing>>
      /\ UNCHANGED <<tk, hooks>> /\ UNCHANGED budget
  BY DEF RestoreFinal, At, Moves, SetLoc, Goto
<1>2. /\ rs[i] \in Record \cup {NoRec} /\ \A b \in Objs : tr[b] \in Tracked /\ i \in Ids
  BY <1>1, RestoringFacts
<1>3. o \in Objs => x \in Tracked /\ x.t = tr[o].t /\ x.savePath = tr[o].savePath
  <2>1. /\ rs[i].downloaded \in Nat /\ rs[i].seedLimit \in {-1, 0, 1}
        /\ rs[i].completedAt \in BOOLEAN /\ rs[i].label \in Labels
    BY <1>2, RecordFacts
  <2> HIDE DEF o, i
  <2>2. ASSUME NEW y \in Tracked, NEW n \in Nat, NEW r \in {-1, 0, 1}, NEW b \in BOOLEAN,
               NEW m \in Labels
        PROVE  [y EXCEPT !.base = n, !.seedLimit = r, !.completedAt = b, !.label = m,
                         !.completeLogged = b] \in Tracked
    <3> DEFINE y1 == [y EXCEPT !.base = n]
               y2 == [y1 EXCEPT !.seedLimit = r]
               y3 == [y2 EXCEPT !.completedAt = b]
               y4 == [y3 EXCEPT !.label = m]
               y5 == [y4 EXCEPT !.completeLogged = b]
    <3>1. [y EXCEPT !.base = n, !.seedLimit = r, !.completedAt = b, !.label = m,
                    !.completeLogged = b] = y5
      OBVIOUS
    <3>2. y1 \in Tracked
      BY DEF Tracked
    <3> HIDE DEF y1
    <3>3. y2 \in Tracked
      BY <3>2 DEF Tracked
    <3> HIDE DEF y2
    <3>4. y3 \in Tracked
      BY <3>3 DEF Tracked
    <3> HIDE DEF y3
    <3>5. y4 \in Tracked
      BY <3>4 DEF Tracked
    <3> HIDE DEF y4
    <3>6. y5 \in Tracked
      BY <3>5 DEF Tracked
    <3> HIDE DEF y5
    <3>7. QED
      BY <3>1, <3>6
  <2>3. o \in Objs => x.t = tr[o].t /\ x.savePath = tr[o].savePath
    BY <1>2 DEF Tracked
  <2>4. o \in Objs => x \in Tracked
    <3> DEFINE n == rs[i].downloaded
               r == rs[i].seedLimit
               b == rs[i].completedAt
               m == rs[i].label
    <3>1. n \in Nat /\ r \in {-1, 0, 1} /\ b \in BOOLEAN /\ m \in Labels
      BY <2>1
    <3>2. x = [tr[o] EXCEPT !.base = n, !.seedLimit = r, !.completedAt = b, !.label = m,
                            !.completeLogged = b]
      OBVIOUS
    <3> HIDE DEF n, r, b, m, x
    <3>3. QED
      BY <1>2, <2>2, <3>1, <3>2, Zenon
  <2>5. QED
    BY <2>3, <2>4
<1>4. MainTypes'
  BY <1>0, <1>1 DEF MainTypes
<1> HIDE DEF x, o, i
<1>5. Kept(Main) /\ tr' \in [Objs -> Tracked]
  BY <1>1, <1>3, KeptAssigned
<1>6. EngineTypes'
  BY <1>0, <1>1, <1>5 DEF EngineTypes
<1>7. budget' \in Budget /\ UNCHANGED save /\ UNCHANGED nobj
  BY <1>0, <1>1 DEF TallyTypes, saveVars
<1>8. Typed
  BY <1>1, <1>4, <1>6, <1>7, SameTypes DEF Typed
<1>9. Loc0.o <= nobj
  BY NullNobj
<1>10. QED
  BY <1>1, <1>5, <1>7, <1>8, <1>9, MainThreads, RestoreLabels, NullTypes, OtherFrame

LEMMA RestoreDoneInv ==
  ASSUME Inv, RestoreDone
  PROVE  Inv'
<1>0. TallyTypes /\ ThreadTypes /\ MainTypes
  BY MainThreads, ThreadFacts
<1>1. /\ pc[Main] = "restore.next" /\ Persist(Main, "up") /\ restoring' = FALSE
      /\ UNCHANGED <<engineVars, libVars, guardVars, saveMu, tk, hooks>>
      /\ UNCHANGED diskVars /\ UNCHANGED closing /\ UNCHANGED rs
      /\ UNCHANGED loc /\ UNCHANGED budget
  BY DEF RestoreDone, At
<1>2. /\ loc[Main] \in Locals /\ loc[Main].op = "" /\ loc[Main].o <= nobj
      /\ loc[Main].ret = "stream.prio" => loc[Main].t # NoInst
  BY <1>1, MainThreads, RestoreLabels, OtherAt
<1>3. Goes(Main, "up", loc[Main]) /\ LocalOK(Main, "up", loc[Main], save[Main].k, nobj)
  BY <1>2, RestoreLabels, OtherPlace
<1>4. SetLoc(Main, loc[Main])
  BY <1>0, <1>1, MainThreads DEF SetLoc, ThreadTypes
<1>5. DiskTypes' /\ MainTypes' /\ budget' \in Budget
  BY <1>0, <1>1, SameTypes DEF MainTypes, TallyTypes
<1>6. QED
  BY <1>1, <1>2, <1>3, <1>4, <1>5, MainThreads, RestoreLabels, StepSave

LEMMA RestoreInv ==
  ASSUME Inv, RestoreStep
  PROVE  Inv'
  BY RestoreReadInv, RestoreNextInv, RestoreLimitsInv, RestorePriosInv,
     RestoreFinalInv, RestoreDoneInv DEF RestoreStep

-----------------------------------------------------------------------------
(* The process starts, ends, and what goes on outside it.                  *)

LEMMA NewInv ==
  ASSUME Inv, New
  PROVE  Inv'
<1>0. TallyTypes /\ ThreadTypes /\ GuardTypes
  BY MainThreads, ThreadFacts
<1>1. /\ pc[Main] = "new" /\ UNCHANGED loc
      /\ pc' = [pc EXCEPT ![Main] = "restore.read", ![Tick] = "tick"]
      /\ UNCHANGED engineVars /\ UNCHANGED libVars /\ UNCHANGED diskVars
      /\ UNCHANGED saveVars /\ UNCHANGED mainVars /\ UNCHANGED <<tk, hooks>>
      /\ UNCHANGED budget
      /\ blocked' \in IF RequireVPN THEN BOOLEAN ELSE {FALSE}
      /\ lowDisk' \in IF MinFreeSpace THEN BOOLEAN ELSE {FALSE}
  BY DEF New, At
<1>2. GuardTypes' /\ budget' \in Budget
  BY <1>0, <1>1 DEF GuardTypes, TallyTypes
<1>3. Typed
  BY <1>1, <1>2, SameTypes DEF Typed
<1>4. Kept(Main) /\ UNCHANGED nobj /\ UNCHANGED save
  BY <1>1, KeptUnchanged DEF engineVars, saveVars
<1>5. "restore.read" \in OtherLabels /\ "tick" \in OtherLabels
  BY RestoreLabels, TickLabels
<1>6. "restore.read" \in Places /\ "tick" \in Places
  BY <1>5 DEF Places
<1>7. /\ pc' \in [Threads -> Places] /\ pc'[Main] = "restore.read" /\ pc'[Tick] = "tick"
      /\ \A q \in Threads : q # Main /\ q # Tick => pc'[q] = pc[q]
  BY <1>0, <1>1, <1>6, MainThreads DEF ThreadTypes
<1>8. /\ loc[Main] \in Locals /\ loc[Main].op = "" /\ loc[Main].o <= nobj
      /\ loc[Main].ret = "stream.prio" => loc[Main].t # NoInst
  BY <1>1, MainThreads, RestoreLabels, OtherAt
<1>9. LocalOK(Main, "restore.read", loc[Main], save'[Main].k, nobj)
  BY <1>8, RestoreLabels, OtherPlace
<1>10. OwnsOK(Main, "restore.read", loc[Main])
  BY <1>8 DEF OwnsOK
(* The tick loop has not run: its locals are those of a thread that waits. *)
<1>11. /\ loc[Tick] \in Locals /\ LocalOK(Tick, pc[Tick], loc[Tick], save[Tick].k, nobj)
  BY MainThreads, ThreadFacts
<1>12. loc[Tick].op = "" /\ loc[Tick].o <= nobj
       /\ (loc[Tick].ret = "stream.prio" => loc[Tick].t # NoInst)
  BY <1>11, ThreadsAssumption DEF LocalOK, PointersOK, OperationOK
<1>13. LocalOK(Tick, "tick", loc[Tick], save'[Tick].k, nobj)
  BY <1>12, TickLabels, OtherPlace
<1>14. OwnsOK(Tick, "tick", loc[Tick])
  BY <1>12 DEF OwnsOK
<1>15. SetLoc(Tick, loc[Tick])
  BY <1>0, <1>1, MainThreads DEF SetLoc, ThreadTypes
<1>16. QED
  BY <1>3, <1>4, <1>6, <1>7, <1>9, <1>10, <1>11, <1>13, <1>14, <1>15, MainThreads,
     FrameSpawn

LEMMA CloseInv ==
  ASSUME Inv, Close
  PROVE  Inv'
<1>0. TallyTypes /\ ThreadTypes /\ MainTypes
  BY MainThreads, ThreadFacts
<1>1. /\ pc[Main] = "up" /\ Persist(Main, "close.cancel")
      /\ UNCHANGED <<engineVars, libVars, guardVars, saveMu, tk, hooks>>
      /\ UNCHANGED diskVars /\ UNCHANGED mainVars /\ UNCHANGED loc /\ UNCHANGED budget
  BY DEF Close, Up, At
<1>2. /\ loc[Main] \in Locals /\ loc[Main].op = "" /\ loc[Main].o <= nobj
      /\ loc[Main].ret = "stream.prio" => loc[Main].t # NoInst
  BY <1>1, MainThreads, RestoreLabels, OtherAt
<1>3. /\ Goes(Main, "close.cancel", loc[Main])
      /\ LocalOK(Main, "close.cancel", loc[Main], save[Main].k, nobj)
  BY <1>2, RestoreLabels, OtherPlace
<1>4. SetLoc(Main, loc[Main])
  BY <1>0, <1>1, MainThreads DEF SetLoc, ThreadTypes
<1>5. DiskTypes' /\ MainTypes' /\ budget' \in Budget
  BY <1>0, <1>1, SameTypes DEF TallyTypes
<1>6. QED
  BY <1>1, <1>2, <1>3, <1>4, <1>5, MainThreads, RestoreLabels, StepSave

LEMMA CloseCancelInv ==
  ASSUME Inv, CloseCancel
  PROVE  Inv'
<1>0. TallyTypes /\ ThreadTypes /\ MainTypes /\ EngineTypes /\ StructsOK /\ nobj \in Int
  BY MainThreads, ThreadFacts
<1>1. /\ pc[Main] = "close.cancel" /\ Goto(Main, "close.wait") /\ UNCHANGED loc
      /\ UNCHANGED <<torrents, tr, nobj, opMu, checkWG>> /\ closing' = TRUE
      /\ canceled' = [k \in Checkers |->
           canceled[k] \/ \E i \in TrackedIds : tr[torrents[i]].cancelCheck = k]
      /\ UNCHANGED libVars /\ UNCHANGED guardVars /\ UNCHANGED diskVars
      /\ UNCHANGED saveVars /\ UNCHANGED <<restoring, rs>> /\ UNCHANGED <<tk, hooks>>
      /\ UNCHANGED budget
  BY DEF CloseCancel, At
<1>2. canceled' \in [Checkers -> BOOLEAN]
  BY <1>0, <1>1 DEF EngineTypes
<1>3. EngineTypes' /\ MainTypes' /\ budget' \in Budget
  BY <1>0, <1>1, <1>2 DEF EngineTypes, MainTypes, TallyTypes
<1>4. Typed
  BY <1>1, <1>3, SameTypes DEF Typed
<1>5. Kept(Main) /\ UNCHANGED nobj /\ UNCHANGED save
  BY <1>0, <1>1 DEF Kept, InstancesKept, MutexKept, StructsOK, saveVars
<1>6. QED
  BY <1>1, <1>4, <1>5, MainThreads, RestoreLabels, OtherGoto

(* A process as it starts satisfies the invariant whatever is on disk.     *)
LEMMA BlankTypes ==
  /\ [t \in Insts |-> Blank(t)] \in [Insts -> Instance]
  /\ [o \in Objs |-> NewTracked(NoInst, DataDir, FALSE, FALSE)] \in [Objs -> Tracked]
<1>1. (CHOOSE i \in Ids : TRUE) \in Ids /\ DataDir \in Dirs /\ "" \in Labels /\ 0 \in Rates
  BY ConfigAssumption
<1>2. [f \in Files |-> "None"] \in [Files -> LibPrios]
  BY DEF LibPrios
<1>3. ASSUME NEW i \in Ids, NEW q \in [Files -> LibPrios]
      PROVE  [id |-> i, dir |-> DataDir, live |-> FALSE, info |-> FALSE, have |-> FALSE,
              down |-> FALSE, up |-> FALSE, bytes |-> 0, prio |-> q] \in Instance
  BY <1>1 DEF Instance
<1>4. \A t \in Insts : Blank(t) \in Instance
  BY <1>1, <1>2, <1>3, Zenon DEF Blank
<1>5. NewTracked(NoInst, DataDir, FALSE, FALSE) \in Tracked
  BY <1>1 DEF NewTracked, Tracked
<1>6. QED
  BY <1>4, <1>5

LEMMA FreshPlaces ==
  ASSUME NEW p \in Threads
  PROVE  Fresh(p) \in Places /\ LocalOK(p, Fresh(p), Loc0, "", 0)
<1>1. Fresh(p) \in OtherLabels /\ Fresh(p) \notin NeedsObj /\ Fresh(p) \notin NeedsInst
  BY DEF Fresh, OtherLabels, NeedsObj, NeedsInst, StructLabels
<1>2. Loc0.op = "" /\ Loc0.ret # "stream.prio"
  BY NullTypes
<1>3. Loc0.o <= 0
  BY DEF Loc0, NoObj
<1> HIDE DEF Fresh
<1>4. QED
  BY <1>1, <1>2, <1>3, OtherPlace

LEMMA ProcessEndsInv ==
  ASSUME Inv, ProcessEnds
  PROVE  Inv'
<1>0. TallyTypes /\ DiskTypes
  BY MainThreads, ThreadFacts
<1>1. EngineTypes'
  <2>1. /\ torrents' \in [Ids -> Objs \cup {NoObj}] /\ nobj' \in 0..MaxObjs
        /\ opMu' \in [Objs -> Threads \cup {NoThread}] /\ checkWG' \in [Objs -> Int]
        /\ canceled' \in [Checkers -> BOOLEAN]
    BY BoundsAssumption DEF ProcessEnds
  <2>2. tr' \in [Objs -> Tracked]
    BY BlankTypes DEF ProcessEnds
  <2>3. QED
    BY <2>1, <2>2 DEF EngineTypes
<1>2. LibTypes'
  <2>1. lib' \in [Insts -> Instance]
    BY BlankTypes DEF ProcessEnds
  <2>2. ninst' \in 0..MaxInsts /\ client' \in [Ids -> Insts \cup {NoInst}]
    BY BoundsAssumption DEF ProcessEnds
  <2>3. QED
    BY <2>1, <2>2 DEF LibTypes
<1>3. SaveTypes' /\ \A p \in Threads : save'[p].k = ""
  BY NullTypes DEF ProcessEnds, SaveTypes, Save0
<1>4. MainTypes' /\ GuardTypes'
  BY DEF ProcessEnds, MainTypes, GuardTypes
<1>5. ThreadTypes' /\ \A p \in Threads : pc'[p] = Fresh(p) /\ loc'[p] = Loc0
  BY NullTypes, FreshPlaces DEF ProcessEnds, ThreadTypes
<1>6. TallyTypes' /\ DiskTypes'
  <2>1. budget' \in Budget
    BY <1>0, BudgetTypes DEF ProcessEnds, TallyTypes
  <2>2. tk' \in Ticking /\ UNCHANGED hooks /\ UNCHANGED diskVars
    BY NullTypes DEF ProcessEnds
  <2>3. QED
    BY <1>0, <2>1, <2>2, SameTypes DEF TallyTypes
<1>7. TypeOK'
  BY <1>1, <1>2, <1>3, <1>4, <1>5, <1>6 DEF TypeOK
<1>8. NoNilPointer'
  <2>1. \A i \in Ids : torrents'[i] <= nobj'
    BY DEF ProcessEnds, NoObj
  <2>2. nobj' = 0 /\ \A o \in Objs : ~(o <= 0)
    BY DEF ProcessEnds, Objs
  <2>3. \A p \in Threads : LocalOK(p, pc'[p], loc'[p], save'[p].k, nobj')
    BY <1>3, <1>5, <2>2, FreshPlaces
  <2>4. QED
    BY <2>1, <2>2, <2>3 DEF NoNilPointer
<1>9. OpMuHeld'
  BY <1>5, NullTypes DEF OpMuHeld, HoldsOpMu
<1>10. StableInstance'
  <2>1. \A p \in Clients : loc'[p] = Loc0
    BY <1>5 DEF Threads, Callers
  <2>2. QED
    BY <2>1, NullTypes DEF StableInstance
<1>11. QED
  BY <1>7, <1>8, <1>9, <1>10 DEF Inv

(* What the network does to an instance.                                   *)
LEMMA NetworkInv ==
  ASSUME Inv, Network
  PROVE  Inv'
<1>0. /\ TallyTypes /\ ThreadTypes /\ LibTypes /\ DiskTypes
      /\ LocalOK(Main, pc[Main], loc[Main], save[Main].k, nobj)
      /\ loc[Main] \in Locals /\ pc[Main] \in Places
  BY MainThreads, ThreadFacts
<1>1. PICK t \in Insts :
        /\ \/ (GotInfo(t) \/ Transfer(t)) /\ UNCHANGED data
           \/ Finish(t) /\ UNCHANGED budget
        /\ UNCHANGED <<engineVars, ninst, client, guardVars, session, metainfo,
                       saveVars, mainVars, pc, loc, tk, hooks>>
  BY DEF Network
<1>2. /\ UNCHANGED engineVars /\ UNCHANGED <<ninst, client>> /\ UNCHANGED guardVars
      /\ UNCHANGED <<session, metainfo>> /\ UNCHANGED saveVars /\ UNCHANGED mainVars
      /\ UNCHANGED pc /\ UNCHANGED loc /\ UNCHANGED <<tk, hooks>>
  BY <1>1
<1>3. lib[t] \in Instance /\ lib[t].id \in Ids /\ lib[t].dir \in Dirs
  BY <1>0 DEF LibTypes, Instance
<1>4. LibTypes'
  <2>1. \/ SetLib(t, [lib[t] EXCEPT !.info = TRUE])
        \/ SetLib(t, [lib[t] EXCEPT !.bytes = @ + 1])
        \/ SetLib(t, [lib[t] EXCEPT !.have = TRUE])
    BY <1>1 DEF GotInfo, Transfer, Finish
  <2>2. /\ [lib[t] EXCEPT !.info = TRUE] \in Instance
        /\ [lib[t] EXCEPT !.have = TRUE] \in Instance
    BY <1>3 DEF Instance
  <2>3. [lib[t] EXCEPT !.bytes = @ + 1] \in Instance
    BY <1>3 DEF Instance
  <2>4. QED
    BY <1>0, <1>2, <2>1, <2>2, <2>3, LibAssigned
<1>5. data' \in [Ids -> SUBSET Dirs]
  <2>1. UNCHANGED data \/ data' = [data EXCEPT ![lib[t].id] = @ \cup {lib[t].dir}]
    BY <1>1 DEF Finish
  <2>2. QED
    BY <1>0, <1>3, <2>1 DEF DiskTypes
<1>6. budget' \in Budget
  <2>1. UNCHANGED budget \/ budget' = [budget EXCEPT !.bytes = @ - 1]
    BY <1>1 DEF GotInfo, Transfer
  <2>2. QED
    BY <1>0, <2>1, BudgetTypes DEF TallyTypes
<1>7. DiskTypes'
  BY <1>0, <1>2, <1>5 DEF DiskTypes
<1>8. Typed
  BY <1>2, <1>4, <1>6, <1>7, SameTypes DEF Typed
<1>9. Kept(Main) /\ UNCHANGED <<nobj, tr, opMu>> /\ UNCHANGED save
  BY <1>2, KeptUnchanged DEF engineVars, saveVars
<1>10. Moves(Main, pc[Main], loc[Main])
  BY <1>0, <1>2, MainThreads DEF Moves, ThreadTypes
<1>11. loc[Main].op = ""
  BY <1>0, ThreadsAssumption DEF LocalOK, OperationOK
<1>12. OwnsOK(Main, pc[Main], loc[Main])
  BY <1>11 DEF OwnsOK
<1>13. QED
  BY <1>0, <1>8, <1>9, <1>10, <1>12, MainThreads, FrameMoves

-----------------------------------------------------------------------------
(* The invariant and the theorems.                                         *)

LEMMA InitInv == Init => Inv
<1> SUFFICES ASSUME Init PROVE Inv
  OBVIOUS
<1>1. EngineTypes
  <2>1. /\ torrents \in [Ids -> Objs \cup {NoObj}] /\ nobj \in 0..MaxObjs
        /\ opMu \in [Objs -> Threads \cup {NoThread}] /\ checkWG \in [Objs -> Int]
        /\ canceled \in [Checkers -> BOOLEAN]
    BY BoundsAssumption DEF Init
  <2>2. tr \in [Objs -> Tracked]
    BY BlankTypes DEF Init
  <2>3. QED
    BY <2>1, <2>2 DEF EngineTypes
<1>2. LibTypes
  <2>1. lib \in [Insts -> Instance]
    BY BlankTypes DEF Init
  <2>2. ninst \in 0..MaxInsts /\ client \in [Ids -> Insts \cup {NoInst}]
    BY BoundsAssumption DEF Init
  <2>3. QED
    BY <2>1, <2>2 DEF LibTypes
<1>3. SaveTypes /\ \A p \in Threads : save[p].k = ""
  BY NullTypes DEF Init, SaveTypes, Save0
<1>4. MainTypes /\ GuardTypes
  BY DEF Init, MainTypes, GuardTypes
<1>5. ThreadTypes /\ \A p \in Threads : pc[p] = Fresh(p) /\ loc[p] = Loc0
  BY NullTypes, FreshPlaces DEF Init, ThreadTypes
<1>6. TallyTypes
  <2>1. budget \in Budget
    BY BoundsAssumption DEF Init, Budget
  <2>2. tk \in Ticking /\ hooks \in [Ids -> Nat]
    BY NullTypes DEF Init
  <2>3. QED
    BY <2>1, <2>2 DEF TallyTypes
<1>7. DiskTypes
  BY DiskAssumption DEF Init, DiskTypes
<1>8. TypeOK
  BY <1>1, <1>2, <1>3, <1>4, <1>5, <1>6, <1>7 DEF TypeOK
<1>9. NoNilPointer
  <2>1. \A i \in Ids : torrents[i] <= nobj
    BY DEF Init, NoObj
  <2>2. nobj = 0 /\ \A o \in Objs : ~(o <= 0)
    BY DEF Init, Objs
  <2>3. \A p \in Threads : LocalOK(p, pc[p], loc[p], save[p].k, nobj)
    BY <1>3, <1>5, <2>2, FreshPlaces
  <2>4. QED
    BY <2>1, <2>2, <2>3 DEF NoNilPointer
<1>10. OpMuHeld
  BY <1>5, NullTypes DEF OpMuHeld, HoldsOpMu
<1>11. StableInstance
  <2>1. \A p \in Clients : loc[p] = Loc0
    BY <1>5 DEF Threads, Callers
  <2>2. QED
    BY <2>1, NullTypes DEF StableInstance
<1>12. QED
  BY <1>8, <1>9, <1>10, <1>11 DEF Inv

LEMMA ThreadInv ==
  ASSUME Inv, NEW p \in Threads, ThreadStep(p)
  PROVE  Inv'
<1>1. CASE OpStep(p)
  BY <1>1, ApplyFlowInv, EndOpInv, PersistInv, AddSpecInv, AddTrackInv, AddSpawnInv,
     PauseInv, FieldInv, StreamInv, StructInv DEF OpStep, AddStep
<1>2. CASE GoroutineStep(p)
  BY <1>2, ApplyFlowInv, PersistInv, WaiterInv, CheckerInv DEF GoroutineStep
<1>3. CASE TickStep
  BY <1>3, TickInv
<1>4. CASE MainStep
  BY <1>4, NewInv, RestoreInv, CloseCancelInv, ProcessEndsInv DEF MainStep, CloseWait
<1>5. QED
  BY <1>1, <1>2, <1>3, <1>4 DEF ThreadStep

LEMMA StutterInv ==
  ASSUME Inv, UNCHANGED vars
  PROVE  Inv'
<1>1. UNCHANGED <<engineVars, libVars, guardVars, diskVars, saveVars, mainVars>>
      /\ UNCHANGED <<pc, loc, tk, hooks, budget>>
  BY DEF vars
<1>2. TypeOK'
  <2>1. ThreadTypes' /\ budget' \in Budget
    BY <1>1 DEF Inv, TypeOK, ThreadTypes, TallyTypes
  <2>2. QED
    BY <1>1, <2>1, SameTypes DEF TypeOK
<1>3. NoNilPointer' /\ OpMuHeld' /\ StableInstance'
  BY <1>1 DEF Inv, NoNilPointer, OpMuHeld, HoldsOpMu, StableInstance, engineVars,
              saveVars
<1>4. QED
  BY <1>2, <1>3 DEF Inv

LEMMA NextInv == Inv /\ [Next]_vars => Inv'
<1> SUFFICES ASSUME Inv, [Next]_vars PROVE Inv'
  OBVIOUS
<1>1. CASE \E c \in Clients : ClientCalls(c)
  BY <1>1, ClientCallsInv
<1>2. CASE \E p \in Threads : ThreadStep(p)
  BY <1>2, ThreadInv
<1>3. CASE Close
  BY <1>3, CloseInv
<1>4. CASE Crash
  BY <1>4, ProcessEndsInv DEF Crash
<1>5. CASE Network
  BY <1>5, NetworkInv
<1>6. CASE Idle \/ UNCHANGED vars
  BY <1>6, StutterInv DEF Idle
<1>7. QED
  BY <1>1, <1>2, <1>3, <1>4, <1>5, <1>6 DEF Next

(* Inv is an invariant of the engine for every number of torrents, files,  *)
(* connections and goroutines, and every bound.                            *)
THEOREM Invariance == Spec => []Inv
  BY InitInv, NextInv, PTL DEF Spec

(* Every variable of the engine keeps its type in every behaviour.         *)
THEOREM TypeCorrect == Spec => []TypeOK
<1>1. Inv => TypeOK
  BY DEF Inv
<1>2. QED
  BY <1>1, Invariance, PTL

(* No thread of the engine ever follows a nil tracked struct or library    *)
(* instance, whatever the other threads, a crash and a restart do.         *)
THEOREM NilFree == Spec => []NoNilPointer
<1>1. Inv => NoNilPointer
  BY DEF Inv
<1>2. QED
  BY <1>1, Invariance, PTL

(* The instance and save path a purge or move has read stay the struct's   *)
(* own until it replaces them itself.                                      *)
THEOREM InstanceStable == Spec => []StableInstance
<1>1. Inv => StableInstance
  BY DEF Inv
<1>2. QED
  BY <1>1, Invariance, PTL

(* Of the purges, moves and removals of one torrent, at most one is past   *)
(* its Lock.                                                               *)
THEOREM Exclusive ==
  Spec => [](\A p, q \in Threads :
               HoldsOpMu(p) /\ HoldsOpMu(q) /\ loc[p].o = loc[q].o => p = q)
<1>1. Inv => \A p, q \in Threads :
               HoldsOpMu(p) /\ HoldsOpMu(q) /\ loc[p].o = loc[q].o => p = q
  BY DEF Inv, OpMuHeld
<1>2. QED
  BY <1>1, Invariance, PTL

-----------------------------------------------------------------------------
(* Holds: a torrent on hold has a purge, a move or a move's verification   *)
(* that will let it go again.                                              *)
(*                                                                         *)
(* HoldHasOwner says who is to take a hold off by where a thread is, and   *)
(* the steps that take one off or pass it on do so according to loc.op, so *)
(* that it needs OpNamed beside Inv: a thread in the program of a purge or *)
(* a move is a purge or a move.  HoldInv is the two together.  A step      *)
(* moves one thread, and puts a torrent on hold only in StructHold; what   *)
(* is to be shown of the others is that its own hold survives the step or  *)
(* comes off the struct with it.                                           *)

(* A hold has an owner: what a step must show.                             *)

Actors == Clients \cup Checkers

(* Only p moves.                                                           *)
Walks(p) ==
  /\ pc' = pc \/ \E c : Goto(p, c)
  /\ loc' = loc \/ \E l : SetLoc(p, l)
  /\ save' = save \/ \E s : SetSave(p, s)

(* No struct is put on hold.                                               *)
NoHold == \A o \in Objs : tr'[o].holdData => tr[o].holdData

Arrives(p) == p \in Clients => OpOK(Where(p), loc[p].op)

ActorsKept(p) ==
  \A q \in Actors : q # p => pc'[q] = pc[q] /\ loc'[q] = loc[q] /\ save'[q].k = save[q].k

LEMMA WalksKept ==
  ASSUME Inv, NEW p \in Threads, Walks(p)
  PROVE  ActorsKept(p)
<1>0. ThreadTypes /\ SaveTypes /\ Actors \subseteq Threads
  BY ThreadFacts DEF Actors, Threads, Callers
<1>1. ASSUME NEW q \in Actors, q # p PROVE pc'[q] = pc[q]
  BY <1>0, <1>1 DEF Walks, Goto, ThreadTypes
<1>2. ASSUME NEW q \in Actors, q # p PROVE loc'[q] = loc[q]
  BY <1>0, <1>2 DEF Walks, SetLoc, ThreadTypes
<1>3. ASSUME NEW q \in Actors, q # p PROVE save'[q] = save[q]
  BY <1>0, <1>3 DEF Walks, SetSave, SaveTypes
<1>4. QED
  BY <1>1, <1>2, <1>3 DEF ActorsKept

LEMMA HoldFrame ==
  ASSUME HoldInv, NEW p, ActorsKept(p),
         p \in Clients => Arrives(p)',
         \A o \in Objs : tr'[o].holdData /\ ~tr[o].holdData => p \in Actors /\ HoldsFor(p, o)',
         \A o \in Objs : tr'[o].holdData /\ p \in Actors /\ HoldsFor(p, o) => HoldsFor(p, o)'
  PROVE  HoldInv'
<1>1. ASSUME NEW q \in Actors, q # p, NEW o \in Objs, HoldsFor(q, o)
      PROVE  HoldsFor(q, o)'
  BY <1>1 DEF ActorsKept, HoldsFor, Where, WhereOf
<1>2. HoldHasOwner'
  <2> SUFFICES ASSUME NEW o \in Objs, tr'[o].holdData
               PROVE  \E q \in Actors : HoldsFor(q, o)'
    BY DEF HoldHasOwner, Actors
  <2>1. CASE ~tr[o].holdData
    BY <2>1
  <2>2. CASE tr[o].holdData
    <3>1. PICK q \in Actors : HoldsFor(q, o)
      BY <2>2 DEF HoldInv, HoldHasOwner, Actors
    <3>2. QED
      BY <1>1, <3>1
  <2>3. QED
    BY <2>1, <2>2
<1>3. OpNamed'
  <2> SUFFICES ASSUME NEW q \in Clients PROVE OpOK(Where(q), loc[q].op)'
    BY DEF OpNamed
  <2>1. CASE q = p
    BY <2>1 DEF Arrives
  <2>2. CASE q # p
    <3>1. Where(q)' = Where(q) /\ loc'[q] = loc[q]
      BY <2>2 DEF ActorsKept, Actors, Where, WhereOf
    <3>2. OpOK(Where(q), loc[q].op)
      BY DEF HoldInv, OpNamed
    <3>3. QED
      BY <3>1, <3>2
  <2>3. QED
    BY <2>1, <2>2
<1>4. QED
  BY <1>2, <1>3 DEF HoldInv

(* A struct assigned.                                                      *)
LEMMA HoldAssigned ==
  ASSUME Inv, NEW o, NEW x, SetTr(o, x), o \in Objs => (x.holdData => tr[o].holdData)
  PROVE  NoHold
<1>1. tr \in [Objs -> Tracked]
  BY DEF Inv, TypeOK, EngineTypes
<1>2. QED
  BY <1>1, FunUpdate DEF SetTr, NoHold

LEMMA HoldUnchanged ==
  ASSUME UNCHANGED tr
  PROVE  NoHold
BY DEF NoHold

(* The fields that have nothing to do with holds.                          *)
LEMMA HoldField ==
  ASSUME NEW x \in Tracked, NEW a
  PROVE  /\ [x EXCEPT !.paused = a].holdData = x.holdData
         /\ [x EXCEPT !.chosenFiles = a].holdData = x.holdData
         /\ [x EXCEPT !.seedLimit = a].holdData = x.holdData
         /\ [x EXCEPT !.label = a].holdData = x.holdData
         /\ [x EXCEPT !.base = a].holdData = x.holdData
         /\ [x EXCEPT !.savePath = a].holdData = x.holdData
BY DEF Tracked

(* A thread that is no client and no check has no holds.                   *)
LEMMA OtherHold ==
  ASSUME Inv, HoldInv, NEW p \in Threads, p \notin Actors, Walks(p), NoHold
  PROVE  HoldInv'
<1>1. ActorsKept(p) /\ p \notin Clients
  BY WalksKept DEF Actors
<1>2. QED
  BY <1>1, HoldFrame DEF NoHold

(* Nor has one whose operation is not structural.                          *)
LEMMA PlainHold ==
  ASSUME Inv, Inv', HoldInv, NEW p \in Threads, p \notin Checkers, ActorsKept(p), NoHold,
         loc[p].op = "" \/ pc[p] = "end", loc'[p].op = ""
  PROVE  HoldInv'
<1>2. \A o \in Objs : p \in Actors => ~HoldsFor(p, o)
  <2>1. pc[p] = "end" => Where(p) \notin HoldLabels
    BY DEF Where, WhereOf, FlowLabels, SaveLabels, HoldLabels
  <2>2. QED
    BY <2>1 DEF HoldsFor
<1>3. Arrives(p)'
  <2>1. LocalOK(p, pc[p], loc[p], save[p].k, nobj)'
    BY DEF Inv, NoNilPointer
  <2>2. Where(p)' \notin StructLabels
    BY <2>1 DEF LocalOK, OperationOK, Where
  <2>3. QED
    BY <2>2 DEF Arrives, OpOK, StructLabels
<1>4. QED
  BY <1>2, <1>3, HoldFrame DEF NoHold

(* One whose operation is: it goes on, and keeps its hold or takes it off. *)
LEMMA OwnHold ==
  ASSUME Inv, HoldInv, NEW p \in Clients, Walks(p),
         loc'[p].op = loc[p].op, loc'[p].o = loc[p].o,
         NEW c, Where(p)' = c, OpOK(c, loc[p].op),
         Where(p) \in HoldLabels => c \in HoldLabels \/ ~tr'[loc[p].o].holdData,
         \A o \in Objs : tr'[o].holdData /\ ~tr[o].holdData =>
           o = loc[p].o /\ c \in HoldLabels /\ loc[p].op \in {"purge", "move"}
  PROVE  HoldInv'
<1>1. p \in Threads
  BY DEF Threads, Callers
<1>2. ActorsKept(p)
  BY <1>1, WalksKept
<1>3. p \in Actors /\ p \notin Checkers
  BY ThreadsAssumption DEF Actors
<1>4. Arrives(p)'
  BY DEF Arrives
<1>5. ASSUME NEW o \in Objs, tr'[o].holdData, ~tr[o].holdData
      PROVE  HoldsFor(p, o)'
  BY <1>5 DEF HoldsFor
<1>6. ASSUME NEW o \in Objs, tr'[o].holdData, HoldsFor(p, o)
      PROVE  HoldsFor(p, o)'
  BY <1>3, <1>6 DEF HoldsFor
<1>7. QED
  BY <1>2, <1>3, <1>4, <1>5, <1>6, HoldFrame

(* What a thread knows of its operation, kept.                             *)
LEMMA OpAdded ==
  ASSUME NEW l \in Locals, NEW a, NEW b, NEW c, NEW d, NEW e, NEW f
  PROVE  [l EXCEPT !.id = a, !.dir = b, !.magnet = c, !.flag = d, !.pick = e, !.sel = f].op = l.op
BY DEF Locals

LEMMA OpOne ==
  ASSUME NEW l \in Locals, NEW a
  PROVE  /\ [l EXCEPT !.flag = a].op = l.op
         /\ [l EXCEPT !.chosen = a].op = l.op
         /\ [l EXCEPT !.ret = a].op = l.op
BY DEF Locals

LEMMA OpFieldsKept ==
  ASSUME NEW l \in Locals, NEW a, NEW b
  PROVE  /\ [l EXCEPT !.t = a].op = l.op /\ [l EXCEPT !.t = a].o = l.o
         /\ [l EXCEPT !.t = a, !.old = b].op = l.op /\ [l EXCEPT !.t = a, !.old = b].o = l.o
         /\ [l EXCEPT !.ft = a].op = l.op /\ [l EXCEPT !.ft = a].o = l.o
         /\ [l EXCEPT !.prios = a].op = l.op /\ [l EXCEPT !.prios = a].o = l.o
BY DEF Locals

(* Where a step of p puts p.                                               *)
LEMMA Lands ==
  ASSUME Inv, NEW p \in Threads
  PROVE  /\ \A c : Goto(p, c) => pc'[p] = c
         /\ \A l : SetLoc(p, l) => loc'[p] = l
         /\ \A s : SetSave(p, s) => save'[p] = s
         /\ loc[p] \in Locals
<1>1. ThreadTypes /\ SaveTypes
  BY ThreadFacts
<1>2. QED
  BY <1>1 DEF Goto, SetLoc, SetSave, ThreadTypes, SaveTypes

-----------------------------------------------------------------------------
(* Calls.                                                                  *)

LEMMA CallHold ==
  ASSUME Inv, Inv', HoldInv, NEW p \in Clients, NEW op, NEW c, NEW l, Call(p, op, c, l),
         l.op = "" \/ c = "op.lock"
  PROVE  HoldInv'
<1>1. p \in Threads /\ p \notin Checkers
  BY ThreadsAssumption DEF Threads, Callers
<1>2. pc[p] = "idle" /\ Goto(p, c) /\ SetLoc(p, l) /\ UNCHANGED save /\ UNCHANGED tr
  BY DEF Call, At, engineVars, saveVars
<1>3. Walks(p) /\ NoHold
  BY <1>2, HoldUnchanged DEF Walks
<1>4. loc[p].op = ""
  <2>1. /\ pc[p] \notin FlowLabels /\ pc[p] \notin SaveLabels
        /\ pc[p] \in OtherLabels \ {"check.add", "check.begin", "end"}
    BY <1>2 DEF FlowLabels, SaveLabels, OtherLabels
  <2>2. QED
    BY <1>1, <2>1, AtFacts
<1>5. pc'[p] = c /\ loc'[p] = l
  BY <1>1, <1>2, Lands
<1>6. CASE l.op = ""
  BY <1>1, <1>3, <1>4, <1>5, <1>6, WalksKept, PlainHold
<1>7. CASE c = "op.lock"
  <2>1. Arrives(p)'
    BY <1>5, <1>7 DEF Arrives, OpOK, Where, WhereOf, FlowLabels, SaveLabels
  <2>2. \A o \in Objs : p \in Actors => ~HoldsFor(p, o)
    BY <1>1, <1>4 DEF HoldsFor
  <2>3. QED
    BY <1>1, <1>3, <2>1, <2>2, WalksKept, HoldFrame DEF NoHold
<1>8. QED
  BY <1>6, <1>7

LEMMA ClientCallsHold ==
  ASSUME Inv, Inv', HoldInv, NEW p \in Clients, ClientCalls(p)
  PROVE  HoldInv'
<1>1. CASE CallAdd(p)
  <2>1. PICK i \in Ids, opts \in AddOpts :
          Call(p, "add", "add.spec",
               [Loc0 EXCEPT !.id = i, !.dir = opts.dir, !.magnet = opts.magnet,
                            !.flag = opts.paused, !.pick = opts.pick, !.sel = opts.sel])
    BY <1>1 DEF CallAdd
  <2> DEFINE n == [Loc0 EXCEPT !.id = i, !.dir = opts.dir, !.magnet = opts.magnet,
                         !.flag = opts.paused, !.pick = opts.pick, !.sel = opts.sel]
  <2>2. n.op = ""
    BY NullTypes DEF Locals
  <2> HIDE DEF n
  <2>3. Call(p, "add", "add.spec", n)
    BY <2>1 DEF n
  <2>4. QED
    BY <2>2, <2>3, CallHold
<1>2. CASE CallSetPaused(p)
  <2>1. PICK i \in Ids, b \in BOOLEAN :
          torrents[i] # NoObj /\ Call(p, "pause", "pause.set", [Found(i) EXCEPT !.flag = b])
    BY <1>2 DEF CallSetPaused
  <2>2. [Found(i) EXCEPT !.flag = b].op = ""
    BY <2>1, FoundFacts, OpOne
  <2>3. QED
    BY <2>1, <2>2, CallHold
<1>3. CASE CallSetFilePriority(p)
  <2>1. PICK i \in Ids, f \in Files, q \in SetPrios :
          /\ torrents[i] # NoObj
          /\ Call(p, "prio", "prio.set", [Found(i) EXCEPT !.file = f, !.prio = q])
    BY <1>3 DEF CallSetFilePriority
  <2>2. [Found(i) EXCEPT !.file = f, !.prio = q].op = ""
    <3>1. Found(i) \in Locals /\ Found(i).op = ""
      BY <2>1, FoundFacts
    <3>2. ASSUME NEW l \in Locals PROVE [l EXCEPT !.file = f, !.prio = q].op = l.op
      BY DEF Locals
    <3>3. QED
      BY <3>1, <3>2
  <2>3. QED
    BY <2>1, <2>2, CallHold
<1>4. CASE CallSetter(p)
  BY <1>4, CallHold, FoundFacts DEF CallSetter
<1>5. CASE CallPrepareStream(p)
  <2>1. PICK i \in Ids, f \in Files :
          /\ torrents[i] # NoObj
          /\ Call(p, "stream", "stream.paused",
                  [Found(i) EXCEPT !.file = f, !.t = tr[torrents[i]].t])
    BY <1>5 DEF CallPrepareStream
  <2>2. [Found(i) EXCEPT !.file = f, !.t = tr[torrents[i]].t].op = ""
    <3>1. Found(i) \in Locals /\ Found(i).op = ""
      BY <2>1, FoundFacts
    <3>2. ASSUME NEW l \in Locals PROVE [l EXCEPT !.file = f, !.t = tr[torrents[i]].t].op = l.op
      BY DEF Locals
    <3>3. QED
      BY <3>1, <3>2
  <2>3. QED
    BY <2>1, <2>2, CallHold
<1>6. CASE CallForceRecheck(p)
  BY <1>6, CallHold, FoundFacts DEF CallForceRecheck
<1>7. CASE CallStruct(p)
  BY <1>7, CallHold DEF CallStruct
<1>8. QED
  BY <1>1, <1>2, <1>3, <1>4, <1>5, <1>6, <1>7 DEF ClientCalls

-----------------------------------------------------------------------------
(* Operations that are not structural.                                     *)

LEMMA PlainAt ==
  ASSUME Inv, NEW p \in Threads,
         pc[p] \in OtherLabels \ {"check.add", "check.begin", "end"}
  PROVE  loc[p].op = "" /\ loc[p] \in Locals
<1>1. pc[p] \notin FlowLabels /\ pc[p] \notin SaveLabels
  BY DEF FlowLabels, SaveLabels, OtherLabels
<1>2. QED
  BY <1>1, AtFacts, Lands

LEMMA PersistWalks ==
  ASSUME NEW p, NEW k, Persist(p, k)
  PROVE  /\ \E c : Goto(p, c)
         /\ save' = save \/ \E s : SetSave(p, s)
BY DEF Persist

LEMMA EndOpHold ==
  ASSUME Inv, Inv', HoldInv, NEW p \in Threads, p \notin Checkers, EndOp(p)
  PROVE  HoldInv'
<1>1. /\ pc[p] = "end" /\ Goto(p, loc[p].ret) /\ UNCHANGED tr /\ UNCHANGED save
      /\ SetLoc(p, IF loc[p].ret = "idle" THEN Loc0 ELSE loc[p])
  BY DEF EndOp, Return, At, saveVars
<1>2. loc[p].op # "" => loc[p].ret = "idle"
  <2>1. pc[p] \notin FlowLabels /\ pc[p] \notin SaveLabels
    BY <1>1 DEF FlowLabels, SaveLabels
  <2>2. QED
    BY <2>1, AtFacts
<1>3. loc'[p].op = ""
  BY <1>1, <1>2, Lands, NullTypes
<1>4. Walks(p) /\ NoHold
  BY <1>1, HoldUnchanged DEF Walks
<1>5. QED
  BY <1>1, <1>3, <1>4, WalksKept, PlainHold

LEMMA AddHold ==
  ASSUME Inv, Inv', HoldInv, NEW p \in Threads, p \notin Checkers, AddStep(p)
  PROVE  HoldInv'
<1>1. loc[p].op = "" /\ loc[p] \in Locals
  <2>1. pc[p] \in OtherLabels \ {"check.add", "check.begin", "end"}
    BY DEF AddStep, AddSpec, AddTrack, AddSpawn, At, OtherLabels
  <2>2. QED
    BY <2>1, PlainAt
<1>2. CASE AddSpec(p)
  <2>1. /\ SetLoc(p, [loc[p] EXCEPT !.t = AddedInst(loc[p].id)]) /\ Goto(p, "add.track")
        /\ UNCHANGED tr /\ UNCHANGED save
    BY <1>2 DEF AddSpec, engineVars, saveVars
  <2>2. loc'[p].op = ""
    <3>1. [loc[p] EXCEPT !.t = AddedInst(loc[p].id)].op = loc[p].op
      BY <1>1 DEF Locals
    <3>2. QED
      BY <1>1, <2>1, <3>1, Lands
  <2>3. Walks(p) /\ NoHold
    BY <2>1, HoldUnchanged DEF Walks
  <2>4. QED
    BY <1>1, <2>2, <2>3, WalksKept, PlainHold
<1>3. CASE AddTrack(p)
  <2> DEFINE i == loc[p].id
             o == IF torrents[i] # NoObj THEN torrents[i] ELSE nobj + 1
             x == IF torrents[i] # NoObj
                  THEN [tr[o] EXCEPT !.paused = @ \/ loc[p].flag]
                  ELSE NewTracked(loc[p].t, loc[p].dir, loc[p].magnet, loc[p].flag)
  <2>1. /\ SetTr(o, x) /\ SetLoc(p, Decide(loc[p], x, "add.spawn"))
        /\ Goto(p, "flow.down") /\ UNCHANGED save
    BY <1>3, Zenon DEF AddTrack, saveVars
  <2>2. x.holdData => tr[o].holdData
    <3>1. CASE torrents[i] # NoObj
      <4>1. o = torrents[i] /\ tr[o] \in Tracked
        BY <1>1, <3>1, ObjFor DEF Locals
      <4>2. x = [tr[o] EXCEPT !.paused = @ \/ loc[p].flag]
        BY <3>1
      <4> HIDE DEF x, o
      <4>3. ASSUME NEW y \in Tracked PROVE [y EXCEPT !.paused = @ \/ loc[p].flag].holdData = y.holdData
        BY DEF Tracked
      <4>4. QED
        BY <4>1, <4>2, <4>3
    <3>2. CASE torrents[i] = NoObj
      BY <3>2 DEF NewTracked
    <3>3. QED
      BY <3>1, <3>2
  <2>3. loc'[p].op = ""
    <3>1. ASSUME NEW y PROVE Decide(loc[p], y, "add.spawn").op = loc[p].op
      BY <1>1 DEF Decide, Locals
    <3> HIDE DEF x
    <3>2. QED
      BY <1>1, <2>1, <3>1, Lands
  <2> HIDE DEF o, x
  <2>4. Walks(p) /\ NoHold
    BY <2>1, <2>2, HoldAssigned DEF Walks
  <2>5. QED
    BY <1>1, <2>3, <2>4, WalksKept, PlainHold
<1>4. CASE AddSpawn(p)
  <2> DEFINE w == CHOOSE x \in Waiters : At(x, "off")
  <2>1. /\ w \in Waiters /\ SetLoc(w, [loc[p] EXCEPT !.ret = "off"])
        /\ \E c : pc' = [pc EXCEPT ![p] = c, ![w] = "wait.info"]
        /\ save' = save \/ \E s : SetSave(p, s)
        /\ UNCHANGED tr /\ pc[p] = "add.spawn" /\ pc[w] = "off"
    BY <1>4 DEF AddSpawn, At, engineVars
  <2> HIDE DEF w
  <2>2. w \notin Actors /\ w # p
    BY <1>4, <2>1, ThreadsAssumption DEF Actors
  <2>3. ThreadTypes /\ SaveTypes /\ Actors \subseteq Threads
    BY ThreadFacts DEF Actors, Threads, Callers
  <2>4. ActorsKept(p)
    <3>1. ASSUME NEW q \in Actors, q # p PROVE pc'[q] = pc[q]
      BY <2>1, <2>2, <2>3, <3>1 DEF ThreadTypes
    <3>2. ASSUME NEW q \in Actors, q # p PROVE loc'[q] = loc[q]
      BY <2>1, <2>2, <2>3, <3>2 DEF ThreadTypes, SetLoc
    <3>3. ASSUME NEW q \in Actors, q # p PROVE save'[q] = save[q]
      BY <2>1, <2>3, <3>3 DEF SaveTypes, SetSave
    <3>4. QED
      BY <3>1, <3>2, <3>3 DEF ActorsKept
  <2>5. loc'[p].op = ""
    BY <1>1, <2>1, <2>2, <2>3 DEF ThreadTypes, SetLoc
  <2>6. QED
    BY <1>1, <2>1, <2>4, <2>5, HoldUnchanged, PlainHold
<1>5. QED
  BY <1>2, <1>3, <1>4 DEF AddStep

LEMMA PauseHold ==
  ASSUME Inv, Inv', HoldInv, NEW p \in Threads, p \notin Checkers, PauseStep(p)
  PROVE  HoldInv'
<1>1. loc[p].op = "" /\ loc[p] \in Locals
  <2>1. pc[p] \in OtherLabels \ {"check.add", "check.begin", "end"}
    BY DEF PauseStep, SetPaused, SetPausedChosen, SetPausedMark, SetPausedSave, At, OtherLabels
  <2>2. QED
    BY <2>1, PlainAt
<1>2. CASE SetPaused(p)
  <2> DEFINE o == loc[p].o
             x == [tr[o] EXCEPT !.paused = loc[p].flag]
             k == IF loc[p].flag THEN "pause.save" ELSE "pause.chosen"
  <2>1. /\ SetTr(o, x) /\ SetLoc(p, Decide(loc[p], x, k))
        /\ Goto(p, "flow.down") /\ UNCHANGED save /\ pc[p] = "pause.set"
    BY <1>2, Zenon DEF SetPaused, At, saveVars
  <2>2. o \in Objs /\ tr[o] \in Tracked
    <3>1. /\ pc[p] \notin FlowLabels /\ pc[p] \notin SaveLabels /\ pc[p] \in NeedsObj
      BY <2>1 DEF FlowLabels, SaveLabels, NeedsObj
    <3>2. QED
      BY <3>1, AtFacts, ObjOf
  <2>3. x.holdData = tr[o].holdData
    BY <2>2, HoldField
  <2>4. loc'[p].op = ""
    <3>1. ASSUME NEW y, NEW z PROVE Decide(loc[p], y, z).op = loc[p].op
      BY <1>1 DEF Decide, Locals
    <3> HIDE DEF x, k
    <3>2. QED
      BY <1>1, <2>1, <3>1, Lands
  <2> HIDE DEF o, x, k
  <2>5. Walks(p) /\ NoHold
    BY <2>1, <2>3, HoldAssigned DEF Walks
  <2>6. QED
    BY <1>1, <2>4, <2>5, WalksKept, PlainHold
<1>3. CASE SetPausedChosen(p)
  <2>1. /\ \E s : SetLoc(p, [loc[p] EXCEPT !.chosen = s]) /\ Goto(p, "pause.mark")
        /\ UNCHANGED tr /\ UNCHANGED save
    BY <1>3 DEF SetPausedChosen, engineVars, saveVars
  <2>2. loc'[p].op = ""
    <3>1. PICK s : SetLoc(p, [loc[p] EXCEPT !.chosen = s])
      BY <2>1
    <3>2. [loc[p] EXCEPT !.chosen = s].op = loc[p].op
      BY <1>1, OpOne
    <3>3. QED
      BY <1>1, <3>1, <3>2, Lands
  <2>3. Walks(p) /\ NoHold
    BY <2>1, HoldUnchanged DEF Walks
  <2>4. QED
    BY <1>1, <2>2, <2>3, WalksKept, PlainHold
<1>4. CASE SetPausedMark(p) \/ SetPausedSave(p)
  <2>1. /\ (\E c : Goto(p, c)) /\ (save' = save \/ \E s : SetSave(p, s))
        /\ UNCHANGED tr /\ UNCHANGED loc
    BY <1>4, PersistWalks DEF SetPausedMark, SetPausedSave, engineVars, saveVars
  <2>2. Walks(p) /\ NoHold
    BY <2>1, HoldUnchanged DEF Walks
  <2>3. QED
    BY <1>1, <2>1, <2>2, WalksKept, PlainHold
<1>5. QED
  BY <1>2, <1>3, <1>4 DEF PauseStep

LEMMA FieldHold ==
  ASSUME Inv, Inv', HoldInv, NEW p \in Threads, p \notin Checkers, FieldStep(p)
  PROVE  HoldInv'
<1>0. /\ pc[p] \in {"prio.set", "prio.chosen", "rate", "seed", "label"}
      /\ UNCHANGED loc
  BY DEF FieldStep, SetFilePriority, SetFilePriorityChosen, SetTorrentRateLimit,
         SetSeedLimit, SetLabel, At
<1>1. loc[p].op = ""
  <2>1. pc[p] \in OtherLabels \ {"check.add", "check.begin", "end"}
    BY <1>0 DEF OtherLabels
  <2>2. QED
    BY <2>1, PlainAt
<1>2. loc[p].o \in Objs /\ tr[loc[p].o] \in Tracked
  <2>1. /\ pc[p] \notin FlowLabels /\ pc[p] \notin SaveLabels /\ pc[p] \in NeedsObj
    BY <1>0 DEF FlowLabels, SaveLabels, NeedsObj
  <2>2. QED
    BY <2>1, AtFacts, ObjOf
<1>3. Walks(p)
  <2>1. CASE SetFilePriority(p)
    BY <1>0, <2>1 DEF SetFilePriority, Walks, saveVars
  <2>2. CASE \E k : Persist(p, k)
    BY <1>0, <2>2, PersistWalks DEF Walks
  <2>3. QED
    BY <2>1, <2>2 DEF FieldStep, SetFilePriorityChosen, SetTorrentRateLimit,
                      SetSeedLimit, SetLabel
<1>4. NoHold
  <2>1. CASE SetFilePriority(p)
    BY <2>1, HoldUnchanged DEF SetFilePriority, engineVars
  <2>2. CASE SetFilePriorityChosen(p)
    <3>1. \E a : SetTr(loc[p].o, [tr[loc[p].o] EXCEPT !.chosenFiles = a])
      BY <2>2 DEF SetFilePriorityChosen
    <3>2. QED
      BY <1>2, <3>1, HoldField, HoldAssigned
  <2>3. CASE SetTorrentRateLimit(p)
    <3>1. PICK up \in {-1, 0, 1}, down \in {-1, 0, 1} :
            SetTr(loc[p].o, [tr[loc[p].o] EXCEPT !.upLimit = IF up >= 0 THEN up ELSE @,
                                                 !.downLimit = IF down >= 0 THEN down ELSE @])
      BY <2>3 DEF SetTorrentRateLimit
    <3>2. ASSUME NEW x \in Tracked
          PROVE  [x EXCEPT !.upLimit = IF up >= 0 THEN up ELSE @,
                           !.downLimit = IF down >= 0 THEN down ELSE @].holdData = x.holdData
      BY DEF Tracked
    <3>3. QED
      BY <1>2, <3>1, <3>2, HoldAssigned
  <2>4. CASE SetSeedLimit(p)
    <3>1. \E a : SetTr(loc[p].o, [tr[loc[p].o] EXCEPT !.seedLimit = a])
      BY <2>4 DEF SetSeedLimit
    <3>2. QED
      BY <1>2, <3>1, HoldField, HoldAssigned
  <2>5. CASE SetLabel(p)
    <3>1. \E a : SetTr(loc[p].o, [tr[loc[p].o] EXCEPT !.label = a])
      BY <2>5 DEF SetLabel
    <3>2. QED
      BY <1>2, <3>1, HoldField, HoldAssigned
  <2>6. QED
    BY <2>1, <2>2, <2>3, <2>4, <2>5 DEF FieldStep
<1>5. QED
  BY <1>0, <1>1, <1>3, <1>4, WalksKept, PlainHold

LEMMA StreamHold ==
  ASSUME Inv, Inv', HoldInv, NEW p \in Threads, p \notin Checkers, StreamStep(p)
  PROVE  HoldInv'
<1>1. loc[p].op = "" /\ loc[p] \in Locals
  <2>1. pc[p] \in OtherLabels \ {"check.add", "check.begin", "end"}
    BY DEF StreamStep, PrepareStreamPaused, PrepareStreamResume, PrepareStreamPrio, At, OtherLabels
  <2>2. QED
    BY <2>1, PlainAt
<1>2. UNCHANGED tr /\ UNCHANGED save
  BY DEF StreamStep, PrepareStreamPaused, PrepareStreamResume, PrepareStreamPrio,
         engineVars, saveVars
<1>3. /\ \E c : Goto(p, c)
      /\ \/ UNCHANGED loc
         \/ \E o : SetLoc(p, [loc[p] EXCEPT !.o = o, !.flag = FALSE, !.ret = "stream.prio"])
         \/ \E o : SetLoc(p, [loc[p] EXCEPT !.o = o, !.prio = "high", !.ret = "idle"])
         \/ SetLoc(p, [loc[p] EXCEPT !.ret = "idle"])
  BY DEF StreamStep, PrepareStreamPaused, PrepareStreamResume, PrepareStreamPrio
<1>4. Walks(p) /\ NoHold
  BY <1>2, <1>3, HoldUnchanged DEF Walks
<1>5. loc'[p].op = ""
  <2>1. ASSUME NEW l \in Locals, NEW o
        PROVE  /\ [l EXCEPT !.o = o, !.flag = FALSE, !.ret = "stream.prio"].op = l.op
               /\ [l EXCEPT !.o = o, !.prio = "high", !.ret = "idle"].op = l.op
               /\ [l EXCEPT !.ret = "idle"].op = l.op
    BY DEF Locals
  <2>2. ASSUME NEW l, SetLoc(p, l), l.op = loc[p].op PROVE loc'[p].op = ""
    BY <1>1, <2>2, Lands
  <2>3. CASE \E o : SetLoc(p, [loc[p] EXCEPT !.o = o, !.flag = FALSE, !.ret = "stream.prio"])
    <3>1. PICK o : SetLoc(p, [loc[p] EXCEPT !.o = o, !.flag = FALSE, !.ret = "stream.prio"])
      BY <2>3
    <3>2. [loc[p] EXCEPT !.o = o, !.flag = FALSE, !.ret = "stream.prio"].op = loc[p].op
      BY <1>1, <2>1
    <3>3. QED
      BY <2>2, <3>1, <3>2
  <2>4. CASE \E o : SetLoc(p, [loc[p] EXCEPT !.o = o, !.prio = "high", !.ret = "idle"])
    <3>1. PICK o : SetLoc(p, [loc[p] EXCEPT !.o = o, !.prio = "high", !.ret = "idle"])
      BY <2>4
    <3>2. [loc[p] EXCEPT !.o = o, !.prio = "high", !.ret = "idle"].op = loc[p].op
      BY <1>1, <2>1
    <3>3. QED
      BY <2>2, <3>1, <3>2
  <2>5. CASE UNCHANGED loc \/ SetLoc(p, [loc[p] EXCEPT !.ret = "idle"])
    BY <1>1, <2>1, <2>2, <2>5
  <2>6. QED
    BY <1>3, <2>3, <2>4, <2>5
<1>6. QED
  BY <1>1, <1>4, <1>5, WalksKept, PlainHold

-----------------------------------------------------------------------------
(* applyFlow and persist: a thread is where it was.                        *)

LEMMA StayHold ==
  ASSUME Inv, HoldInv, NEW p \in Threads, pc[p] \in FlowLabels \cup SaveLabels,
         Walks(p), UNCHANGED loc, UNCHANGED tr, Where(p)' = Where(p)
  PROVE  HoldInv'
<1>1. CASE p \in Clients
  <2>1. OpOK(Where(p), loc[p].op)
    BY <1>1 DEF HoldInv, OpNamed
  <2>2. /\ loc'[p].op = loc[p].op /\ loc'[p].o = loc[p].o
        /\ \A o \in Objs : tr'[o].holdData = tr[o].holdData
    OBVIOUS
  <2>3. QED
    BY <1>1, <2>1, <2>2, OwnHold
<1>2. CASE p \notin Clients
  <2>1. \A o \in Objs : p \in Actors => ~HoldsFor(p, o)
    BY <1>2 DEF HoldsFor, FlowLabels, SaveLabels
  <2>2. QED
    BY <1>2, <2>1, WalksKept, HoldFrame
<1>3. QED
  BY <1>1, <1>2

LEMMA NextApart ==
  /\ \A k \in FlowNext \cup SaveNext : k \notin FlowLabels /\ k \notin SaveLabels
  /\ FlowLabels \cap SaveLabels = {}
BY SMTT(30) DEF FlowNext, SaveNext, FlowLabels, SaveLabels

LEMMA ApplyFlowHold ==
  ASSUME Inv, HoldInv, NEW p \in Threads, ApplyFlowDown(p) \/ ApplyFlowUp(p)
  PROVE  HoldInv'
<1>1. /\ pc[p] \in FlowLabels
      /\ Goto(p, "flow.up") \/ Goto(p, loc[p].fk)
      /\ UNCHANGED loc /\ UNCHANGED tr /\ UNCHANGED save
  BY DEF ApplyFlowDown, ApplyFlowUp, At, FlowLabels, engineVars, saveVars
<1>2. loc[p].fk \in FlowNext
  BY <1>1, ThreadFacts DEF LocalOK, ReturnsOK
<1>3. Where(p)' = Where(p)
  BY <1>1, <1>2, NextApart, Lands DEF Where, WhereOf, FlowLabels
<1>4. Walks(p)
  BY <1>1 DEF Walks
<1>5. QED
  BY <1>1, <1>3, <1>4, StayHold

LEMMA PersistHold ==
  ASSUME Inv, HoldInv, NEW p \in Threads, PersistStep(p)
  PROVE  HoldInv'
<1> USE DEF PersistCheck, SaveGather, SaveMetaCollect, SaveMetaWrite, SaveWrite, SaveDirFails
<1>1. /\ pc[p] \in SaveLabels /\ UNCHANGED loc /\ UNCHANGED tr
      /\ save' = save \/ \E s : SetSave(p, s)
      /\ UNCHANGED pc \/ \E c : Goto(p, c)
  BY DEF PersistStep, At, SaveLabels, engineVars
<1>2. save[p].k \in SaveNext /\ save[p] \in Saving
  BY <1>1, ThreadFacts DEF LocalOK, ReturnsOK
<1>3. Walks(p)
  BY <1>1 DEF Walks
<1>4. \/ pc'[p] \in SaveLabels /\ save'[p].k = save[p].k
      \/ pc'[p] = save[p].k
  <2>1. ASSUME NEW d \in [Ids -> Record \cup {NoRec}] PROVE [save[p] EXCEPT !.draft = d].k = save[p].k
    BY <1>2 DEF Saving
  <2>2. ASSUME NEW d PROVE [save[p] EXCEPT !.todo = d].k = save[p].k
    BY <1>2 DEF Saving
  <2>3. CASE PersistCheck(p) \/ SaveWrite(p) \/ SaveDirFails(p)
    BY <2>3, Lands DEF SaveLabels
  <2>4. CASE SaveGather(p)
    <3>1. Records \in [Ids -> Record \cup {NoRec}]
      BY RecordTypes
    <3>2. QED
      BY <2>1, <2>4, <3>1, Lands DEF SaveLabels
  <2>5. CASE SaveMetaCollect(p)
    BY <2>2, <2>5, Lands DEF SaveLabels
  <2>6. CASE SaveMetaWrite(p)
    <3>1. UNCHANGED pc /\ \E d : SetSave(p, [save[p] EXCEPT !.todo = d])
      BY <2>6
    <3>2. QED
      BY <1>1, <2>2, <3>1, Lands
  <2>7. QED
    BY <2>3, <2>4, <2>5, <2>6 DEF PersistStep
<1>5. Where(p)' = Where(p)
  BY <1>1, <1>2, <1>4, NextApart DEF Where, WhereOf
<1>6. QED
  BY <1>1, <1>3, <1>5, StayHold

-----------------------------------------------------------------------------
(* Structural operations.                                                  *)

LEMMA PlaceApart ==
  \A c \in StructLabels \cup OtherLabels : c \notin FlowLabels /\ c \notin SaveLabels
BY SMTT(30) DEF StructLabels, OtherLabels, FlowLabels, SaveLabels

LEMMA NamedAt ==
  ASSUME Inv, HoldInv, NEW p \in Clients, pc[p] \in StructLabels \cup OtherLabels
  PROVE  Where(p) = pc[p] /\ OpOK(pc[p], loc[p].op) /\ p \in Threads
<1>1. Where(p) = pc[p]
  BY PlaceApart DEF Where, WhereOf
<1>2. QED
  BY <1>1 DEF HoldInv, OpNamed, Threads, Callers

(* On to c, and nothing is put on hold.                                    *)
LEMMA GoHold ==
  ASSUME Inv, HoldInv, NEW p \in Clients, pc[p] \in StructLabels \cup OtherLabels,
         NEW c \in StructLabels \cup OtherLabels, Goto(p, c), UNCHANGED save, NoHold,
         \/ UNCHANGED loc
         \/ \E l : SetLoc(p, l) /\ l.op = loc[p].op /\ l.o = loc[p].o,
         OpOK(c, loc[p].op), pc[p] \in HoldLabels => c \in HoldLabels
  PROVE  HoldInv'
<1>1. p \in Threads /\ Where(p) = pc[p]
  BY NamedAt
<1>2. Walks(p)
  BY DEF Walks
<1>3. pc'[p] = c /\ loc'[p].op = loc[p].op /\ loc'[p].o = loc[p].o
  BY <1>1, Lands
<1>4. Where(p)' = c
  BY <1>3, PlaceApart DEF Where, WhereOf
<1>5. QED
  BY <1>1, <1>2, <1>3, <1>4, OwnHold DEF NoHold

(* On to c through persist; the hold comes off, or c has it.               *)
LEMMA SaveHold ==
  ASSUME Inv, HoldInv, NEW p \in Clients, pc[p] \in StructLabels \cup OtherLabels,
         NEW c \in SaveNext, Persist(p, c), UNCHANGED saveMu, NoHold,
         \/ UNCHANGED loc
         \/ \E l : SetLoc(p, l) /\ l.op = loc[p].op /\ l.o = loc[p].o,
         OpOK(c, loc[p].op),
         pc[p] \in HoldLabels => c \in HoldLabels \/ ~tr'[loc[p].o].holdData
  PROVE  HoldInv'
<1>1. p \in Threads /\ Where(p) = pc[p]
  BY NamedAt
<1>2. Walks(p)
  BY PersistWalks DEF Walks
<1>3. loc'[p].op = loc[p].op /\ loc'[p].o = loc[p].o
  BY <1>1, Lands
<1>4. Where(p)' = c
  <2>1. \/ pc'[p] = c
        \/ pc'[p] = "save.check" /\ save'[p].k = c
    BY <1>1, PersistFacts, Lands
  <2>2. QED
    BY <2>1, NextApart DEF Where, WhereOf, SaveLabels
<1>5. QED
  BY <1>1, <1>2, <1>3, <1>4, OwnHold DEF NoHold

LEMMA LockHold ==
  ASSUME Inv, HoldInv, NEW p \in Threads, LockOp(p) \/ QuiesceCancel(p) \/ QuiesceWait(p)
  PROVE  HoldInv'
<1>1. /\ pc[p] \in {"op.lock", "op.cancel", "op.wait"} /\ UNCHANGED loc /\ UNCHANGED tr
      /\ UNCHANGED save
      /\ Goto(p, "op.cancel") \/ Goto(p, "op.wait") \/ Goto(p, loc[p].op)
  BY DEF LockOp, QuiesceCancel, QuiesceWait, At, engineVars, saveVars
<1>2. pc[p] \in StructLabels /\ pc[p] \notin HoldLabels
  BY <1>1 DEF StructLabels, HoldLabels
<1>3. p \in Clients /\ loc[p].op \in {"remove", "purge", "move"}
  BY <1>2, StructAt DEF Locals
<1>4. ASSUME NEW c \in {"op.cancel", "op.wait", loc[p].op}
      PROVE  c \in StructLabels /\ OpOK(c, loc[p].op)
  BY <1>3 DEF StructLabels, OpOK
<1>5. NoHold
  BY <1>1, HoldUnchanged
<1>6. QED
  BY <1>1, <1>2, <1>3, <1>4, <1>5, GoHold

LEMMA RemoveHold ==
  ASSUME Inv, HoldInv, NEW p \in Threads, RemoveStep(p)
  PROVE  HoldInv'
<1>1. /\ pc[p] \in {"remove", "remove.drop", "remove.files", "remove.meta"}
      /\ UNCHANGED loc /\ UNCHANGED tr
      /\ \/ /\ UNCHANGED save
            /\ \E c \in {"end", "remove.drop", "remove.files", "remove.meta"} : Goto(p, c)
         \/ Persist(p, "end") /\ UNCHANGED saveMu
  BY DEF RemoveStep, RemoveDelete, RemoveDrop, RemoveFiles, RemoveMeta, At, engineVars, saveVars
<1>2. pc[p] \in StructLabels /\ pc[p] \notin HoldLabels
  BY <1>1 DEF StructLabels, HoldLabels
<1>3. p \in Clients /\ NoHold
  BY <1>1, <1>2, StructAt, HoldUnchanged
<1>4. /\ \A c \in {"end", "remove.drop", "remove.files", "remove.meta"} :
           c \in StructLabels \cup OtherLabels /\ OpOK(c, loc[p].op)
      /\ "end" \in SaveNext
  BY DEF StructLabels, OtherLabels, OpOK, SaveNext
<1>5. QED
  BY <1>1, <1>2, <1>3, <1>4, GoHold, SaveHold
(* On to k through applyFlow, with the struct assigned.                    *)
LEMMA DecideHold ==
  ASSUME Inv, HoldInv, NEW p \in Clients, pc[p] \in StructLabels, UNCHANGED save,
         NEW l \in Locals, l.op = loc[p].op, l.o = loc[p].o, NEW x \in Tracked, NEW k \in FlowNext,
         SetTr(loc[p].o, x), SetLoc(p, Decide(l, x, k)), Goto(p, "flow.down"),
         OpOK(k, loc[p].op), pc[p] \in HoldLabels => k \in HoldLabels \/ ~x.holdData,
         x.holdData /\ ~tr[loc[p].o].holdData => k \in HoldLabels /\ loc[p].op \in {"purge", "move"}
  PROVE  HoldInv'
<1>1. p \in Threads /\ Where(p) = pc[p] /\ loc[p].o \in Objs /\ tr \in [Objs -> Tracked]
  BY NamedAt, StructAt, ThreadFacts DEF EngineTypes
<1>2. Walks(p)
  BY DEF Walks
<1>3. /\ pc'[p] = "flow.down" /\ loc'[p].fk = k
      /\ loc'[p].op = loc[p].op /\ loc'[p].o = loc[p].o
  BY <1>1, Lands, DecideFacts
<1>4. Where(p)' = k
  BY <1>3 DEF Where, WhereOf, FlowLabels
<1>5. /\ tr'[loc[p].o] = x
      /\ \A o \in Objs : o # loc[p].o => tr'[o] = tr[o]
  BY <1>1, FunUpdate DEF SetTr
<1>6. QED
  BY <1>1, <1>2, <1>3, <1>4, <1>5, OwnHold

(* The hold, put on and taken off.                                         *)
LEMMA HoldSet ==
  ASSUME NEW x \in Tracked, NEW a, NEW t
  PROVE  /\ [x EXCEPT !.t = t, !.holdData = FALSE].holdData = FALSE
         /\ [x EXCEPT !.t = t, !.savePath = a].holdData = x.holdData
         /\ Failed(x).holdData = FALSE
BY DEF Tracked, Failed

LEMMA HoldTypes ==
  ASSUME NEW x \in Tracked, NEW t \in Insts
  PROVE  [x EXCEPT !.t = t, !.holdData = FALSE] \in Tracked
BY DEF Tracked

(* What purge and move share.                                              *)
LEMMA ReadHold ==
  ASSUME Inv, HoldInv, NEW p \in Threads, pc[p] \in {"purge", "move"},
         NEW c \in StructLabels, OpOK(c, pc[p]), StructRead(p, c)
  PROVE  HoldInv'
<1>1. pc[p] \in StructLabels /\ pc[p] \notin HoldLabels
  BY DEF StructLabels, HoldLabels
<1>2. p \in Clients /\ loc[p] \in Locals
  BY <1>1, StructAt
<1>3. loc[p].op = pc[p]
  <2>1. OpOK(pc[p], loc[p].op)
    BY <1>1, <1>2, NamedAt
  <2>2. ASSUME NEW op PROVE (OpOK("purge", op) => op = "purge") /\ (OpOK("move", op) => op = "move")
    BY DEF OpOK
  <2>3. QED
    BY <2>1, <2>2
<1>4. /\ UNCHANGED tr /\ UNCHANGED save
      /\ \/ Goto(p, "end") /\ UNCHANGED loc
         \/ /\ Goto(p, c)
            /\ SetLoc(p, [loc[p] EXCEPT !.t = tr[loc[p].o].t, !.old = tr[loc[p].o].savePath])
  BY DEF StructRead, engineVars, saveVars
<1>5. "end" \in OtherLabels /\ OpOK("end", loc[p].op)
  BY DEF OtherLabels, OpOK
<1>6. NoHold
  BY <1>4, HoldUnchanged
<1>7. ASSUME NEW a, NEW b
      PROVE  LET l == [loc[p] EXCEPT !.t = a, !.old = b]
             IN l.op = loc[p].op /\ l.o = loc[p].o
  BY <1>2, OpFieldsKept
<1>8. CASE Goto(p, "end") /\ UNCHANGED loc
  BY <1>1, <1>2, <1>4, <1>5, <1>6, <1>8, GoHold
<1>9. CASE /\ Goto(p, c)
           /\ SetLoc(p, [loc[p] EXCEPT !.t = tr[loc[p].o].t, !.old = tr[loc[p].o].savePath])
  <2> DEFINE l == [loc[p] EXCEPT !.t = tr[loc[p].o].t, !.old = tr[loc[p].o].savePath]
  <2>1. l.op = loc[p].op /\ l.o = loc[p].o
    BY <1>7
  <2>2. SetLoc(p, l)
    BY <1>9
  <2> HIDE DEF l
  <2>3. pc[p] \in StructLabels \cup OtherLabels /\ OpOK(c, loc[p].op)
    BY <1>1, <1>3
  <2>4. QED
    BY <1>1, <1>2, <1>4, <1>6, <1>9, <2>1, <2>2, <2>3, GoHold
<1>10. QED
  BY <1>4, <1>8, <1>9

LEMMA PutHold ==
  ASSUME Inv, HoldInv, NEW p \in Threads, pc[p] \in StructLabels \ HoldLabels,
         NEW b \in BOOLEAN, NEW c \in FlowNext \cap HoldLabels, OpOK(c, loc[p].op),
         loc[p].op \in {"purge", "move"}, StructHold(p, b, c)
  PROVE  HoldInv'
<1>1. p \in Clients /\ loc[p] \in Locals /\ tr[loc[p].o] \in Tracked
  BY StructAt
<1> DEFINE x == [tr[loc[p].o] EXCEPT !.holdData = TRUE, !.paused = @ \/ b]
<1>2. /\ SetTr(loc[p].o, x) /\ SetLoc(p, Decide(loc[p], x, c)) /\ Goto(p, "flow.down")
      /\ UNCHANGED save
  BY Zenon DEF StructHold, saveVars
<1>3. x \in Tracked
  <2>1. ASSUME NEW y \in Tracked PROVE [y EXCEPT !.holdData = TRUE, !.paused = @ \/ b] \in Tracked
    BY DEF Tracked
  <2>2. QED
    BY <1>1, <2>1, Zenon
<1> HIDE DEF x
<1>4. QED
  BY <1>1, <1>2, <1>3, DecideHold

LEMMA FoldHold ==
  ASSUME Inv, HoldInv, NEW p \in Threads, pc[p] \in StructLabels,
         NEW c \in StructLabels \cap HoldLabels, OpOK(c, loc[p].op),
         FoldCounters(p, c) \/ DropOld(p, c)
  PROVE  HoldInv'
<1>1. p \in Clients /\ loc[p] \in Locals /\ tr[loc[p].o] \in Tracked
  BY StructAt
<1>2. NoHold
  <2>1. CASE FoldCounters(p, c)
    BY <1>1, <2>1, HoldField, HoldAssigned DEF FoldCounters
  <2>2. CASE DropOld(p, c)
    BY <2>2, HoldUnchanged DEF DropOld, engineVars
  <2>3. QED
    BY <2>1, <2>2
<1>3. Goto(p, c) /\ UNCHANGED save /\ UNCHANGED loc
  BY DEF FoldCounters, DropOld, saveVars
<1>4. QED
  BY <1>1, <1>2, <1>3, GoHold
-----------------------------------------------------------------------------
(* Purge.                                                                  *)

PurgeAt == {"purge", "purge.hold", "purge.fold", "purge.drop", "purge.delete",
            "purge.readd", "purge.swap", "purge.save", "purge.failed"}

MoveAt == {"move", "move.mkdir", "move.hold", "move.prios", "move.files",
           "move.fold", "move.drop", "move.readd", "move.lost", "move.failed",
           "move.reprio", "move.swap"}

LEMMA OpAt ==
  ASSUME Inv, HoldInv, NEW p \in Threads, pc[p] \in PurgeAt \cup MoveAt
  PROVE  /\ pc[p] \in StructLabels /\ p \in Clients /\ loc[p] \in Locals
         /\ loc[p].o \in Objs /\ tr[loc[p].o] \in Tracked
         /\ pc[p] \in NeedsFresh => loc[p].ft \in Insts
         /\ pc[p] \in PurgeAt => loc[p].op = "purge"
         /\ pc[p] \in MoveAt => loc[p].op = "move"
         /\ loc[p].op \in {"purge", "move"}
<1>1. pc[p] \in StructLabels
  BY SMTT(30) DEF PurgeAt, MoveAt, StructLabels
<1>2. OpOK(pc[p], loc[p].op)
  BY <1>1, StructAt, NamedAt
<1>3. /\ pc[p] \in PurgeAt => loc[p].op = "purge"
      /\ pc[p] \in MoveAt => loc[p].op = "move"
  BY <1>2 DEF OpOK, PurgeAt, MoveAt
<1>4. QED
  BY <1>1, <1>3, StructAt

LEMMA PurgeNext ==
  /\ \A c \in PurgeAt : OpOK(c, "purge") /\ c \in StructLabels
  /\ \A op : OpOK("end", op)
  /\ "end" \in OtherLabels \cap SaveNext
  /\ {"purge.fold", "purge.save"} \subseteq FlowNext
  /\ PurgeAt \cap HoldLabels = {"purge.fold", "purge.drop", "purge.delete",
                                "purge.readd", "purge.swap", "purge.failed"}
BY SMTT(30) DEF OpOK, PurgeAt, StructLabels, OtherLabels, FlowNext, SaveNext, HoldLabels

LEMMA PurgeHolds ==
  ASSUME Inv, HoldInv, NEW p \in Threads, PurgeStep(p)
  PROVE  HoldInv'
<1>0. pc[p] \in PurgeAt
  BY DEF PurgeStep, PurgeRead, PurgeHold, PurgeFold, PurgeDrop, PurgeDelete, PurgeReadd,
         PurgeSwap, PurgeSave, PurgeFailed, At, PurgeAt
<1>a. /\ pc[p] \in StructLabels /\ p \in Clients /\ loc[p] \in Locals
      /\ loc[p].o \in Objs /\ tr[loc[p].o] \in Tracked
      /\ pc[p] \in NeedsFresh => loc[p].ft \in Insts
      /\ loc[p].op = "purge"
  BY <1>0, OpAt
<1>b. /\ \A c \in PurgeAt : OpOK(c, "purge") /\ c \in StructLabels
      /\ OpOK("end", "purge") /\ "end" \in OtherLabels \cap SaveNext
      /\ "purge.fold" \in FlowNext /\ "purge.save" \in FlowNext
  BY PurgeNext
<1>c. \A c \in PurgeAt : c \in HoldLabels <=>
         c \in {"purge.fold", "purge.drop", "purge.delete", "purge.readd", "purge.swap",
                "purge.failed"}
  BY PurgeNext
<1>1. CASE PurgeRead(p)
  <2>1. pc[p] = "purge" /\ StructRead(p, "purge.hold") /\ "purge.hold" \in PurgeAt
    BY <1>1 DEF PurgeRead, At, PurgeAt
  <2>2. QED
    BY <1>b, <2>1, ReadHold
<1>2. CASE PurgeHold(p)
  <2>1. /\ pc[p] = "purge.hold" /\ StructHold(p, TRUE, "purge.fold")
        /\ "purge.hold" \in PurgeAt /\ "purge.fold" \in PurgeAt
    BY <1>2 DEF PurgeHold, At, PurgeAt
  <2>2. pc[p] \in StructLabels \ HoldLabels /\ "purge.fold" \in FlowNext \cap HoldLabels
    BY <1>b, <1>c, <2>1
  <2>3. OpOK("purge.fold", loc[p].op)
    BY <1>a, <1>b, <2>1
  <2>4. QED
    BY <1>a, <2>1, <2>2, <2>3, PutHold
<1>3. CASE PurgeFold(p) \/ PurgeDrop(p)
  <2>1. /\ \/ FoldCounters(p, "purge.drop")
           \/ DropOld(p, "purge.delete")
        /\ "purge.drop" \in PurgeAt /\ "purge.delete" \in PurgeAt
    BY <1>3 DEF PurgeFold, PurgeDrop, PurgeAt
  <2>2. \A c \in {"purge.drop", "purge.delete"} :
           c \in StructLabels \cap HoldLabels /\ OpOK(c, loc[p].op)
    BY <1>a, <1>b, <1>c, <2>1
  <2>3. QED
    BY <1>a, <2>1, <2>2, FoldHold
<1>4. CASE PurgeDelete(p)
  <2>1. /\ pc[p] = "purge.delete" /\ Goto(p, "purge.readd") /\ UNCHANGED loc
        /\ UNCHANGED save /\ UNCHANGED tr /\ "purge.readd" \in PurgeAt
    BY <1>4 DEF PurgeDelete, At, PurgeAt, engineVars, saveVars
  <2>2. "purge.readd" \in StructLabels \cap HoldLabels /\ OpOK("purge.readd", loc[p].op)
    BY <1>a, <1>b, <1>c, <2>1
  <2>3. QED
    BY <1>a, <2>1, <2>2, HoldUnchanged, GoHold
<1>5. CASE PurgeReadd(p)
  <2>1. /\ pc[p] = "purge.readd" /\ UNCHANGED save /\ UNCHANGED tr
        /\ "purge.swap" \in PurgeAt /\ "purge.failed" \in PurgeAt
        /\ \/ /\ SetLoc(p, [loc[p] EXCEPT !.ft = AddedInst(loc[p].id)])
              /\ Goto(p, "purge.swap")
           \/ Goto(p, "purge.failed") /\ UNCHANGED loc
    BY <1>5 DEF PurgeReadd, At, PurgeAt, engineVars, saveVars
  <2>2. \A c \in {"purge.swap", "purge.failed"} :
           c \in StructLabels \cap HoldLabels /\ OpOK(c, loc[p].op)
    BY <1>a, <1>b, <1>c, <2>1
  <2>3. CASE Goto(p, "purge.failed") /\ UNCHANGED loc
    BY <1>a, <2>1, <2>2, <2>3, HoldUnchanged, GoHold
  <2>4. CASE /\ SetLoc(p, [loc[p] EXCEPT !.ft = AddedInst(loc[p].id)])
             /\ Goto(p, "purge.swap")
    <3> DEFINE l == [loc[p] EXCEPT !.ft = AddedInst(loc[p].id)]
    <3>1. l.op = loc[p].op /\ l.o = loc[p].o
      BY <1>a, OpFieldsKept
    <3>2. SetLoc(p, l)
      BY <2>4
    <3> HIDE DEF l
    <3>3. QED
      BY <1>a, <2>1, <2>2, <2>4, <3>1, <3>2, HoldUnchanged, GoHold
  <2>5. QED
    BY <2>1, <2>3, <2>4
<1>6. CASE PurgeSwap(p)
  <2> DEFINE x == [tr[loc[p].o] EXCEPT !.t = loc[p].ft, !.holdData = FALSE]
             l == [loc[p] EXCEPT !.t = NoInst]
  <2>1. /\ pc[p] = "purge.swap" /\ UNCHANGED save
        /\ SetTr(loc[p].o, x) /\ SetLoc(p, Decide(l, x, "purge.save")) /\ Goto(p, "flow.down")
    BY <1>6, Zenon DEF PurgeSwap, At, saveVars
  <2>2. loc[p].ft \in Insts
    BY <1>a, <2>1 DEF NeedsFresh
  <2>3. x \in Tracked /\ x.holdData = FALSE
    BY <1>a, <2>2, HoldTypes, HoldSet
  <2>4. l \in Locals /\ l.op = loc[p].op /\ l.o = loc[p].o
    BY <1>a, ForgetFacts, OpFieldsKept
  <2> HIDE DEF x, l
  <2>5. "purge.save" \in PurgeAt /\ OpOK("purge.save", loc[p].op)
    BY <1>a, <1>b DEF PurgeAt
  <2>6. QED
    BY <1>a, <1>b, <2>1, <2>3, <2>4, <2>5, DecideHold
<1>7. CASE PurgeSave(p)
  <2>1. /\ pc[p] = "purge.save" /\ Persist(p, "end") /\ UNCHANGED saveMu
        /\ UNCHANGED loc /\ UNCHANGED tr
    BY <1>7 DEF PurgeSave, At, engineVars
  <2>2. pc[p] \notin HoldLabels
    BY <2>1 DEF HoldLabels
  <2>3. QED
    BY <1>a, <1>b, <2>1, <2>2, HoldUnchanged, SaveHold
<1>8. CASE PurgeFailed(p)
  <2> DEFINE l == [loc[p] EXCEPT !.t = NoInst]
  <2>1. /\ Persist(p, "end") /\ UNCHANGED saveMu /\ SetLoc(p, l)
        /\ SetTr(loc[p].o, Failed(tr[loc[p].o]))
    BY <1>8 DEF PurgeFailed
  <2>2. l.op = loc[p].op /\ l.o = loc[p].o
    BY <1>a, OpFieldsKept
  <2> HIDE DEF l
  <2>3. Failed(tr[loc[p].o]).holdData = FALSE
    BY <1>a, HoldSet
  <2>4. NoHold /\ ~tr'[loc[p].o].holdData
    <3>1. tr \in [Objs -> Tracked]
      BY ThreadFacts DEF EngineTypes
    <3>2. tr'[loc[p].o] = Failed(tr[loc[p].o])
      BY <1>a, <2>1, <3>1, FunUpdate, FailedTypes DEF SetTr
    <3>3. QED
      BY <2>1, <2>3, <3>2, HoldAssigned
  <2>5. QED
    BY <1>a, <1>b, <2>1, <2>2, <2>4, SaveHold
<1>9. QED
  BY <1>1, <1>2, <1>3, <1>4, <1>5, <1>6, <1>7, <1>8 DEF PurgeStep
-----------------------------------------------------------------------------
(* Move.                                                                   *)

LEMMA MoveNext ==
  /\ \A c \in MoveAt : OpOK(c, "move") /\ c \in StructLabels
  /\ OpOK("check.add", "move") /\ "check.add" \in OtherLabels \cap HoldLabels
  /\ {"move.prios", "end"} \subseteq FlowNext
  /\ {"move.failed", "end"} \subseteq SaveNext
  /\ MoveAt \ HoldLabels = {"move", "move.mkdir", "move.hold"}
BY SMTT(30) DEF OpOK, MoveAt, StructLabels, OtherLabels, FlowNext, SaveNext, HoldLabels

LEMMA MoveHolds ==
  ASSUME Inv, HoldInv, NEW p \in Threads, MoveStep(p)
  PROVE  HoldInv'
<1>0. pc[p] \in MoveAt
  BY DEF MoveStep, MoveRead, MoveMkdir, MoveHold, MovePrios, MoveFiles, MoveFold, MoveDrop,
         MoveReadd, MoveLost, MoveFailed, MoveReprio, MoveSwap, At, MoveAt
<1>a. /\ pc[p] \in StructLabels /\ p \in Clients /\ loc[p] \in Locals
      /\ loc[p].o \in Objs /\ tr[loc[p].o] \in Tracked
      /\ pc[p] \in NeedsFresh => loc[p].ft \in Insts
      /\ loc[p].op = "move"
  BY <1>0, OpAt
<1>b. /\ \A c \in MoveAt : OpOK(c, "move") /\ c \in StructLabels
      /\ \A op : OpOK("end", op)
      /\ "end" \in OtherLabels \cap FlowNext
      /\ "move.prios" \in FlowNext /\ "move.failed" \in SaveNext
  BY MoveNext, PurgeNext
<1>c. \A c \in MoveAt : c \in HoldLabels <=> c \notin {"move", "move.mkdir", "move.hold"}
  BY MoveNext
<1>d. ASSUME NEW c \in MoveAt, Goto(p, c), UNCHANGED save, UNCHANGED tr,
             \/ UNCHANGED loc
             \/ \E l : SetLoc(p, l) /\ l.op = loc[p].op /\ l.o = loc[p].o,
             pc[p] \in HoldLabels => c \in HoldLabels
      PROVE  HoldInv'
  <2>1. OpOK(c, loc[p].op) /\ c \in StructLabels
    BY <1>a, <1>b
  <2>2. QED
    BY <1>a, <1>d, <2>1, HoldUnchanged, GoHold
<1>e. LET l == [loc[p] EXCEPT !.t = NoInst]
      IN l \in Locals /\ l.op = loc[p].op /\ l.o = loc[p].o
  BY <1>a, ForgetFacts
<1>1. CASE MoveRead(p)
  <2>1. pc[p] = "move" /\ StructRead(p, "move.mkdir") /\ "move.mkdir" \in MoveAt
    BY <1>1 DEF MoveRead, At, MoveAt
  <2>2. QED
    BY <1>b, <2>1, ReadHold
<1>2. CASE MoveMkdir(p)
  <2> DEFINE l == [loc[p] EXCEPT !.t = NoInst]
  <2>1. /\ pc[p] = "move.mkdir" /\ "move.hold" \in MoveAt /\ UNCHANGED save /\ UNCHANGED tr
        /\ \/ Goto(p, "move.hold") /\ UNCHANGED loc
           \/ Goto(p, "end") /\ SetLoc(p, l)
    BY <1>2 DEF MoveMkdir, At, MoveAt, engineVars, saveVars
  <2>2. l.op = loc[p].op /\ l.o = loc[p].o
    BY <1>e
  <2> HIDE DEF l
  <2>3. pc[p] \notin HoldLabels
    BY <1>0, <1>c, <2>1
  <2>4. CASE Goto(p, "move.hold") /\ UNCHANGED loc
    BY <1>d, <2>1, <2>3, <2>4
  <2>5. CASE Goto(p, "end") /\ SetLoc(p, l)
    BY <1>a, <1>b, <2>1, <2>2, <2>3, <2>5, HoldUnchanged, GoHold
  <2>6. QED
    BY <2>1, <2>4, <2>5
<1>3. CASE MoveHold(p)
  <2>1. /\ pc[p] = "move.hold" /\ StructHold(p, FALSE, "move.prios")
        /\ "move.hold" \in MoveAt /\ "move.prios" \in MoveAt
    BY <1>3 DEF MoveHold, At, MoveAt
  <2>2. pc[p] \in StructLabels \ HoldLabels /\ "move.prios" \in FlowNext \cap HoldLabels
    BY <1>b, <1>c, <2>1
  <2>3. OpOK("move.prios", loc[p].op)
    BY <1>a, <1>b, <2>1
  <2>4. QED
    BY <1>a, <2>1, <2>2, <2>3, PutHold
<1>4. CASE MovePrios(p)
  <2>1. /\ "move.files" \in MoveAt /\ Goto(p, "move.files") /\ UNCHANGED save /\ UNCHANGED tr
        /\ \E a : SetLoc(p, [loc[p] EXCEPT !.prios = a])
    BY <1>4 DEF MovePrios, MoveAt, engineVars, saveVars
  <2>2. PICK a : SetLoc(p, [loc[p] EXCEPT !.prios = a])
    BY <2>1
  <2> DEFINE l == [loc[p] EXCEPT !.prios = a]
  <2>3. l.op = loc[p].op /\ l.o = loc[p].o
    BY <1>a, OpFieldsKept
  <2>4. SetLoc(p, l)
    BY <2>2
  <2> HIDE DEF l
  <2>5. "move.files" \in HoldLabels
    BY <1>c, <2>1
  <2>6. QED
    BY <1>d, <2>1, <2>3, <2>4, <2>5
<1>5. CASE MoveFiles(p)
  <2>1. /\ "move.fold" \in MoveAt /\ "move.failed" \in MoveAt
        /\ UNCHANGED save /\ UNCHANGED tr /\ UNCHANGED loc
        /\ Goto(p, "move.fold") \/ Goto(p, "move.failed")
    BY <1>5 DEF MoveFiles, MoveAt, engineVars, saveVars
  <2>2. "move.fold" \in HoldLabels /\ "move.failed" \in HoldLabels
    BY <1>c, <2>1
  <2>3. QED
    BY <1>d, <2>1, <2>2
<1>6. CASE MoveFold(p) \/ MoveDrop(p)
  <2>1. /\ \/ FoldCounters(p, "move.drop")
           \/ DropOld(p, "move.readd")
        /\ "move.drop" \in MoveAt /\ "move.readd" \in MoveAt
    BY <1>6 DEF MoveFold, MoveDrop, MoveAt
  <2>2. \A c \in {"move.drop", "move.readd"} :
           c \in StructLabels \cap HoldLabels /\ OpOK(c, loc[p].op)
    BY <1>a, <1>b, <1>c, <2>1
  <2>3. QED
    BY <1>a, <2>1, <2>2, FoldHold
<1>7. CASE MoveReadd(p)
  <2> DEFINE l == [loc[p] EXCEPT !.ft = AddedInst(loc[p].id)]
  <2>1. /\ "move.reprio" \in MoveAt /\ "move.lost" \in MoveAt /\ UNCHANGED save /\ UNCHANGED tr
        /\ \/ SetLoc(p, l) /\ Goto(p, "move.reprio")
           \/ Goto(p, "move.lost") /\ UNCHANGED loc
    BY <1>7 DEF MoveReadd, MoveAt, engineVars, saveVars
  <2>2. l.op = loc[p].op /\ l.o = loc[p].o
    BY <1>a, OpFieldsKept
  <2> HIDE DEF l
  <2>3. "move.reprio" \in HoldLabels /\ "move.lost" \in HoldLabels
    BY <1>c, <2>1
  <2>4. QED
    BY <1>d, <2>1, <2>2, <2>3
<1>8. CASE MoveLost(p)
  <2> DEFINE l == [loc[p] EXCEPT !.t = NoInst]
             x == [tr[loc[p].o] EXCEPT !.savePath = loc[p].dir]
  <2>1. /\ Persist(p, "move.failed") /\ UNCHANGED saveMu /\ SetLoc(p, l) /\ SetTr(loc[p].o, x)
        /\ "move.failed" \in MoveAt
    BY <1>8 DEF MoveLost, MoveAt
  <2>2. l.op = loc[p].op /\ l.o = loc[p].o
    BY <1>e
  <2>3. x.holdData = tr[loc[p].o].holdData
    BY <1>a, HoldField
  <2> HIDE DEF l, x
  <2>4. NoHold
    BY <2>1, <2>3, HoldAssigned
  <2>5. "move.failed" \in HoldLabels /\ OpOK("move.failed", loc[p].op)
    BY <1>a, <1>b, <1>c, <2>1
  <2>6. QED
    BY <1>a, <1>b, <2>1, <2>2, <2>4, <2>5, SaveHold
<1>9. CASE MoveFailed(p)
  <2> DEFINE l == [loc[p] EXCEPT !.t = NoInst]
             x == Failed(tr[loc[p].o])
  <2>1. /\ UNCHANGED save /\ SetTr(loc[p].o, x) /\ SetLoc(p, Decide(l, x, "end"))
        /\ Goto(p, "flow.down")
    BY <1>9, Zenon DEF MoveFailed, saveVars
  <2>2. x \in Tracked /\ x.holdData = FALSE
    BY <1>a, FailedTypes, HoldSet
  <2>3. l \in Locals /\ l.op = loc[p].op /\ l.o = loc[p].o
    BY <1>e
  <2> HIDE DEF l, x
  <2>4. OpOK("end", loc[p].op)
    BY <1>b
  <2>5. QED
    BY <1>a, <1>b, <2>1, <2>2, <2>3, <2>4, DecideHold
<1>10. CASE MoveReprio(p)
  <2>1. /\ "move.swap" \in MoveAt /\ Goto(p, "move.swap") /\ UNCHANGED loc
        /\ UNCHANGED save /\ UNCHANGED tr
    BY <1>10 DEF MoveReprio, MoveAt, engineVars, saveVars
  <2>2. "move.swap" \in HoldLabels
    BY <1>c, <2>1
  <2>3. QED
    BY <1>d, <2>1, <2>2
<1>11. CASE MoveSwap(p)
  <2> DEFINE l == [loc[p] EXCEPT !.t = NoInst]
             x == [tr[loc[p].o] EXCEPT !.t = loc[p].ft, !.savePath = loc[p].dir]
  <2>1. /\ UNCHANGED save /\ SetTr(loc[p].o, x) /\ SetLoc(p, l) /\ Goto(p, "check.add")
    BY <1>11 DEF MoveSwap, saveVars
  <2>2. x.holdData = tr[loc[p].o].holdData
    BY <1>a, HoldSet
  <2>3. l.op = loc[p].op /\ l.o = loc[p].o
    BY <1>e
  <2> HIDE DEF l, x
  <2>4. NoHold
    BY <2>1, <2>2, HoldAssigned
  <2>5. OpOK("check.add", loc[p].op) /\ "check.add" \in OtherLabels \cap HoldLabels
    BY <1>a, MoveNext
  <2>6. QED
    BY <1>a, <2>1, <2>3, <2>4, <2>5, GoHold
<1>12. QED
  BY <1>1, <1>2, <1>3, <1>4, <1>5, <1>6, <1>7, <1>8, <1>9, <1>10, <1>11 DEF MoveStep
-----------------------------------------------------------------------------
(* Checks.                                                                 *)

LEMMA BeginAddHold ==
  ASSUME Inv, Inv', HoldInv, NEW p \in Threads, p \notin Checkers, BeginCheckAdd(p)
  PROVE  HoldInv'
<1>1. /\ pc[p] = "check.add" /\ Goto(p, "check.begin") /\ UNCHANGED loc /\ UNCHANGED save
      /\ UNCHANGED tr
  BY DEF BeginCheckAdd, At, saveVars
<1>2. Walks(p) /\ NoHold
  BY <1>1, HoldUnchanged DEF Walks
<1>3. CASE loc[p].op = ""
  BY <1>1, <1>2, <1>3, WalksKept, PlainHold
<1>4. CASE loc[p].op # ""
  <2>1. /\ pc[p] \notin FlowLabels /\ pc[p] \notin SaveLabels /\ pc[p] \in OtherLabels
        /\ "check.begin" \in OtherLabels \cap HoldLabels
    BY <1>1 DEF FlowLabels, SaveLabels, OtherLabels, HoldLabels
  <2>2. p \in Clients
    BY <1>4, <2>1, AtFacts
  <2>3. OpOK("check.begin", loc[p].op)
    <3>1. OpOK("check.add", loc[p].op)
      BY <1>1, <2>1, <2>2, NamedAt
    <3>2. QED
      BY <3>1 DEF OpOK
  <2>4. QED
    BY <1>1, <1>2, <2>1, <2>2, <2>3, GoHold
<1>5. QED
  BY <1>3, <1>4

(* A move's hold passes to the check it starts.                            *)
LEMMA BeginHold ==
  ASSUME Inv, HoldInv, NEW p \in Threads, BeginCheck(p)
  PROVE  HoldInv'
<1>k. PICK k : k = CHOOSE x \in Checkers : At(x, "off")
  OBVIOUS
<1> DEFINE x == [tr[loc[p].o] EXCEPT !.cancelCheck = k, !.checking = TRUE]
           m == [Loc0 EXCEPT !.id = loc[p].id, !.o = loc[p].o, !.flag = loc[p].op = "move"]
<1>1. /\ k \in Checkers /\ pc[k] = "off" /\ pc[p] = "check.begin"
      /\ SetTr(loc[p].o, x) /\ SetLoc(k, m)
      /\ pc' = [pc EXCEPT ![k] = "check.read", ![p] = "end"]
      /\ UNCHANGED save
  BY <1>k DEF BeginCheck, At, saveVars
<1>2. tr[loc[p].o] \in Tracked /\ loc[p].o \in Objs
  <2>1. pc[p] \notin FlowLabels /\ pc[p] \notin SaveLabels /\ pc[p] \in NeedsObj
    BY <1>1 DEF FlowLabels, SaveLabels, NeedsObj
  <2>2. QED
    BY <2>1, AtFacts, ObjOf
<1>3. x.holdData = tr[loc[p].o].holdData
  <2>1. ASSUME NEW y \in Tracked, NEW a, NEW b
        PROVE  [y EXCEPT !.cancelCheck = a, !.checking = b].holdData = y.holdData
    BY DEF Tracked
  <2>2. QED
    BY <1>2, <2>1
<1>4. m.o = loc[p].o /\ (loc[p].op = "move" => m.flag = TRUE)
  <2>1. ASSUME NEW l \in Locals, NEW a, NEW b, NEW c \in BOOLEAN
        PROVE  LET n == [l EXCEPT !.id = a, !.o = b, !.flag = c] IN n.o = b /\ n.flag = c
    BY DEF Locals
  <2>2. (loc[p].op = "move") \in BOOLEAN
    OBVIOUS
  <2>3. m.o = loc[p].o
    BY DEF Loc0
  <2>4. ASSUME loc[p].op = "move" PROVE m.flag = TRUE
    <3>1. m = [Loc0 EXCEPT !.id = loc[p].id, !.o = loc[p].o, !.flag = TRUE]
      BY <2>4
    <3> HIDE DEF m
    <3>2. QED
      BY <2>1, <3>1, NullTypes
  <2>5. QED
    BY <2>3, <2>4
<1> HIDE DEF x, m
<1>5. NoHold
  BY <1>1, <1>3, HoldAssigned
<1>6. ThreadTypes /\ k \in Threads /\ k # p /\ k \notin Clients /\ Actors \subseteq Threads
  BY <1>1, ThreadFacts, ThreadsAssumption DEF Threads, Callers, Actors
<1>7. /\ pc'[k] = "check.read" /\ pc'[p] = "end" /\ loc'[k] = m /\ loc'[p] = loc[p]
      /\ \A q \in Actors : q # p /\ q # k => pc'[q] = pc[q] /\ loc'[q] = loc[q]
  BY <1>1, <1>6 DEF ThreadTypes, SetLoc
<1>8. OpNamed'
  <2> SUFFICES ASSUME NEW q \in Clients PROVE OpOK(Where(q), loc[q].op)'
    BY DEF OpNamed
  <2>1. CASE q = p
    BY <1>7, <2>1 DEF Where, WhereOf, FlowLabels, SaveLabels, OpOK
  <2>2. CASE q # p
    <3>1. q \in Actors /\ q # k
      BY <1>6 DEF Actors
    <3>2. Where(q)' = Where(q) /\ loc'[q] = loc[q]
      BY <1>1, <1>7, <2>2, <3>1 DEF Where, WhereOf
    <3>3. QED
      BY <3>2 DEF HoldInv, OpNamed
  <2>3. QED
    BY <2>1, <2>2
<1>9. HoldHasOwner'
  <2> SUFFICES ASSUME NEW o \in Objs, tr'[o].holdData
               PROVE  \E q \in Actors : HoldsFor(q, o)'
    BY DEF HoldHasOwner, Actors
  <2>1. PICK q \in Actors : HoldsFor(q, o)
    BY <1>5 DEF HoldInv, HoldHasOwner, Actors, NoHold
  <2>2. CASE q = p
    <3>1. p \in Clients /\ loc[p].o = o /\ loc[p].op \in {"purge", "move"}
      BY <1>1, <2>1, <2>2 DEF HoldsFor
    <3>2. OpOK("check.begin", loc[p].op)
      BY <1>1, <3>1, NamedAt DEF OtherLabels
    <3>3. loc[p].op = "move"
      BY <3>1, <3>2 DEF OpOK
    <3>4. HoldsFor(k, o)'
      BY <1>1, <1>4, <1>7, <3>1, <3>3 DEF HoldsFor
    <3>5. QED
      BY <1>1, <3>4 DEF Actors
  <2>3. CASE q = k
    BY <1>1, <1>6, <2>1, <2>3 DEF HoldsFor
  <2>4. CASE q # p /\ q # k
    <3>1. HoldsFor(q, o)'
      BY <1>1, <1>7, <2>1, <2>4 DEF HoldsFor, Where, WhereOf
    <3>2. QED
      BY <3>1
  <2>5. QED
    BY <2>2, <2>3, <2>4
<1>10. QED
  BY <1>8, <1>9 DEF HoldInv

CheckAt == {"check.read", "check.loop", "check.hash", "check.clear", "check.done", "check.end"}

(* A check keeps its hold to its last step.                                *)
LEMMA CheckGoes ==
  ASSUME Inv, HoldInv, NEW p \in Waiters \cup Checkers, Walks(p), NoHold,
         pc'[p] \in CheckAt, loc'[p].o = loc[p].o, loc'[p].flag = loc[p].flag
  PROVE  HoldInv'
<1>1. p \in Threads /\ p \notin Clients
  BY ThreadsAssumption DEF Threads
<1>2. ASSUME NEW o \in Objs, HoldsFor(p, o) PROVE HoldsFor(p, o)'
  BY <1>1, <1>2 DEF HoldsFor, CheckAt
<1>3. QED
  BY <1>1, <1>2, WalksKept, HoldFrame DEF NoHold

LEMMA CheckerHold ==
  ASSUME Inv, HoldInv, NEW p \in Waiters \cup Checkers, CheckerStep(p)
  PROVE  HoldInv'
<1>0. p \in Threads /\ p \notin Clients /\ loc[p] \in Locals
  BY ThreadsAssumption, Lands DEF Threads
<1>1. CASE VerifyRead(p) \/ VerifyLoop(p) \/ VerifyPiece(p)
  <2>1. /\ \E c \in CheckAt : Goto(p, c)
        /\ \/ UNCHANGED loc
           \/ \E a : \/ SetLoc(p, [loc[p] EXCEPT !.t = a])
                     \/ SetLoc(p, [loc[p] EXCEPT !.err = a])
                     \/ SetLoc(p, [loc[p] EXCEPT !.done = a])
        /\ UNCHANGED save /\ UNCHANGED tr
    BY <1>1 DEF VerifyRead, VerifyLoop, VerifyPiece, CheckAt, saveVars, engineVars
  <2>2. Walks(p) /\ NoHold /\ pc'[p] \in CheckAt
    BY <1>0, <2>1, HoldUnchanged, Lands DEF Walks
  <2>3. loc'[p].o = loc[p].o /\ loc'[p].flag = loc[p].flag
    <3>1. ASSUME NEW l \in Locals, NEW a
          PROVE  /\ [l EXCEPT !.t = a].o = l.o /\ [l EXCEPT !.t = a].flag = l.flag
                 /\ [l EXCEPT !.err = a].o = l.o /\ [l EXCEPT !.err = a].flag = l.flag
                 /\ [l EXCEPT !.done = a].o = l.o /\ [l EXCEPT !.done = a].flag = l.flag
      BY DEF Locals
    <3>2. CASE UNCHANGED loc
      BY <3>2
    <3>3. ASSUME NEW a, \/ SetLoc(p, [loc[p] EXCEPT !.t = a])
                        \/ SetLoc(p, [loc[p] EXCEPT !.err = a])
                        \/ SetLoc(p, [loc[p] EXCEPT !.done = a])
          PROVE  loc'[p].o = loc[p].o /\ loc'[p].flag = loc[p].flag
      <4>1. CASE SetLoc(p, [loc[p] EXCEPT !.t = a])
        <5> DEFINE l == [loc[p] EXCEPT !.t = a]
        <5>1. l.o = loc[p].o /\ l.flag = loc[p].flag
          BY <1>0, <3>1
        <5>2. SetLoc(p, l)
          BY <4>1
        <5> HIDE DEF l
        <5>3. QED
          BY <1>0, <5>1, <5>2, Lands
      <4>2. CASE SetLoc(p, [loc[p] EXCEPT !.err = a])
        <5> DEFINE l == [loc[p] EXCEPT !.err = a]
        <5>1. l.o = loc[p].o /\ l.flag = loc[p].flag
          BY <1>0, <3>1
        <5>2. SetLoc(p, l)
          BY <4>2
        <5> HIDE DEF l
        <5>3. QED
          BY <1>0, <5>1, <5>2, Lands
      <4>3. CASE SetLoc(p, [loc[p] EXCEPT !.done = a])
        <5> DEFINE l == [loc[p] EXCEPT !.done = a]
        <5>1. l.o = loc[p].o /\ l.flag = loc[p].flag
          BY <1>0, <3>1
        <5>2. SetLoc(p, l)
          BY <4>3
        <5> HIDE DEF l
        <5>3. QED
          BY <1>0, <5>1, <5>2, Lands
      <4>4. QED
        BY <3>3, <4>1, <4>2, <4>3
    <3>4. QED
      BY <2>1, <3>2, <3>3
  <2>4. QED
    BY <2>2, <2>3, CheckGoes
<1>2. CASE CheckClear(p) \/ CheckDone(p)
  <2>1. /\ \E c \in CheckAt : Goto(p, c)
        /\ UNCHANGED loc /\ UNCHANGED save
    BY <1>2 DEF CheckClear, CheckDone, CheckAt, saveVars
  <2>2. NoHold
    <3>1. CASE CheckClear(p)
      <4>1. /\ SetTr(loc[p].o, [tr[loc[p].o] EXCEPT !.cancelCheck = NoThread, !.checking = FALSE])
            /\ pc[p] = "check.clear"
        BY <3>1 DEF CheckClear, At
      <4>2. tr[loc[p].o] \in Tracked
        <5>1. pc[p] \notin FlowLabels /\ pc[p] \notin SaveLabels /\ pc[p] \in NeedsObj
          BY <4>1 DEF FlowLabels, SaveLabels, NeedsObj
        <5>2. QED
          BY <1>0, <5>1, AtFacts, ObjOf
      <4>3. ASSUME NEW y \in Tracked
            PROVE  [y EXCEPT !.cancelCheck = NoThread, !.checking = FALSE].holdData = y.holdData
        BY DEF Tracked
      <4>4. QED
        BY <4>1, <4>2, <4>3, HoldAssigned
    <3>2. CASE CheckDone(p)
      BY <3>2, HoldUnchanged DEF CheckDone
    <3>3. QED
      BY <1>2, <3>1, <3>2
  <2>3. Walks(p) /\ pc'[p] \in CheckAt
    BY <1>0, <2>1, Lands DEF Walks
  <2>4. QED
    BY <2>1, <2>2, <2>3, CheckGoes
<1>3. CASE CheckEnd(p)
  <2> DEFINE o == loc[p].o
             x == [tr[o] EXCEPT !.lastErr = @ \/ loc[p].err = "failed",
                                !.holdData = @ /\ ~loc[p].flag]
  <2>1. /\ pc[p] = "check.end" /\ SetTr(o, x) /\ UNCHANGED save
        /\ \E l : SetLoc(p, l)
        /\ \E c : Goto(p, c)
    BY <1>3 DEF CheckEnd, At, saveVars
  <2>2. o \in Objs /\ tr[o] \in Tracked
    <3>1. pc[p] \notin FlowLabels /\ pc[p] \notin SaveLabels /\ pc[p] \in NeedsObj
      BY <2>1 DEF FlowLabels, SaveLabels, NeedsObj
    <3>2. QED
      BY <1>0, <3>1, AtFacts, ObjOf
  <2>3. x.holdData => tr[o].holdData /\ ~loc[p].flag
    <3>1. ASSUME NEW y \in Tracked, NEW a, NEW b
          PROVE  [y EXCEPT !.lastErr = a, !.holdData = b].holdData = b
      BY DEF Tracked
    <3>2. QED
      BY <2>2, <3>1
  <2> HIDE DEF x
  <2>4. NoHold
    BY <2>1, <2>3, HoldAssigned
  <2>5. tr'[o] = x
    BY <1>0, <2>1, <2>2, ThreadFacts DEF SetTr, EngineTypes
  <2>6. ASSUME NEW b \in Objs, tr'[b].holdData, HoldsFor(p, b) PROVE FALSE
    BY <1>0, <2>3, <2>5, <2>6 DEF HoldsFor
  <2>7. Walks(p)
    BY <2>1 DEF Walks
  <2>8. QED
    BY <1>0, <2>4, <2>6, <2>7, WalksKept, HoldFrame DEF NoHold
<1>4. CASE CheckOff(p)
  <2>1. /\ pc[p] = "check.off" /\ UNCHANGED save /\ UNCHANGED tr
        /\ SetLoc(p, Loc0) /\ Goto(p, "off")
    BY <1>4 DEF CheckOff, At, saveVars, engineVars
  <2>2. \A o \in Objs : ~HoldsFor(p, o)
    BY <1>0, <2>1 DEF HoldsFor
  <2>3. Walks(p)
    BY <2>1 DEF Walks
  <2>4. QED
    BY <1>0, <2>1, <2>2, <2>3, WalksKept, HoldUnchanged, HoldFrame DEF NoHold
<1>5. QED
  BY <1>1, <1>2, <1>3, <1>4 DEF CheckerStep
-----------------------------------------------------------------------------
(* The rest.                                                               *)

LEMMA WaiterHold ==
  ASSUME Inv, HoldInv, NEW p \in Waiters \cup Checkers, WaiterStep(p)
  PROVE  HoldInv'
<1>1. p \in Threads /\ p \notin Clients
  BY ThreadsAssumption DEF Threads
<1>2. Walks(p)
  <2>1. CASE WaitSave(p)
    BY <2>1, PersistWalks DEF WaitSave, Walks
  <2>2. CASE WaitInfo(p) \/ WaitMark(p) \/ WaitSelect(p) \/ WaitChosen(p)
    BY <2>2 DEF WaitInfo, WaitMark, WaitSelect, WaitChosen, Walks, saveVars
  <2>3. QED
    BY <2>1, <2>2 DEF WaiterStep
<1>3. NoHold
  <2>1. CASE WaitChosen(p)
    <3>1. /\ pc[p] = "wait.chosen"
          /\ \/ UNCHANGED tr
             \/ /\ torrents[loc[p].id] # NoObj
                /\ SetTr(torrents[loc[p].id],
                         [tr[torrents[loc[p].id]] EXCEPT !.chosenFiles = Files])
      BY <2>1 DEF WaitChosen, At
    <3>2. loc[p].id \in Ids
      BY <1>1, Lands DEF Locals
    <3>3. QED
      BY <3>1, <3>2, ObjFor, HoldField, HoldAssigned, HoldUnchanged
  <2>2. CASE WaitInfo(p) \/ WaitMark(p) \/ WaitSelect(p) \/ WaitSave(p)
    BY <2>2, HoldUnchanged DEF WaitInfo, WaitMark, WaitSelect, WaitSave, engineVars
  <2>3. QED
    BY <2>1, <2>2 DEF WaiterStep
<1>4. \A o \in Objs : ~HoldsFor(p, o)
  BY <1>1 DEF HoldsFor, WaiterStep, WaitInfo, WaitMark, WaitSelect, WaitChosen, WaitSave, At
<1>5. QED
  BY <1>1, <1>2, <1>3, <1>4, WalksKept, HoldFrame DEF NoHold

LEMMA TickHold ==
  ASSUME Inv, HoldInv, TickStep
  PROVE  HoldInv'
<1>1. Tick \in Threads /\ Tick \notin Actors
  BY ThreadsAssumption, MainThreads DEF Actors
<1>2. Walks(Tick)
  <2>1. CASE TickDecide
    <3>1. Persist(Tick, "tick.apply") \/ (Goto(Tick, "tick.apply") /\ UNCHANGED save)
      BY <2>1 DEF TickDecide
    <3>2. UNCHANGED loc
      BY <2>1 DEF TickDecide
    <3>3. QED
      BY <3>1, <3>2, PersistWalks DEF Walks
  <2>2. CASE TickStart \/ TickDisk \/ TickApply \/ TickStop \/ TickHook
    BY <2>2 DEF TickStart, TickDisk, TickApply, TickStop, TickHook, Walks, saveVars
  <2>3. QED
    BY <2>1, <2>2 DEF TickStep
<1>3. NoHold
  <2>1. CASE TickDecide
    <3>1. PICK down \in [TrackedIds -> Rates], up \in [TrackedIds -> Rates] :
           LET rated(i) == [tr[torrents[i]] EXCEPT !.lastDownBPS = down[i], !.lastUpBPS = up[i]]
               finished == {i \in TrackedIds : Complete(tr[torrents[i]].t)}
               ticked(i) == [rated(i) EXCEPT !.completeLogged = @ \/ i \in finished,
                                             !.completedAt = @ \/ i \in finished]
           IN tr' = [o \in Objs |->
                       IF \E i \in TrackedIds : torrents[i] = o
                       THEN ticked(CHOOSE i \in TrackedIds : torrents[i] = o)
                       ELSE tr[o]]
      BY <2>1 DEF TickDecide
    <3> DEFINE rated(i) == [tr[torrents[i]] EXCEPT !.lastDownBPS = down[i], !.lastUpBPS = up[i]]
               finished == {i \in TrackedIds : Complete(tr[torrents[i]].t)}
               ticked(i) == [rated(i) EXCEPT !.completeLogged = @ \/ i \in finished,
                                             !.completedAt = @ \/ i \in finished]
    <3>2. tr' = [o \in Objs |->
                   IF \E i \in TrackedIds : torrents[i] = o
                   THEN ticked(CHOOSE i \in TrackedIds : torrents[i] = o)
                   ELSE tr[o]]
      BY <3>1, Zenon
    <3>3. ASSUME NEW i \in TrackedIds PROVE ticked(i).holdData = tr[torrents[i]].holdData
      <4>1. tr[torrents[i]] \in Tracked
        BY ObjFor DEF TrackedIds
      <4>2. rated(i) \in Tracked /\ rated(i).holdData = tr[torrents[i]].holdData
        <5>1. ASSUME NEW y \in Tracked, NEW a \in Rates, NEW b \in Rates
              PROVE  LET z == [y EXCEPT !.lastDownBPS = a, !.lastUpBPS = b]
                     IN z \in Tracked /\ z.holdData = y.holdData
          BY DEF Tracked
        <5>2. down[i] \in Rates /\ up[i] \in Rates
          OBVIOUS
        <5>3. QED
          BY <4>1, <5>1, <5>2
      <4> HIDE DEF rated, finished
      <4>3. ASSUME NEW y \in Tracked, NEW b
            PROVE  LET z == [y EXCEPT !.completeLogged = @ \/ b, !.completedAt = @ \/ b]
                   IN z.holdData = y.holdData
        BY DEF Tracked
      <4>4. QED
        BY <4>2, <4>3
    <3> HIDE DEF rated, finished, ticked
    <3>4. QED
      BY <3>2, <3>3 DEF NoHold
  <2>2. CASE TickStart \/ TickDisk \/ TickApply \/ TickStop \/ TickHook
    BY <2>2, HoldUnchanged DEF TickStart, TickDisk, TickApply, TickStop, TickHook, engineVars
  <2>3. QED
    BY <2>1, <2>2 DEF TickStep
<1>4. QED
  BY <1>1, <1>2, <1>3, OtherHold
LEMMA MainHold ==
  ASSUME Inv, HoldInv, New \/ RestoreStep \/ CloseCancel \/ Close
  PROVE  HoldInv'
<1>1. Main \in Threads /\ Main \notin Actors /\ Tick \notin Actors
  BY ThreadsAssumption, MainThreads DEF Actors
<1>2. CASE New
  <2>1. /\ pc' = [pc EXCEPT ![Main] = "restore.read", ![Tick] = "tick"]
        /\ UNCHANGED loc /\ UNCHANGED save /\ UNCHANGED tr
    BY <1>2 DEF New, saveVars, engineVars
  <2>2. ThreadTypes /\ Actors \subseteq Threads
    BY <1>1, ThreadFacts DEF Actors, Threads, Callers
  <2>3. ActorsKept(Main)
    BY <1>1, <2>1, <2>2 DEF ActorsKept, ThreadTypes
  <2>4. QED
    BY <1>1, <2>1, <2>3, HoldFrame DEF Actors
<1>3. CASE CloseCancel
  <2>1. (\E c : Goto(Main, c)) /\ UNCHANGED loc /\ UNCHANGED save /\ UNCHANGED tr
    BY <1>3 DEF CloseCancel, saveVars
  <2>2. QED
    BY <1>1, <2>1, HoldUnchanged, OtherHold DEF Walks
<1>4. CASE Close
  <2>1. Persist(Main, "close.cancel") /\ UNCHANGED loc /\ UNCHANGED tr
    BY <1>4 DEF Close, engineVars
  <2>2. Walks(Main)
    BY <2>1, PersistWalks DEF Walks
  <2>3. QED
    BY <1>1, <2>1, <2>2, HoldUnchanged, OtherHold
<1>5. CASE RestoreStep
  <2>1. Walks(Main)
    <3>1. CASE RestoreDone
      BY <3>1, PersistWalks DEF RestoreDone, Walks
    <3>2. CASE RestoreRead \/ RestoreNext \/ RestoreLimits \/ RestorePrios \/ RestoreFinal
      BY <3>2 DEF RestoreRead, RestoreNext, RestoreLimits, RestorePrios, RestoreFinal,
                  Walks, saveVars
    <3>3. QED
      BY <1>5, <3>1, <3>2 DEF RestoreStep
  <2>2. NoHold
    <3>1. CASE RestoreLimits \/ RestoreFinal
      <4>1. pc[Main] \in {"restore.limits", "restore.prios", "restore.final"}
        BY <3>1 DEF RestoreLimits, RestoreFinal, At
      <4> DEFINE o == torrents[loc[Main].id]
      <4>2. o \in Objs => tr[o] \in Tracked
        BY <4>1, RestoringFacts
      <4>3. CASE RestoreLimits
        <5>1. \/ UNCHANGED tr
              \/ \E a, b : SetTr(o, [tr[o] EXCEPT !.upLimit = a, !.downLimit = b])
          BY <4>3 DEF RestoreLimits
        <5>2. ASSUME NEW y \in Tracked, NEW a, NEW b
              PROVE  [y EXCEPT !.upLimit = a, !.downLimit = b].holdData = y.holdData
          BY DEF Tracked
        <5> HIDE DEF o
        <5>3. QED
          BY <4>2, <5>1, <5>2, HoldUnchanged, HoldAssigned
      <4>4. CASE RestoreFinal
        <5> DEFINE r == rs[loc[Main].id]
                   x == [tr[o] EXCEPT !.base = r.downloaded, !.seedLimit = r.seedLimit,
                                      !.completedAt = r.completedAt, !.label = r.label,
                                      !.completeLogged = r.completedAt]
        <5>1. SetTr(o, x)
          BY <4>4, Zenon DEF RestoreFinal
        <5>2. o \in Objs => x.holdData = tr[o].holdData
          BY <4>2 DEF Tracked
        <5> HIDE DEF o, r, x
        <5>3. QED
          BY <5>1, <5>2, HoldAssigned
      <4>5. QED
        BY <3>1, <4>3, <4>4
    <3>2. CASE RestoreRead \/ RestoreNext \/ RestorePrios \/ RestoreDone
      BY <3>2, HoldUnchanged DEF RestoreRead, RestoreNext, RestorePrios, RestoreDone, engineVars
    <3>3. QED
      BY <1>5, <3>1, <3>2 DEF RestoreStep
  <2>3. QED
    BY <1>1, <2>1, <2>2, OtherHold
<1>6. QED
  BY <1>2, <1>3, <1>4, <1>5

(* A process that starts has no holds and no operations.                   *)
LEMMA BlankHold ==
  ASSUME \A o \in Objs : ~tr[o].holdData, \A p \in Clients : pc[p] = "idle"
  PROVE  HoldInv
<1>1. HoldHasOwner
  BY DEF HoldHasOwner
<1>2. OpNamed
  <2> SUFFICES ASSUME NEW p \in Clients PROVE OpOK(Where(p), loc[p].op)
    BY DEF OpNamed
  <2>1. QED
    BY DEF OpOK, Where, WhereOf, FlowLabels, SaveLabels
<1>3. QED
  BY <1>1, <1>2 DEF HoldInv

LEMMA FreshHold ==
  /\ \A o \in Objs : ~[b \in Objs |-> NewTracked(NoInst, DataDir, FALSE, FALSE)][o].holdData
  /\ \A p \in Clients : [q \in Threads |-> Fresh(q)][p] = "idle"
<1>1. \A p \in Clients : p \in Threads /\ Fresh(p) = "idle"
  BY ThreadsAssumption DEF Fresh, Threads, Callers
<1>2. QED
  BY <1>1 DEF NewTracked

LEMMA InitHold == Init => HoldInv
<1> SUFFICES ASSUME Init PROVE HoldInv
  OBVIOUS
<1>1. /\ \A o \in Objs : ~tr[o].holdData
      /\ \A p \in Clients : pc[p] = "idle"
  BY FreshHold DEF Init
<1>2. QED
  BY <1>1, BlankHold

LEMMA ProcessEndsHold == ProcessEnds => HoldInv'
<1> SUFFICES ASSUME ProcessEnds PROVE HoldInv'
  OBVIOUS
<1>1. /\ \A o \in Objs : ~tr'[o].holdData
      /\ \A p \in Clients : pc'[p] = "idle"
  BY FreshHold DEF ProcessEnds
<1>2. HoldHasOwner'
  BY <1>1 DEF HoldHasOwner
<1>3. OpNamed'
  <2> SUFFICES ASSUME NEW p \in Clients PROVE OpOK(Where(p), loc[p].op)'
    BY DEF OpNamed
  <2>1. QED
    BY <1>1 DEF OpOK, Where, WhereOf, FlowLabels, SaveLabels
<1>4. QED
  BY <1>2, <1>3 DEF HoldInv

LEMMA SameHold ==
  ASSUME HoldInv, UNCHANGED <<tr, pc, loc, save>>
  PROVE  HoldInv'
BY DEF HoldInv, HoldHasOwner, OpNamed, HoldsFor, Where, WhereOf

-----------------------------------------------------------------------------
(* The step, and the theorem.                                              *)

LEMMA StructStepHold ==
  ASSUME Inv, Inv', HoldInv, NEW p \in Threads, p \notin Checkers, StructStep(p)
  PROVE  HoldInv'
BY BeginAddHold, BeginHold, LockHold, RemoveHold, PurgeHolds, MoveHolds DEF StructStep

LEMMA ThreadHold ==
  ASSUME Inv, Inv', HoldInv, NEW p \in Threads, ThreadStep(p)
  PROVE  HoldInv'
<1>1. CASE p \in Callers /\ OpStep(p)
  <2>1. p \notin Checkers
    BY <1>1, ThreadsAssumption DEF Callers
  <2>2. QED
    BY <1>1, <2>1, ApplyFlowHold, EndOpHold, PersistHold, AddHold, PauseHold, FieldHold,
       StreamHold, StructStepHold DEF OpStep
<1>2. CASE p \in Waiters \cup Checkers /\ GoroutineStep(p)
  <2>1. CASE ApplyFlowDown(p) \/ ApplyFlowUp(p) \/ PersistStep(p)
    BY <2>1, ApplyFlowHold, PersistHold
  <2>2. CASE WaiterStep(p) \/ CheckerStep(p)
    BY <1>2, <2>2, WaiterHold, CheckerHold
  <2>3. QED
    BY <1>2, <2>1, <2>2 DEF GoroutineStep
<1>3. CASE TickStep
  BY <1>3, TickHold
<1>4. CASE MainStep
  BY <1>4, MainHold, ProcessEndsHold DEF MainStep, CloseWait
<1>5. QED
  BY <1>1, <1>2, <1>3, <1>4 DEF ThreadStep

LEMMA NextHold == Inv /\ Inv' /\ HoldInv /\ [Next]_vars => HoldInv'
<1> SUFFICES ASSUME Inv, Inv', HoldInv, [Next]_vars PROVE HoldInv'
  OBVIOUS
<1>1. CASE \E c \in Clients : ClientCalls(c)
  BY <1>1, ClientCallsHold
<1>2. CASE \E p \in Threads : ThreadStep(p)
  BY <1>2, ThreadHold
<1>3. CASE Close
  BY <1>3, MainHold
<1>4. CASE Crash
  BY <1>4, ProcessEndsHold DEF Crash
<1>5. CASE Network
  BY <1>5, SameHold DEF Network, engineVars, saveVars
<1>6. CASE Idle \/ UNCHANGED vars
  BY <1>6, SameHold DEF Idle, vars, engineVars, saveVars
<1>7. QED
  BY <1>1, <1>2, <1>3, <1>4, <1>5, <1>6 DEF Next

LEMMA HoldsInvariance == Spec => []HoldInv
BY Invariance, InitHold, NextHold, PTL DEF Spec

(* Every hold has an owner: no path through a purge, a move or the check a *)
(* move starts leaves a torrent on hold with nobody to let it go, whatever *)
(* else runs and wherever a crash comes.                                   *)
THEOREM HoldsEnd == Spec => []HoldHasOwner
<1>1. HoldInv => HoldHasOwner
  BY DEF HoldInv
<1>2. QED
  BY <1>1, HoldsInvariance, PTL

=============================================================================
