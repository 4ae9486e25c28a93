---------------------------- MODULE EngineControl ----------------------------
(***************************************************************************)
(* What is true of each thread at each place of its program: the inductive *)
(* strengthening of TypeOK and StableInstance, checked by TLC and proved   *)
(* in EngineProofs.                                                        *)
(***************************************************************************)
EXTENDS Engine

(* Where a thread dereferences the tracked struct loc.o ...                *)
NeedsObj ==
  StructLabels \cup
  {"pause.set", "pause.chosen", "pause.mark", "prio.set", "prio.chosen",
   "rate", "seed", "label", "stream.paused", "check.add", "check.begin",
   "check.read", "check.loop", "check.hash", "check.clear", "check.done",
   "check.end"}

(* ... the instance loc.t ...                                              *)
NeedsInst ==
  {"add.track", "add.spawn", "wait.info", "wait.mark", "wait.select",
   "stream.paused", "stream.resume", "stream.prio", "purge.hold",
   "purge.fold", "purge.drop", "purge.delete", "move.mkdir", "move.hold",
   "move.prios", "move.files", "move.fold", "move.drop"}

(* ... and the fresh instance loc.ft.                                      *)
NeedsFresh == {"purge.swap", "move.reprio", "move.swap"}

(* A thread p at label c with locals l, which goes on at k after a save,   *)
(* while n structs have been allocated.                                    *)
ReturnsOK(c, l, k) ==
  /\ c \in FlowLabels => l.fk \in FlowNext /\ l.ft \in Insts
  /\ c \in SaveLabels => k \in SaveNext

PointersOK(c, l, k, n) ==
  /\ l.o <= n
  /\ WhereOf(c, l, k) \in NeedsObj => l.o # NoObj
  /\ WhereOf(c, l, k) \in NeedsInst \/ l.ret = "stream.prio" => l.t # NoInst
  /\ c \in NeedsFresh => l.ft # NoInst

OperationOK(p, c, l, k) ==
  IF l.op = ""
  THEN WhereOf(c, l, k) \notin StructLabels
  ELSE /\ p \in Clients
       /\ l.ret = "idle" /\ l.o # NoObj
       /\ WhereOf(c, l, k) \in StructLabels \cup {"check.add", "check.begin", "end"}
       /\ c = "op.lock" => l.t = NoInst

LocalOK(p, c, l, k, n) ==
  ReturnsOK(c, l, k) /\ PointersOK(c, l, k, n) /\ OperationOK(p, c, l, k)

(* No thread ever acts on a struct or an instance it does not have: a      *)
(* pointer is set before the label that follows it, on every path there,   *)
(* through applyFlow, persist and the calls operations make of each other; *)
(* and every tracked struct has its library instance.  (A nil one "takes   *)
(* down the whole process", ops.go:27.)                                    *)
NoNilPointer ==
  /\ \A i \in Ids : torrents[i] <= nobj
  /\ \A o \in Objs : o <= nobj => tr[o].t # NoInst
  /\ \A p \in Threads : LocalOK(p, pc[p], loc[p], save[p].k, nobj)

(* Holding opMu: from LockOp to the end of the operation.                  *)
HoldsOpMu(p) == loc[p].op # "" /\ pc[p] # "op.lock"

(* opMu: a purge, move or remove past its Lock is the one the mutex names, *)
(* so no two work on one torrent at a time.                                *)
OpMuHeld == \A p \in Threads : HoldsOpMu(p) => opMu[loc[p].o] = p

Inv == TypeOK /\ NoNilPointer /\ OpMuHeld /\ StableInstance

(* The labels of purge and of move are those of threads that purge and     *)
(* move: op names the operation from the call to the end.                  *)
OpOK(c, op) ==
  /\ c \in {"purge", "purge.hold", "purge.fold", "purge.drop", "purge.delete",
            "purge.readd", "purge.swap", "purge.save", "purge.failed"} => op = "purge"
  /\ c \in {"move", "move.mkdir", "move.hold", "move.prios", "move.files",
            "move.fold", "move.drop", "move.readd", "move.lost", "move.failed",
            "move.reprio", "move.swap"} => op = "move"
  /\ c \in {"check.add", "check.begin"} => op \in {"", "move"}

OpNamed == \A p \in Clients : OpOK(Where(p), loc[p].op)

HoldInv == HoldHasOwner /\ OpNamed
-----------------------------------------------------------------------------
(* What session.json is worth: the strengthening of Restorable and         *)
(* NothingForgotten, for as long as nothing removes a torrent.             *)

(* Nobody is in a remove.                                                  *)
RemoveLabels == {"remove", "remove.drop", "remove.files", "remove.meta"}
OpLabels     == {"op.lock", "op.cancel", "op.wait"}
KeepsAll(c, l) == c \notin RemoveLabels /\ (c \in OpLabels => l.op # "remove")

(* Metadata stays: what has it is an instance that was created, and no     *)
(* instance is created twice.                                              *)
KnownLib ==
  /\ \A t \in Insts : lib[t].live \/ lib[t].info => t <= ninst
  /\ \A i \in Ids : client[i] <= ninst

(* A torrent added from a .torrent has metadata, through every instance it *)
(* is given; so has what an add or a re-add is about to put in place.      *)
StructInfo ==
  \A o \in Objs : tr[o].t # NoInst /\ ~tr[o].magnet => lib[tr[o].t].info

AddedInfo(c, l) ==
  /\ c = "add.track" /\ ~l.magnet => lib[l.t].info
  /\ c \in NeedsFresh => lib[l.ft].info

(* A save runs only if there is a state directory, and only one writes.    *)
Saver(p) == pc[p] \in {"save.meta", "save.write"}
SavesOK(c) == c \in SaveLabels => StateDir

(* Before the restore, the process does nothing that could be saved.       *)
EarlyLabels == {"new", "restore.read"}
RestLabels == {"idle", "off", "tick", "tick.disk", "tick.decide", "tick.apply",
               "tick.stop", "tick.hook"}
Early == pc[Main] \in EarlyLabels
EarlyInv ==
  Early =>
    /\ ~restoring /\ tk.flows = {} /\ tk.stop = {}
    /\ \A i \in Ids : torrents[i] = NoObj
    /\ \A p \in Threads : p # Main => pc[p] \in RestLabels

(* What a save is about to write: the records of tracked torrents, each    *)
(* one that needs a metainfo file sure to have it, and none left out that  *)
(* session.json has.                                                       *)
DraftOK(p) ==
  LET draft == save[p].draft IN
  /\ \A i \in Ids : draft[i] # NoRec =>
       torrents[i] # NoObj /\ draft[i].magnet = tr[torrents[i]].magnet
  /\ pc[p] = "save.write" =>
       \A i \in Ids : draft[i] # NoRec /\ ~draft[i].magnet => i \in metainfo \cup save[p].todo
  /\ \A i \in Ids : session[i] # NoRec => draft[i] # NoRec

(* A record of session.json is tracked, or RestoreSession has it to do; no *)
(* save comes in between.                                                  *)
SessionInv ==
  /\ \A i \in Ids : session[i] # NoRec => i \in metainfo \/ session[i].magnet
  /\ \A p \in Threads : Saver(p) => DraftOK(p)
  /\ ~Early /\ ~restoring /\ StateDir => \A i \in Ids : session[i] # NoRec => torrents[i] # NoObj
  /\ restoring => \A i \in Ids : rs[i] = session[i] \/ (rs[i] = NoRec /\ torrents[i] # NoObj)

SaversInv ==
  /\ \A p \in Threads : Saver(p) => saveMu = p
  /\ restoring => \A p \in Threads : ~Saver(p) /\ pc[p] # "save.gather"

(* The main goroutine restores, and then waits; a torrent is tracked from  *)
(* the add of its restore on.                                              *)
AddLabels  == {"add.spec", "add.track"}
DoneLabels == {"add.spawn", "end", "prio.set", "prio.chosen"}
NextLabels == {"restore.limits", "restore.prios", "restore.final"}
MainLabels == {"new", "restore.read", "restore.next", "up", "close.cancel", "close.wait"}
                \cup AddLabels \cup DoneLabels \cup NextLabels

OnMain(c, l) ==
  /\ c \in MainLabels
  /\ c \in AddLabels \cup DoneLabels => l.ret \in {"restore.limits", "restore.prios"}

MainOK(c, l) ==
  /\ OnMain(c, l)
  /\ c \in DoneLabels \cup NextLabels => torrents[l.id] # NoObj

ControlInv ==
  \A p \in Threads : KeepsAll(pc[p], loc[p]) /\ AddedInfo(pc[p], loc[p]) /\ SavesOK(pc[p])

DiskInv ==
  /\ ControlInv /\ KnownLib /\ StructInfo /\ EarlyInv /\ SaversInv
  /\ MainOK(Where(Main), loc[Main]) /\ budget.faults <= MaxFaults
  /\ budget.faults = MaxFaults => SessionInv
-----------------------------------------------------------------------------
(* The restore: the strengthening of RestoreKeepsAll, for as long as       *)
(* nothing removes a torrent and there is no default seeding limit.        *)

(* Until it is over, only the main goroutine, the tick and the goroutines  *)
(* of the torrents added so far are at work.                               *)
RestoringLabels == {"restore.next"} \cup AddLabels \cup DoneLabels \cup NextLabels
WaitLabels    == {"wait.info", "wait.mark", "wait.select", "wait.chosen", "wait.save"}
StopLabels    == {"pause.set", "pause.save", "end"}

QuietAt(p) ==
  /\ p \in Clients \cup Checkers => pc[p] \in RestLabels
  /\ p \in Waiters => Where(p) \in WaitLabels \cup RestLabels
  /\ p = Tick => /\ Where(p) \in RestLabels \cup StopLabels
                 /\ Where(p) \in StopLabels => loc[p].ret = "tick.stop"

(* A torrent the tick is about to stop is finished and has a limit.        *)
StopOK(i) ==
  /\ torrents[i] # NoObj
  /\ Complete(tr[torrents[i]].t) /\ SeedLimitOf(tr[torrents[i]]) > 0

StopsOK ==
  /\ \A i \in tk.stop : StopOK(i)
  /\ pc[Tick] = "pause.set" =>
       StopOK(loc[Tick].id) /\ loc[Tick].o = torrents[loc[Tick].id] /\ loc[Tick].flag

OwnStruct == \A i, j \in Ids : torrents[i] # NoObj /\ torrents[i] = torrents[j] => i = j

(* The record being restored: what the struct has of it so far.            *)
PutBack(i, r, down, up) ==
  LET x == tr[torrents[i]] IN
  /\ x.savePath = r.savePath /\ x.paused = r.paused /\ x.seedLimit = 0
  /\ x.downLimit = down /\ x.upLimit = up

AddedAt(c, l)   == (c \in DoneLabels /\ l.ret = "restore.limits") \/ c = "restore.limits"
LimitedAt(c, l) == (c \in DoneLabels /\ l.ret = "restore.prios")
                     \/ c \in {"restore.prios", "restore.final"}

CurrentOK(c, l) ==
  LET r == rs[l.id] IN
  /\ c \in AddLabels \cup DoneLabels \cup NextLabels => r # NoRec
  /\ c \in AddLabels =>
       /\ torrents[l.id] = NoObj /\ l.ret = "restore.limits"
       /\ l.dir = r.savePath /\ l.flag = r.paused
  /\ AddedAt(c, l)   => PutBack(l.id, r, 0, 0)
  /\ LimitedAt(c, l) => PutBack(l.id, r, r.downLimit, r.upLimit)

TodoOK ==
  \A i \in Ids : torrents[i] # NoObj /\ rs[i] # NoRec =>
    i = loc[Main].id /\ Where(Main) \in DoneLabels \cup NextLabels

DoneOK ==
  budget.faults = MaxFaults =>
    \A i \in Ids : session[i] # NoRec /\ rs[i] = NoRec => Restored(i)

RestoringInv ==
  restoring =>
    /\ Where(Main) \in RestoringLabels /\ \A p \in Threads : QuietAt(p)
    /\ OwnStruct /\ StopsOK /\ TodoOK /\ DoneOK
    /\ CurrentOK(Where(Main), loc[Main])
-----------------------------------------------------------------------------
(* Verifications: the strengthening of CheckCanBeStopped and HashingIsLive,*)
(* for as long as no recheck is called.                                    *)

(* The labels of a verification that its struct's checkWG counts, and of   *)
(* the operation that has just counted it.                                 *)
CountLabels == {"check.read", "check.loop", "check.hash", "check.clear", "check.done"}

Counted(p, o) ==
  /\ loc[p].o = o
  /\ \/ p \in Clients /\ pc[p] = "check.begin"
     \/ p \in Checkers /\ pc[p] \in CountLabels

(* Past quiesceCheck, and before a check of its own.                       *)
QuietLabels == StructLabels \ OpLabels
AtWork(p)     == pc[p] = "check.add" \/ Where(p) \in QuietLabels
Quieted(p, o) == p \in Clients /\ loc[p].o = o /\ AtWork(p)

(* checkWG counts the one verification a struct can have, and none while   *)
(* an operation that has waited for it is at work.                         *)
CheckInv ==
  /\ \A p \in Threads :
       /\ pc[p] \in {"check.add", "check.begin"} => loc[p].op # ""
       /\ pc[p] \in CountLabels => p \in Checkers
  /\ \A p \in Threads, o \in Objs :
       /\ Counted(p, o)  => checkWG[o] = 1
       /\ Quieted(p, o) => checkWG[o] = 0
  /\ \A p, q \in Threads, o \in Objs : Counted(p, o) /\ Counted(q, o) => p = q
  /\ CheckCanBeStopped

(* As long as nothing is removed either, an instance belongs to one struct,*)
(* that of its infohash, ...                                               *)
InstOf(t, i) == t \in Insts /\ t <= ninst /\ lib[t].id = i

OwnInst ==
  \A o \in Objs : o <= nobj =>
    \E i \in Ids : torrents[i] = o /\ InstOf(tr[o].t, i)

(* ... the client's instances are live, ...                                *)
ClientLive ==
  \A i \in Ids : client[i] # NoInst => InstOf(client[i], i) /\ lib[client[i]].live

(* ... and so are the fresh one of a purge or move and the one verified.   *)
VerifyLabels == {"check.read", "check.loop", "check.hash"}

LiveOK(p) ==
  /\ KeepsAll(pc[p], loc[p])
  /\ loc[p].op # "" => torrents[loc[p].id] = loc[p].o
  /\ pc[p] = "add.track" => InstOf(loc[p].t, loc[p].id)
  /\ pc[p] \in NeedsFresh => InstOf(loc[p].ft, loc[p].id) /\ lib[loc[p].ft].live
  /\ pc[p] \in VerifyLabels \cup {"check.add", "check.begin"} => lib[tr[loc[p].o].t].live
  /\ pc[p] \in {"check.loop", "check.hash"} => loc[p].t = tr[loc[p].o].t

LiveInv == OwnInst /\ ClientLive /\ \A p \in Threads : LiveOK(p)
-----------------------------------------------------------------------------
(* The completion hook: the strengthening of HookOnce, for as long as one  *)
(* process runs, found no session, and nothing removes a torrent.          *)

(* The tick has logged it as complete.                                     *)
Logged(i) == torrents[i] # NoObj /\ tr[torrents[i]].completeLogged

(* Nothing to restore: the main goroutine tracks no torrent of its own.    *)
IdleMain == {"new", "restore.read", "restore.next", "up"}

NothingSaved ==
  /\ \A i \in Ids : rs[i] = NoRec
  /\ Early => \A i \in Ids : session[i] = NoRec
  /\ Where(Main) \in IdleMain

(* A hook that has run, or that the tick has still to run, is of a torrent *)
(* that is logged; and the tick runs none a second time.                   *)
FiredOnce ==
  \A i \in Ids :
    /\ hooks[i] \in {0, 1} /\ (hooks[i] = 1 => Logged(i))
    /\ i \in tk.done => hooks[i] = 0 /\ Logged(i)

FiredInv == budget.restarts = 0 /\ NothingSaved /\ FiredOnce
-----------------------------------------------------------------------------
(* The session file: the strengthening of SessionFresh, for as long as     *)
(* nothing moves and nothing fails.                                        *)

(* The labels from which a thread is sure to come to a save: it has        *)
(* changed something, or may have, since it last did.                      *)
OwesLabels ==
  {"add.track", "add.spawn", "wait.mark", "wait.select", "wait.chosen", "wait.save",
   "pause.chosen", "pause.mark", "pause.save", "prio.chosen", "remove.drop",
   "remove.files", "remove.meta", "purge.fold", "purge.drop", "purge.delete",
   "purge.readd", "purge.swap", "purge.save", "purge.failed"}

WillSave(p) ==
  \/ pc[p] \in {"save.check", "save.gather"}
  \/ Where(p) \in OwesLabels
  \/ pc[p] = "wait.info" /\ lib[loc[p].t].info

(* A save is still to gather its records: at the latest that which ends    *)
(* the restore, unless the process is on its way out.                      *)
Owed == restoring \/ Early \/ closing \/ \E p \in Threads : WillSave(p)

(* Records, as the file s and the metainfo files in m say.                 *)
SavedAs(s)  == \A i \in Ids : SameRecord(s[i], Records[i])
ListedIn(m) == \A i \in TrackedIds : lib[tr[torrents[i]].t].info => i \in m

(* If none is, the engine is as the save under way has it, or else as the  *)
(* disk has it.                                                            *)
UpToDate ==
  StateDir /\ ~Owed =>
    IF saveMu = NoThread
    THEN SavedAs(session) /\ ListedIn(metainfo)
    ELSE /\ SavedAs(save[saveMu].draft)
         /\ At(saveMu, "save.write") => ListedIn(metainfo \cup save[saveMu].todo)

OneSave ==
  /\ \A p \in Threads : Saver(p) => saveMu = p
  /\ saveMu # NoThread => Saver(saveMu)

(* Metadata that comes is waited for, by a goroutine that saves then.      *)
WaitsFor(p, t) ==
  loc[p].t = t /\ (Where(p) = "add.spawn" \/ (p \in Waiters /\ At(p, "wait.info")))

Awaited ==
  ~closing =>
    \A i \in TrackedIds :
      LET t == tr[torrents[i]].t IN
      lib[t].info \/ \E p \in Threads : WaitsFor(p, t)

(* No instance in use is made anew, and one put in place has metadata.     *)
InstsMade ==
  /\ KnownLib
  /\ \A o \in Objs : tr[o].t <= ninst
  /\ \A p \in Threads :
       /\ loc[p].t <= ninst
       /\ At(p, "purge.swap") => lib[loc[p].ft].info

(* The main goroutine comes up only once the restore is over, and does not *)
(* close before; the tick loop runs once New is through.                   *)
MainUp ==
  /\ OnMain(Where(Main), loc[Main])
  /\ Where(Main) \in RestoringLabels <=> restoring
  /\ closing => At(Main, "close.wait")
  /\ At(Main, "new") => At(Tick, "off")

FreshInv ==
  /\ budget.faults = 0 /\ \A p \in Threads : loc[p].op # "move"
  /\ MainUp /\ InstsMade /\ Awaited /\ OneSave /\ UpToDate
=============================================================================
