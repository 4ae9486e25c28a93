-------------------------------- MODULE Engine --------------------------------
(***************************************************************************)
(* internal/engine as a whole: the tick loop of engine.go, starting and    *)
(* ending the process, what the network does to the library meanwhile, and *)
(* the specification with its properties.                                  *)
(***************************************************************************)
EXTENDS EngineStruct

-----------------------------------------------------------------------------
(* tick.  refreshVPN and refreshDisk run first, each under e.mu on its own.*)
(* Closing closeCh does not stop a tick whose timer has already fired.     *)

TickStart ==
  /\ At(Tick, "tick")
  /\ budget.ticks >= TickCost
  /\ budget' = [budget EXCEPT !.ticks = @ - TickCost]
  /\ blocked' \in IF RequireVPN THEN BOOLEAN ELSE {FALSE}
  /\ Goto(Tick, "tick.disk")
  /\ UNCHANGED <<engineVars, libVars, lowDisk, diskVars, saveVars, mainVars,
                 loc, tk, hooks>>

(* refreshDisk fails open: an unreadable statfs leaves the old verdict,    *)
(* which is one of the two anyway.                                         *)
TickDisk ==
  /\ At(Tick, "tick.disk")
  /\ lowDisk' \in IF MinFreeSpace THEN BOOLEAN ELSE {FALSE}
  /\ Goto(Tick, "tick.decide")
  /\ UNCHANGED <<engineVars, libVars, blocked, diskVars, saveVars, mainVars,
                 loc, tk, hooks, budget>>

(* seedLimitsFor: a torrent's own limit, or the default; -1 is none.       *)
SeedLimitOf(x) == IF x.seedLimit # 0 THEN x.seedLimit ELSE SeedDefault

TrackedIds == {i \in Ids : torrents[i] # NoObj}

(* seedLimitReached: only a finished torrent that runs; whether the ratio  *)
(* or the time is enough by now is not decided here.                       *)
MayReachLimit(x) == ~x.paused /\ Complete(x.t) /\ SeedLimitOf(x) > 0

(* The tick's critical section: updateRates and flowDecision for each      *)
(* torrent, newlyCompleteLocked, seedLimitsReachedLocked.                  *)
TickDecide ==
  /\ At(Tick, "tick.decide")
  /\ \E down, up \in [TrackedIds -> Rates],
        stop \in SUBSET {i \in TrackedIds : MayReachLimit(tr[torrents[i]])} :
       LET rated(i) == [tr[torrents[i]] EXCEPT !.lastDownBPS = down[i], !.lastUpBPS = up[i]]
           finished == {i \in TrackedIds : Complete(tr[torrents[i]].t)}
           started  == {i \in finished : ~tr[torrents[i]].completedAt}
           ticked(i) == [rated(i) EXCEPT !.completeLogged = @ \/ i \in finished,
                                         !.completedAt = @ \/ i \in finished]
       IN /\ tr' = [o \in Objs |->
                      IF \E i \in TrackedIds : torrents[i] = o
                      THEN ticked(CHOOSE i \in TrackedIds : torrents[i] = o)
                      ELSE tr[o]]
          /\ tk' = [flows |-> {[ft |-> rated(i).t, down |-> DownFlow(rated(i), Guarded),
                                up |-> UpFlow(rated(i), Guarded)] : i \in TrackedIds},
                    stop  |-> stop,
                    done  |-> {i \in finished : ~tr[torrents[i]].completeLogged}]
          /\ IF started # {}
             THEN Persist(Tick, "tick.apply")
             ELSE Goto(Tick, "tick.apply") /\ UNCHANGED save
  /\ UNCHANGED <<torrents, nobj, opMu, checkWG, canceled, libVars, guardVars,
                 diskVars, saveMu, mainVars, loc, hooks, budget>>

(* The decisions are applied one torrent at a time, outside e.mu.          *)
TickApply ==
  /\ At(Tick, "tick.apply")
  /\ \/ \E f \in tk.flows :
          /\ tk' = [tk EXCEPT !.flows = @ \ {f}]
          /\ SetLoc(Tick, [loc[Tick] EXCEPT !.ft = f.ft, !.down = f.down,
                                            !.up = f.up, !.fk = "tick.apply"])
          /\ Goto(Tick, "flow.down")
     \/ /\ tk.flows = {}
        /\ Goto(Tick, "tick.stop")
        /\ UNCHANGED <<tk, loc>>
  /\ UNCHANGED <<engineVars, libVars, guardVars, diskVars, saveVars, mainVars,
                 hooks, budget>>

(* SetPaused(id, true) for each torrent at its limit; one removed since is *)
(* skipped.                                                                *)
TickStop ==
  /\ At(Tick, "tick.stop")
  /\ \/ \E i \in tk.stop :
          /\ tk' = [tk EXCEPT !.stop = @ \ {i}]
          /\ IF torrents[i] = NoObj
             THEN UNCHANGED <<pc, loc>>
             ELSE /\ SetLoc(Tick, [Found(i) EXCEPT !.flag = TRUE,
                                                                   !.ret = "tick.stop"])
                  /\ Goto(Tick, "pause.set")
     \/ /\ tk.stop = {}
        /\ Goto(Tick, "tick.hook")
        /\ SetLoc(Tick, Loc0)
        /\ UNCHANGED tk
  /\ UNCHANGED <<engineVars, libVars, guardVars, diskVars, saveVars, mainVars,
                 hooks, budget>>

(* OnComplete for each torrent that has just finished.                     *)
TickHook ==
  /\ At(Tick, "tick.hook")
  /\ hooks' = [i \in Ids |-> IF i \in tk.done THEN hooks[i] + 1 ELSE hooks[i]]
  /\ tk' = Tk0
  /\ Goto(Tick, "tick")
  /\ UNCHANGED <<engineVars, libVars, guardVars, diskVars, saveVars, mainVars,
                 loc, budget>>

TickStep ==
  \/ TickStart \/ TickDisk \/ TickDecide \/ TickApply \/ TickStop \/ TickHook

-----------------------------------------------------------------------------
(* The process.                                                            *)

(* New: both guards are read before the tick loop starts and before        *)
(* anything is restored.                                                   *)
New ==
  /\ At(Main, "new")
  /\ blocked' \in IF RequireVPN THEN BOOLEAN ELSE {FALSE}
  /\ lowDisk' \in IF MinFreeSpace THEN BOOLEAN ELSE {FALSE}
  /\ pc' = [pc EXCEPT ![Main] = "restore.read", ![Tick] = "tick"]
  /\ UNCHANGED <<engineVars, libVars, diskVars, saveVars, mainVars, loc, tk,
                 hooks, budget>>

(* Close, once the IPC server has drained its connections: save, call off  *)
(* every check, close closeCh, wait for the goroutines.                    *)
Close ==
  /\ Up
  /\ "close" \in Ops /\ budget.restarts > 0
  /\ \A c \in Clients : At(c, "idle")
  /\ Persist(Main, "close.cancel")
  /\ UNCHANGED <<engineVars, libVars, guardVars, diskVars, saveMu, mainVars,
                 loc, tk, hooks, budget>>

CloseCancel ==
  /\ At(Main, "close.cancel")
  /\ canceled' = [k \in Checkers |->
       canceled[k] \/ \E i \in TrackedIds : tr[torrents[i]].cancelCheck = k]
  /\ closing' = TRUE
  /\ Goto(Main, "close.wait")
  /\ UNCHANGED <<torrents, tr, nobj, opMu, checkWG, libVars, guardVars,
                 diskVars, saveVars, restoring, rs, loc, tk, hooks, budget>>

Blank(t) == [id |-> CHOOSE i \in Ids : TRUE, dir |-> DataDir, live |-> FALSE,
             info |-> FALSE, have |-> FALSE, down |-> FALSE, up |-> FALSE,
             bytes |-> 0, prio |-> [f \in Files |-> "None"]]

(* What a process starts from: only the disk outlives one.                 *)
Fresh(p) == IF p = Main THEN "new" ELSE IF p \in Clients THEN "idle" ELSE "off"

ProcessEnds ==
  /\ budget' = [budget EXCEPT !.restarts = @ - 1]
  /\ torrents' = [i \in Ids |-> NoObj]
  /\ tr' = [o \in Objs |-> NewTracked(NoInst, DataDir, FALSE, FALSE)]
  /\ nobj' = 0
  /\ opMu' = [o \in Objs |-> NoThread]
  /\ checkWG' = [o \in Objs |-> 0]
  /\ canceled' = [k \in Checkers |-> FALSE]
  /\ lib' = [t \in Insts |-> Blank(t)]
  /\ ninst' = 0
  /\ client' = [i \in Ids |-> NoInst]
  /\ saveMu' = NoThread
  /\ save' = [p \in Threads |-> Save0]
  /\ restoring' = FALSE /\ closing' = FALSE
  /\ rs' = [i \in Ids |-> NoRec]
  /\ blocked' = FALSE /\ lowDisk' = FALSE
  /\ pc' = [p \in Threads |-> Fresh(p)]
  /\ loc' = [p \in Threads |-> Loc0]
  /\ tk' = Tk0
  /\ UNCHANGED <<diskVars, hooks>>

CloseWait ==
  /\ At(Main, "close.wait")
  /\ At(Tick, "tick")
  /\ \A p \in Waiters \cup Checkers : At(p, "off")
  /\ ProcessEnds

(* Power loss, or a kill: at any moment.                                   *)
Crash ==
  /\ "crash" \in Ops /\ budget.restarts > 0
  /\ ~At(Main, "new")
  /\ ProcessEnds

-----------------------------------------------------------------------------
(* The network: metadata arrives, bytes move while a switch allows them,   *)
(* and a torrent all of whose files are wanted finishes.                   *)

GotInfo(t) ==
  /\ lib[t].live /\ ~lib[t].info
  /\ SetLib(t, [lib[t] EXCEPT !.info = TRUE])
  /\ UNCHANGED budget

Transfer(t) ==
  /\ \E f \in Files : lib[t].prio[f] # "None"
  /\ lib[t].live /\ lib[t].info /\ lib[t].down /\ ~lib[t].have
  /\ budget.bytes > 0
  /\ budget' = [budget EXCEPT !.bytes = @ - 1]
  /\ SetLib(t, [lib[t] EXCEPT !.bytes = @ + 1])

Wanted(t) == \A f \in Files : lib[t].prio[f] # "None"

Finish(t) ==
  /\ "finish" \in Ops
  /\ lib[t].live /\ lib[t].info /\ lib[t].down /\ ~lib[t].have
  /\ Wanted(t)
  /\ SetLib(t, [lib[t] EXCEPT !.have = TRUE])
  /\ data' = [data EXCEPT ![lib[t].id] = @ \cup {lib[t].dir}]

Network ==
  \E t \in Insts :
    /\ \/ (GotInfo(t) \/ Transfer(t)) /\ UNCHANGED data
       \/ Finish(t) /\ UNCHANGED budget
    /\ UNCHANGED <<engineVars, ninst, client, guardVars, session, metainfo,
                   saveVars, mainVars, pc, loc, tk, hooks>>

-----------------------------------------------------------------------------
Init ==
  /\ torrents = [i \in Ids |-> NoObj]
  /\ tr = [o \in Objs |-> NewTracked(NoInst, DataDir, FALSE, FALSE)]
  /\ nobj = 0
  /\ opMu = [o \in Objs |-> NoThread]
  /\ checkWG = [o \in Objs |-> 0]
  /\ canceled = [k \in Checkers |-> FALSE]
  /\ lib = [t \in Insts |-> Blank(t)]
  /\ ninst = 0
  /\ client = [i \in Ids |-> NoInst]
  /\ saveMu = NoThread
  /\ save = [p \in Threads |-> Save0]
  /\ restoring = FALSE /\ closing = FALSE
  /\ rs = [i \in Ids |-> NoRec]
  /\ blocked = FALSE /\ lowDisk = FALSE
  /\ session = Session0 /\ metainfo = Metainfo0 /\ data = Data0
  /\ pc = [p \in Threads |-> Fresh(p)]
  /\ loc = [p \in Threads |-> Loc0]
  /\ tk = Tk0
  /\ hooks = [i \in Ids |-> 0]
  /\ budget = [ops |-> MaxOps, ticks |-> MaxTicks, restarts |-> MaxRestarts,
               bytes |-> MaxBytes, faults |-> MaxFaults]

(* A client may call anything, at any time; nothing makes it.              *)
ClientCalls(c) ==
  \/ CallAdd(c) \/ CallSetPaused(c) \/ CallSetFilePriority(c) \/ CallSetter(c)
  \/ CallPrepareStream(c) \/ CallForceRecheck(c) \/ CallStruct(c)

(* A step of an operation already under way.                               *)
OpStep(p) ==
  \/ ApplyFlowDown(p) \/ ApplyFlowUp(p) \/ EndOp(p) \/ PersistStep(p)
  \/ AddStep(p) \/ PauseStep(p) \/ FieldStep(p) \/ StreamStep(p) \/ StructStep(p)

GoroutineStep(p) ==
  ApplyFlowDown(p) \/ ApplyFlowUp(p) \/ PersistStep(p) \/ WaiterStep(p) \/ CheckerStep(p)

MainStep == New \/ RestoreStep \/ CloseCancel \/ CloseWait

(* Everything the process does by itself.                                  *)
ThreadStep(p) ==
  \/ p \in Callers /\ OpStep(p)
  \/ p \in Waiters \cup Checkers /\ GoroutineStep(p)
  \/ p = Tick /\ TickStep
  \/ p = Main /\ MainStep

(* Nothing left to do within the bounds: every thread waits for a call, a  *)
(* tick, metadata or a close.                                              *)
Rest ==
  /\ Up
  /\ \A c \in Clients : At(c, "idle")
  /\ \A p \in Waiters : pc[p] \in {"off", "wait.info"}
  /\ \A k \in Checkers : At(k, "off")
  /\ At(Tick, "tick")

Idle == Rest /\ UNCHANGED vars

Next ==
  \/ \E c \in Clients : ClientCalls(c)
  \/ \E p \in Threads : ThreadStep(p)
  \/ Close
  \/ Crash
  \/ Network
  \/ Idle

Spec == Init /\ [][Next]_vars

(* Go runs every goroutine that can run, and a mutex or wait group that is *)
(* free lets a waiting one through; a client need never call.              *)
FairSpec == Spec /\ \A p \in Threads : WF_vars(ThreadStep(p))

-----------------------------------------------------------------------------
(* Properties.                                                             *)

EngineTypes ==
  /\ torrents \in [Ids -> Objs \cup {NoObj}]
  /\ tr \in [Objs -> Tracked]
  /\ nobj \in 0..MaxObjs
  /\ opMu \in [Objs -> Threads \cup {NoThread}]
  /\ checkWG \in [Objs -> Int]
  /\ canceled \in [Checkers -> BOOLEAN]

LibTypes ==
  /\ lib \in [Insts -> Instance]
  /\ ninst \in 0..MaxInsts
  /\ client \in [Ids -> Insts \cup {NoInst}]

DiskTypes ==
  /\ session \in [Ids -> Record \cup {NoRec}]
  /\ metainfo \in SUBSET Ids
  /\ data \in [Ids -> SUBSET Dirs]

SaveTypes ==
  /\ saveMu \in Threads \cup {NoThread}
  /\ save \in [Threads -> Saving]

GuardTypes == blocked \in BOOLEAN /\ lowDisk \in BOOLEAN

MainTypes ==
  /\ restoring \in BOOLEAN /\ closing \in BOOLEAN
  /\ rs \in [Ids -> Record \cup {NoRec}]

ThreadTypes == pc \in [Threads -> Places] /\ loc \in [Threads -> Locals]

TallyTypes ==
  /\ tk \in Ticking
  /\ hooks \in [Ids -> Nat]
  /\ budget \in Budget

(* Every variable keeps its type.                                          *)
TypeOK ==
  /\ EngineTypes /\ LibTypes /\ GuardTypes /\ DiskTypes /\ SaveTypes
  /\ MainTypes /\ ThreadTypes /\ TallyTypes

(* Where a thread is in its operation, seen through the subroutines        *)
(* applyFlow and persist: at label c with locals l, to go on at k after a  *)
(* save.                                                                   *)
WhereOf(c, l, k) ==
  IF c \in FlowLabels THEN l.fk ELSE IF c \in SaveLabels THEN k ELSE c

Where(p) == WhereOf(pc[p], loc[p], save[p].k)

(* A purge or a move works, outside e.mu, on an instance and a save path   *)
(* it read once: until it puts the fresh instance in place the struct goes *)
(* on holding exactly those, whatever the other threads do.  ("a concurrent*)
(* move or purge swaps these fields underneath - which is a data race, and *)
(* one that would have this call deleting the paths of one torrent         *)
(* instance while dropping another", ops.go:800.)                          *)
StableInstance ==
  \A p \in Clients :
    loc[p].op \in {"purge", "move"} /\ loc[p].t # NoInst =>
      /\ tr[loc[p].o].t = loc[p].t
      /\ tr[loc[p].o].savePath = loc[p].old

HoldLabels ==
  {"purge.fold", "purge.drop", "purge.delete", "purge.readd", "purge.swap",
   "purge.failed", "move.prios", "move.files", "move.fold", "move.drop",
   "move.readd", "move.lost", "move.failed", "move.reprio", "move.swap",
   "check.add", "check.begin"}

HoldsFor(p, o) ==
  /\ loc[p].o = o
  /\ \/ p \in Clients /\ loc[p].op \in {"purge", "move"} /\ Where(p) \in HoldLabels
     \/ p \in Checkers /\ loc[p].flag
        /\ pc[p] \in {"check.read", "check.loop", "check.hash", "check.clear",
                      "check.done", "check.end"}

(* A torrent on hold always has someone who will take the hold off: the    *)
(* purge or move that put it on, or the verification a move started.  No   *)
(* error path may leak it: "a return that leaves it set stops that torrent *)
(* transferring for as long as the daemon runs" (ops.go:1087).             *)
HoldHasOwner ==
  \A o \in Objs : tr[o].holdData => \E p \in Clients \cup Checkers : HoldsFor(p, o)

(* No library torrent is dropped while one of its pieces is being hashed   *)
(* (quiesceCheck: "Dropping the torrent in that window leaves the client's *)
(* write lock held by nobody, and the whole process then blocks on it").   *)
HashingIsLive ==
  \A k \in Checkers : At(k, "check.hash") => lib[loc[k].t].live

Verifying(k) == pc[k] \in {"check.read", "check.loop", "check.hash"}

(* A verification that runs and has not been told to stop can be told to:  *)
(* it is the one tr.cancelCheck cancels ("Pausing stops a running hash     *)
(* check too. It is the only way to call one off", ops.go:368).            *)
CheckCanBeStopped ==
  \A k \in Checkers : Verifying(k) /\ ~canceled[k] => tr[loc[k].o].cancelCheck = k

(* Nothing is pending: threads rest, and no metadata waits to be noticed.  *)
Quiet ==
  /\ Rest
  /\ \A w \in Waiters : At(w, "wait.info") => ~lib[loc[w].t].info

(* session.json agrees with the engine whenever nothing is pending: every  *)
(* operation saves after its change, and saves never overtake each other   *)
(* ("leaves no window where the file is behind reality", session.go:122).  *)
(* Byte totals move without a save and are left out.                       *)
SameRecord(r, s) ==
  IF r = NoRec \/ s = NoRec THEN r = s
  ELSE [r EXCEPT !.downloaded = 0] = [s EXCEPT !.downloaded = 0]

SessionFresh ==
  Quiet /\ StateDir =>
    /\ \A i \in Ids : SameRecord(session[i], Records[i])
    /\ \A i \in TrackedIds : lib[tr[torrents[i]].t].info => i \in metainfo

(* A restart, after a crash at any moment, brings every torrent of         *)
(* session.json back with what the file says of it: when RestoreSession    *)
(* stops suppressing saves, the save it then makes loses nothing.  (A tick *)
(* in the meantime may have found a finished torrent at its seeding limit  *)
(* and paused it; a record whose add failed is skipped.)                   *)
Restored(i) ==
  LET r == session[i]  x == tr[torrents[i]] IN
  /\ torrents[i] # NoObj
  /\ x.savePath = r.savePath /\ x.label = r.label
  /\ x.paused = r.paused \/ (x.paused /\ Complete(x.t) /\ SeedLimitOf(x) > 0)
  /\ x.downLimit = r.downLimit /\ x.upLimit = r.upLimit
  /\ x.seedLimit = r.seedLimit
  /\ r.completedAt => x.completedAt /\ x.completeLogged
  /\ x.base >= r.downloaded

RestoreKeepsAll ==
  [][restoring /\ ~restoring' /\ ~At(Main, "new")' /\ budget.faults = MaxFaults =>
       \A i \in Ids : session[i] # NoRec => Restored(i)]_vars

(* Whatever moment the process dies at, a torrent named in session.json    *)
(* can be added again: its metainfo is on disk before the record that      *)
(* relies on it, or the record has a magnet (session.go:331, "no metainfo  *)
(* file and no magnet uri to re-add from").  Failed writes aside.          *)
Restorable ==
  budget.faults = MaxFaults =>
    \A i \in Ids : session[i] # NoRec => i \in metainfo \/ session[i].magnet

(* ... and no save forgets one: records leave session.json only where a    *)
(* disk call failed ("a failure halfway through would leave a file listing *)
(* only the ones restored so far, quietly losing the rest", session.go:105)*)
NothingForgotten ==
  [][\A i \in Ids : session[i] # NoRec /\ session'[i] = NoRec =>
       budget.faults < MaxFaults]_vars

(* A file every add's selection leaves out is never marked wanted; only a  *)
(* stream of that very file raises it, to high (ops.go:150, "not to fetch  *)
(* what was not asked for").                                               *)
SelectionHonoured ==
  \A i \in TrackedIds, f \in Files :
    (\A opts \in AddOpts : opts.pick /\ f \notin opts.sel) =>
      lib[tr[torrents[i]].t].prio[f] # "Normal"

(* The completion hook runs once in a torrent's life, purges included, and *)
(* not at all for one that was finished when the process started           *)
(* (docs/reference/caveats.md:84, "It fires once per torrent for the life  *)
(* of that torrent ... A torrent that was already finished when the daemon *)
(* started does not re-run it").                                           *)
HookOnce ==
  \A i \in Ids :
    hooks[i] <= IF Session0[i] # NoRec /\ Session0[i].completedAt THEN 0 ELSE 1

-----------------------------------------------------------------------------
(* Liveness.                                                               *)

(* Every call a client makes returns, also one that waits for a hash check *)
(* or a lock in the middle of an operation, and every hold comes off again.*)
CallsReturn ==
  /\ \A c \in Clients : ~At(c, "idle") ~> At(c, "idle")
  /\ \A o \in Objs : tr[o].holdData ~> ~tr[o].holdData

Off(i) == ~lib[tr[torrents[i]].t].down /\ ~lib[tr[torrents[i]].t].up
On(i)  == lib[tr[torrents[i]].t].down /\ lib[tr[torrents[i]].t].up

(* A decision made under e.mu is applied outside it, so a stale one may    *)
(* land last; the tick makes up for it.  A torrent that stays paused, or   *)
(* under a guard that goes on holding, ends up for good with both switches *)
(* off, and one that nothing holds, and that has no rate limit, with both  *)
(* on.                                                                     *)
SwitchesSettle ==
  \A i \in Ids :
    /\ <>[](i \in TrackedIds /\ (tr[torrents[i]].paused \/ Guarded)) => <>[](i \in TrackedIds /\ Off(i))
    /\ <>[](/\ i \in TrackedIds /\ ~tr[torrents[i]].paused /\ ~Guarded /\ ~tr[torrents[i]].holdData
            /\ tr[torrents[i]].downLimit = 0 /\ tr[torrents[i]].upLimit = 0)
         => <>[](i \in TrackedIds /\ On(i))
-----------------------------------------------------------------------------
(* Statements the code does not keep, which no run checks: README, known   *)
(* departures, has the behaviour that refutes each.                        *)

(* The library holds no torrent the engine has forgotten: when nothing is  *)
(* pending, the client's instance for an infohash is the tracked one       *)
(* ("RemoveTorrent drops a torrent from the client", ops.go:231).          *)
NoForgottenTorrent ==
  Quiet => \A i \in Ids : client[i] # NoInst =>
             torrents[i] # NoObj /\ tr[torrents[i]].t = client[i]

(* When nothing is pending a tracked torrent's instance is one the library *)
(* still serves.  (A remove that has forgotten the torrent and not dropped *)
(* it yet, ops.go:254, lets an add pick up the old instance.)              *)
TrackedIsLive ==
  Quiet => \A i \in TrackedIds : lib[tr[torrents[i]].t].live

(* A removed torrent leaves no metainfo behind ("so a removed torrent does *)
(* not leave a file behind forever", session.go:249).                      *)
NoOrphanMetainfo ==
  Quiet /\ StateDir => metainfo \subseteq TrackedIds

(* Once an operation is over the lifetime total is every byte moved, also  *)
(* across the instances a move or purge replaces (ops.go:1071 foldCounters)*)
TotalsKept ==
  Quiet => \A i \in TrackedIds :
    tr[torrents[i]].base + lib[tr[torrents[i]].t].bytes = MaxBytes - budget.bytes

(* A file the saved session says is skipped is still skipped once a start  *)
(* without any call has settled (docs/guide/tui.md:170, "skipping something*)
(* is not undone by a restart").                                           *)
SkipSurvivesRestart ==
  Quiet => \A i \in TrackedIds, f \in Files :
    Session0[i] # NoRec /\ Session0[i].prio[f] = "none" =>
      lib[tr[torrents[i]].t].prio[f] = "None"

(* While an operation rearranges a torrent's files and instance, the       *)
(* torrent stays on hold (engine.go:212, "Without it the next tick would   *)
(* happily allow transfers again halfway through").                        *)
HeldThroughout ==
  \A p \in Clients : Where(p) \in HoldLabels /\ loc[p].op \in {"purge", "move"} =>
    tr[loc[p].o].holdData
=============================================================================
