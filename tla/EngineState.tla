---------------------------- MODULE EngineState ----------------------------
(***************************************************************************)
(* The state of internal/engine: the torrents the engine tracks, the       *)
(* library instances behind them, the files on disk, the locks, and the    *)
(* threads of control (IPC connections, the tick loop, the goroutines an   *)
(* add or a hash check starts, and the daemon's main goroutine).           *)
(*                                                                         *)
(* A thread is a program counter pc[p] and locals loc[p].  One step of a   *)
(* thread is one critical section of e.mu, or one call into the library or *)
(* the file system made outside it: everything else may come in between.   *)
(***************************************************************************)
EXTENDS Integers, FiniteSets

CONSTANTS
  Ids,          \* infohashes
  Files,        \* file indices of every torrent
  Dirs,         \* directories data can be stored in
  DataDir,      \* cfg.DataDir, the default one
  Clients,      \* IPC connections: each dispatches one call at a time
  Waiters,      \* slots for the goroutines that wait for metadata
  Checkers,     \* slots for the goroutines that verify pieces
  Tick, Main,   \* the tick loop and the daemon's main goroutine
  NoThread,     \* nobody: an unlocked mutex, no cancel function
  MaxObjs,      \* bound: tracked structs one process may allocate
  MaxInsts      \* bound: library torrents one process may create

CONSTANTS
  StateDir,     \* is cfg.StateDir set (FALSE: nothing is ever persisted)
  RequireVPN,   \* cfg.RequireVPN
  MinFreeSpace, \* is cfg.MinFreeSpace > 0
  SeedDefault,  \* cfg.SeedRatio/SeedTime: 0 none, 1 some limit
  Rates,        \* the speeds a tick can measure, against a cap of 1
  Pieces,       \* pieces of a torrent
  Labels,       \* label values SetLabel is called with; "" is none
  Session0,     \* session.json as the first process finds it
  Metainfo0,    \* the torrents/<id>.torrent files it finds
  Data0         \* where it finds data: [Ids -> SUBSET Dirs]

CONSTANTS
  MaxOps,       \* bound: calls clients make
  MaxTicks,     \* bound: ticks, when TickCost = 1
  TickCost,     \* 0 lets the tick loop run for ever
  MaxRestarts,  \* bound: times the process ends and is started again
  MaxBytes,     \* bound: useful bytes the library moves
  MaxFaults     \* bound: failing disk, storage and library calls

VARIABLES
  torrents,   \* e.torrents: id -> tracked struct, or NoObj
  tr,         \* the tracked structs
  nobj,       \* how many have been allocated
  lib,        \* the library's Torrent instances
  ninst,      \* how many have been created
  client,     \* the client's own map: id -> live instance, or NoInst
  opMu,       \* tracked -> the thread holding its opMu
  checkWG,    \* tracked -> the count of its checkWG
  canceled,   \* checker slot -> is its context cancelled
  saveMu,     \* the thread holding e.saveMu
  restoring,  \* e.restoring
  blocked,    \* e.blocked, the VPN guard's verdict
  lowDisk,    \* e.lowDisk, the free-space guard's verdict
  closing,    \* is e.closeCh closed
  session,    \* session.json
  metainfo,   \* the torrents/<id>.torrent files
  data,       \* id -> directories holding its data
  pc, loc,    \* the threads
  save,       \* a thread's locals in persist
  tk,         \* the tick's locals
  rs,         \* the records RestoreSession has not put back yet
  hooks,      \* OnComplete calls per torrent, over every process
  budget      \* what is left of the bounds

engineVars == <<torrents, tr, nobj, opMu, checkWG, canceled>>
libVars    == <<lib, ninst, client>>
guardVars  == <<blocked, lowDisk>>
diskVars   == <<session, metainfo, data>>
saveVars   == <<saveMu, save>>
mainVars   == <<restoring, closing, rs>>
vars == <<engineVars, libVars, guardVars, diskVars, saveVars, mainVars,
          pc, loc, tk, hooks, budget>>

-----------------------------------------------------------------------------
(* Types and their null values.                                            *)

Objs    == 1..MaxObjs
Insts   == 1..MaxInsts
NoObj   == 0
NoInst  == 0
Callers == Clients \cup {Tick, Main}
Threads == Callers \cup Waiters \cup Checkers

(* Priority, and the library's PiecePriority as far as a file is given one *)
Prios    == {"none", "low", "normal", "high", "now"}
LibPrios == {"None", "Normal", "High", "Now"}

(* Variant for sensitivity: the conversion forgotten.                      *)
toLibPriorityRaw(p) == p

toLibPriority(p) ==
  CASE p = "none" -> "None"
    [] p = "high" -> "High"
    [] p = "now"  -> "Now"
    [] OTHER      -> "Normal"

fromLibPriority(q) ==
  CASE q = "None" -> "none"
    [] q = "High" -> "high"
    [] q = "Now"  -> "now"
    [] OTHER      -> "normal"

(* torrentRecord: one torrent in session.json, or NoRec where it has none. *)
(* A file that is not listed in FilePriorities is at normal.               *)
Record == [saved: {TRUE}, magnet: BOOLEAN, savePath: Dirs, paused: BOOLEAN,
           downLimit: {0, 1}, upLimit: {0, 1}, downloaded: Nat,
           seedLimit: {-1, 0, 1}, completedAt: BOOLEAN, label: Labels,
           prio: [Files -> Prios]]
NoRec == [saved |-> FALSE, magnet |-> FALSE, savePath |-> DataDir,
          paused |-> FALSE, downLimit |-> 0, upLimit |-> 0, downloaded |-> 0,
          seedLimit |-> 0, completedAt |-> FALSE, label |-> "",
          prio |-> [f \in Files |-> "normal"]]

(* The tracked struct.  ownStorage is left out: it is only ever closed.    *)
Tracked == [t: Insts \cup {NoInst}, paused: BOOLEAN, savePath: Dirs,
            magnet: BOOLEAN, label: Labels, chosenFiles: SUBSET Files,
            base: Nat, lastDownBPS: Rates, lastUpBPS: Rates,
            downLimit: {0, 1}, upLimit: {0, 1}, seedLimit: {-1, 0, 1},
            completedAt: BOOLEAN, completeLogged: BOOLEAN,
            holdData: BOOLEAN, cancelCheck: Checkers \cup {NoThread},
            checking: BOOLEAN, lastErr: BOOLEAN]

NewTracked(t, savePath, magnet, paused) ==
  [t |-> t, paused |-> paused, savePath |-> savePath, magnet |-> magnet,
   label |-> "", chosenFiles |-> {}, base |-> 0, lastDownBPS |-> 0,
   lastUpBPS |-> 0, downLimit |-> 0, upLimit |-> 0, seedLimit |-> 0,
   completedAt |-> FALSE, completeLogged |-> FALSE, holdData |-> FALSE,
   cancelCheck |-> NoThread, checking |-> FALSE, lastErr |-> FALSE]

(* A library Torrent: its two switches, its files' priorities, whether its *)
(* metadata has arrived and whether every piece is there.                  *)
Instance == [id: Ids, dir: Dirs, live: BOOLEAN, info: BOOLEAN, have: BOOLEAN,
             down: BOOLEAN, up: BOOLEAN, bytes: Nat,
             prio: [Files -> LibPrios]]

(* The places a thread can be at: applyFlow, persist, the program of the   *)
(* operations that take opMu, and the rest.                                *)
FlowLabels == {"flow.down", "flow.up"}
SaveLabels == {"save.check", "save.gather", "save.meta", "save.write"}
StructLabels ==
  {"op.lock", "op.cancel", "op.wait", "remove", "remove.drop",
   "remove.files", "remove.meta", "purge", "purge.hold", "purge.fold",
   "purge.drop", "purge.delete", "purge.readd", "purge.swap", "purge.save",
   "purge.failed", "move", "move.mkdir", "move.hold", "move.prios",
   "move.files", "move.fold", "move.drop", "move.readd", "move.lost",
   "move.failed", "move.reprio", "move.swap"}
OtherLabels ==
  {"idle", "off", "end", "add.spec", "add.track", "add.spawn", "wait.info",
   "wait.mark", "wait.select", "wait.chosen", "wait.save", "pause.set",
   "pause.chosen", "pause.mark", "pause.save", "prio.set", "prio.chosen",
   "rate", "seed", "label", "stream.paused", "stream.resume", "stream.prio",
   "check.add", "check.begin", "check.read", "check.loop", "check.hash",
   "check.clear", "check.done", "check.end", "check.off", "tick",
   "tick.disk", "tick.decide", "tick.apply", "tick.stop", "tick.hook",
   "new", "restore.read", "restore.next", "restore.limits",
   "restore.prios", "restore.final", "up", "close.cancel", "close.wait"}
Places == FlowLabels \cup SaveLabels \cup StructLabels \cup OtherLabels

(* Where applyFlow, persist and an operation can return to.                *)
FlowNext == {"add.spawn", "pause.save", "pause.chosen", "tick.apply",
             "check.off", "purge.fold", "purge.save", "move.prios", "end"}
SaveNext == {"tick.apply", "up", "close.cancel", "end", "off", "move.failed"}
RetNext  == {"idle", "off", "tick.stop", "restore.limits", "restore.prios",
             "stream.prio"}

(* A thread's locals.  op: the structural operation; ret: where the        *)
(* operation returns to; (pick, sel): AddOpts.Files and what it matches;   *)
(* (ft, down, up): a flow decision, fk: where applyFlow returns to.        *)
Locals == [op: {"", "remove", "purge", "move"}, ret: RetNext, id: Ids,
           o: Objs \cup {NoObj}, t: Insts \cup {NoInst}, old: Dirs, dir: Dirs,
           flag: BOOLEAN, magnet: BOOLEAN, pick: BOOLEAN, sel: SUBSET Files,
           chosen: SUBSET Files, file: Files, prio: Prios,
           prios: [Files -> Prios], ft: Insts \cup {NoInst}, down: BOOLEAN,
           up: BOOLEAN, fk: FlowNext \cup {""}, done: Nat,
           err: {"", "canceled", "failed"}]

Loc0 == [op |-> "", ret |-> "idle", id |-> CHOOSE i \in Ids : TRUE,
         o |-> NoObj, t |-> NoInst, old |-> DataDir, dir |-> DataDir,
         flag |-> FALSE, magnet |-> FALSE, pick |-> FALSE, sel |-> {},
         chosen |-> {},
         file |-> CHOOSE f \in Files : TRUE, prio |-> "normal",
         prios |-> [f \in Files |-> "normal"], ft |-> NoInst,
         down |-> FALSE, up |-> FALSE, fk |-> "", done |-> 0, err |-> ""]

Saving == [k: SaveNext \cup {""}, draft: [Ids -> Record \cup {NoRec}],
           todo: SUBSET Ids]
Save0 == [k |-> "", draft |-> [i \in Ids |-> NoRec], todo |-> {}]

Ticking == [flows: SUBSET [ft: Insts, down: BOOLEAN, up: BOOLEAN],
            stop: SUBSET Ids, done: SUBSET Ids]
Tk0 == [flows |-> {}, stop |-> {}, done |-> {}]

Budget == [ops: Int, ticks: Int, restarts: Int, bytes: Int, faults: Int]

(* What the constants are taken to be: bounds are numbers, there is a      *)
(* torrent and a file to speak of, the session found at the start is well  *)
(* formed, and thread names are distinct.                                  *)
ASSUME BoundsAssumption ==
  /\ MaxObjs \in Nat /\ MaxInsts \in Nat /\ MaxOps \in Nat /\ MaxTicks \in Nat
  /\ MaxRestarts \in Nat /\ MaxBytes \in Nat /\ MaxFaults \in Nat
  /\ TickCost \in {0, 1} /\ Pieces \in Nat

ASSUME ConfigAssumption ==
  /\ Ids # {} /\ Files # {} /\ DataDir \in Dirs
  /\ "" \in Labels /\ Rates \subseteq Int /\ 0 \in Rates
  /\ StateDir \in BOOLEAN /\ RequireVPN \in BOOLEAN /\ MinFreeSpace \in BOOLEAN
  /\ SeedDefault \in {0, 1}

ASSUME DiskAssumption ==
  /\ Session0 \in [Ids -> Record \cup {NoRec}]
  /\ Metainfo0 \subseteq Ids /\ Data0 \in [Ids -> SUBSET Dirs]

ASSUME ThreadsAssumption ==
  /\ NoThread \notin Threads
  /\ Tick # Main
  /\ {Tick, Main} \cap (Clients \cup Waiters \cup Checkers) = {}
  /\ Clients \cap (Waiters \cup Checkers) = {}
  /\ Waiters \cap Checkers = {}

-----------------------------------------------------------------------------
(* Assignments through a pointer: a thread's locals, a tracked struct, a   *)
(* library instance.                                                       *)

SetLoc(p, l) == loc' = [loc EXCEPT ![p] = l]
SetTr(o, x)  == tr'  = [tr EXCEPT ![o] = x]
SetLib(t, y) == lib' = [lib EXCEPT ![t] = y]
SetSave(p, s) == save' = [save EXCEPT ![p] = s]

(* File.SetPriority for every file of an instance.                         *)
SetPrio(t, prio) == SetLib(t, [lib[t] EXCEPT !.prio = prio])

-----------------------------------------------------------------------------
(* The library, external: modelled from how the engine uses it.            *)

(* Client.AddTorrentSpec hands back the instance it already has for an     *)
(* infohash, taking over metadata it lacked, or makes one that is allowed  *)
(* both directions and wants no file.                                      *)
AddedInst(id) == IF client[id] # NoInst THEN client[id] ELSE ninst + 1

AddTorrentSpec(id, dir, info) ==
  /\ AddedInst(id) \in Insts
  /\ ninst' = IF client[id] # NoInst THEN ninst ELSE ninst + 1
  /\ client' = [client EXCEPT ![id] = AddedInst(id)]
  /\ SetLib(AddedInst(id),
            IF client[id] # NoInst
            THEN [lib[client[id]] EXCEPT !.info = @ \/ info]
            ELSE [id |-> id, dir |-> dir, live |-> TRUE, info |-> info,
                  have |-> dir \in data[id], down |-> TRUE, up |-> TRUE,
                  bytes |-> 0, prio |-> [f \in Files |-> "None"]])

(* Torrent.Drop: a second one on the same instance changes nothing.        *)
Drop(t) ==
  /\ SetLib(t, [lib[t] EXCEPT !.live = FALSE])
  /\ client' = [client EXCEPT ![lib[t].id] = IF @ = t THEN NoInst ELSE @]
  /\ UNCHANGED ninst

Complete(t) == lib[t].info /\ lib[t].have

-----------------------------------------------------------------------------
(* Flow decisions: what the two switches of a torrent should be.           *)

(* guards.any: the reasons that come from the machine.                     *)
Guarded == blocked \/ lowDisk

(* Variant for sensitivity: the guards do not hold a torrent.              *)
FlowHeldIfPaused(x, g) == x.paused \/ x.holdData

(* dataFlow, for a tracked struct x.                                       *)
FlowHeld(x, g) == x.paused \/ g \/ x.holdData
DownFlow(x, g) == ~FlowHeld(x, g) /\ (x.downLimit <= 0 \/ x.lastDownBPS <= x.downLimit)
UpFlow(x, g)   == ~FlowHeld(x, g) /\ (x.upLimit <= 0 \/ x.lastUpBPS <= x.upLimit)

(* flowDecision into a thread's locals; applyFlow follows, then k.         *)
Decide(l, x, k) ==
  [l EXCEPT !.ft = x.t, !.down = DownFlow(x, Guarded),
            !.up = UpFlow(x, Guarded), !.fk = k]

-----------------------------------------------------------------------------
(* Threads.                                                                *)

At(p, l)   == pc[p] = l
Goto(p, l) == pc' = [pc EXCEPT ![p] = l]

(* applyFlow: two library calls, each under the client's own lock.         *)
ApplyFlowDown(p) ==
  /\ At(p, "flow.down")
  /\ SetLib(loc[p].ft, [lib[loc[p].ft] EXCEPT !.down = loc[p].down])
  /\ Goto(p, "flow.up")
  /\ UNCHANGED <<engineVars, ninst, client, guardVars, diskVars, saveVars,
                 mainVars, loc, tk, hooks, budget>>

ApplyFlowUp(p) ==
  /\ At(p, "flow.up")
  /\ SetLib(loc[p].ft, [lib[loc[p].ft] EXCEPT !.up = loc[p].up])
  /\ Goto(p, loc[p].fk)
  /\ UNCHANGED <<engineVars, ninst, client, guardVars, diskVars, saveVars,
                 mainVars, loc, tk, hooks, budget>>

(* The end of an operation: back to the caller, the tick or the restore;   *)
(* a connection's locals die with the call.                                *)
Return(p) ==
  /\ Goto(p, loc[p].ret)
  /\ SetLoc(p, IF loc[p].ret = "idle" THEN Loc0 ELSE loc[p])
=============================================================================
