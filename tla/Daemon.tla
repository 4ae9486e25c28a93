------------------------------- MODULE Daemon -------------------------------
(***************************************************************************)
(* The life of daemon processes on one machine: what runDaemon starts and  *)
(* in which order, the lock and the socket that make one of them the       *)
(* daemon, how each is shut down, and the commands that start and stop     *)
(* them (dialOrSpawn, stop).                                               *)
(*                                                                         *)
(* The engine is reduced to the set of torrents it has in memory and to    *)
(* the session file; module Engine has the rest. The IPC server between    *)
(* Serve and Close is in module Ipc.                                       *)
(***************************************************************************)
EXTENDS Watcher

CONSTANTS Stops,       \* running `torrnado stop` commands
          Attaches,    \* running commands that called dialOrSpawn
          Nobody,      \* holds no lock, listens on no socket
          Attempts,    \* how often acquireDaemonLock tries
          Scenes       \* bound: what takes part, a behaviour's choice

ASSUME DaemonAssumption ==
  /\ Attempts \in Nat \ {0}
  /\ Daemons \cap Stops = {} /\ Nobody \notin Daemons \cup Stops
  /\ Scenes \subseteq [who: SUBSET {"watch", "stop", "attach"}, trouble: Nat]

VARIABLES
  pc,        \* where each daemon is in runDaemon
  tries,     \* the lock attempts each has made
  blocker,   \* who held the lock at its last attempt
  asked,     \* the daemons whose shutdown channel is closed
  sigCh,     \* the signal each has pending: a channel of capacity one
  browser,   \* the daemons with a browser session in FlareSolverr
  lock,      \* who holds the flock
  sock,      \* whose socket is at the socket path
  mem,       \* the torrents of each engine
  disk,      \* the torrents of session.json
  stop,      \* where each stop command is
  target,    \* the daemon it has connected to
  attach,    \* where each dialOrSpawn is
  left,      \* the failing calls, kills, signals and removals over RPC still to come
  overlap,   \* two engines have been open at once
  refused,   \* the daemons refused the lock
  met,       \* the daemons that found the lock held by a daemon
  removed,   \* the torrents the user removed
  scene      \* the member of Scenes that this behaviour is about

procVars == <<pc, tries, blocker, asked, sigCh, browser>>
diskVars == <<mem, disk, removed, overlap>>
lockVars == <<lock, sock, refused, met>>
cmdVars  == <<stop, target, attach, scene>>
vars == <<procVars, diskVars, lockVars, cmdVars, left, watchVars>>

(***************************************************************************)
(* The phases of runDaemon, named for what is done next. A deferred close  *)
(* has the phase of the thing it closes; they run last in, first out.      *)
(***************************************************************************)
Starting == {"engine", "restore", "stream", "rutracker", "lock", "listen", "watchdir"}
Closing  == {"ln.Close", "wg.Wait", "rm socket", "unlock", "closeSearcher",
             "eng.Close", "exit"}
Phases   == {"off"} \cup Starting \cup {"ready"} \cup Closing \cup {"gone", "dead"}

Alive(d)      == pc[d] \notin {"off", "gone", "dead"}
EngineOpen(d) == Alive(d) /\ pc[d] \notin {"engine", "exit"}   \* the last save is still to come
Holding(d)    == pc[d] \in {"listen", "watchdir", "ready", "ln.Close",
                            "wg.Wait", "rm socket", "unlock"}
Listening(d)  == pc[d] \in {"watchdir", "ready", "ln.Close"}
Dials(d)      == sock = d /\ d \in Daemons /\ Listening(d)

StopPhases   == {"idle", "probing", "running", "calling", "waiting", "polling",
                 "none", "error", "asked", "stopped", "timeout"}
AttachPhases == {"idle", "retry", "connected", "failed"}

\* The types of the variables.
TypeOK ==
  /\ WatchTypes
  /\ pc \in [Daemons -> Phases]
  /\ tries \in [Daemons -> Nat]
  /\ blocker \in [Daemons -> Daemons \cup Stops \cup {Nobody}]
  /\ asked \in SUBSET Daemons
  /\ sigCh \in [Daemons -> {"", "hup", "term"}]
  /\ browser \in SUBSET Daemons
  /\ lock \in Daemons \cup Stops \cup {Nobody}
  /\ sock \in Daemons \cup {Nobody}
  /\ mem \in [Daemons -> SUBSET Files]
  /\ disk \in SUBSET Files
  /\ stop \in [Stops -> StopPhases]
  /\ target \in [Stops -> Daemons \cup {Nobody}]
  /\ attach \in [Attaches -> AttachPhases]
  /\ overlap \in BOOLEAN
  /\ refused \in SUBSET Daemons
  /\ met \in SUBSET Daemons
  /\ removed \in SUBSET Files
  /\ scene \in Scenes
  /\ left \in Nat

Init ==
  /\ WatchInit
  /\ pc = [d \in Daemons |-> "off"]
  /\ tries = [d \in Daemons |-> 0]
  /\ blocker = [d \in Daemons |-> Nobody]
  /\ asked = {}
  /\ sigCh = [d \in Daemons |-> ""]
  /\ browser = {}
  /\ lock = Nobody
  /\ sock = Nobody
  /\ mem = [d \in Daemons |-> {}]
  /\ disk = {}
  /\ stop = [s \in Stops |-> "idle"]
  /\ target = [s \in Stops |-> Nobody]
  /\ attach = [a \in Attaches |-> "idle"]
  /\ overlap = FALSE
  /\ refused = {}
  /\ met = {}
  /\ removed = {}
  /\ scene \in Scenes
  /\ left = scene.trouble

Trouble == left > 0 /\ left' = left - 1

\* d goes from one phase to the next.
Go(d, from, to) == pc[d] = from /\ pc' = [pc EXCEPT ![d] = to]

\* The step of a phase that leads to next, or fails and runs the deferred
\* closes registered so far, the first of which is undo.
Phase(d, from, next, undo) ==
  \/ Go(d, from, next) /\ UNCHANGED left
  \/ Go(d, from, undo) /\ Trouble

(***************************************************************************)
(* Start-up.                                                               *)
(***************************************************************************)
Start(d) ==
  /\ Go(d, "off", "engine")
  /\ UNCHANGED <<tries, blocker, asked, sigCh, browser, diskVars, lockVars, cmdVars, left, watchVars>>

\* engine.New. (Signals are registered before it.)
NewEngine(d) ==
  /\ Phase(d, "engine", "restore", "gone")
  /\ overlap' = (overlap \/ \E e \in Daemons \ {d} : Alive(e) /\ pc[e] # "engine")
  /\ UNCHANGED <<tries, blocker, asked, sigCh, browser, mem, disk, removed, lockVars, cmdVars, watchVars>>

RestoreSession(d) ==
  /\ Go(d, "restore", "stream")
  /\ mem' = [mem EXCEPT ![d] = disk]
  /\ UNCHANGED <<tries, blocker, asked, sigCh, browser, disk, removed, overlap, lockVars, cmdVars, left, watchVars>>

\* stream.Serve, the sources before the browser, then newBrowser, which may
\* have no session. (The stream server keeps no state here: its Close is
\* part of eng.Close.)
NewBrowser(d) ==
  /\ Phase(d, "stream", "rutracker", "eng.Close")
  /\ browser' \in {browser, browser \cup (IF pc'[d] = "rutracker" THEN {d} ELSE {})}
  /\ UNCHANGED <<tries, blocker, asked, sigCh, diskVars, lockVars, cmdVars, watchVars>>

\* NewRutracker; when it fails newSearcher calls closers() itself.
NewRutrackerLeaks(d) ==
  /\ Phase(d, "rutracker", "lock", "eng.Close")
  /\ UNCHANGED <<tries, blocker, asked, sigCh, browser, diskVars, lockVars, cmdVars, watchVars>>
NewRutracker(d) ==
  /\ Phase(d, "rutracker", "lock", "eng.Close")
  /\ browser' = IF pc'[d] = "lock" THEN browser ELSE browser \ {d}
  /\ UNCHANGED <<tries, blocker, asked, sigCh, diskVars, lockVars, cmdVars, watchVars>>

\* An attempt of acquireDaemonLock comes 40 ms after the one before: a probe
\* that was in the way then has let go of the lock by now.
ProbeIsBrief(d) == blocker[d] \in Stops => lock # blocker[d]

LockTakenIfSilent(d) ==
  /\ \A e \in Daemons : ~Dials(e)
  /\ Go(d, "lock", "listen")
  /\ lock' = d
  /\ UNCHANGED <<tries, blocker, asked, sigCh, browser, diskVars, sock, refused, met, cmdVars, left, watchVars>>
LockTaken(d) ==
  /\ lock = Nobody /\ ProbeIsBrief(d)
  /\ Go(d, "lock", "listen")
  /\ lock' = d
  /\ UNCHANGED <<tries, blocker, asked, sigCh, browser, diskVars, sock, refused, met, cmdVars, left, watchVars>>

LastAttemptFirst(d) == TRUE
LastAttempt(d) == tries[d] = Attempts - 1

LockRefused(d) ==
  /\ lock # Nobody /\ ProbeIsBrief(d)
  /\ pc[d] = "lock"
  /\ met' = IF lock \in Daemons THEN met \cup {d} ELSE met
  /\ tries' = [tries EXCEPT ![d] = @ + 1]
  /\ blocker' = [blocker EXCEPT ![d] = lock]
  /\ IF LastAttempt(d) THEN /\ pc' = [pc EXCEPT ![d] = "closeSearcher"]
                            /\ refused' = refused \cup {d}
                       ELSE UNCHANGED <<pc, refused>>
  /\ UNCHANGED <<asked, sigCh, browser, diskVars, lock, sock, cmdVars, left, watchVars>>

\* The lock file, or its directory, cannot be opened.
LockFails(d) ==
  /\ Go(d, "lock", "closeSearcher") /\ Trouble
  /\ UNCHANGED <<tries, blocker, asked, sigCh, browser, diskVars, lockVars, cmdVars, watchVars>>

\* Serve removes whatever is at the path and listens; a failure releases
\* the lock.
Listen(d) ==
  /\ Phase(d, "listen", "watchdir", "closeSearcher")
  /\ sock' = IF pc'[d] = "watchdir" THEN d ELSE Nobody
  /\ lock' = IF pc'[d] = "watchdir" THEN d ELSE Nobody
  /\ UNCHANGED <<tries, blocker, asked, sigCh, browser, diskVars, refused, met, cmdVars, watchVars>>

\* os.MkdirAll and go w.run.
WatchDir(d) ==
  /\ Phase(d, "watchdir", "ready", "ln.Close")
  /\ IF pc'[d] = "ready" THEN WatchStart(d) ELSE UNCHANGED watchVars
  /\ UNCHANGED <<tries, blocker, asked, sigCh, browser, diskVars, lockVars, cmdVars>>

(***************************************************************************)
(* Serving, until asked over the socket or by a signal.                    *)
(***************************************************************************)
\* A signal that finds one pending is dropped.
Signal(d, sig) ==
  /\ Alive(d) /\ Trouble
  /\ sigCh' = [sigCh EXCEPT ![d] = IF @ = "" THEN sig ELSE @]
  /\ UNCHANGED <<pc, tries, blocker, asked, browser, diskVars, lockVars, cmdVars, watchVars>>

Reopen(d) ==
  /\ pc[d] = "ready" /\ sigCh[d] = "hup"
  /\ sigCh' = [sigCh EXCEPT ![d] = ""]
  /\ UNCHANGED <<pc, tries, blocker, asked, browser, diskVars, lockVars, cmdVars, left, watchVars>>

\* And close(watchDone), the first of the deferred calls.
Leave(d) ==
  /\ Go(d, "ready", "ln.Close")
  /\ \/ d \in asked /\ UNCHANGED sigCh
     \/ sigCh[d] = "term" /\ sigCh' = [sigCh EXCEPT ![d] = ""]
  /\ UNCHANGED <<tries, blocker, asked, browser, diskVars, lockVars, cmdVars, left, watchVars>>

\* A client removes a torrent; the engine saves the session.
Remove(d, f) ==
  /\ pc[d] = "ready" /\ f \in mem[d] /\ Trouble
  /\ mem' = [mem EXCEPT ![d] = @ \ {f}]
  /\ disk' = mem'[d]
  /\ removed' = removed \cup {f}
  /\ UNCHANGED <<procVars, overlap, lockVars, cmdVars, watchVars>>

(***************************************************************************)
(* The watcher of d, which lives as long as the process.                   *)
(***************************************************************************)
\* AddTorrentFile: in the engine, and in the session file it saves.
WatchTake(d, f) ==
  /\ TakeAdd(d, f, Parses(f))
  /\ mem' = IF Parses(f) THEN [mem EXCEPT ![d] = @ \cup {f}] ELSE mem
  /\ disk' = IF Parses(f) THEN mem'[d] ELSE disk
  /\ UNCHANGED <<procVars, removed, overlap, lockVars, cmdVars, left>>

WatchMark(d) ==
  /\ \/ TakeRename(d, TRUE) /\ UNCHANGED left
     \/ TakeRename(d, FALSE) /\ Trouble
  /\ UNCHANGED <<procVars, diskVars, lockVars, cmdVars>>

WatchScan(d) ==
  /\ \/ ScanStart(d)
     \/ \E f \in Files : ScanSkip(d, f)
     \/ ScanEnd(d)
  /\ UNCHANGED <<procVars, diskVars, lockVars, cmdVars, left>>

WatchLeave(d) ==
  /\ pc[d] \in Closing /\ WatchEnd(d)
  /\ UNCHANGED <<procVars, diskVars, lockVars, cmdVars, left>>

WatchStep(d) ==
  \/ WatchScan(d)
  \/ \E f \in Files : WatchTake(d, f)
  \/ WatchMark(d)
  \/ WatchLeave(d)

Writer(f) ==
  /\ "watch" \in scene.who
  /\ Drop(f) \/ Write(f)
  /\ UNCHANGED <<procVars, diskVars, lockVars, cmdVars, left>>

(***************************************************************************)
(* Shutdown: srv.Close, closeSearcher, stm.Close and eng.Close.            *)
(***************************************************************************)
\* Closing a Unix listener unlinks its path.
CloseListener(d) ==
  /\ Go(d, "ln.Close", "wg.Wait")
  /\ sock' = Nobody
  /\ UNCHANGED <<tries, blocker, asked, sigCh, browser, diskVars, lock, refused, met, cmdVars, left, watchVars>>

\* closeConns and the wait for the handlers, whose callers lose the answer.
WaitHandlers(d) ==
  /\ Go(d, "wg.Wait", "rm socket")
  /\ stop' = [s \in Stops |-> IF stop[s] = "calling" /\ target[s] = d THEN "error" ELSE stop[s]]
  /\ UNCHANGED <<tries, blocker, asked, sigCh, browser, diskVars, lockVars, target, attach, scene, left, watchVars>>

RemoveSocket(d) ==
  /\ Go(d, "rm socket", "unlock")
  /\ sock' = Nobody
  /\ UNCHANGED <<tries, blocker, asked, sigCh, browser, diskVars, lock, refused, met, cmdVars, left, watchVars>>

ReleaseLock(d) ==
  /\ Go(d, "unlock", "closeSearcher")
  /\ lock' = Nobody
  /\ UNCHANGED <<tries, blocker, asked, sigCh, browser, diskVars, sock, refused, met, cmdVars, left, watchVars>>

CloseSearcher(d) ==
  /\ Go(d, "closeSearcher", "eng.Close")
  /\ browser' = browser \ {d}
  /\ UNCHANGED <<tries, blocker, asked, sigCh, diskVars, lockVars, cmdVars, left, watchVars>>

\* stm.Close, and the engine's last save.
CloseEngine(d) ==
  /\ Go(d, "eng.Close", "exit")
  /\ disk' = mem[d]
  /\ UNCHANGED <<tries, blocker, asked, sigCh, browser, mem, removed, overlap, lockVars, cmdVars, left, watchVars>>

\* What ends with the process: its memory, its goroutines, its signals.
Ends(d) ==
  /\ tries' = [tries EXCEPT ![d] = 0]
  /\ blocker' = [blocker EXCEPT ![d] = Nobody]
  /\ asked' = asked \ {d}
  /\ sigCh' = [sigCh EXCEPT ![d] = ""]
  /\ mem' = [mem EXCEPT ![d] = {}]
  /\ WatchGone(d)

Exit(d) ==
  /\ Go(d, "exit", "gone")
  /\ Ends(d)
  /\ UNCHANGED <<browser, disk, removed, overlap, lockVars, cmdVars, left>>

\* Killed: the kernel drops the lock, the socket file stays.
Crash(d) ==
  /\ Alive(d) /\ Trouble
  /\ pc' = [pc EXCEPT ![d] = "dead"]
  /\ lock' = IF lock = d THEN Nobody ELSE lock
  /\ stop' = [s \in Stops |-> IF stop[s] = "calling" /\ target[s] = d THEN "error" ELSE stop[s]]
  /\ Ends(d)
  /\ UNCHANGED <<browser, disk, removed, overlap, sock, refused, met, target, attach, scene>>

DaemonStep(d) ==
  \/ Start(d) \/ NewEngine(d) \/ RestoreSession(d) \/ NewBrowser(d)
  \/ NewRutracker(d) \/ LockTaken(d) \/ LockRefused(d) \/ LockFails(d) \/ Listen(d)
  \/ WatchDir(d) \/ Reopen(d) \/ Leave(d)
  \/ CloseListener(d) \/ WaitHandlers(d) \/ RemoveSocket(d) \/ ReleaseLock(d)
  \/ CloseSearcher(d) \/ CloseEngine(d) \/ Exit(d)

(***************************************************************************)
(* The stop command. A probe is DaemonInfo: it takes the lock to see       *)
(* whether anybody has it, and a probe that gets it lets go again.         *)
(***************************************************************************)
StopGo(s, from, to) == stop[s] = from /\ stop' = [stop EXCEPT ![s] = to]

\* The lock is free: the probe holds it for a moment.
Probe(s) ==
  /\ lock = Nobody
  /\ StopGo(s, "idle", "probing") \/ StopGo(s, "waiting", "polling")
  /\ lock' = s
  /\ UNCHANGED <<procVars, diskVars, sock, refused, met, target, attach, scene, left, watchVars>>

\* LOCK_UN, and the answer: not running.
ProbeRelease(s) ==
  /\ StopGo(s, "probing", "none") \/ StopGo(s, "polling", "stopped")
  /\ lock' = Nobody
  /\ blocker' = [d \in Daemons |-> IF blocker[d] = s THEN Nobody ELSE blocker[d]]
  /\ UNCHANGED <<pc, tries, asked, sigCh, browser, diskVars, sock, refused, met, target, attach, scene, left, watchVars>>

\* Held by somebody, a daemon or another probe: running, it says.
ProbeRunning(s) ==
  /\ lock # Nobody
  /\ StopGo(s, "idle", "running")
  /\ UNCHANGED <<procVars, diskVars, lockVars, target, attach, scene, left, watchVars>>

StopDial(s) ==
  /\ \/ \E d \in Daemons : /\ Dials(d)
                           /\ StopGo(s, "running", "calling")
                           /\ target' = [target EXCEPT ![s] = d]
     \/ /\ \A d \in Daemons : ~Dials(d)
        /\ StopGo(s, "running", "error")
        /\ UNCHANGED target
  /\ UNCHANGED <<procVars, diskVars, lockVars, attach, scene, left, watchVars>>

\* The Shutdown call, answered by a daemon whose handlers still run; with a
\* timeout of zero the command returns at once.
StopCall(s) ==
  /\ StopGo(s, "calling", "waiting") \/ StopGo(s, "calling", "asked")
  /\ Listening(target[s]) \/ pc[target[s]] = "wg.Wait"
  /\ asked' = asked \cup {target[s]}
  /\ UNCHANGED <<pc, tries, blocker, sigCh, browser, diskVars, lockVars, target, attach, scene, left, watchVars>>

\* A poll that finds the lock held sleeps and asks again, which changes
\* nothing here; after the deadline it gives up.
StopTimeout(s) ==
  /\ lock # Nobody
  /\ StopGo(s, "waiting", "timeout")
  /\ UNCHANGED <<procVars, diskVars, lockVars, target, attach, scene, left, watchVars>>

StopStep(s) ==
  /\ "stop" \in scene.who
  /\ Probe(s) \/ ProbeRelease(s) \/ ProbeRunning(s) \/ StopDial(s) \/ StopCall(s) \/ StopTimeout(s)

(***************************************************************************)
(* dialOrSpawn. A dial that fails before the deadline is tried again.      *)
(***************************************************************************)
AttachGo(a, from, to) == attach[a] = from /\ attach' = [attach EXCEPT ![a] = to]

Dial(a) ==
  /\ \E d \in Daemons : Dials(d)
  /\ AttachGo(a, "idle", "connected") \/ AttachGo(a, "retry", "connected")
  /\ UNCHANGED <<procVars, diskVars, lockVars, stop, target, scene, left, watchVars>>

SpawnDaemon(a, d) ==
  /\ \A e \in Daemons : ~Dials(e)
  /\ AttachGo(a, "idle", "retry")
  /\ Go(d, "off", "engine")
  /\ UNCHANGED <<tries, blocker, asked, sigCh, browser, diskVars, lockVars, stop, target, scene, left, watchVars>>

AttachTimeout(a) ==
  /\ \A d \in Daemons : ~Dials(d)
  /\ AttachGo(a, "retry", "failed")
  /\ UNCHANGED <<procVars, diskVars, lockVars, stop, target, scene, left, watchVars>>

AttachStep(a) ==
  /\ "attach" \in scene.who
  /\ Dial(a) \/ (\E d \in Daemons : SpawnDaemon(a, d)) \/ AttachTimeout(a)

Next ==
  \/ \E d \in Daemons : DaemonStep(d) \/ WatchStep(d) \/ Crash(d)
  \/ \E d \in Daemons, sig \in {"hup", "term"} : Signal(d, sig)
  \/ \E d \in Daemons, f \in Files : Remove(d, f)
  \/ \E s \in Stops : StopStep(s)
  \/ \E a \in Attaches : AttachStep(a)
  \/ \E f \in Files : Writer(f)

Spec == Init /\ [][Next]_vars

(***************************************************************************)
(* Fairness: a watcher's ticker ticks and its scan goes on, and a writer   *)
(* finishes its file.                                                      *)
(***************************************************************************)
FairSpec ==
  /\ Spec
  /\ \A d \in Daemons : WF_vars(WatchStep(d))
  /\ \A f \in Files : WF_vars(Write(f) /\ Writer(f))

(***************************************************************************)
(* Properties.                                                             *)
(***************************************************************************)

\* Whoever gets as far as serving owns both the lock and the socket path,
\* whatever other daemons are starting, stopping, refused or killed at the
\* same time (Serve, Close): no daemon unlinks a live daemon's socket.
LiveSocket ==
  \A d \in Daemons : /\ Holding(d) => lock = d
                     /\ Listening(d) => sock = d

\* A daemon that reports "another daemon already holds" the lock did meet
\* one: the probes of stop and status, which take the same lock for a
\* moment, never keep a daemon from starting (the retries of
\* acquireDaemonLock).
RefusedByDaemon == refused \subseteq met

\* A daemon that ends by itself, from whichever point of its start-up or
\* from serving, leaves no lock, no socket and no browser session behind.
LeavesNothing ==
  \A d \in Daemons : pc[d] = "gone" => lock # d /\ sock # d /\ d \notin browser

\* A file renamed to .added is in the session file, over crashes, restarts
\* and a shutdown in the middle of a scan, unless the user removed it - as
\* long as no two daemons had an engine open at once (see the README).
\* One that is good once written is never marked .failed (scan takes a file
\* only when its size has settled).
WatchedKept ==
  \A f \in Files :
    /\ name[f] = ".added" /\ f \notin removed /\ ~overlap => f \in disk
    /\ name[f] = ".failed" => f \notin good

\* A file dropped in a folder that a daemon goes on watching is taken in the
\* end, a failing rename notwithstanding.
FileTaken ==
  \A d \in Daemons, f \in Files :
    (name[f] = ".torrent" /\ pc[d] = "ready") ~> (name[f] # ".torrent" \/ pc[d] # "ready")

\* stop says "stopped" only when the daemon it asked has saved its session.
StopMeansSaved ==
  \A s \in Stops : stop[s] = "stopped" => ~EngineOpen(target[s])
=============================================================================
