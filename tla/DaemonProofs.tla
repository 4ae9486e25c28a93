---------------------------- MODULE DaemonProofs ----------------------------
(***************************************************************************)
(* Proofs about Daemon: who owns the lock and the socket path, for any     *)
(* number of daemons and of stop and attach commands, whatever fails, is   *)
(* signalled or is killed; the types of all variables; and what becomes of *)
(* the files of a watched directory.                                       *)
(*                                                                         *)
(* The lock is held by exactly the daemon that is between taking it and    *)
(* releasing it, or by one probe; that makes the daemon that touches the   *)
(* socket path the only one that may be listening on it.                   *)
(***************************************************************************)
EXTENDS Daemon, TLAPS

\* Where a daemon can be with a browser session of its own.
Browsing == {"rutracker", "lock", "listen", "watchdir", "ready", "ln.Close", "wg.Wait", "rm socket", "unlock",
             "closeSearcher", "dead"}

\* Where it holds the lock, and where it listens.
Holds(p)   == p \in {"listen", "watchdir", "ready", "ln.Close", "wg.Wait", "rm socket", "unlock"}
Listens(p) == p \in {"watchdir", "ready", "ln.Close"}

Types ==
  /\ pc \in [Daemons -> Phases]
  /\ stop \in [Stops -> StopPhases]
  /\ lock \in Daemons \cup Stops \cup {Nobody}
  /\ sock \in Daemons \cup {Nobody}

\* The lock belongs to the daemon that has taken it, and to nobody else.
LockOwned ==
  /\ \A d \in Daemons : lock = d <=> Holding(d)
  /\ \A s \in Stops : stop[s] \in {"probing", "polling"} => lock = s

\* The socket at the path is the listening daemon's, or was left by a kill.
SocketOwned ==
  \A d \in Daemons : /\ Listening(d) => sock = d
                     /\ sock = d => Listening(d) \/ pc[d] = "dead"

BrowserOwned == browser \subseteq {d \in Daemons : pc[d] \in Browsing}

IInv == Types /\ LockOwned /\ SocketOwned /\ BrowserOwned

\* It holds at the start.
LEMMA InitIInv == Init => IInv
<1> SUFFICES ASSUME Init PROVE IInv  OBVIOUS
<1>1. Types
  BY DEF Init, Types, Phases, StopPhases
<1>2. LockOwned /\ SocketOwned
  BY DaemonAssumption DEF Init, LockOwned, SocketOwned, Holding, Listening
<1>3. BrowserOwned
  BY DEF Init, BrowserOwned
<1> QED  BY <1>1, <1>2, <1>3 DEF IInv

\* Steps that leave all of these alone.
LEMMA QuietIInv == ASSUME IInv, UNCHANGED <<pc, stop, lock, sock, browser>> PROVE IInv'
  BY DEF IInv, Types, LockOwned, SocketOwned, BrowserOwned, Holding, Listening

\* A daemon goes to the phase x: what has to be seen to of the lock, the socket
\* and the browser session, and of the stop commands it hangs up on.
LEMMA MoveIInv ==
  ASSUME IInv, NEW d \in Daemons, NEW x \in Phases, pc' = [pc EXCEPT ![d] = x],
         stop' \in [Stops -> StopPhases],
         \A s \in Stops : stop'[s] \in {"probing", "polling"} => stop'[s] = stop[s],
         \/ Holds(x) /\ lock' = d /\ lock \in {d, Nobody}
         \/ ~Holds(x) /\ lock' = (IF lock = d THEN Nobody ELSE lock),
         \/ Listens(x) /\ sock' = d /\ lock = d
         \/ ~Listens(x) /\ sock' = Nobody /\ lock = d
         \/ ~Listens(x) /\ sock' = sock /\ (sock = d => x = "dead"),
         browser' \subseteq browser \cup {d}, d \in browser' => x \in Browsing
  PROVE  IInv'
<1>1. /\ pc \in [Daemons -> Phases] /\ pc' \in [Daemons -> Phases] /\ pc'[d] = x
      /\ \A e \in Daemons : e # d => pc'[e] = pc[e]
  BY DEF IInv, Types
<1>2. /\ \A e \in Daemons : Holding(e) <=> Holds(pc[e])
      /\ \A e \in Daemons : Holding(e)' <=> Holds(pc'[e])
      /\ \A e \in Daemons : Listening(e) <=> Listens(pc[e])
      /\ \A e \in Daemons : Listening(e)' <=> Listens(pc'[e])
      /\ \A e \in Daemons : Listening(e) => Holding(e)
  BY DEF Holding, Holds, Listening, Listens
<1>3. /\ \A e \in Daemons : lock = e <=> Holding(e)
      /\ \A s \in Stops : stop[s] \in {"probing", "polling"} => lock = s
      /\ \A e \in Daemons : Listening(e) => sock = e
      /\ \A e \in Daemons : sock = e => Listening(e) \/ pc[e] = "dead"
  BY DEF IInv, LockOwned, SocketOwned
<1>4. Types'
  <2>1. lock' \in Daemons \cup Stops \cup {Nobody}
    BY DEF IInv, Types
  <2>2. sock' \in Daemons \cup {Nobody}
    BY DEF IInv, Types
  <2> QED  BY <1>1, <2>1, <2>2 DEF Types
<1>5. LockOwned'
  <2>1. ASSUME NEW e \in Daemons PROVE lock' = e <=> Holding(e)'
    <3>1. CASE e = d
      BY <1>1, <1>2, <3>1, DaemonAssumption
    <3>2. CASE e # d
      BY <1>1, <1>2, <1>3, <3>2, DaemonAssumption
    <3> QED  BY <3>1, <3>2
  <2>2. ASSUME NEW s \in Stops, stop'[s] \in {"probing", "polling"} PROVE lock' = s
    BY <1>3, <2>2, DaemonAssumption
  <2> QED  BY <2>1, <2>2 DEF LockOwned
<1>6. SocketOwned'
  <2>1. ASSUME NEW e \in Daemons, Listening(e)' PROVE sock' = e
    <3>1. CASE e = d
      BY <1>1, <1>2, <2>1, <3>1
    <3>2. CASE e # d
      BY <1>1, <1>2, <1>3, <2>1, <3>2
    <3> QED  BY <3>1, <3>2
  <2>2. ASSUME NEW e \in Daemons, sock' = e PROVE Listening(e)' \/ pc'[e] = "dead"
    <3>1. CASE e = d
      BY <1>1, <1>2, <2>2, <3>1, DaemonAssumption
    <3>2. CASE e # d
      BY <1>1, <1>2, <1>3, <2>2, <3>2, DaemonAssumption
    <3> QED  BY <3>1, <3>2
  <2> QED  BY <2>1, <2>2 DEF SocketOwned
<1>7. BrowserOwned'
  <2>1. browser \subseteq {e \in Daemons : pc[e] \in Browsing}
    BY DEF IInv, BrowserOwned
  <2>2. ASSUME NEW e \in browser' PROVE e \in Daemons /\ pc'[e] \in Browsing
    BY <1>1, <2>1, <2>2
  <2> QED  BY <2>2 DEF BrowserOwned
<1> QED  BY <1>4, <1>5, <1>6, <1>7 DEF IInv

\* What the invariant says of a daemon in the phase p.
LEMMA AtPhase ==
  ASSUME IInv, NEW d \in Daemons, NEW p \in Phases, pc[d] = p
  PROVE  /\ lock = d <=> Holds(p)
         /\ sock = d => Listens(p) \/ p = "dead"
         /\ Listens(p) => sock = d
         /\ d \in browser => p \in Browsing
  BY DEF IInv, LockOwned, SocketOwned, BrowserOwned, Holding, Listening, Holds, Listens

\* A step of a daemon that leaves the stop commands alone.
LEMMA QuietStops ==
  ASSUME IInv, UNCHANGED stop
  PROVE  /\ stop' \in [Stops -> StopPhases]
         /\ \A s \in Stops : stop'[s] \in {"probing", "polling"} => stop'[s] = stop[s]
  BY DEF IInv, Types

\* A move between two phases that touches nothing else of the invariant.
LEMMA PlainMove ==
  ASSUME IInv, NEW d \in Daemons, NEW p \in Phases, NEW x \in Phases,
         Go(d, p, x), UNCHANGED <<lock, sock, stop>>, browser' \subseteq browser \cup {d},
         d \in browser' => x \in Browsing,
         Holds(p) <=> Holds(x), Listens(p) <=> Listens(x), p # "dead"
  PROVE  IInv'
<1>1. /\ lock = d <=> Holds(p)
      /\ sock = d => Listens(p)
      /\ Listens(p) => sock = d
  BY AtPhase DEF Go
<1>2. pc' = [pc EXCEPT ![d] = x]
  BY DEF Go
<1>3. \/ Holds(x) /\ lock' = d /\ lock \in {d, Nobody}
      \/ ~Holds(x) /\ lock' = (IF lock = d THEN Nobody ELSE lock)
  BY <1>1
<1>4. Listens(x) => lock = d
  BY <1>1 DEF Holds, Listens
<1>5. \/ Listens(x) /\ sock' = d /\ lock = d
      \/ ~Listens(x) /\ sock' = Nobody /\ lock = d
      \/ ~Listens(x) /\ sock' = sock /\ (sock = d => x = "dead")
  BY <1>1, <1>4
<1>6. /\ stop' \in [Stops -> StopPhases]
      /\ \A s \in Stops : stop'[s] \in {"probing", "polling"} => stop'[s] = stop[s]
  BY QuietStops
<1> QED  BY <1>2, <1>3, <1>5, <1>6, MoveIInv

\* The steps of start-up.
LEMMA StartIInv ==
  ASSUME IInv, NEW d \in Daemons,
         Start(d) \/ NewEngine(d) \/ RestoreSession(d) \/ NewBrowser(d) \/ NewRutracker(d)
         \/ LockTaken(d) \/ LockRefused(d) \/ LockFails(d) \/ Listen(d) \/ WatchDir(d)
  PROVE  IInv'
<1> USE DEF lockVars, cmdVars
<1>1. CASE Start(d)
  <2>1. Go(d, "off", "engine") /\ UNCHANGED <<lock, sock, stop, browser>>
    BY <1>1 DEF Start
  <2>2. d \notin browser
    BY <2>1, AtPhase DEF Go, Phases, Browsing
  <2> QED  BY <2>1, <2>2, PlainMove DEF Phases, Starting, Holds, Listens
<1>2. CASE NewEngine(d)
  <2>1. /\ Go(d, "engine", "restore") \/ Go(d, "engine", "gone")
        /\ UNCHANGED <<lock, sock, stop, browser>>
    BY <1>2 DEF NewEngine, Phase
  <2>2. d \notin browser
    BY <2>1, AtPhase DEF Go, Phases, Starting, Browsing
  <2> QED  BY <2>1, <2>2, PlainMove DEF Phases, Starting, Holds, Listens
<1>3. CASE RestoreSession(d)
  <2>1. Go(d, "restore", "stream") /\ UNCHANGED <<lock, sock, stop, browser>>
    BY <1>3 DEF RestoreSession
  <2>2. d \notin browser
    BY <2>1, AtPhase DEF Go, Phases, Starting, Browsing
  <2> QED  BY <2>1, <2>2, PlainMove DEF Phases, Starting, Holds, Listens
<1>4. CASE NewBrowser(d)
  <2>1. /\ Go(d, "stream", "rutracker") \/ Go(d, "stream", "eng.Close")
        /\ UNCHANGED <<lock, sock, stop>>
        /\ browser' \in {browser, browser \cup (IF pc'[d] = "rutracker" THEN {d} ELSE {})}
    BY <1>4 DEF NewBrowser, Phase
  <2>2. d \notin browser /\ d \in DOMAIN pc
    BY <2>1, AtPhase DEF Go, Phases, Starting, Browsing, IInv, Types
  <2>3. CASE Go(d, "stream", "rutracker")
    <3>1. browser' \subseteq browser \cup {d}
      BY <2>1
    <3> QED  BY <2>1, <2>3, <3>1, PlainMove DEF Phases, Starting, Holds, Listens, Browsing
  <2>4. CASE Go(d, "stream", "eng.Close")
    <3>1. pc'[d] = "eng.Close"
      BY <2>2, <2>4 DEF Go
    <3>2. browser' = browser
      BY <2>1, <3>1
    <3> QED  BY <2>1, <2>2, <2>4, <3>2, PlainMove DEF Phases, Starting, Closing, Holds, Listens
  <2> QED  BY <2>1, <2>3, <2>4
<1>5. CASE NewRutracker(d)
  <2>1. /\ Go(d, "rutracker", "lock") \/ Go(d, "rutracker", "eng.Close")
        /\ UNCHANGED <<lock, sock, stop>>
        /\ browser' = IF pc'[d] = "lock" THEN browser ELSE browser \ {d}
    BY <1>5 DEF NewRutracker, Phase
  <2>2. d \in DOMAIN pc /\ browser' \subseteq browser \cup {d}
    BY <2>1 DEF IInv, Types
  <2>3. CASE Go(d, "rutracker", "lock")
    BY <2>1, <2>2, <2>3, PlainMove DEF Phases, Starting, Holds, Listens, Browsing
  <2>4. CASE Go(d, "rutracker", "eng.Close")
    <3>1. pc'[d] = "eng.Close"
      BY <2>2, <2>4 DEF Go
    <3>2. d \notin browser'
      BY <2>1, <3>1
    <3> QED  BY <2>1, <2>2, <2>4, <3>2, PlainMove DEF Phases, Starting, Closing, Holds, Listens
  <2> QED  BY <2>1, <2>3, <2>4
<1>6. CASE LockTaken(d)
  <2>1. /\ Go(d, "lock", "listen") /\ lock = Nobody /\ lock' = d
        /\ UNCHANGED <<sock, stop, browser>>
    BY <1>6 DEF LockTaken
  <2>2. sock # d
    BY <2>1, AtPhase DEF Go, Phases, Starting, Listens
  <2>3. pc' = [pc EXCEPT ![d] = "listen"]
    BY <2>1 DEF Go
  <2>4. /\ stop' \in [Stops -> StopPhases]
        /\ \A s \in Stops : stop'[s] \in {"probing", "polling"} => stop'[s] = stop[s]
    BY <2>1, QuietStops
  <2>5. Holds("listen") /\ ~Listens("listen") /\ "listen" \in Phases /\ "listen" \in Browsing
    BY DEF Holds, Listens, Phases, Starting, Browsing
  <2> QED  BY <2>1, <2>2, <2>3, <2>4, <2>5, MoveIInv
<1>7. CASE LockRefused(d)
  <2>1. pc[d] = "lock" /\ UNCHANGED <<lock, sock, stop, browser>>
    BY <1>7 DEF LockRefused
  <2>2. UNCHANGED pc \/ Go(d, "lock", "closeSearcher")
    BY <1>7 DEF LockRefused, Go
  <2>3. CASE UNCHANGED pc
    BY <2>1, <2>3, QuietIInv
  <2>4. CASE Go(d, "lock", "closeSearcher")
    BY <2>1, <2>4, PlainMove DEF Phases, Starting, Closing, Holds, Listens, Browsing
  <2> QED  BY <2>2, <2>3, <2>4
<1>8. CASE LockFails(d)
  <2>1. Go(d, "lock", "closeSearcher") /\ UNCHANGED <<lock, sock, stop, browser>>
    BY <1>8 DEF LockFails
  <2> QED  BY <2>1, PlainMove DEF Phases, Starting, Closing, Holds, Listens, Browsing
<1>9. CASE Listen(d)
  <2>1. /\ Go(d, "listen", "watchdir") \/ Go(d, "listen", "closeSearcher")
        /\ sock' = IF pc'[d] = "watchdir" THEN d ELSE Nobody
        /\ lock' = IF pc'[d] = "watchdir" THEN d ELSE Nobody
        /\ UNCHANGED <<stop, browser>>
    BY <1>9 DEF Listen, Phase
  <2>2. lock = d /\ d \in DOMAIN pc
    BY <2>1, AtPhase DEF Go, Phases, Starting, Holds, IInv, Types
  <2>3. /\ stop' \in [Stops -> StopPhases]
        /\ \A s \in Stops : stop'[s] \in {"probing", "polling"} => stop'[s] = stop[s]
    BY <2>1, QuietStops
  <2>4. CASE Go(d, "listen", "watchdir")
    <3>1. pc' = [pc EXCEPT ![d] = "watchdir"] /\ pc'[d] = "watchdir"
      BY <2>2, <2>4 DEF Go
    <3>2. /\ Holds("watchdir") /\ Listens("watchdir")
          /\ "watchdir" \in Phases /\ "watchdir" \in Browsing
      BY DEF Holds, Listens, Phases, Starting, Browsing
    <3>3. sock' = d /\ lock' = d
      BY <2>1, <3>1
    <3> QED  BY <2>1, <2>2, <2>3, <3>1, <3>2, <3>3, MoveIInv
  <2>5. CASE Go(d, "listen", "closeSearcher")
    <3>1. pc' = [pc EXCEPT ![d] = "closeSearcher"] /\ pc'[d] = "closeSearcher"
      BY <2>2, <2>5 DEF Go
    <3>2. /\ ~Holds("closeSearcher") /\ ~Listens("closeSearcher")
          /\ "closeSearcher" \in Phases /\ "closeSearcher" \in Browsing
      BY DEF Holds, Listens, Phases, Closing, Browsing
    <3>3. sock' = Nobody /\ lock' = Nobody
      BY <2>1, <3>1
    <3> QED  BY <2>1, <2>2, <2>3, <3>1, <3>2, <3>3, MoveIInv
  <2> QED  BY <2>1, <2>4, <2>5
<1>10. CASE WatchDir(d)
  <2>1. /\ Go(d, "watchdir", "ready") \/ Go(d, "watchdir", "ln.Close")
        /\ UNCHANGED <<lock, sock, stop, browser>>
    BY <1>10 DEF WatchDir, Phase
  <2> QED  BY <2>1, PlainMove DEF Phases, Starting, Closing, Holds, Listens, Browsing
<1> QED  BY <1>1, <1>2, <1>3, <1>4, <1>5, <1>6, <1>7, <1>8, <1>9, <1>10

\* The deferred closes, the end of the process, and a kill.
LEMMA ShutdownIInv ==
  ASSUME IInv, NEW d \in Daemons,
         Leave(d) \/ CloseListener(d) \/ WaitHandlers(d) \/ RemoveSocket(d) \/ ReleaseLock(d)
         \/ CloseSearcher(d) \/ CloseEngine(d) \/ Exit(d) \/ Crash(d)
  PROVE  IInv'
<1> USE DEF lockVars, cmdVars
<1>0. ASSUME stop' = [s \in Stops |-> IF stop[s] = "calling" /\ target[s] = d THEN "error" ELSE stop[s]]
      PROVE  /\ stop' \in [Stops -> StopPhases]
             /\ \A s \in Stops : stop'[s] \in {"probing", "polling"} => stop'[s] = stop[s]
  BY <1>0 DEF IInv, Types, StopPhases
<1>1. CASE Leave(d)
  <2>1. Go(d, "ready", "ln.Close") /\ UNCHANGED <<lock, sock, stop, browser>>
    BY <1>1 DEF Leave
  <2> QED  BY <2>1, PlainMove DEF Phases, Starting, Closing, Holds, Listens, Browsing
<1>2. CASE CloseListener(d)
  <2>1. Go(d, "ln.Close", "wg.Wait") /\ sock' = Nobody /\ UNCHANGED <<lock, stop, browser>>
    BY <1>2 DEF CloseListener
  <2>2. lock = d
    BY <2>1, AtPhase DEF Go, Phases, Closing, Holds
  <2>3. pc' = [pc EXCEPT ![d] = "wg.Wait"]
    BY <2>1 DEF Go
  <2>4. Holds("wg.Wait") /\ ~Listens("wg.Wait") /\ "wg.Wait" \in Phases /\ "wg.Wait" \in Browsing
    BY DEF Holds, Listens, Phases, Closing, Browsing
  <2> QED  BY <2>1, <2>2, <2>3, <2>4, QuietStops, MoveIInv
<1>3. CASE WaitHandlers(d)
  <2>1. /\ Go(d, "wg.Wait", "rm socket") /\ UNCHANGED <<lock, sock, browser>>
        /\ stop' = [s \in Stops |-> IF stop[s] = "calling" /\ target[s] = d THEN "error" ELSE stop[s]]
    BY <1>3 DEF WaitHandlers
  <2>2. lock = d /\ sock # d
    BY <2>1, AtPhase DEF Go, Phases, Closing, Holds, Listens
  <2>3. pc' = [pc EXCEPT ![d] = "rm socket"]
    BY <2>1 DEF Go
  <2>4. Holds("rm socket") /\ ~Listens("rm socket") /\ "rm socket" \in Phases /\ "rm socket" \in Browsing
    BY DEF Holds, Listens, Phases, Closing, Browsing
  <2> QED  BY <1>0, <2>1, <2>2, <2>3, <2>4, MoveIInv
<1>4. CASE RemoveSocket(d)
  <2>1. Go(d, "rm socket", "unlock") /\ sock' = Nobody /\ UNCHANGED <<lock, stop, browser>>
    BY <1>4 DEF RemoveSocket
  <2>2. lock = d
    BY <2>1, AtPhase DEF Go, Phases, Closing, Holds
  <2>3. pc' = [pc EXCEPT ![d] = "unlock"]
    BY <2>1 DEF Go
  <2>4. Holds("unlock") /\ ~Listens("unlock") /\ "unlock" \in Phases /\ "unlock" \in Browsing
    BY DEF Holds, Listens, Phases, Closing, Browsing
  <2> QED  BY <2>1, <2>2, <2>3, <2>4, QuietStops, MoveIInv
<1>5. CASE ReleaseLock(d)
  <2>1. Go(d, "unlock", "closeSearcher") /\ lock' = Nobody /\ UNCHANGED <<sock, stop, browser>>
    BY <1>5 DEF ReleaseLock
  <2>2. lock = d /\ sock # d
    BY <2>1, AtPhase DEF Go, Phases, Closing, Holds, Listens
  <2>3. pc' = [pc EXCEPT ![d] = "closeSearcher"]
    BY <2>1 DEF Go
  <2>4. /\ ~Holds("closeSearcher") /\ ~Listens("closeSearcher")
        /\ "closeSearcher" \in Phases /\ "closeSearcher" \in Browsing
    BY DEF Holds, Listens, Phases, Closing, Browsing
  <2> QED  BY <2>1, <2>2, <2>3, <2>4, QuietStops, MoveIInv
<1>6. CASE CloseSearcher(d)
  <2>1. /\ Go(d, "closeSearcher", "eng.Close") /\ UNCHANGED <<lock, sock, stop>>
        /\ browser' = browser \ {d}
    BY <1>6 DEF CloseSearcher
  <2> QED  BY <2>1, PlainMove DEF Phases, Closing, Holds, Listens
<1>7. CASE CloseEngine(d)
  <2>1. Go(d, "eng.Close", "exit") /\ UNCHANGED <<lock, sock, stop, browser>>
    BY <1>7 DEF CloseEngine
  <2>2. d \notin browser
    BY <2>1, AtPhase DEF Go, Phases, Closing, Browsing
  <2> QED  BY <2>1, <2>2, PlainMove DEF Phases, Closing, Holds, Listens
<1>8. CASE Exit(d)
  <2>1. Go(d, "exit", "gone") /\ UNCHANGED <<lock, sock, stop, browser>>
    BY <1>8 DEF Exit
  <2>2. d \notin browser
    BY <2>1, AtPhase DEF Go, Phases, Closing, Browsing
  <2> QED  BY <2>1, <2>2, PlainMove DEF Phases, Closing, Holds, Listens
<1>9. CASE Crash(d)
  <2>1. /\ pc' = [pc EXCEPT ![d] = "dead"] /\ UNCHANGED <<sock, browser>>
        /\ lock' = IF lock = d THEN Nobody ELSE lock
        /\ stop' = [s \in Stops |-> IF stop[s] = "calling" /\ target[s] = d THEN "error" ELSE stop[s]]
    BY <1>9 DEF Crash
  <2>2. ~Holds("dead") /\ ~Listens("dead") /\ "dead" \in Phases /\ "dead" \in Browsing
    BY DEF Holds, Listens, Phases, Browsing
  <2> QED  BY <1>0, <2>1, <2>2, MoveIInv
<1> QED  BY <1>1, <1>2, <1>3, <1>4, <1>5, <1>6, <1>7, <1>8, <1>9

\* A stop command moves, and what its probe does to the lock.
LEMMA StopMove ==
  ASSUME IInv, NEW s \in Stops, NEW x \in StopPhases, stop' = [stop EXCEPT ![s] = x],
         UNCHANGED <<pc, sock, browser>>,
         \/ lock = Nobody /\ lock' = s
         \/ stop[s] \in {"probing", "polling"} /\ lock' = Nobody /\ x \notin {"probing", "polling"}
         \/ UNCHANGED lock /\ x \notin {"probing", "polling"}
  PROVE  IInv'
<1>1. /\ \A d \in Daemons : lock = d <=> Holding(d)
      /\ \A r \in Stops : stop[r] \in {"probing", "polling"} => lock = r
  BY DEF IInv, LockOwned
<1>2. \A d \in Daemons : Holding(d)' <=> Holding(d)
  BY DEF Holding
<1>3. stop' \in [Stops -> StopPhases] /\ stop'[s] = x /\ \A r \in Stops : r # s => stop'[r] = stop[r]
  BY DEF IInv, Types
<1>4. Types'
  BY <1>3 DEF IInv, Types
<1>5. LockOwned'
  <2>1. \A d \in Daemons : lock' = d <=> Holding(d)'
    BY <1>1, <1>2, DaemonAssumption
  <2>2. ASSUME NEW r \in Stops, stop'[r] \in {"probing", "polling"} PROVE lock' = r
    BY <1>1, <1>3, <2>2, DaemonAssumption
  <2> QED  BY <2>1, <2>2 DEF LockOwned
<1>6. SocketOwned' /\ BrowserOwned'
  BY DEF IInv, SocketOwned, BrowserOwned, Listening
<1> QED  BY <1>4, <1>5, <1>6 DEF IInv

\* The stop command, whose probes take and release the lock.
LEMMA StopIInv == ASSUME IInv, NEW s \in Stops, StopStep(s) PROVE IInv'
<1> USE DEF lockVars, procVars
<1>1. CASE Probe(s)
  <2>1. /\ lock = Nobody /\ lock' = s /\ UNCHANGED <<pc, sock, browser>>
        /\ \E x \in {"probing", "polling"} : stop' = [stop EXCEPT ![s] = x]
    BY <1>1 DEF Probe, StopGo
  <2> QED  BY <2>1, StopMove DEF StopPhases
<1>2. CASE ProbeRelease(s)
  <2>1. /\ stop[s] \in {"probing", "polling"} /\ lock' = Nobody /\ UNCHANGED <<pc, sock, browser>>
        /\ \E x \in {"none", "stopped"} : stop' = [stop EXCEPT ![s] = x]
    BY <1>2 DEF ProbeRelease, StopGo
  <2> QED  BY <2>1, StopMove DEF StopPhases
<1>3. CASE ProbeRunning(s) \/ StopDial(s) \/ StopCall(s) \/ StopTimeout(s)
  <2>1. /\ UNCHANGED <<pc, sock, browser, lock>>
        /\ \E x \in {"running", "calling", "error", "waiting", "asked", "timeout"} :
              stop' = [stop EXCEPT ![s] = x]
    BY <1>3 DEF ProbeRunning, StopDial, StopCall, StopTimeout, StopGo
  <2> QED  BY <2>1, StopMove DEF StopPhases
<1> QED  BY <1>1, <1>2, <1>3 DEF StopStep

\* dialOrSpawn, which may start a daemon.
LEMMA AttachIInv == ASSUME IInv, NEW a \in Attaches, AttachStep(a) PROVE IInv'
<1>1. CASE Dial(a) \/ AttachTimeout(a)
  BY <1>1, QuietIInv DEF Dial, AttachTimeout, procVars, lockVars
<1>2. ASSUME NEW d \in Daemons, SpawnDaemon(a, d) PROVE IInv'
  BY <1>2, DaemonAssumption DEF SpawnDaemon, Go, IInv, Types, LockOwned, SocketOwned, BrowserOwned, Holding,
     Listening, Phases, Starting, Browsing, lockVars
<1> QED  BY <1>1, <1>2 DEF AttachStep

\* Every step.
LEMMA NextIInv == ASSUME IInv, [Next]_vars PROVE IInv'
<1>1. ASSUME NEW d \in Daemons, DaemonStep(d) PROVE IInv'
  <2>1. CASE Reopen(d)
    BY <2>1, QuietIInv DEF Reopen, lockVars, cmdVars
  <2> QED  BY <1>1, <2>1, StartIInv, ShutdownIInv DEF DaemonStep
<1>2. ASSUME NEW d \in Daemons, WatchStep(d) PROVE IInv'
  <2>1. UNCHANGED <<procVars, lockVars, cmdVars>>
    BY <1>2 DEF WatchStep, WatchScan, WatchTake, WatchMark, WatchLeave
  <2> QED  BY <2>1, QuietIInv DEF procVars, lockVars, cmdVars
<1>3. ASSUME NEW d \in Daemons, Crash(d) PROVE IInv'
  BY <1>3, ShutdownIInv
<1>4. ASSUME NEW d \in Daemons, NEW sig \in {"hup", "term"}, Signal(d, sig) PROVE IInv'
  BY <1>4, QuietIInv DEF Signal, lockVars, cmdVars
<1>5. ASSUME NEW d \in Daemons, NEW f \in Files, Remove(d, f) PROVE IInv'
  BY <1>5, QuietIInv DEF Remove, procVars, lockVars, cmdVars
<1>6. ASSUME NEW f \in Files, Writer(f) PROVE IInv'
  BY <1>6, QuietIInv DEF Writer, procVars, lockVars, cmdVars
<1>7. CASE UNCHANGED vars
  BY <1>7, QuietIInv DEF vars, procVars, lockVars, cmdVars
<1> QED  BY <1>1, <1>2, <1>3, <1>4, <1>5, <1>6, <1>7, StopIInv, AttachIInv DEF Next

\* The invariant holds throughout.
LEMMA SpecIInv == Spec => []IInv
  BY InitIInv, NextIInv, PTL DEF Spec

\* The daemon that serves owns the lock and the socket path, for any number
\* of daemons and commands (Serve and Close, server.go; lock_unix.go).
THEOREM SocketIsLive == Spec => []LiveSocket
<1>1. IInv => LiveSocket
  BY DEF IInv, LockOwned, SocketOwned, LiveSocket
<1> QED  BY <1>1, SpecIInv, PTL

\* A daemon that has ended by itself has given back the lock, the socket path
\* and the browser session, from whichever step it ended (the deferred closes
\* of runDaemon, daemon.go).
THEOREM NothingIsLeft == Spec => []LeavesNothing
<1>1. IInv => LeavesNothing
  BY DEF IInv, LockOwned, SocketOwned, BrowserOwned, LeavesNothing, Holding, Listening, Browsing
<1> QED  BY <1>1, SpecIInv, PTL
-----------------------------------------------------------------------------
(* Types. A stop command that calls has connected to a daemon.             *)
TInv == TypeOK /\ \A s \in Stops : stop[s] = "calling" => target[s] \in Daemons

\* newWatcher has the type of a watcher.
LEMMA NewWatcherTyped == newWatcher \in Watching
  BY WatcherAssumption DEF newWatcher, Watching, Unmeasured

\* A record of the watcher with one field changed.
LEMMA WatchingFields ==
  ASSUME NEW w \in Watching
  PROVE  /\ w.sizes \in [Files -> 0 .. Full] /\ w.seen \in [Files -> 0 .. Full]
         /\ w.todo \in SUBSET Files /\ w.taken \in Files \cup {NoFile}
         /\ \A x \in BOOLEAN : /\ [w EXCEPT !.on = x] \in Watching
                               /\ [w EXCEPT !.scanning = x] \in Watching
                               /\ [w EXCEPT !.ok = x] \in Watching
         /\ \A x \in [Files -> 0 .. Full] : /\ [w EXCEPT !.sizes = x] \in Watching
                                            /\ [w EXCEPT !.seen = x] \in Watching
         /\ \A x \in SUBSET Files : [w EXCEPT !.todo = x] \in Watching
         /\ \A x \in Files \cup {NoFile} : [w EXCEPT !.taken = x] \in Watching
  BY DEF Watching

\* A function with one value changed.
LEMMA Updated ==
  ASSUME NEW S, NEW V, NEW g \in [S -> V], NEW i \in S, NEW v \in V
  PROVE  [g EXCEPT ![i] = v] \in [S -> V]
  OBVIOUS

\* Whoever writes a file.
LEMMA WriterTyped == ASSUME WatchTypes, NEW f \in Files, Drop(f) \/ Write(f) PROVE WatchTypes'
<1>n. size[f] \in 0 .. Full
  BY DEF WatchTypes
<1>1. CASE Drop(f)
  <2>1. 1 \in 0 .. Full
    BY WatcherAssumption
  <2>2. [size EXCEPT ![f] = 1] \in [Files -> 0 .. Full]
    BY <2>1, Updated DEF WatchTypes
  <2>3. [name EXCEPT ![f] = ".torrent"] \in [Files -> {"", ".torrent", ".added", ".failed"}]
    BY DEF WatchTypes
  <2> QED  BY <1>1, <2>2, <2>3 DEF Drop, WatchTypes
<1>2. CASE Write(f)
  <2>1. size[f] + 1 \in 0 .. Full
    BY <1>2, <1>n, WatcherAssumption DEF Write
  <2>2. [size EXCEPT ![f] = size[f] + 1] \in [Files -> 0 .. Full]
    BY <2>1, Updated DEF WatchTypes
  <2> QED  BY <1>2, <2>2 DEF Write, WatchTypes
<1> QED  BY <1>1, <1>2

\* The watcher's operations.
LEMMA WatcherTyped ==
  ASSUME WatchTypes, NEW d \in Daemons,
         \/ \E f \in Files : ScanSkip(d, f) \/ \E ok \in BOOLEAN : TakeAdd(d, f, ok)
         \/ \E renamed \in BOOLEAN : TakeRename(d, renamed)
         \/ ScanStart(d) \/ ScanEnd(d) \/ WatchStart(d) \/ WatchEnd(d) \/ WatchGone(d)
  PROVE  WatchTypes'
<1> DEFINE w == watch[d]
<1>w. w \in Watching
  BY DEF WatchTypes
<1>f. /\ w.sizes \in [Files -> 0 .. Full] /\ w.seen \in [Files -> 0 .. Full]
      /\ w.todo \in SUBSET Files /\ w.taken \in Files \cup {NoFile}
  BY <1>w, WatchingFields
<1>s. ASSUME NEW x \in Watching, watch' = [watch EXCEPT ![d] = x] PROVE watch' \in [Daemons -> Watching]
  BY <1>s DEF WatchTypes
<1>z. [g \in Files |-> Unmeasured] \in [Files -> 0 .. Full]
  BY WatcherAssumption DEF Unmeasured
<1>3. CASE ScanStart(d)
  <2> DEFINE x == [[[w EXCEPT !.scanning = TRUE] EXCEPT !.todo = {g \in Files : name[g] = ".torrent"}]
                     EXCEPT !.seen = [g \in Files |-> Unmeasured]]
  <2>1. x \in Watching
    BY <1>w, <1>z, WatchingFields
  <2>2. watch' = [watch EXCEPT ![d] = x] /\ UNCHANGED <<name, size, good>>
    BY <1>3 DEF ScanStart
  <2> QED  BY <2>1, <2>2, <1>s DEF WatchTypes
<1>4. ASSUME NEW f \in Files, ScanSkip(d, f) PROVE WatchTypes'
  <2> DEFINE seen == [w.seen EXCEPT ![f] = IF name[f] = ".torrent" THEN size[f] ELSE Unmeasured]
             x == [[w EXCEPT !.todo = w.todo \ {f}] EXCEPT !.seen = seen]
  <2>0. (IF name[f] = ".torrent" THEN size[f] ELSE Unmeasured) \in 0 .. Full
    <3>1. size[f] \in 0 .. Full
      BY DEF WatchTypes
    <3> QED  BY <3>1, WatcherAssumption DEF Unmeasured
  <2>1. seen \in [Files -> 0 .. Full]
    BY <1>f, <2>0, Updated
  <2>2. w.todo \ {f} \in SUBSET Files
    BY <1>f
  <2>3. x \in Watching
    <3> HIDE DEF seen
    <3> QED  BY <1>w, <2>1, <2>2, WatchingFields
  <2>4. watch' = [watch EXCEPT ![d] = x] /\ UNCHANGED <<name, size, good>>
    BY <1>4 DEF ScanSkip
  <2> QED  BY <2>3, <2>4, <1>s DEF WatchTypes
<1>5. ASSUME NEW f \in Files, NEW b \in BOOLEAN, TakeAdd(d, f, b) PROVE WatchTypes'
  <2> DEFINE x == [[[w EXCEPT !.todo = w.todo \ {f}] EXCEPT !.taken = f] EXCEPT !.ok = b]
  <2>1. w.todo \ {f} \in SUBSET Files
    BY <1>f
  <2>2. x \in Watching
    BY <1>w, <2>1, WatchingFields
  <2>3. watch' = [watch EXCEPT ![d] = x] /\ UNCHANGED <<name, size, good>>
    BY <1>5 DEF TakeAdd
  <2> QED  BY <2>2, <2>3, <1>s DEF WatchTypes
<1>6. ASSUME NEW b \in BOOLEAN, TakeRename(d, b) PROVE WatchTypes'
  <2> DEFINE x == [w EXCEPT !.taken = NoFile]
  <2>1. x \in Watching
    BY <1>w, WatchingFields
  <2>2. watch' = [watch EXCEPT ![d] = x] /\ UNCHANGED <<size, good>>
    BY <1>6 DEF TakeRename
  <2> DEFINE y == IF ~b \/ name[w.taken] # ".torrent" THEN name[w.taken]
                  ELSE IF w.ok THEN ".added" ELSE ".failed"
  <2>3. name' = [name EXCEPT ![w.taken] = y]
    BY <1>6 DEF TakeRename
  <2>y. y \in {name[w.taken], ".added", ".failed"}
    OBVIOUS
  <2>4. w.taken \in Files
    BY <1>6, <1>f DEF TakeRename
  <2>5. name' \in [Files -> {"", ".torrent", ".added", ".failed"}]
    <3> HIDE DEF y
    <3> QED  BY <2>3, <2>y, <2>4 DEF WatchTypes
  <2> QED  BY <2>1, <2>2, <2>5, <1>s DEF WatchTypes
<1>7. CASE ScanEnd(d)
  <2> DEFINE x == [[w EXCEPT !.scanning = FALSE] EXCEPT !.sizes = w.seen]
  <2>1. x \in Watching
    BY <1>w, <1>f, WatchingFields
  <2>2. watch' = [watch EXCEPT ![d] = x] /\ UNCHANGED <<name, size, good>>
    BY <1>7 DEF ScanEnd
  <2> QED  BY <2>1, <2>2, <1>s DEF WatchTypes
<1>8. CASE WatchStart(d)
  <2>1. [newWatcher EXCEPT !.on = TRUE] \in Watching
    BY NewWatcherTyped, WatchingFields
  <2> QED  BY <1>8, <2>1, <1>s DEF WatchStart, WatchTypes
<1>9. CASE WatchEnd(d)
  <2>1. [w EXCEPT !.on = FALSE] \in Watching
    BY <1>w, WatchingFields
  <2>2. watch' = [watch EXCEPT ![d] = [w EXCEPT !.on = FALSE]] /\ UNCHANGED <<name, size, good>>
    BY <1>9 DEF WatchEnd
  <2> QED  BY <2>1, <2>2, <1>s DEF WatchTypes
<1>10. CASE WatchGone(d)
  BY <1>10, NewWatcherTyped, <1>s DEF WatchGone, WatchTypes
<1> QED  BY <1>3, <1>4, <1>5, <1>6, <1>7, <1>8, <1>9, <1>10
\* A step that leaves the watchers alone.
LEMMA SameWatch == ASSUME WatchTypes, UNCHANGED watchVars PROVE WatchTypes'
  BY DEF WatchTypes, watchVars

\* What is left of the troubles stays a number.
LEMMA TroubleTyped == ASSUME left \in Nat, Trouble PROVE left' \in Nat
  BY DEF Trouble

\* One more attempt.
LEMMA NatSucc == ASSUME NEW n \in Nat PROVE n + 1 \in Nat
  OBVIOUS

\* A phase leads to its next one, or to its first deferred close.
LEMMA PhaseTyped ==
  ASSUME pc \in [Daemons -> Phases], left \in Nat, NEW d \in Daemons, NEW from, NEW next \in Phases,
         NEW undo \in Phases, Phase(d, from, next, undo)
  PROVE  pc' \in [Daemons -> Phases] /\ left' \in Nat
<1>1. CASE Go(d, from, next) /\ UNCHANGED left
  BY <1>1 DEF Go
<1>2. CASE Go(d, from, undo) /\ Trouble
  BY <1>2, TroubleTyped DEF Go
<1> QED  BY <1>1, <1>2 DEF Phase

\* The steps of start-up.
LEMMA StartTyped ==
  ASSUME TInv, NEW d \in Daemons,
         Start(d) \/ NewEngine(d) \/ RestoreSession(d) \/ NewBrowser(d) \/ NewRutracker(d) \/ LockTaken(d) \/ LockRefused(d) \/ LockFails(d) \/ Listen(d)
  PROVE  TInv'
<1> USE DEF TInv, TypeOK, Go, Phases, Starting, Closing, StopPhases, lockVars, cmdVars, diskVars
<1>1. CASE Start(d)
  BY <1>1, SameWatch DEF Start
<1>2. CASE NewEngine(d)
  <2>1. pc' \in [Daemons -> Phases] /\ left' \in Nat
    BY <1>2, PhaseTyped DEF NewEngine
  <2> QED  BY <1>2, <2>1, SameWatch DEF NewEngine
<1>3. CASE RestoreSession(d)
  BY <1>3, SameWatch DEF RestoreSession
<1>4. CASE NewBrowser(d)
  <2>1. pc' \in [Daemons -> Phases] /\ left' \in Nat
    BY <1>4, PhaseTyped DEF NewBrowser
  <2> QED  BY <1>4, <2>1, SameWatch DEF NewBrowser
<1>5. CASE NewRutracker(d)
  <2>1. pc' \in [Daemons -> Phases] /\ left' \in Nat
    BY <1>5, PhaseTyped DEF NewRutracker
  <2> QED  BY <1>5, <2>1, SameWatch DEF NewRutracker
<1>6. CASE LockTaken(d)
  BY <1>6, SameWatch DEF LockTaken
<1>7. CASE LockRefused(d)
  <2>0. tries[d] + 1 \in Nat
    <3>1. tries[d] \in Nat
      OBVIOUS
    <3> QED  BY <3>1, NatSucc
  <2>1. tries' \in [Daemons -> Nat]
    BY <1>7, <2>0, Updated DEF LockRefused
  <2>2. pc' \in [Daemons -> Phases] /\ refused' \in SUBSET Daemons
    BY <1>7 DEF LockRefused
  <2>3. blocker' \in [Daemons -> Daemons \cup Stops \cup {Nobody}] /\ met' \in SUBSET Daemons
    BY <1>7 DEF LockRefused
  <2> QED  BY <1>7, <2>1, <2>2, <2>3, SameWatch DEF LockRefused
<1>8. CASE LockFails(d)
  BY <1>8, TroubleTyped, SameWatch DEF LockFails
<1>9. CASE Listen(d)
  <2>1. pc' \in [Daemons -> Phases] /\ left' \in Nat
    BY <1>9, PhaseTyped DEF Listen
  <2> QED  BY <1>9, <2>1, SameWatch DEF Listen
<1> QED  BY <1>1, <1>2, <1>3, <1>4, <1>5, <1>6, <1>7, <1>8, <1>9

\* Serving, and the deferred closes.
LEMMA CloseTyped ==
  ASSUME TInv, NEW d \in Daemons,
         Reopen(d) \/ Leave(d) \/ CloseListener(d) \/ WaitHandlers(d) \/ RemoveSocket(d) \/ ReleaseLock(d) \/ CloseSearcher(d) \/ CloseEngine(d)
  PROVE  TInv'
<1> USE DEF TInv, TypeOK, Go, Phase, Trouble, Phases, Starting, Closing, StopPhases, lockVars, cmdVars, diskVars
<1>1. CASE Reopen(d)
  BY <1>1, SameWatch DEF Reopen
<1>2. CASE Leave(d)
  BY <1>2, SameWatch DEF Leave
<1>3. CASE CloseListener(d)
  BY <1>3, SameWatch DEF CloseListener
<1>4. CASE WaitHandlers(d)
  BY <1>4, SameWatch DEF WaitHandlers
<1>5. CASE RemoveSocket(d)
  BY <1>5, SameWatch DEF RemoveSocket
<1>6. CASE ReleaseLock(d)
  BY <1>6, SameWatch DEF ReleaseLock
<1>7. CASE CloseSearcher(d)
  BY <1>7, SameWatch DEF CloseSearcher
<1>8. CASE CloseEngine(d)
  BY <1>8, SameWatch DEF CloseEngine
<1> QED  BY <1>1, <1>2, <1>3, <1>4, <1>5, <1>6, <1>7, <1>8

\* The watcher starts, the process ends or is killed.
LEMMA EndsTyped == ASSUME TInv, NEW d \in Daemons, WatchDir(d) \/ Exit(d) \/ Crash(d) PROVE TInv'
<1> USE DEF TInv, TypeOK, Go, Phases, Starting, Closing, StopPhases, lockVars, cmdVars, diskVars
<1>1. CASE WatchDir(d)
  <2>1. pc' \in [Daemons -> Phases] /\ left' \in Nat
    BY <1>1, PhaseTyped DEF WatchDir
  <2>2. WatchTypes'
    <3>1. CASE pc'[d] = "ready"
      BY <1>1, <3>1, WatcherTyped DEF WatchDir
    <3>2. CASE pc'[d] # "ready"
      BY <1>1, <3>2, SameWatch DEF WatchDir
    <3> QED  BY <3>1, <3>2
  <2> QED  BY <1>1, <2>1, <2>2 DEF WatchDir
<1>e. ASSUME Ends(d) PROVE /\ WatchTypes' /\ tries' \in [Daemons -> Nat] /\ asked' \in SUBSET Daemons
                           /\ blocker' \in [Daemons -> Daemons \cup Stops \cup {Nobody}]
                           /\ sigCh' \in [Daemons -> {"", "hup", "term"}] /\ mem' \in [Daemons -> SUBSET Files]
  BY <1>e, WatcherTyped DEF Ends
<1>2. CASE Exit(d)
  BY <1>2, <1>e DEF Exit
<1>3. CASE Crash(d)
  <2>1. left' \in Nat
    BY <1>3, TroubleTyped DEF Crash
  <2> QED  BY <1>3, <2>1, <1>e DEF Crash
<1> QED  BY <1>1, <1>2, <1>3

\* Signals, removals, the watcher and the writer.
LEMMA ServeTyped ==
  ASSUME TInv
  PROVE  /\ \A d \in Daemons : WatchStep(d) => TInv'
         /\ \A d \in Daemons, sig \in {"hup", "term"} : Signal(d, sig) => TInv'
         /\ \A d \in Daemons, f \in Files : Remove(d, f) => TInv'
         /\ \A f \in Files : Writer(f) => TInv'
<1> USE DEF TInv, TypeOK, procVars, lockVars, cmdVars, diskVars
<1>1. ASSUME NEW d \in Daemons, WatchStep(d) PROVE TInv'
  <2>1. ASSUME NEW f \in Files, WatchTake(d, f) PROVE TInv'
    <3>1. WatchTypes'
      <4>1. Parses(f) \in BOOLEAN
        BY DEF Parses
      <4> QED  BY <2>1, <4>1, WatcherTyped DEF WatchTake
    <3> QED  BY <2>1, <3>1 DEF WatchTake
  <2>2. CASE WatchMark(d)
    <3>1. WatchTypes'
      BY <2>2, WatcherTyped DEF WatchMark
    <3>2. left' \in Nat
      BY <2>2, TroubleTyped DEF WatchMark
    <3> QED  BY <2>2, <3>1, <3>2 DEF WatchMark
  <2>3. CASE WatchScan(d)
    <3>1. WatchTypes'
      BY <2>3, WatcherTyped DEF WatchScan
    <3> QED  BY <2>3, <3>1 DEF WatchScan
  <2>4. CASE WatchLeave(d)
    <3>1. WatchTypes'
      BY <2>4, WatcherTyped DEF WatchLeave
    <3> QED  BY <2>4, <3>1 DEF WatchLeave
  <2> QED  BY <1>1, <2>1, <2>2, <2>3, <2>4 DEF WatchStep
<1>2. ASSUME NEW d \in Daemons, NEW sig \in {"hup", "term"}, Signal(d, sig) PROVE TInv'
  BY <1>2, TroubleTyped, SameWatch DEF Signal
<1>3. ASSUME NEW d \in Daemons, NEW f \in Files, Remove(d, f) PROVE TInv'
  BY <1>3, TroubleTyped, SameWatch DEF Remove
<1>4. ASSUME NEW f \in Files, Writer(f) PROVE TInv'
  <2>1. WatchTypes'
    BY <1>4, WriterTyped DEF Writer
  <2> QED  BY <1>4, <2>1 DEF Writer
<1> QED  BY <1>1, <1>2, <1>3, <1>4

\* A stop command that moves keeps the types of what belongs to it.
LEMMA StopMoveTyped ==
  ASSUME TInv, NEW s \in Stops, NEW x \in StopPhases, stop' = [stop EXCEPT ![s] = x],
         NEW t \in Daemons \cup {Nobody}, target' = [target EXCEPT ![s] = t],
         x = "calling" => t \in Daemons
  PROVE  /\ stop' \in [Stops -> StopPhases] /\ target' \in [Stops -> Daemons \cup {Nobody}]
         /\ \A r \in Stops : stop'[r] = "calling" => target'[r] \in Daemons
<1>1. stop \in [Stops -> StopPhases] /\ target \in [Stops -> Daemons \cup {Nobody}]
  BY DEF TInv, TypeOK
<1>2. \A r \in Stops : stop[r] = "calling" => target[r] \in Daemons
  BY DEF TInv
<1> QED  BY <1>1, <1>2

\* The commands.
LEMMA CommandTyped ==
  ASSUME TInv
  PROVE  /\ \A s \in Stops : StopStep(s) => TInv'
         /\ \A a \in Attaches : AttachStep(a) => TInv'
<1> USE DEF TInv, TypeOK, StopGo, AttachGo, StopPhases, AttachPhases, procVars, lockVars, diskVars
<1>1. ASSUME NEW s \in Stops, StopStep(s) PROVE TInv'
  <2>1. CASE Probe(s)
    BY <2>1, SameWatch DEF Probe
  <2>2. CASE ProbeRelease(s)
    BY <2>2, SameWatch DEF ProbeRelease
  <2>3. CASE ProbeRunning(s)
    BY <2>3, SameWatch DEF ProbeRunning
  <2>4. CASE StopDial(s)
    <3>1. UNCHANGED <<procVars, diskVars, lockVars, attach, scene, left, watchVars>>
      BY <2>4 DEF StopDial
    <3>2. target = [target EXCEPT ![s] = target[s]] /\ target[s] \in Daemons \cup {Nobody}
      OBVIOUS
    <3>3. /\ stop' \in [Stops -> StopPhases] /\ target' \in [Stops -> Daemons \cup {Nobody}]
          /\ \A r \in Stops : stop'[r] = "calling" => target'[r] \in Daemons
      <4>1. ASSUME NEW d \in Daemons, stop' = [stop EXCEPT ![s] = "calling"], target' = [target EXCEPT ![s] = d]
            PROVE  <3>3!:
        BY <4>1, StopMoveTyped
      <4>2. ASSUME stop' = [stop EXCEPT ![s] = "error"], UNCHANGED target
            PROVE  <3>3!:
        BY <3>2, <4>2, StopMoveTyped
      <4> QED  BY <2>4, <4>1, <4>2 DEF StopDial
    <3> HIDE DEF StopPhases
    <3> QED  BY <3>1, <3>3, SameWatch
  <2>5. CASE StopCall(s)
    <3>1. /\ UNCHANGED <<pc, tries, blocker, sigCh, browser, diskVars, lockVars, target, attach, scene, left, watchVars>>
          /\ stop[s] = "calling" /\ asked' = asked \cup {target[s]}
          /\ \E x \in {"waiting", "asked"} : stop' = [stop EXCEPT ![s] = x]
      BY <2>5 DEF StopCall
    <3>2. target = [target EXCEPT ![s] = target[s]] /\ target[s] \in Daemons
      BY <3>1
    <3>3. /\ stop' \in [Stops -> StopPhases] /\ target' \in [Stops -> Daemons \cup {Nobody}]
          /\ \A r \in Stops : stop'[r] = "calling" => target'[r] \in Daemons
      <4>1. PICK x \in {"waiting", "asked"} : stop' = [stop EXCEPT ![s] = x]
        BY <3>1
      <4>2. x \in StopPhases /\ x # "calling"
        OBVIOUS
      <4> HIDE DEF StopPhases, TInv, TypeOK
      <4> QED  BY <3>1, <3>2, <4>1, <4>2, StopMoveTyped
    <3>4. asked' \in SUBSET Daemons
      BY <3>1, <3>2
    <3> HIDE DEF StopPhases
    <3> QED  BY <3>1, <3>3, <3>4, SameWatch
  <2>6. CASE StopTimeout(s)
    BY <2>6, SameWatch DEF StopTimeout
  <2> QED  BY <1>1, <2>1, <2>2, <2>3, <2>4, <2>5, <2>6 DEF StopStep
<1>2. ASSUME NEW a \in Attaches, AttachStep(a) PROVE TInv'
  <2>1. CASE Dial(a) \/ AttachTimeout(a)
    BY <2>1, SameWatch DEF Dial, AttachTimeout
  <2>2. ASSUME NEW d \in Daemons, SpawnDaemon(a, d) PROVE TInv'
    BY <2>2, SameWatch DEF SpawnDaemon, Go, Phases, Starting
  <2> QED  BY <1>2, <2>1, <2>2 DEF AttachStep
<1> QED  BY <1>1, <1>2

\* It holds at the start, and every step keeps it.
LEMMA InitTInv == Init => TInv
<1> SUFFICES ASSUME Init PROVE TInv  OBVIOUS
<1>1. WatchTypes
  <2>1. 0 \in 0 .. Full
    BY WatcherAssumption
  <2>2. size \in [Files -> 0 .. Full]
    BY <2>1 DEF Init, WatchInit
  <2> QED  BY <2>2, NewWatcherTyped DEF Init, WatchInit, WatchTypes
<1>2. left \in Nat
  BY DaemonAssumption DEF Init
<1>3. tries \in [Daemons -> Nat]
  BY DEF Init
<1> QED  BY <1>1, <1>2, <1>3 DEF Init, TInv, TypeOK, Phases, StopPhases, AttachPhases

LEMMA NextTInv == ASSUME TInv, [Next]_vars PROVE TInv'
<1>1. ASSUME NEW d \in Daemons, DaemonStep(d) PROVE TInv'
  BY <1>1, StartTyped, CloseTyped, EndsTyped DEF DaemonStep
<1>2. CASE UNCHANGED vars
  BY <1>2, SameWatch DEF TInv, TypeOK, vars, procVars, diskVars, lockVars, cmdVars
<1> QED  BY <1>1, <1>2, EndsTyped, ServeTyped, CommandTyped DEF Next

\* Every variable of daemons, watchers, commands, lock, socket and session
\* keeps its type, for any number of daemons, files and commands (runDaemon,
\* watcher.run, stop, dialOrSpawn).
THEOREM TypeCorrect == Spec => []TypeOK
<1>1. TInv => TypeOK
  BY DEF TInv
<1> QED  BY <1>1, InitTInv, NextTInv, PTL DEF Spec

-----------------------------------------------------------------------------
(* The watch folder. While no two engines have been open, the one that is  *)
(* open agrees with the session file, so what a watcher has added is in    *)
(* the file when it marks it.                                              *)

\* Where a daemon's engine is open, or has been closed last, and where it has
\* restored the session.
Restored == {"stream", "rutracker", "lock", "listen", "watchdir", "ready", "ln.Close", "wg.Wait", "rm socket",
             "unlock", "closeSearcher", "eng.Close", "exit"}
Engines  == Restored \cup {"restore"}

\* No two of them, until two have been open.
Alone == ~overlap => \A d, e \in Daemons : pc[d] \in Engines /\ pc[e] \in Engines => d = e

\* The session file is what the engine has in memory.
Agree == ~overlap => \A d \in Daemons : pc[d] \in Restored => mem[d] = disk

\* A watcher works only from the time its daemon serves.
Watches ==
  \A d \in Daemons :
    watch[d].on \/ watch[d].scanning \/ watch[d].taken # NoFile => pc[d] \in {"ready"} \cup Closing

\* The file a watcher is about to mark: added, it is in the session; not added,
\* it never will parse.
Marking ==
  \A d \in Daemons : watch[d].taken # NoFile =>
    /\ watch[d].ok /\ watch[d].taken \notin removed /\ ~overlap => watch[d].taken \in disk
    /\ ~watch[d].ok => watch[d].taken \notin good

Kept == Alone /\ Agree /\ Watches /\ Marking /\ WatchedKept
WInv == TInv /\ Kept

\* A step that adds, removes and marks nothing.
LEMMA KeptAlong ==
  ASSUME WInv, overlap => overlap', Alone', ~overlap' => disk' = disk,
         \A e \in Daemons : pc'[e] \in Restored => \/ pc[e] \in Restored /\ mem'[e] = mem[e]
                                                 \/ mem'[e] = disk,
         Watches',
         \A e \in Daemons : watch'[e].taken # NoFile =>
                             watch'[e].taken = watch[e].taken /\ watch'[e].ok = watch[e].ok,
         UNCHANGED <<name, good, removed>>
  PROVE  Kept'
<1>1. Agree'
  BY DEF WInv, Kept, Agree
<1>2. Marking'
  BY DEF WInv, Kept, Marking
<1>3. WatchedKept'
  BY DEF WInv, Kept, WatchedKept
<1> QED BY <1>1, <1>2, <1>3 DEF Kept

\* One daemon goes to the phase x, or none does.
LEMMA AloneMove ==
  ASSUME WInv, NEW d \in Daemons, NEW x \in Phases, pc' = [pc EXCEPT ![d] = x],
         overlap' = overlap, x \in Engines => pc[d] \in Engines
  PROVE  Alone'
<1>1. \A e \in Daemons : pc'[e] \in Engines => pc[e] \in Engines
  BY DEF WInv, TInv, TypeOK
<1> QED BY <1>1 DEF WInv, Kept, Alone

LEMMA QuietMove ==
  ASSUME WInv, NEW d \in Daemons, NEW x \in Phases, pc' = [pc EXCEPT ![d] = x],
         UNCHANGED <<mem, disk, removed, overlap, watchVars>>,
         x \in Engines => pc[d] \in Engines, x \in Restored => pc[d] \in Restored,
         pc[d] \in {"ready"} \cup Closing => x \in {"ready"} \cup Closing
  PROVE  Kept'
<1>1. /\ pc'[d] = x /\ \A e \in Daemons : e # d => pc'[e] = pc[e]
  BY DEF WInv, TInv, TypeOK
<1>2. Watches'
  BY <1>1 DEF WInv, Kept, Watches, watchVars
<1>3. Alone'
  BY AloneMove
<1> QED BY <1>1, <1>2, <1>3, KeptAlong DEF watchVars

LEMMA Quiet == ASSUME WInv, UNCHANGED <<pc, mem, disk, removed, overlap, watchVars>> PROVE Kept'
<1>1. Alone' /\ Watches'
  BY DEF WInv, Kept, Alone, Watches, watchVars
<1> QED BY <1>1, KeptAlong DEF watchVars, WInv, Kept, Agree, Marking, WatchedKept

\* Start-up: a second engine is what overlap remembers.
LEMMA StartKept ==
  ASSUME WInv, NEW d \in Daemons,
         \/ Start(d) \/ NewEngine(d) \/ RestoreSession(d) \/ NewBrowser(d) \/ NewRutracker(d)
         \/ LockTaken(d) \/ LockRefused(d) \/ LockFails(d) \/ Listen(d) \/ WatchDir(d)
  PROVE  Kept'
<1> USE DEF Go, Phase, Restored, Engines, Phases, Starting, Closing
<1>0. pc \in [Daemons -> Phases] /\ mem \in [Daemons -> SUBSET Files] /\ watch \in [Daemons -> Watching]
  BY DEF WInv, TInv, TypeOK, WatchTypes
<1>1. CASE Start(d)
  BY <1>1, QuietMove DEF Start, diskVars
<1>2. CASE NewEngine(d)
  <2>1. PICK x \in {"restore", "gone"} : pc' = [pc EXCEPT ![d] = x] /\ pc[d] = "engine"
    BY <1>2 DEF NewEngine
  <2>2. /\ overlap' = (overlap \/ \E e \in Daemons \ {d} : Alive(e) /\ pc[e] # "engine")
        /\ UNCHANGED <<mem, disk, removed, watchVars>>
    BY <1>2 DEF NewEngine
  <2>3. pc'[d] = x /\ \A e \in Daemons : e # d => pc'[e] = pc[e]
    BY <1>0, <2>1
  <2>4. ~overlap' => \A e \in Daemons : e # d => pc[e] \notin Engines
    <3>1. ASSUME ~overlap', NEW e \in Daemons, e # d PROVE ~(Alive(e) /\ pc[e] # "engine")
      BY <2>2, <3>1, Zenon
    <3>2. \A e \in Daemons : pc[e] \in Engines => Alive(e) /\ pc[e] # "engine"
      BY DEF Alive
    <3> QED BY <3>1, <3>2
  <2>5. Alone'
    BY <2>3, <2>4 DEF Alone
  <2>6. Watches'
    BY <2>1, <2>2, <2>3 DEF WInv, Kept, Watches, watchVars
  <2> QED BY <2>1, <2>2, <2>3, <2>5, <2>6, KeptAlong DEF watchVars
<1>3. CASE RestoreSession(d)
  <2>1. /\ pc' = [pc EXCEPT ![d] = "stream"] /\ pc[d] = "restore" /\ mem' = [mem EXCEPT ![d] = disk]
        /\ UNCHANGED <<disk, removed, overlap, watchVars>>
    BY <1>3 DEF RestoreSession
  <2>2. /\ pc'[d] = "stream" /\ mem'[d] = disk
        /\ \A e \in Daemons : e # d => pc'[e] = pc[e] /\ mem'[e] = mem[e]
    BY <1>0, <2>1
  <2>3. Alone'
    BY <2>1, AloneMove
  <2>4. Watches'
    BY <2>1, <2>2 DEF WInv, Kept, Watches, watchVars
  <2>5. \A e \in Daemons : pc'[e] \in Restored => \/ pc[e] \in Restored /\ mem'[e] = mem[e]
                                                \/ mem'[e] = disk
    BY <2>2
  <2> QED BY <2>1, <2>3, <2>4, <2>5, KeptAlong DEF watchVars
<1>4. CASE NewBrowser(d) \/ NewRutracker(d)
  <2>1. PICK x \in {"rutracker", "lock", "eng.Close"} : pc' = [pc EXCEPT ![d] = x] /\ pc[d] \in {"stream", "rutracker"}
    BY <1>4 DEF NewBrowser, NewRutracker
  <2>2. UNCHANGED <<mem, disk, removed, overlap, watchVars>>
    BY <1>4 DEF NewBrowser, NewRutracker, diskVars
  <2> QED BY <2>1, <2>2, QuietMove
<1>5. CASE LockTaken(d) \/ LockRefused(d) \/ LockFails(d) \/ Listen(d)
  <2>1. UNCHANGED <<mem, disk, removed, overlap, watchVars>>
    BY <1>5 DEF LockTaken, LockRefused, LockFails, Listen, diskVars
  <2>2. CASE UNCHANGED pc
    BY <2>1, <2>2, Quiet
  <2>3. CASE ~UNCHANGED pc
    <3>1. PICK x \in {"listen", "closeSearcher", "watchdir"} : pc' = [pc EXCEPT ![d] = x] /\ pc[d] \in {"lock", "listen"}
      BY <1>5, <2>3 DEF LockTaken, LockRefused, LockFails, Listen
    <3> QED BY <2>1, <3>1, QuietMove
  <2> QED BY <2>2, <2>3
<1>6. CASE WatchDir(d)
  <2>1. UNCHANGED <<mem, disk, removed, overlap>> /\ pc[d] = "watchdir"
    BY <1>6 DEF WatchDir, diskVars
  <2>2. CASE pc'[d] = "ready"
    <3>1. pc' = [pc EXCEPT ![d] = "ready"]
      BY <1>0, <1>6, <2>2 DEF WatchDir
    <3>2. watch' = [watch EXCEPT ![d] = [newWatcher EXCEPT !.on = TRUE]] /\ UNCHANGED <<name, good>>
      BY <1>6, <2>2 DEF WatchDir, WatchStart
    <3>3. /\ watch'[d] = [newWatcher EXCEPT !.on = TRUE] /\ pc'[d] = "ready"
          /\ \A e \in Daemons : e # d => watch'[e] = watch[e] /\ pc'[e] = pc[e]
      BY <1>0, <3>1, <3>2
    <3>4. watch'[d].taken = NoFile
      BY <3>3 DEF newWatcher
    <3>5. Alone'
      BY <2>1, <3>1, AloneMove
    <3>6. Watches'
      BY <3>3 DEF WInv, Kept, Watches
    <3>7. \A e \in Daemons : pc'[e] \in Restored => pc[e] \in Restored /\ mem'[e] = mem[e]
      BY <2>1, <3>3
    <3>8. \A e \in Daemons : watch'[e].taken # NoFile =>
                             watch'[e].taken = watch[e].taken /\ watch'[e].ok = watch[e].ok
      BY <3>3, <3>4
    <3> QED BY <2>1, <3>2, <3>5, <3>6, <3>7, <3>8, KeptAlong
  <2>3. CASE pc'[d] # "ready"
    <3>1. pc' = [pc EXCEPT ![d] = "ln.Close"] /\ UNCHANGED watchVars
      BY <1>0, <1>6, <2>3 DEF WatchDir
    <3> QED BY <2>1, <3>1, QuietMove
  <2> QED BY <2>2, <2>3
<1> QED BY <1>1, <1>2, <1>3, <1>4, <1>5, <1>6

\* Shutdown, up to the engine's last save, which writes what is there.
LEMMA CloseKept ==
  ASSUME WInv, NEW d \in Daemons,
         \/ Reopen(d) \/ Leave(d) \/ CloseListener(d) \/ WaitHandlers(d) \/ RemoveSocket(d)
         \/ ReleaseLock(d) \/ CloseSearcher(d) \/ CloseEngine(d)
  PROVE  Kept'
<1> USE DEF Go, Restored, Engines, Phases, Starting, Closing
<1>0. pc \in [Daemons -> Phases]
  BY DEF WInv, TInv, TypeOK
<1>1. CASE Reopen(d)
  BY <1>1, Quiet DEF Reopen, diskVars
<1>2. CASE CloseEngine(d)
  <2>1. /\ pc' = [pc EXCEPT ![d] = "exit"] /\ pc[d] = "eng.Close" /\ disk' = mem[d]
        /\ UNCHANGED <<mem, removed, overlap, watchVars>>
    BY <1>2 DEF CloseEngine
  <2>2. pc'[d] = "exit" /\ \A e \in Daemons : e # d => pc'[e] = pc[e]
    BY <1>0, <2>1
  <2>3. ~overlap' => disk' = disk
    BY <2>1 DEF WInv, Kept, Agree
  <2>4. Alone'
    BY <2>1, AloneMove
  <2>5. Watches'
    BY <2>1, <2>2 DEF WInv, Kept, Watches, watchVars
  <2>6. \A e \in Daemons : pc'[e] \in Restored => pc[e] \in Restored /\ mem'[e] = mem[e]
    BY <2>1, <2>2
  <2> QED BY <2>1, <2>3, <2>4, <2>5, <2>6, KeptAlong DEF watchVars
<1>3. CASE ~Reopen(d) /\ ~CloseEngine(d)
  <2>1. PICK x \in Closing : /\ pc' = [pc EXCEPT ![d] = x] /\ x # "exit"
                             /\ pc[d] \in {"ready", "ln.Close", "wg.Wait", "rm socket", "unlock", "closeSearcher"}
    BY <1>3 DEF Leave, CloseListener, WaitHandlers, RemoveSocket, ReleaseLock, CloseSearcher
  <2>2. UNCHANGED <<mem, disk, removed, overlap, watchVars>>
    BY <1>3 DEF Leave, CloseListener, WaitHandlers, RemoveSocket, ReleaseLock, CloseSearcher, diskVars
  <2> QED BY <2>1, <2>2, QuietMove
<1> QED BY <1>1, <1>2, <1>3

\* The process ends or is killed: its memory and its watcher are gone.
LEMMA EndKept == ASSUME WInv, NEW d \in Daemons, Exit(d) \/ Crash(d) PROVE Kept'
<1> USE DEF Go, Restored, Engines, Phases, Starting, Closing
<1>0. pc \in [Daemons -> Phases] /\ mem \in [Daemons -> SUBSET Files] /\ watch \in [Daemons -> Watching]
  BY DEF WInv, TInv, TypeOK, WatchTypes
<1>1. PICK x \in {"gone", "dead"} : pc' = [pc EXCEPT ![d] = x]
  BY DEF Exit, Crash
<1>2. /\ mem' = [mem EXCEPT ![d] = {}] /\ watch' = [watch EXCEPT ![d] = newWatcher]
      /\ UNCHANGED <<disk, removed, overlap, name, good>>
  BY DEF Exit, Crash, Ends, WatchGone
<1>3. /\ pc'[d] = x /\ watch'[d] = newWatcher
      /\ \A e \in Daemons : e # d => pc'[e] = pc[e] /\ mem'[e] = mem[e] /\ watch'[e] = watch[e]
  BY <1>0, <1>1, <1>2
<1>4. ~watch'[d].on /\ ~watch'[d].scanning /\ watch'[d].taken = NoFile
  BY <1>3 DEF newWatcher
<1>5. Alone'
  BY <1>1, <1>2, AloneMove
<1>6. Watches'
  BY <1>3, <1>4 DEF WInv, Kept, Watches
<1>7. \A e \in Daemons : pc'[e] \in Restored => pc[e] \in Restored /\ mem'[e] = mem[e]
  BY <1>3
<1>8. \A e \in Daemons : watch'[e].taken # NoFile =>
                         watch'[e].taken = watch[e].taken /\ watch'[e].ok = watch[e].ok
  BY <1>3, <1>4
<1> QED BY <1>2, <1>5, <1>6, <1>7, <1>8, KeptAlong

\* What a step of a watcher changes of its record.
LEMMA ScanFields ==
  ASSUME WatchTypes, NEW d \in Daemons,
         ScanStart(d) \/ (\E f \in Files : ScanSkip(d, f)) \/ ScanEnd(d) \/ WatchEnd(d)
  PROVE  /\ watch'[d].taken = watch[d].taken /\ watch'[d].ok = watch[d].ok
         /\ watch[d].on \/ watch[d].scanning
         /\ \A e \in Daemons : e # d => watch'[e] = watch[e]
         /\ UNCHANGED <<name, size, good>>
<1>1. watch \in [Daemons -> Watching] /\ watch[d] \in Watching
  BY DEF WatchTypes
<1>2. CASE ScanStart(d)
  BY <1>1, <1>2 DEF ScanStart, Watching
<1>3. CASE \E f \in Files : ScanSkip(d, f)
  <2>1. PICK f \in Files : ScanSkip(d, f)
    BY <1>3
  <2>2. PICK w \in Watching : w = watch[d]
    BY <1>1
  <2>3. PICK seen : seen = [w.seen EXCEPT ![f] = IF name[f] = ".torrent" THEN size[f] ELSE Unmeasured]
    OBVIOUS
  <2>4. PICK y : y = [w EXCEPT !.todo = w.todo \ {f}]
    OBVIOUS
  <2>5. PICK x : x = [y EXCEPT !.seen = seen]
    OBVIOUS
  <2>6. watch' = [watch EXCEPT ![d] = x] /\ watch[d].scanning /\ UNCHANGED <<name, size, good>>
    BY <1>1, <2>1, <2>2, <2>3, <2>4, <2>5 DEF ScanSkip, Looking
  <2>7. x.taken = w.taken /\ x.ok = w.ok
    BY <2>4, <2>5 DEF Watching
  <2> QED BY <1>1, <2>2, <2>6, <2>7
<1>4. CASE ScanEnd(d)
  BY <1>1, <1>4 DEF ScanEnd, Watching
<1>5. CASE WatchEnd(d)
  BY <1>1, <1>5 DEF WatchEnd, Watching
<1> QED BY <1>2, <1>3, <1>4, <1>5

LEMMA TakeFields ==
  ASSUME WatchTypes, NEW d \in Daemons, NEW f \in Files, NEW ok \in BOOLEAN, TakeAdd(d, f, ok)
  PROVE  /\ watch'[d].taken = f /\ watch'[d].ok = ok /\ watch[d].scanning
         /\ \A e \in Daemons : e # d => watch'[e] = watch[e]
         /\ UNCHANGED <<name, size, good>>
<1>1. watch \in [Daemons -> Watching] /\ watch[d] \in Watching
  BY DEF WatchTypes
<1> QED BY <1>1 DEF TakeAdd, Looking, Watching

LEMMA RenameFields ==
  ASSUME WatchTypes, NEW d \in Daemons, NEW renamed \in BOOLEAN, TakeRename(d, renamed)
  PROVE  LET f == watch[d].taken IN
         /\ f \in Files /\ watch'[d].taken = NoFile
         /\ watch'[d].on = watch[d].on /\ watch'[d].scanning = watch[d].scanning
         /\ \A e \in Daemons : e # d => watch'[e] = watch[e]
         /\ UNCHANGED <<size, good>>
         /\ \A g \in Files : name'[g] # name[g] =>
              g = f /\ name'[f] = IF watch[d].ok THEN ".added" ELSE ".failed"
<1>1. watch \in [Daemons -> Watching] /\ watch[d] \in Watching
  BY DEF WatchTypes
<1>2. PICK f : f = watch[d].taken
  OBVIOUS
<1>3. f \in Files
  BY <1>1, <1>2 DEF TakeRename, Watching
<1>4. /\ watch'[d].taken = NoFile
      /\ watch'[d].on = watch[d].on /\ watch'[d].scanning = watch[d].scanning
      /\ \A e \in Daemons : e # d => watch'[e] = watch[e]
      /\ UNCHANGED <<size, good>>
  BY <1>1 DEF TakeRename, Watching
<1>5. PICK x : /\ x \in {name[f], IF watch[d].ok THEN ".added" ELSE ".failed"}
               /\ name' = [name EXCEPT ![f] = x]
  BY <1>2 DEF TakeRename
<1>6. \A g \in Files : name'[g] # name[g] => g = f /\ name'[f] = x
  BY <1>3, <1>5 DEF WatchTypes
<1> QED BY <1>2, <1>3, <1>4, <1>5, <1>6

\* A scan and its end.
LEMMA ScanKept == ASSUME WInv, NEW d \in Daemons, WatchScan(d) \/ WatchLeave(d) PROVE Kept'
<1>0. WatchTypes
  BY DEF WInv, TInv, TypeOK
<1>1. UNCHANGED <<pc, mem, disk, removed, overlap>>
  BY DEF WatchScan, WatchLeave, procVars, diskVars
<1>2. /\ watch'[d].taken = watch[d].taken /\ watch'[d].ok = watch[d].ok
      /\ watch[d].on \/ watch[d].scanning
      /\ \A e \in Daemons : e # d => watch'[e] = watch[e]
      /\ UNCHANGED <<name, size, good>>
  BY <1>0, ScanFields DEF WatchScan, WatchLeave
<1>3. Watches'
  BY <1>1, <1>2 DEF WInv, Kept, Watches
<1>4. Alone'
  BY <1>1 DEF WInv, Kept, Alone
<1>5. \A e \in Daemons : watch'[e].taken # NoFile =>
                         watch'[e].taken = watch[e].taken /\ watch'[e].ok = watch[e].ok
  BY <1>2
<1> QED BY <1>1, <1>2, <1>3, <1>4, <1>5, KeptAlong DEF WInv, Kept, Agree

\* A file is added, with what the torrent restores: no other engine is open.
LEMMA TakeKept == ASSUME WInv, NEW d \in Daemons, NEW f \in Files, WatchTake(d, f) PROVE Kept'
<1>0. /\ WatchTypes /\ mem \in [Daemons -> SUBSET Files] /\ Parses(f) \in BOOLEAN
      /\ size[f] \in 0 .. Full
  BY DEF WInv, TInv, TypeOK, Parses, WatchTypes
<1>1. /\ TakeAdd(d, f, Parses(f)) /\ UNCHANGED <<pc, removed, overlap>>
      /\ mem' = IF Parses(f) THEN [mem EXCEPT ![d] = @ \cup {f}] ELSE mem
      /\ disk' = IF Parses(f) THEN mem'[d] ELSE disk
  BY DEF WatchTake, procVars
<1>2. /\ watch'[d].taken = f /\ watch'[d].ok = Parses(f) /\ watch[d].scanning
      /\ \A e \in Daemons : e # d => watch'[e] = watch[e]
      /\ UNCHANGED <<name, size, good>>
  BY <1>0, <1>1, TakeFields
<1>3. pc[d] \in {"ready"} \cup Closing /\ pc[d] \in Restored /\ pc[d] \in Engines
  BY <1>2 DEF WInv, Kept, Watches, Restored, Engines, Closing
<1>4. Alone'
  BY <1>1 DEF WInv, Kept, Alone
<1>5. Watches'
  BY <1>1, <1>2, <1>3 DEF WInv, Kept, Watches
<1>6. Agree'
  <2> SUFFICES ASSUME ~overlap, NEW e \in Daemons, pc[e] \in Restored PROVE mem'[e] = disk'
    BY <1>1 DEF Agree
  <2>1. e = d
    BY <1>3 DEF WInv, Kept, Alone, Engines
  <2>2. mem[d] = disk
    BY <1>3 DEF WInv, Kept, Agree
  <2> QED BY <1>1, <2>1, <2>2
<1>7. ~overlap => disk \subseteq disk' /\ (Parses(f) => f \in disk')
  BY <1>0, <1>1, <1>3 DEF WInv, Kept, Agree
<1>8. ~Parses(f) => f \notin good
  <2> SUFFICES ASSUME ~Parses(f) PROVE f \notin good
    OBVIOUS
  <2>1. WriterKeepsUp(d, f) /\ Settled(d, f)
    BY <1>1 DEF TakeAdd
  <2>2. ~(size[f] < Full)
    BY <2>1 DEF WriterKeepsUp, Settled
  <2>3. size[f] = Full
    BY <1>0, <2>2, WatcherAssumption
  <2> QED BY <2>3 DEF Parses
<1>9. Marking'
  BY <1>1, <1>2, <1>7, <1>8 DEF WInv, Kept, Marking
<1>10. WatchedKept'
  BY <1>1, <1>2, <1>7 DEF WInv, Kept, WatchedKept
<1> QED BY <1>4, <1>5, <1>6, <1>9, <1>10 DEF Kept

\* The file is renamed, or is not.
LEMMA MarkKept == ASSUME WInv, NEW d \in Daemons, WatchMark(d) PROVE Kept'
<1>1. UNCHANGED <<pc, mem, disk, removed, overlap>>
  BY DEF WatchMark, procVars, diskVars
<1>2. PICK f : f = watch[d].taken
  OBVIOUS
<1>3. /\ f \in Files /\ watch'[d].taken = NoFile
      /\ watch'[d].on = watch[d].on /\ watch'[d].scanning = watch[d].scanning
      /\ \A e \in Daemons : e # d => watch'[e] = watch[e]
      /\ UNCHANGED <<size, good>>
      /\ \A g \in Files : name'[g] # name[g] =>
           g = f /\ name'[f] = IF watch[d].ok THEN ".added" ELSE ".failed"
  <2>1. WatchTypes
    BY DEF WInv, TInv, TypeOK
  <2> QED BY <1>2, <2>1, RenameFields DEF WatchMark
<1>4. Alone' /\ Agree'
  BY <1>1 DEF WInv, Kept, Alone, Agree
<1>5. Watches'
  BY <1>1, <1>2, <1>3 DEF WInv, Kept, Watches
<1>6. Marking'
  BY <1>1, <1>3 DEF WInv, Kept, Marking
<1>7. ASSUME NEW g \in Files
      PROVE  /\ name'[g] = ".added" /\ g \notin removed' /\ ~overlap' => g \in disk'
             /\ name'[g] = ".failed" => g \notin good'
  <2>1. f # NoFile
    BY <1>3, WatcherAssumption
  <2>2. CASE name'[g] = name[g]
    BY <1>1, <1>3, <2>2 DEF WInv, Kept, WatchedKept
  <2>3. CASE name'[g] # name[g]
    BY <1>1, <1>2, <1>3, <2>1, <2>3 DEF WInv, Kept, Marking
  <2> QED BY <2>2, <2>3
<1> QED BY <1>4, <1>5, <1>6, <1>7 DEF Kept, WatchedKept

\* The user removes a torrent, in the only engine that is open.
LEMMA RemoveKept == ASSUME WInv, NEW d \in Daemons, NEW f \in Files, Remove(d, f) PROVE Kept'
<1>1. /\ pc[d] = "ready" /\ mem' = [mem EXCEPT ![d] = @ \ {f}] /\ disk' = mem'[d]
      /\ removed' = removed \cup {f} /\ UNCHANGED <<pc, overlap, watchVars>>
  BY DEF Remove, procVars
<1>2. mem'[d] = mem[d] \ {f} /\ \A e \in Daemons : e # d => mem'[e] = mem[e]
  BY <1>1 DEF WInv, TInv, TypeOK
<1>3. ~overlap => disk' = disk \ {f}
  BY <1>1, <1>2 DEF WInv, Kept, Agree, Restored
<1>4. Alone' /\ Watches'
  BY <1>1 DEF WInv, Kept, Alone, Watches, watchVars
<1>5. Agree'
  <2> SUFFICES ASSUME ~overlap, NEW e \in Daemons, pc[e] \in Restored PROVE mem'[e] = disk'
    BY <1>1 DEF Agree
  <2>1. e = d
    BY <1>1 DEF WInv, Kept, Alone, Engines, Restored
  <2> QED BY <1>1, <2>1
<1>6. Marking'
  BY <1>1, <1>3 DEF WInv, Kept, Marking, watchVars
<1>7. WatchedKept'
  BY <1>1, <1>3 DEF WInv, Kept, WatchedKept, watchVars
<1> QED BY <1>4, <1>5, <1>6, <1>7 DEF Kept

LEMMA WriterKept == ASSUME WInv, NEW f \in Files, Writer(f) PROVE Kept'
<1>1. UNCHANGED <<pc, mem, disk, removed, overlap, watch, good>>
  BY DEF Writer, Drop, Write, procVars, diskVars
<1>2. \A g \in Files : name'[g] = name[g] \/ name'[g] = ".torrent"
  BY DEF Writer, Drop, Write, WInv, TInv, TypeOK, WatchTypes
<1>3. Alone' /\ Watches' /\ Agree' /\ Marking'
  BY <1>1 DEF WInv, Kept, Alone, Watches, Agree, Marking
<1>4. WatchedKept'
  BY <1>1, <1>2 DEF WInv, Kept, WatchedKept
<1> QED BY <1>3, <1>4 DEF Kept

\* The commands: one may start a daemon.
LEMMA CommandKept ==
  ASSUME WInv, (\E s \in Stops : StopStep(s)) \/ (\E a \in Attaches : AttachStep(a))
  PROVE  Kept'
<1>1. UNCHANGED <<mem, disk, removed, overlap, watchVars>>
  BY DEF StopStep, Probe, ProbeRelease, ProbeRunning, StopDial, StopCall, StopTimeout, AttachStep, Dial,
         SpawnDaemon, AttachTimeout, diskVars
<1>2. CASE UNCHANGED pc
  BY <1>1, <1>2, Quiet
<1>3. CASE ~UNCHANGED pc
  <2>1. PICK a \in Attaches, d \in Daemons : SpawnDaemon(a, d)
    BY <1>3 DEF StopStep, Probe, ProbeRelease, ProbeRunning, StopDial, StopCall, StopTimeout, AttachStep, Dial,
                AttachTimeout, procVars
  <2>2. pc' = [pc EXCEPT ![d] = "engine"] /\ pc[d] = "off"
    BY <2>1 DEF SpawnDaemon, Go
  <2> QED BY <1>1, <2>2, QuietMove DEF Phases, Starting, Engines, Restored, Closing
<1> QED BY <1>2, <1>3

LEMMA NextWInv == ASSUME WInv, [Next]_vars PROVE WInv'
<1>1. TInv'
  BY NextTInv DEF WInv
<1>2. Kept'
  <2>1. ASSUME NEW d \in Daemons, DaemonStep(d) PROVE Kept'
    BY <2>1, StartKept, CloseKept, EndKept DEF DaemonStep
  <2>2. ASSUME NEW d \in Daemons, WatchStep(d) PROVE Kept'
    BY <2>2, ScanKept, TakeKept, MarkKept DEF WatchStep
  <2>3. ASSUME NEW d \in Daemons, NEW sig \in {"hup", "term"}, Signal(d, sig) PROVE Kept'
    BY <2>3, Quiet DEF Signal, diskVars
  <2>4. CASE UNCHANGED vars
    BY <2>4, Quiet DEF vars, procVars, diskVars
  <2> QED BY <2>1, <2>2, <2>3, <2>4, EndKept, RemoveKept, WriterKept, CommandKept DEF Next
<1> QED BY <1>1, <1>2 DEF WInv

LEMMA InitWInv == Init => WInv
<1> SUFFICES ASSUME Init PROVE WInv  OBVIOUS
<1>1. \A d \in Daemons : pc[d] = "off" /\ watch[d] = newWatcher
  BY DEF Init, WatchInit
<1>2. Alone /\ Agree
  BY <1>1 DEF Alone, Agree, Engines, Restored
<1>3. Watches /\ Marking
  BY <1>1 DEF Watches, Marking, newWatcher
<1>4. WatchedKept
  BY DEF Init, WatchInit, WatchedKept
<1> QED BY <1>2, <1>3, <1>4, InitTInv DEF WInv, Kept

\* A file marked .added is in the session file unless the user removed its
\* torrent, and a good one is never marked .failed, over any crashes,
\* restarts and shutdowns in the middle of a scan, for any number of daemons
\* and files, as long as no two engines have been open (watcher.scan, take).
THEOREM WatchedIsKept == Spec => []WatchedKept
<1>1. WInv => WatchedKept
  BY DEF WInv, Kept
<1> QED BY <1>1, InitWInv, NextWInv, PTL DEF Spec

=============================================================================
