----------------------------- MODULE IpcServer -----------------------------
(***************************************************************************)
(* internal/ipc/server.go: acceptLoop, handleConn with its event pump and  *)
(* its searches, dispatch, Close; and of internal/engine/engine.go the     *)
(* event bus: Subscribe, broadcast and the tick that publishes.            *)
(***************************************************************************)
EXTENDS IpcState

at(c, label) == [han EXCEPT ![c] = label]

-----------------------------------------------------------------------------
(* acceptLoop *)

Accept(c) ==
  /\ accepting /\ listening
  /\ svEnd[c] = "backlog"
  /\ svEnd' = [svEnd EXCEPT ![c] = "open"]
  /\ han' = at(c, "track")
  /\ UNCHANGED <<clientVars, listening, accepting, closing, conns, stop, job, pump,
                 searches, engineVars, up, down, main, ran, stopper>>

AcceptEnd ==
  /\ accepting /\ ~listening
  /\ accepting' = FALSE
  /\ UNCHANGED <<clientVars, svEnd, listening, closing, conns, stop, han, job, pump,
                 searches, engineVars, up, down, main, ran, stopper>>

-----------------------------------------------------------------------------
(* handleConn *)

(* Variant for sensitivity: s.closing is not looked at.                    *)
TrackAlways(c) ==
  /\ han[c] = "track"
  /\ conns' = conns \cup {c}
  /\ han' = at(c, "sub")
  /\ UNCHANGED <<clientVars, svEnd, listening, accepting, closing, stop, job, pump,
                 searches, engineVars, up, down, main, ran, stopper>>

(* track: register the connection, or hang up when closeConns has been.    *)
Track(c) ==
  /\ han[c] = "track"
  /\ \/ /\ closing
        /\ han' = at(c, "hangup")
        /\ UNCHANGED conns
     \/ /\ ~closing
        /\ conns' = conns \cup {c}
        /\ han' = at(c, "sub")
  /\ UNCHANGED <<clientVars, svEnd, listening, accepting, closing, stop, job, pump,
                 searches, engineVars, up, down, main, ran, stopper>>

(* Subscribe, under e.mu: the slot is primed with the state as it stands.  *)
(* Then the pump is started.                                               *)
Subscribe(c) ==
  /\ han[c] = "sub"
  /\ sub' = [sub EXCEPT ![c] = [live |-> TRUE, slot |-> version]]
  /\ pump' = [pump EXCEPT ![c].pc = "wait"]
  /\ han' = at(c, "read")
  /\ UNCHANGED <<clientVars, svEnd, listening, accepting, closing, conns, stop, job,
                 searches, version, tick, up, down, main, ran, stopper>>

(* Decode a request.  A search goes on on a goroutine of its own.          *)
ReadRequest(c) ==
  LET r == Head(up[c]) IN
  /\ han[c] = "read" /\ up[c] # <<>>
  /\ up' = [up EXCEPT ![c] = Tail(@)]
  /\ \/ /\ r.kind = "search"
        /\ searches' = [searches EXCEPT ![c] = @ \cup {r}]
        /\ UNCHANGED <<han, job>>
     \/ /\ r.kind # "search"
        /\ han' = at(c, "call")
        /\ job' = [job EXCEPT ![c] = {[req |-> r, out |-> "ok", ev |-> 0]}]
        /\ UNCHANGED searches
  /\ UNCHANGED <<clientVars, svEnd, listening, accepting, closing, conns, stop, pump,
                 engineVars, down, main, ran, stopper>>

ReadFails(c) ==
  /\ han[c] = "read" /\ endOfUp(c)
  /\ han' = at(c, "unsub")
  /\ UNCHANGED <<clientVars, svEnd, listening, accepting, closing, conns, stop, job, pump,
                 searches, engineVars, up, down, main, ran, stopper>>

(* Variant for sensitivity: dispatch itself requests the shutdown.         *)
DispatchStops(c) ==
  /\ han[c] = "call"
  /\ \E j \in job[c] :
       /\ ran' = ran \cup {j.req.of}
       /\ \/ /\ j.req.kind = "change"
             /\ version' = version + 1
             /\ han' = at(c, "build")
             /\ UNCHANGED job
             /\ UNCHANGED <<stop, stopper>>
          \/ /\ j.req.kind = "change"
             /\ han' = at(c, "reply")
             /\ job' = [job EXCEPT ![c] = {[j EXCEPT !.out = "err"]}]
             /\ UNCHANGED version
             /\ UNCHANGED <<stop, stopper>>
          \/ /\ j.req.kind = "shutdown"
             /\ han' = at(c, "reply")
             /\ stop' = TRUE
             /\ stopper' = stopper \cup {j.req.of}
             /\ UNCHANGED <<job, version>>
  /\ UNCHANGED <<clientVars, svEnd, listening, accepting, closing, conns, pump, searches,
                 sub, tick, up, down, main>>

(* dispatch: a change is made under e.mu and then published, or refused.   *)
Dispatch(c) ==
  /\ han[c] = "call"
  /\ \E j \in job[c] :
       /\ ran' = ran \cup {j.req.of}
       /\ \/ /\ j.req.kind = "change"
             /\ version' = version + 1
             /\ han' = at(c, "build")
             /\ UNCHANGED job
          \/ /\ j.req.kind = "change"
             /\ han' = at(c, "reply")
             /\ job' = [job EXCEPT ![c] = {[j EXCEPT !.out = "err"]}]
             /\ UNCHANGED version
          \/ /\ j.req.kind = "shutdown"
             /\ han' = at(c, "reply")
             /\ UNCHANGED <<job, version>>
  /\ UNCHANGED <<clientVars, svEnd, listening, accepting, closing, conns, stop, pump,
                 searches, sub, tick, up, down, main, stopper>>

(* snapshotAndBroadcastNow: the event is built in one critical section...  *)
Build(c) ==
  /\ han[c] = "build"
  /\ job' = [job EXCEPT ![c] = {[j EXCEPT !.ev = version] : j \in @}]
  /\ han' = at(c, "cast")
  /\ UNCHANGED <<clientVars, svEnd, listening, accepting, closing, conns, stop, pump,
                 searches, engineVars, up, down, main, ran, stopper>>

(* broadcast: every live slot gets ev in place of what it holds.           *)
broadcast(ev) ==
  [d \in Clients |-> IF sub[d].live THEN [live |-> TRUE, slot |-> ev] ELSE sub[d]]

(* ... and sent in another.                                                *)
Cast(c) ==
  /\ han[c] = "cast"
  /\ \E j \in job[c] : sub' = broadcast(j.ev)
  /\ han' = at(c, "reply")
  /\ UNCHANGED <<clientVars, svEnd, listening, accepting, closing, conns, stop, job, pump,
                 searches, version, tick, up, down, main, ran, stopper>>

(* send the reply, under writeMu; a shutdown is requested after it.        *)
SendReply(c) ==
  /\ han[c] = "reply"
  /\ \/ /\ broken(c)
        /\ han' = at(c, "unsub")
        /\ UNCHANGED down
     \/ /\ ~broken(c) /\ room(down[c])
        /\ \E j \in job[c] :
             /\ down' = [down EXCEPT ![c] = Append(@, reply(j.req, j.out))]
             /\ han' = at(c, IF j.req.kind = "shutdown" THEN "stop" ELSE "read")
  /\ UNCHANGED <<clientVars, svEnd, listening, accepting, closing, conns, stop, job, pump,
                 searches, engineVars, up, main, ran, stopper>>

(* requestShutdown, and return.                                            *)
RequestShutdown(c) ==
  /\ han[c] = "stop"
  /\ stop' = TRUE
  /\ stopper' = stopper \cup {j.req.of : j \in job[c]}
  /\ han' = at(c, "unsub")
  /\ UNCHANGED <<clientVars, svEnd, listening, accepting, closing, conns, job, pump,
                 searches, engineVars, up, down, main, ran>>

(* The deferred calls, last one first: unsubscribe closes the slot, which  *)
(* the pump may still empty; untrack; close the connection; s.wg.Done.     *)
Unsubscribe(c) ==
  /\ han[c] = "unsub"
  /\ sub' = [sub EXCEPT ![c].live = FALSE]
  /\ han' = at(c, "untrack")
  /\ UNCHANGED <<clientVars, svEnd, listening, accepting, closing, conns, stop, job, pump,
                 searches, version, tick, up, down, main, ran, stopper>>

Untrack(c) ==
  /\ han[c] = "untrack"
  /\ conns' = conns \ {c}
  /\ han' = at(c, "hangup")
  /\ UNCHANGED <<clientVars, svEnd, listening, accepting, closing, stop, job, pump,
                 searches, engineVars, up, down, main, ran, stopper>>

ConnDone(c) ==
  /\ han[c] = "hangup"
  /\ svEnd' = [svEnd EXCEPT ![c] = "closed"]
  /\ han' = at(c, "off")
  /\ UNCHANGED <<clientVars, listening, accepting, closing, conns, stop, job, pump,
                 searches, engineVars, up, down, main, ran, stopper>>

HandlerStep(c) ==
  \/ Track(c) \/ Subscribe(c) \/ ReadRequest(c) \/ ReadFails(c)
  \/ Dispatch(c) \/ Build(c) \/ Cast(c) \/ SendReply(c) \/ RequestShutdown(c)
  \/ Unsubscribe(c) \/ Untrack(c) \/ ConnDone(c)

(* A search: the searcher answers, well or badly, and its goroutine sends  *)
(* the reply, whatever has become of the handler.                          *)
SearchReply(c) ==
  \E r \in searches[c], out \in {"ok", "err"} :
    /\ searches' = [searches EXCEPT ![c] = @ \ {r}]
    /\ ran' = ran \cup {r.of}
    /\ \/ broken(c) /\ UNCHANGED down
       \/ /\ ~broken(c) /\ room(down[c])
          /\ down' = [down EXCEPT ![c] = Append(@, reply(r, out))]
    /\ UNCHANGED <<clientVars, svEnd, listening, accepting, closing, conns, stop, han,
                   job, pump, engineVars, up, main, stopper>>

-----------------------------------------------------------------------------
(* Variant for sensitivity: what a closed channel yields is sent too.      *)
PumpTakeClosed(c) ==
  /\ pump[c].pc = "wait"
  /\ sub[c].slot # Empty \/ ~sub[c].live
  /\ pump' = [pump EXCEPT ![c] = [pc |-> "send", ev |-> sub[c].slot]]
  /\ sub' = [sub EXCEPT ![c].slot = Empty]
  /\ UNCHANGED <<clientVars, svEnd, listening, accepting, closing, conns, stop, han, job,
                 searches, version, tick, up, down, main, ran, stopper>>

(* The event pump of a connection: for ev := range events.                 *)
PumpTake(c) ==
  /\ pump[c].pc = "wait"
  /\ \/ /\ sub[c].slot # Empty
        /\ pump' = [pump EXCEPT ![c] = [pc |-> "send", ev |-> sub[c].slot]]
        /\ sub' = [sub EXCEPT ![c].slot = Empty]
     \/ /\ sub[c].slot = Empty /\ ~sub[c].live
        /\ pump' = [pump EXCEPT ![c].pc = "off"]
        /\ UNCHANGED sub
  /\ UNCHANGED <<clientVars, svEnd, listening, accepting, closing, conns, stop, han, job,
                 searches, version, tick, up, down, main, ran, stopper>>

(* Variant for sensitivity: the pump ends on a socket that is full.        *)
PumpSendGivesUp(c) ==
  /\ pump[c].pc = "send"
  /\ \/ /\ broken(c) \/ ~room(down[c])
        /\ pump' = [pump EXCEPT ![c].pc = "off"]
        /\ UNCHANGED down
     \/ /\ ~broken(c) /\ room(down[c])
        /\ down' = [down EXCEPT ![c] = Append(@, [type |-> "event", ver |-> pump[c].ev])]
        /\ pump' = [pump EXCEPT ![c].pc = "wait"]
  /\ UNCHANGED <<clientVars, svEnd, listening, accepting, closing, conns, stop, han, job,
                 searches, engineVars, up, main, ran, stopper>>

(* A write of an event, under writeMu like the replies.                     *)
PumpSend(c) ==
  /\ pump[c].pc = "send"
  /\ \/ /\ broken(c)
        /\ pump' = [pump EXCEPT ![c].pc = "off"]
        /\ UNCHANGED down
     \/ /\ ~broken(c) /\ room(down[c])
        /\ down' = [down EXCEPT ![c] = Append(@, [type |-> "event", ver |-> pump[c].ev])]
        /\ pump' = [pump EXCEPT ![c].pc = "wait"]
  /\ UNCHANGED <<clientVars, svEnd, listening, accepting, closing, conns, stop, han, job,
                 searches, engineVars, up, main, ran, stopper>>

PumpStep(c) == PumpTake(c) \/ PumpSend(c)

-----------------------------------------------------------------------------
(* The tick, as the subscribers see it: the event is built under e.mu and  *)
(* broadcast at the end, after work that other threads interleave with.    *)
TickBuild ==
  /\ "tick" \in Acts
  /\ tick.pc = "idle" /\ main \notin {"ticks", "down"}
  /\ tick' = [pc |-> "cast", ev |-> version]
  /\ UNCHANGED <<clientVars, serverVars, sub, version, up, down, main, ran, stopper>>

TickCast ==
  /\ tick.pc = "cast"
  /\ sub' = broadcast(tick.ev)
  /\ tick' = [pc |-> "idle", ev |-> 0]
  /\ UNCHANGED <<clientVars, serverVars, version, up, down, main, ran, stopper>>

TickStep == TickBuild \/ TickCast

-----------------------------------------------------------------------------
(* The daemon's main goroutine: it waits for a signal or a shutdown        *)
(* request, then srv.Close and, under it, eng.Close.                       *)
Asked ==
  /\ main = "serve" /\ stop
  /\ main' = "lnclose"
  /\ UNCHANGED <<clientVars, serverVars, engineVars, up, down, ran, stopper>>

Signal ==
  /\ "signal" \in Acts
  /\ main = "serve"
  /\ main' = "lnclose"
  /\ UNCHANGED <<clientVars, serverVars, engineVars, up, down, ran, stopper>>

(* s.ln.Close: connections nobody has accepted are reset.                  *)
CloseListener ==
  /\ main = "lnclose"
  /\ listening' = FALSE
  /\ svEnd' = [c \in Clients |-> IF svEnd[c] = "backlog" THEN "closed" ELSE svEnd[c]]
  /\ main' = "conns"
  /\ UNCHANGED <<clientVars, accepting, closing, conns, stop, han, job, pump, searches,
                 engineVars, up, down, ran, stopper>>

(* closeConns, under s.connMu.                                             *)
CloseConns ==
  /\ main = "conns"
  /\ closing' = TRUE
  /\ svEnd' = [c \in Clients |-> IF c \in conns THEN "closed" ELSE svEnd[c]]
  /\ main' = "wait"
  /\ UNCHANGED <<clientVars, listening, accepting, conns, stop, han, job, pump, searches,
                 engineVars, up, down, ran, stopper>>

(* Variant for sensitivity: the handlers are not waited for.               *)
WaitAccept ==
  /\ main = "wait"
  /\ ~accepting
  /\ main' = "engine"
  /\ UNCHANGED <<clientVars, serverVars, engineVars, up, down, ran, stopper>>

(* s.wg.Wait, after which the socket is removed and the lock released.     *)
WaitHandlers ==
  /\ main = "wait"
  /\ ~accepting
  /\ \A c \in Clients : han[c] = "off"
  /\ main' = "engine"
  /\ UNCHANGED <<clientVars, serverVars, engineVars, up, down, ran, stopper>>

(* eng.Close: tell the tick loop, wait for it, close every subscription.   *)
CloseEngine ==
  /\ main = "engine"
  /\ main' = "ticks"
  /\ UNCHANGED <<clientVars, serverVars, engineVars, up, down, ran, stopper>>

EngineClosed ==
  /\ main = "ticks" /\ tick.pc = "idle"
  /\ sub' = [c \in Clients |-> [sub[c] EXCEPT !.live = FALSE]]
  /\ main' = "down"
  /\ UNCHANGED <<clientVars, serverVars, version, tick, up, down, ran, stopper>>

MainStep ==
  \/ Asked \/ CloseListener \/ CloseConns \/ WaitHandlers
  \/ CloseEngine \/ EngineClosed
=============================================================================
