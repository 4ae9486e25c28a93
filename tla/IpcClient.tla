----------------------------- MODULE IpcClient -----------------------------
(***************************************************************************)
(* internal/ipc/client.go: Dial, Close, callFor and readLoop.              *)
(***************************************************************************)
EXTENDS IpcState

(* Dial reaches the listener's backlog and starts readLoop.  When nobody   *)
(* listens it returns an error and there is no Client.                     *)
Dial(c) ==
  /\ clEnd[c] = "none"
  /\ listening
  /\ clEnd' = [clEnd EXCEPT ![c] = "open"]
  /\ svEnd' = [svEnd EXCEPT ![c] = "backlog"]
  /\ reader' = [reader EXCEPT ![c] = "read"]
  /\ UNCHANGED <<up, down, seq, pending, hand, events, shut, call, box, last,
                 listening, accepting, closing, conns, stop, han, job, pump, searches,
                 engineVars, main, ran, stopper>>

-----------------------------------------------------------------------------
(* callFor *)

(* Variant for sensitivity: numbers are reused once no call is pending.    *)
RegisterReuse(g, k) ==
  LET c == Owner[g]
      n == call[g].n + 1
      s == IF pending[c] = {} THEN 1 ELSE seq[c] + 1 IN
  /\ call[g].pc = "idle"
  /\ call[g].n < MaxCalls[g]
  /\ clEnd[c] # "none"
  /\ seq' = [seq EXCEPT ![c] = s]
  /\ pending' = [pending EXCEPT ![c] = @ \cup {[seq |-> s, ch |-> <<g, n>>]}]
  /\ call' = [call EXCEPT ![g] = [pc |-> "send", n |-> n, seq |-> s, kind |-> k]]
  /\ UNCHANGED <<clEnd, reader, hand, events, shut, box, last, serverVars, engineVars,
                 up, down, main, ran, stopper>>

(* Its first critical section of c.mu: number the request, register the    *)
(* reply channel.                                                          *)
Register(g, k) ==
  LET c == Owner[g]
      n == call[g].n + 1 IN
  /\ call[g].pc = "idle"
  /\ call[g].n < MaxCalls[g]
  /\ clEnd[c] # "none"
  /\ seq' = [seq EXCEPT ![c] = @ + 1]
  /\ pending' = [pending EXCEPT ![c] = @ \cup {[seq |-> seq[c] + 1, ch |-> <<g, n>>]}]
  /\ call' = [call EXCEPT ![g] = [pc |-> "send", n |-> n, seq |-> seq[c] + 1, kind |-> k]]
  /\ UNCHANGED <<clEnd, reader, hand, events, shut, box, last, serverVars, engineVars,
                 up, down, main, ran, stopper>>

(* The exported methods of Client: each fills in a request and makes this  *)
(* call, ResolveLinks once for every link.                                 *)
Call(g) == \E k \in Kinds : Register(g, k)

requestOf(g) == [seq |-> call[g].seq, of |-> <<g, call[g].n>>, kind |-> call[g].kind]

(* Variant for sensitivity: a write may fail after the request has gone    *)
(* out, as one with a deadline would.                                      *)
EncodeDeadline(g) ==
  LET c == Owner[g] IN
  /\ call[g].pc = "send"
  /\ \/ /\ broken(c)
        /\ call' = [call EXCEPT ![g].pc = "unsend"]
        /\ UNCHANGED up
     \/ /\ ~broken(c) /\ room(up[c])
        /\ up' = [up EXCEPT ![c] = Append(@, requestOf(g))]
        /\ \E label \in {"wait", "unsend"} : call' = [call EXCEPT ![g].pc = label]
  /\ UNCHANGED <<clEnd, seq, pending, reader, hand, events, shut, box, last,
                 serverVars, engineVars, down, main, ran, stopper>>

(* The write, under c.writeMu: it waits for room in the socket buffer.     *)
Encode(g) ==
  LET c == Owner[g] IN
  /\ call[g].pc = "send"
  /\ \/ /\ broken(c)
        /\ call' = [call EXCEPT ![g].pc = "unsend"]
        /\ UNCHANGED up
     \/ /\ ~broken(c) /\ room(up[c])
        /\ up' = [up EXCEPT ![c] = Append(@, requestOf(g))]
        /\ call' = [call EXCEPT ![g].pc = "wait"]
  /\ UNCHANGED <<clEnd, seq, pending, reader, hand, events, shut, box, last,
                 serverVars, engineVars, down, main, ran, stopper>>

(* Return from callFor with an answer of the call named of.                *)
Return(g, out, of) ==
  /\ call' = [call EXCEPT ![g].pc = "idle"]
  /\ last' = [last EXCEPT ![g] = [n |-> call[g].n, of |-> of, out |-> out,
                                  kind |-> call[g].kind]]

(* delete(c.pending, req.Seq), and return an error: after a failed write   *)
(* or the timeout.                                                         *)
Forget(g) ==
  LET c == Owner[g] IN
  /\ call[g].pc \in {"unsend", "giveup"}
  /\ pending' = [pending EXCEPT ![c] = {e \in @ : e.seq # call[g].seq}]
  /\ Return(g, IF call[g].pc = "unsend" THEN "send" ELSE "timeout", <<g, call[g].n>>)
  /\ UNCHANGED <<clEnd, seq, reader, hand, events, shut, box, serverVars, engineVars,
                 up, down, main, ran, stopper>>

(* The select: the reply, the client being closed, or the timer.           *)
WaitReply(g) ==
  /\ call[g].pc = "wait"
  /\ \E l \in box :
       /\ l.ch = <<g, call[g].n>>
       /\ box' = box \ {l}
       /\ Return(g, l.out, l.of)
  /\ UNCHANGED <<clEnd, seq, pending, reader, hand, events, shut, serverVars, engineVars,
                 up, down, main, ran, stopper>>

WaitClosed(g) ==
  /\ call[g].pc = "wait"
  /\ shut[Owner[g]]
  /\ Return(g, "closed", <<g, call[g].n>>)
  /\ UNCHANGED <<clEnd, seq, pending, reader, hand, events, shut, box, serverVars,
                 engineVars, up, down, main, ran, stopper>>

WaitTimeout(g) ==
  /\ "timeout" \in Acts
  /\ call[g].pc = "wait"
  /\ call' = [call EXCEPT ![g].pc = "giveup"]
  /\ UNCHANGED <<clEnd, seq, pending, reader, hand, events, shut, box, last, serverVars,
                 engineVars, up, down, main, ran, stopper>>

(* Everything of a call that happens by itself; the timer is not counted   *)
(* on.                                                                     *)
CallStep(g) == Encode(g) \/ Forget(g) \/ WaitReply(g) \/ WaitClosed(g)

-----------------------------------------------------------------------------
(* readLoop *)

(* pushEvent: put the event in the slot of c.events, in place of an older  *)
(* one the consumer has not taken.  There is one sender, so whatever the   *)
(* consumer does meanwhile this is the event it reads next, if it reads.   *)
pushEvent(c, ver) == [events EXCEPT ![c] = ver]

(* Variant for sensitivity: the entry stays until its caller returns.      *)
ReadReplyKeeps(c) ==
  LET m == Head(down[c]) IN
  /\ reader[c] = "read" /\ hand[c] = {} /\ down[c] # <<>> /\ m.type = "reply"
  /\ down' = [down EXCEPT ![c] = Tail(@)]
  /\ \E e \in pending[c] :
       /\ e.seq = m.seq
       /\ hand' = [hand EXCEPT ![c] = {[ch |-> e.ch, of |-> m.of, out |-> m.out]}]
  /\ UNCHANGED <<clEnd, seq, pending, reader, events, shut, call, box, last, serverVars,
                 engineVars, up, main, ran, stopper>>

(* A reply, decoded and looked up: its entry is deleted under c.mu, the    *)
(* send to its channel comes after.  A reply nobody waits for is dropped.  *)
ReadReply(c) ==
  LET m == Head(down[c]) IN
  /\ reader[c] = "read" /\ hand[c] = {} /\ down[c] # <<>> /\ m.type = "reply"
  /\ down' = [down EXCEPT ![c] = Tail(@)]
  /\ pending' = [pending EXCEPT ![c] = {e \in @ : e.seq # m.seq}]
  /\ \/ /\ \A e \in pending[c] : e.seq # m.seq
        /\ UNCHANGED hand
     \/ \E e \in pending[c] :
          /\ e.seq = m.seq
          /\ hand' = [hand EXCEPT ![c] = {[ch |-> e.ch, of |-> m.of, out |-> m.out]}]
  /\ UNCHANGED <<clEnd, seq, reader, events, shut, call, box, last, serverVars, engineVars,
                 up, main, ran, stopper>>

(* Variant for sensitivity: the read loop waits for the consumer, which    *)
(* has stopped reading.                                                    *)
ReadEventBlocking(c) ==
  LET m == Head(down[c]) IN
  /\ reader[c] = "read" /\ hand[c] = {} /\ down[c] # <<>> /\ m.type = "event"
  /\ events[c] = Empty
  /\ down' = [down EXCEPT ![c] = Tail(@)]
  /\ events' = pushEvent(c, m.ver)
  /\ UNCHANGED <<clEnd, seq, pending, reader, hand, shut, call, box, last, serverVars,
                 engineVars, up, main, ran, stopper>>

ReadEvent(c) ==
  LET m == Head(down[c]) IN
  /\ reader[c] = "read" /\ hand[c] = {} /\ down[c] # <<>> /\ m.type = "event"
  /\ down' = [down EXCEPT ![c] = Tail(@)]
  /\ events' = pushEvent(c, m.ver)
  /\ UNCHANGED <<clEnd, seq, pending, reader, hand, shut, call, box, last, serverVars,
                 engineVars, up, main, ran, stopper>>

(* ch <- msg.Resp: a reply channel holds one.                              *)
Deliver(c) ==
  /\ \E l \in hand[c] :
       /\ \A m \in box : m.ch # l.ch
       /\ box' = box \cup {l}
  /\ hand' = [hand EXCEPT ![c] = {}]
  /\ UNCHANGED <<clEnd, seq, pending, reader, events, shut, call, last, serverVars,
                 engineVars, up, down, main, ran, stopper>>

(* The connection is gone: failAllPending, under c.mu, and close(c.events).*)
ReadEnd(c) ==
  /\ reader[c] = "read" /\ hand[c] = {} /\ endOfDown(c)
  /\ \A e \in pending[c], l \in box : l.ch # e.ch
  /\ box' = box \cup {[ch |-> e.ch, of |-> e.ch, out |-> "lost"] : e \in pending[c]}
  /\ pending' = [pending EXCEPT ![c] = {}]
  /\ reader' = [reader EXCEPT ![c] = "end"]
  /\ UNCHANGED <<clEnd, seq, hand, events, shut, call, last, serverVars, engineVars,
                 up, down, main, ran, stopper>>

ReadStep(c) == ReadReply(c) \/ ReadEvent(c) \/ Deliver(c) \/ ReadEnd(c)

-----------------------------------------------------------------------------
(* Close: tell the callers, then hang up.                                  *)
CloseClient(c) ==
  /\ "close" \in Acts
  /\ clEnd[c] = "open"
  /\ ~shut[c]
  /\ shut' = [shut EXCEPT ![c] = TRUE]
  /\ UNCHANGED <<clEnd, seq, pending, reader, hand, events, call, box, last, serverVars,
                 engineVars, up, down, main, ran, stopper>>

HangUp(c) ==
  /\ clEnd[c] = "open"
  /\ shut[c]
  /\ clEnd' = [clEnd EXCEPT ![c] = "closed"]
  /\ UNCHANGED <<seq, pending, reader, hand, events, shut, call, box, last, serverVars,
                 engineVars, up, down, main, ran, stopper>>
=============================================================================
