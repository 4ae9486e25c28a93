-------------------------------- MODULE Ipc --------------------------------
(***************************************************************************)
(* The daemon's server and its clients together.                           *)
(***************************************************************************)
EXTENDS IpcClient, IpcServer

Init ==
  /\ clEnd = [c \in Clients |-> "none"]
  /\ svEnd = [c \in Clients |-> "none"]
  /\ up = [c \in Clients |-> <<>>]
  /\ down = [c \in Clients |-> <<>>]
  /\ seq = [c \in Clients |-> 0]
  /\ pending = [c \in Clients |-> {}]
  /\ reader = [c \in Clients |-> "off"]
  /\ hand = [c \in Clients |-> {}]
  /\ events = [c \in Clients |-> Empty]
  /\ shut = [c \in Clients |-> FALSE]
  /\ call = [g \in Gos |-> [pc |-> "idle", n |-> 0, seq |-> 0, kind |-> "change"]]
  /\ box = {}
  /\ last = [g \in Gos |-> [n |-> 0, of |-> <<g, 0>>, out |-> "ok", kind |-> "change"]]
  /\ listening = TRUE
  /\ accepting = TRUE
  /\ closing = FALSE
  /\ conns = {}
  /\ stop = FALSE
  /\ han = [c \in Clients |-> "off"]
  /\ job = [c \in Clients |-> {}]
  /\ pump = [c \in Clients |-> [pc |-> "off", ev |-> 0]]
  /\ searches = [c \in Clients |-> {}]
  /\ sub = [c \in Clients |-> [live |-> FALSE, slot |-> Empty]]
  /\ version = 0
  /\ tick = [pc |-> "idle", ev |-> 0]
  /\ main = "serve"
  /\ ran = {}
  /\ stopper = {}

Next ==
  \/ \E c \in Clients :
       \/ Dial(c) \/ ReadStep(c) \/ CloseClient(c) \/ HangUp(c)
       \/ Accept(c) \/ HandlerStep(c) \/ PumpStep(c) \/ SearchReply(c)
  \/ \E g \in Gos :
       Call(g) \/ CallStep(g) \/ WaitTimeout(g)
  \/ AcceptEnd \/ TickStep \/ MainStep \/ Signal

Spec == Init /\ [][Next]_vars

(* Every goroutine that can run is run.  A writer waits in a queue for     *)
(* writeMu and holds it while the socket is full, so the pump, which the   *)
(* tick keeps busy, cannot for ever write before a reply: strong fairness  *)
(* for the replies.  Nobody has to dial, call, close or send a signal, and *)
(* no timer is relied on.                                                  *)
Fairness ==
  /\ \A g \in Gos : WF_vars(CallStep(g))
  /\ \A c \in Clients :
       /\ WF_vars(ReadStep(c)) /\ WF_vars(HangUp(c))
       /\ WF_vars(Accept(c)) /\ WF_vars(HandlerStep(c)) /\ WF_vars(PumpStep(c))
       /\ SF_vars(SendReply(c)) /\ SF_vars(SearchReply(c))
  /\ WF_vars(AcceptEnd) /\ WF_vars(TickStep) /\ WF_vars(MainStep)

FairSpec == Spec /\ Fairness

-----------------------------------------------------------------------------
(* A call returns an answer to itself: the reply of a call that timed out  *)
(* never reaches a later one, and replies that overtake each other are     *)
(* told apart (client.go, callFor and readLoop).                           *)
AnswerMatches == \A g \in Gos : last[g].of = <<g, last[g].n>>

(* The read loop never finds a reply channel full, not even in             *)
(* failAllPending, where it would block with c.mu held (client.go,         *)
(* readLoop and failAllPending).                                           *)
ReplySlotFree ==
  \A c \in Clients, l \in box :
    /\ \A h \in hand[c] : l.ch # h.ch
    /\ \A e \in pending[c] : l.ch # e.ch

(* Once Close has removed the socket and released the lock nobody is       *)
(* served any more: no handler runs that could call into the engine that   *)
(* is closed next (server.go, Close and track).                            *)
DrainedBeforeEngineClose ==
  main \in {"engine", "ticks", "down"} =>
    /\ conns = {}
    /\ \A c \in Clients : han[c] = "off" /\ svEnd[c] \in {"none", "closed"}

(* The caller whose request stops the daemon is told so, unless it gave up *)
(* or closed its own connection: the hang-up does not overtake the reply   *)
(* (server.go, handleConn: "triggering it first would race the write").    *)
ShutdownAnswered ==
  \A g \in Gos :
    <<g, last[g].n>> \in stopper =>
      last[g].out \in {"ok", "timeout"} \/ shut[Owner[g]]

(* The abstract promise: run at most once, answered once and truthfully.   *)
Promise == INSTANCE Rpc WITH
  asked  <- [g \in Gos |-> call[g].n],
  answer <- [g \in Gos |-> [n |-> last[g].n, out |-> last[g].out]]
CallPromise == Promise!Spec

(* Every call returns without its timer: a lost connection, a closed       *)
(* client, a full socket buffer or a consumer that has stopped reading     *)
(* events never leave one waiting (client.go, callFor and readLoop).       *)
CallsEnd == \A g \in Gos : (call[g].pc # "idle") ~> (call[g].pc = "idle")

(* Close ends, whatever is connected, dialling or in the middle of a call  *)
(* (server.go, Close).                                                     *)
CloseEnds == (main = "lnclose") ~> (main = "down")

(* A client that stays connected to a daemon that goes on running is given *)
(* the daemon's newest state in the end, although older events overtake    *)
(* newer ones (engine.go, broadcast and tick; client.go, pushEvent).       *)
Attached(c) == clEnd[c] = "open" /\ main = "serve" /\ han[c] = "read"
EventsCatchUp ==
  \A c \in Clients : <>[]Attached(c) => <>[](events[c] = version)

-----------------------------------------------------------------------------
(* The inductive invariant behind AnswerMatches and ReplySlotFree, which   *)
(* IpcProofs uses.                                                         *)

(* A sequence number s in circulation on c stands for the call t: it is    *)
(* not a number still to be given, and an entry that has it is t's.        *)
Names(c, s, t) ==
  /\ s \in 0..seq[c]
  /\ \A e \in pending[c] : e.seq = s => e.ch = t

(* Whatever carries a number on its way from a caller to the server and    *)
(* back names its call.                                                    *)
UpNames ==
  \A c \in Clients : \A i \in 1..Len(up[c]) : Names(c, up[c][i].seq, up[c][i].of)
DownNames ==
  \A c \in Clients : \A i \in 1..Len(down[c]) :
    down[c][i].type = "reply" => Names(c, down[c][i].seq, down[c][i].of)
JobNames ==
  \A c \in Clients : \A j \in job[c] : Names(c, j.req.seq, j.req.of)
SearchNames ==
  \A c \in Clients : \A r \in searches[c] : Names(c, r.seq, r.of)
CallNames ==
  \A g \in Gos : Names(Owner[g], call[g].seq, <<g, call[g].n>>)
PendingKnown ==
  \A c \in Clients : \A e \in pending[c] : e.seq <= seq[c]

SeqsNameCalls ==
  UpNames /\ DownNames /\ JobNames /\ SearchNames /\ CallNames /\ PendingKnown

(* Each reply channel is in one place: registered, in the read loop's      *)
(* hand, or filled; it belongs to a call that has been made, through the   *)
(* client that has it; and what is sent to it answers that call.           *)
Made(ch) == ch[2] <= call[ch[1]].n
ChansOnce ==
  /\ \A c \in Clients :
       /\ \A e \in pending[c] : Owner[e.ch[1]] = c /\ Made(e.ch)
       /\ \A e, f \in pending[c] : e.ch = f.ch => e = f
       /\ \A e \in pending[c], l \in box : l.ch # e.ch
       /\ \A h \in hand[c] :
            /\ Owner[h.ch[1]] = c /\ Made(h.ch) /\ h.of = h.ch
            /\ \A e \in pending[c] : e.ch # h.ch
            /\ \A l \in box : l.ch # h.ch
  /\ \A l \in box : l.of = l.ch /\ Made(l.ch)

IpcInv == TypeOK /\ SeqsNameCalls /\ ChansOnce /\ AnswerMatches
=============================================================================
