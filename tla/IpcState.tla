------------------------------ MODULE IpcState ------------------------------
(***************************************************************************)
(* The state of internal/ipc: client objects and the goroutines that call  *)
(* through them, the connections, the server's handlers and event pumps,   *)
(* and the engine's event bus.                                             *)
(*                                                                         *)
(* A Client object is one connection: Dial makes a new one, so a redial is *)
(* another member of Clients.  A connection is two byte streams, kept as   *)
(* sequences of at most Buf messages: a write waits for room, and fails as *)
(* soon as either end is closed; a read gets what was written before the   *)
(* other end closed, and then the end of the stream.                       *)
(*                                                                         *)
(* A step is one critical section of a mutex, one read or write of a       *)
(* connection, or one channel operation.                                   *)
(***************************************************************************)
EXTENDS Integers, Sequences

CONSTANTS
  Clients,    \* Client objects, each with its connection
  Gos,        \* goroutines that make calls
  Owner,      \* the client a goroutine calls through
  Kinds,      \* the kinds of call made, of CallKinds
  Acts,       \* what happens in this instance, of Happenings
  Buf,        \* bound: messages a socket buffer holds
  MaxCalls    \* bound: calls each goroutine makes

(* What the methods of protocol.go do to this state.  "change": calls the  *)
(* engine, which may refuse, and publishes; a query is served like a       *)
(* change that is refused, with nothing changed and nothing published.     *)
(* "search": Search and ResolveLink, which get a goroutine of their own.   *)
CallKinds == {"change", "search", "shutdown"}

(* What an instance may leave out: the tick loop, callers that give up,    *)
(* clients that close, signals to the daemon.                              *)
Happenings == {"tick", "timeout", "close", "signal"}

ASSUME IpcAssumption ==
  /\ Owner \in [Gos -> Clients]
  /\ Kinds \subseteq CallKinds
  /\ Acts \subseteq Happenings
  /\ Buf \in Nat \ {0}
  /\ MaxCalls \in [Gos -> Nat]

VARIABLES
  clEnd,    \* client -> its end of the connection
  svEnd,    \* client -> the server's end of it
  up,       \* client -> requests written and not read
  down,     \* client -> replies and events written and not read
  seq,      \* client -> c.seq
  pending,  \* client -> c.pending, as a set of [seq, ch]
  reader,   \* client -> its readLoop
  hand,     \* client -> the reply readLoop has looked up and not handed on
  events,   \* client -> the newest event its consumer has been given
  shut,     \* client -> is c.closed closed
  call,     \* goroutine -> its call of callFor
  box,      \* what is in the reply channels
  last      \* goroutine -> the answer its last call returned

VARIABLES
  listening,  \* is the listener open
  accepting,  \* is acceptLoop running (its count in s.wg)
  closing,    \* s.closing
  conns,      \* s.conns
  stop,       \* is s.shutdown closed
  han,        \* client -> its handleConn (its count in s.wg)
  job,        \* client -> the request its handler is serving
  pump,       \* client -> the goroutine that sends it events
  searches,   \* client -> searches running on goroutines of their own
  sub,        \* client -> the handler's subscription to the engine
  version,    \* the engine's state, as the number of changes made to it
  tick,       \* the tick loop
  main,       \* the daemon's main goroutine
  ran,        \* history: the calls dispatch has run
  stopper     \* history: the calls that asked for the shutdown

clientVars == <<clEnd, seq, pending, reader, hand, events, shut, call, box, last>>
serverVars == <<svEnd, listening, accepting, closing, conns, stop, han, job, pump,
                searches>>
engineVars == <<sub, version, tick>>
vars == <<clientVars, serverVars, engineVars, up, down, main, ran, stopper>>

(* The reply channel callFor makes: one per call, so it names the call.    *)
Chan == Gos \X Nat

(* A call's way through callFor, a handler's through handleConn, and main's*)
(* through the shutdown of the daemon.                                     *)
CallPcs == {"idle", "send", "unsend", "wait", "giveup"}
HanPcs  == {"off", "track", "sub", "read", "call", "build", "cast", "reply", "stop",
            "unsub", "untrack", "hangup"}
MainPcs == {"serve", "lnclose", "conns", "wait", "engine", "ticks", "down"}

(* What a call returns: the daemon's OK or error, "lost" from              *)
(* failAllPending, a failed write, the client closed, or the timeout.      *)
Outcomes == {"ok", "err", "lost", "send", "closed", "timeout"}

(* On the wire.  Only seq travels with a reply; of says which call it      *)
(* answers, and nothing reads it but the properties.                       *)
Request == [seq : Nat, of : Chan, kind : CallKinds]
Reply   == [type : {"reply"}, seq : Nat, of : Chan, out : {"ok", "err"}]
Event   == [type : {"event"}, ver : Nat]

reply(req, out) == [type |-> "reply", seq |-> req.seq, of |-> req.of, out |-> out]

(* A channel of events with a buffer of one: the event's state, or Empty.  *)
Empty == -1
Slot  == Nat \cup {Empty}

(* An entry of c.pending, a reply on its way to a channel, and a request   *)
(* being served: with its answer and the event built for it.               *)
Entry  == [seq : Nat, ch : Chan]
Letter == [ch : Chan, of : Chan, out : Outcomes]
Job    == [req : Request, out : {"ok", "err"}, ev : Nat]

ConnTypes ==
  /\ clEnd \in [Clients -> {"none", "open", "closed"}]
  /\ svEnd \in [Clients -> {"none", "backlog", "open", "closed"}]
  /\ up \in [Clients -> Seq(Request)]
  /\ down \in [Clients -> Seq(Reply \cup Event)]

ClientTypes ==
  /\ seq \in [Clients -> Nat]
  /\ pending \in [Clients -> SUBSET Entry]
  /\ reader \in [Clients -> {"off", "read", "end"}]
  /\ hand \in [Clients -> SUBSET Letter]
  /\ events \in [Clients -> Slot]
  /\ shut \in [Clients -> BOOLEAN]
  /\ call \in [Gos -> [pc : CallPcs, n : Nat, seq : Nat, kind : CallKinds]]
  /\ box \subseteq Letter
  /\ last \in [Gos -> [n : Nat, of : Chan, out : Outcomes, kind : CallKinds]]

ServerTypes ==
  /\ listening \in BOOLEAN /\ accepting \in BOOLEAN
  /\ closing \in BOOLEAN /\ stop \in BOOLEAN
  /\ conns \subseteq Clients
  /\ han \in [Clients -> HanPcs]
  /\ job \in [Clients -> SUBSET Job]
  /\ pump \in [Clients -> [pc : {"off", "wait", "send"}, ev : Nat]]
  /\ searches \in [Clients -> SUBSET Request]
  /\ main \in MainPcs

EngineTypes ==
  /\ sub \in [Clients -> [live : BOOLEAN, slot : Slot]]
  /\ version \in Nat
  /\ tick \in [pc : {"idle", "cast"}, ev : Nat]
  /\ ran \subseteq Chan
  /\ stopper \subseteq Chan

TypeOK == ConnTypes /\ ClientTypes /\ ServerTypes /\ EngineTypes

-----------------------------------------------------------------------------
(* The connection, as both sides use it.                                   *)

(* Does a write fail?                                                      *)
broken(c) == clEnd[c] = "closed" \/ svEnd[c] = "closed"

room(s) == Len(s) < Buf

(* A closed end reads as an error, but the decoder may hold messages it    *)
(* has read already; a connection the other side closed reads to its end.  *)
endOfUp(c)   == svEnd[c] = "closed" \/ (clEnd[c] = "closed" /\ up[c] = <<>>)
endOfDown(c) == clEnd[c] = "closed" \/ (svEnd[c] = "closed" /\ down[c] = <<>>)
=============================================================================
