----------------------------- MODULE IpcProofs -----------------------------
(***************************************************************************)
(* For any clients, callers, calls and buffer: every variable keeps its    *)
(* type, a call returns an answer to itself, and the read loop's sends to  *)
(* reply channels never wait; nobody is served once the engine is being    *)
(* closed; the clients and the server together implement Rpc; and the      *)
(* caller that stops the daemon is answered.                               *)
(*                                                                         *)
(* AnswerMatches is not inductive: a reply finds its caller through two    *)
(* tables, seq to channel in c.pending and channel to caller, with the     *)
(* number travelling through up, job or searches, and down in between.     *)
(* SeqsNameCalls carries the first table (a number in circulation names    *)
(* one call), ChansOnce the second (a channel is in one place).  IpcInv    *)
(* is their conjunction with TypeOK.                                       *)
(***************************************************************************)
EXTENDS Ipc, TLAPS

USE IpcAssumption

-----------------------------------------------------------------------------
(* Types of what the steps put into records and sequences.                 *)

CallRec == [pc : CallPcs, n : Nat, seq : Nat, kind : CallKinds]

(* The types most steps need.                                              *)
LEMMA ConnFacts ==
  ASSUME TypeOK
  PROVE  /\ up \in [Clients -> Seq(Request)]
         /\ down \in [Clients -> Seq(Reply \cup Event)]
         /\ pending \in [Clients -> SUBSET Entry]
         /\ hand \in [Clients -> SUBSET Letter]
         /\ job \in [Clients -> SUBSET Job]
BY DEF TypeOK, ConnTypes, ClientTypes, ServerTypes

LEMMA CallTypes ==
  ASSUME TypeOK
  PROVE  call \in [Gos -> CallRec] /\ {"idle", "wait", "unsend", "giveup"} \subseteq CallPcs
BY DEF TypeOK, ClientTypes, CallRec, CallPcs

(* A step that moves a record on keeps its other fields.                   *)
LEMMA CallAt ==
  ASSUME call \in [Gos -> CallRec], NEW g \in Gos, NEW x \in CallPcs
  PROVE  [call EXCEPT ![g].pc = x] \in [Gos -> CallRec]
BY DEF CallRec

LEMMA SubLive ==
  ASSUME EngineTypes, NEW c \in Clients
  PROVE  [sub EXCEPT ![c].live = FALSE] \in [Clients -> [live : BOOLEAN, slot : Slot]]
BY DEF EngineTypes

LEMMA PumpPc ==
  ASSUME ServerTypes, NEW c \in Clients, NEW x \in {"off", "wait", "send"}
  PROVE  [pump EXCEPT ![c].pc = x] \in [Clients -> [pc : {"off", "wait", "send"}, ev : Nat]]
BY DEF ServerTypes

LEMMA JobEv ==
  ASSUME ServerTypes, NEW c \in Clients, version \in Nat
  PROVE  [job EXCEPT ![c] = {[j EXCEPT !.ev = version] : j \in @}]
           \in [Clients -> SUBSET Job]
BY DEF ServerTypes, Job

(* Messages taken from a connection and put on it.                         *)
LEMMA HeadUp ==
  ASSUME ConnTypes, NEW c \in Clients, up[c] # <<>>
  PROVE Head(up[c]) \in Request /\ [up EXCEPT ![c] = Tail(@)] \in [Clients -> Seq(Request)]
BY DEF ConnTypes

LEMMA HeadDown ==
  ASSUME ConnTypes, NEW c \in Clients, down[c] # <<>>
  PROVE  /\ Head(down[c]) \in Reply \cup Event
         /\ [down EXCEPT ![c] = Tail(@)] \in [Clients -> Seq(Reply \cup Event)]
BY DEF ConnTypes

LEMMA PushDown ==
  ASSUME ConnTypes, NEW c \in Clients, NEW m \in Reply \cup Event
  PROVE [down EXCEPT ![c] = Append(@, m)] \in [Clients -> Seq(Reply \cup Event)]
BY DEF ConnTypes

LEMMA EventMsg == ASSUME NEW v \in Nat PROVE [type |-> "event", ver |-> v] \in Event
BY DEF Event

LEMMA ReplyMsg ==
  ASSUME NEW r \in Request, NEW o \in {"ok", "err"}
  PROVE  reply(r, o) \in Reply
BY DEF reply, Reply, Request

LEMMA HeadKinds ==
  ASSUME NEW m \in Reply \cup Event
  PROVE /\ m.type = "reply" => m \in Reply 
        /\ m.type = "event" => m.ver \in Nat
BY DEF Reply, Event

(* Type correctness, one step per action.                                  *)
LEMMA CallerKeepsTypes ==
  ASSUME TypeOK, NEW g \in Gos
  PROVE  /\ Call(g) => TypeOK'
         /\ CallStep(g) => TypeOK'
         /\ WaitTimeout(g) => TypeOK'
<1> USE DEF TypeOK, ConnTypes, ClientTypes, clientVars, serverVars, engineVars
<1>0. UNCHANGED <<serverVars, engineVars, main, ran, stopper>>
        => ServerTypes' /\ EngineTypes'
  BY DEF ServerTypes, EngineTypes
<1>1. ASSUME NEW k \in Kinds, Register(g, k)
      PROVE  TypeOK'
  BY <1>0, <1>1 DEF Register, CallKinds, CallPcs, Entry, Chan
<1>2. Encode(g) => TypeOK'
  <2> SUFFICES ASSUME Encode(g) PROVE TypeOK'
    OBVIOUS
  <2>1. call' \in [Gos -> CallRec]
    <3> HIDE DEF TypeOK, ClientTypes, ConnTypes
    <3> QED BY CallTypes, CallAt DEF Encode
  <2>2. requestOf(g) \in Request
    BY DEF requestOf, Request, Chan, CallRec
  <2>3. up' \in [Clients -> Seq(Request)]
    <3> HIDE DEF TypeOK, ConnTypes, ClientTypes
    <3>1. CASE UNCHANGED up
      BY <3>1, ConnFacts
    <3>2. CASE up' = [up EXCEPT ![Owner[g]] = Append(@, requestOf(g))]
      BY <2>2, <3>2, ConnFacts
    <3> QED BY <3>1, <3>2 DEF Encode
  <2>4. QED
    BY <1>0, <2>1, <2>3 DEF Encode, CallRec
<1>3. Forget(g) => TypeOK'
  <2> SUFFICES ASSUME Forget(g) PROVE TypeOK'
    OBVIOUS
  <2>1. call' \in [Gos -> CallRec]
    <3> HIDE DEF TypeOK, ClientTypes, ConnTypes
    <3> QED BY CallTypes, CallAt DEF Forget, Return
  <2>2. last' \in [Gos -> [n : Nat, of : Chan, out : Outcomes, kind : CallKinds]]
    BY DEF Forget, Return, Letter, Chan, Outcomes
  <2>3. QED
    BY <1>0, <2>1, <2>2 DEF Forget, CallRec
<1>4. WaitReply(g) => TypeOK'
  <2> SUFFICES ASSUME WaitReply(g) PROVE TypeOK'
    OBVIOUS
  <2>1. call' \in [Gos -> CallRec]
    <3> HIDE DEF TypeOK, ClientTypes, ConnTypes
    <3> QED BY CallTypes, CallAt DEF WaitReply, Return
  <2>2. last' \in [Gos -> [n : Nat, of : Chan, out : Outcomes, kind : CallKinds]]
    BY DEF WaitReply, Return, Letter, Chan, Outcomes
  <2>3. QED
    BY <1>0, <2>1, <2>2 DEF WaitReply, CallRec
<1>5. WaitClosed(g) => TypeOK'
  <2> SUFFICES ASSUME WaitClosed(g) PROVE TypeOK'
    OBVIOUS
  <2>1. call' \in [Gos -> CallRec]
    <3> HIDE DEF TypeOK, ClientTypes, ConnTypes
    <3> QED BY CallTypes, CallAt DEF WaitClosed, Return
  <2>2. last' \in [Gos -> [n : Nat, of : Chan, out : Outcomes, kind : CallKinds]]
    BY DEF WaitClosed, Return, Letter, Chan, Outcomes
  <2>3. QED
    BY <1>0, <2>1, <2>2 DEF WaitClosed, CallRec
<1>6. WaitTimeout(g) => TypeOK'
  <2> SUFFICES ASSUME WaitTimeout(g) PROVE TypeOK'
    OBVIOUS
  <2>1. call' \in [Gos -> CallRec]
    <3> HIDE DEF TypeOK, ClientTypes, ConnTypes
    <3> QED BY CallTypes, CallAt DEF WaitTimeout
  <2>2. QED
    BY <1>0, <2>1 DEF WaitTimeout, CallRec
<1>7. QED
  BY <1>1, <1>2, <1>3, <1>4, <1>5, <1>6 DEF Call, CallStep

LEMMA ClientKeepsTypes ==
  ASSUME TypeOK, NEW c \in Clients
  PROVE  /\ Dial(c) => TypeOK'
         /\ ReadStep(c) => TypeOK'
         /\ CloseClient(c) => TypeOK'
         /\ HangUp(c) => TypeOK'
<1> USE DEF TypeOK, ConnTypes, ClientTypes, clientVars, serverVars, engineVars
<1>0. UNCHANGED <<serverVars, engineVars, main, ran, stopper>>
        => ServerTypes' /\ EngineTypes'
  BY DEF ServerTypes, EngineTypes
<1>1. Dial(c) => TypeOK'
  BY DEF Dial, ServerTypes, EngineTypes
<1>2. ReadReply(c) => TypeOK'
  <2> SUFFICES ASSUME ReadReply(c) PROVE TypeOK'
    OBVIOUS
  <2>1. Head(down[c]) \in Reply
    BY HeadDown, HeadKinds DEF ReadReply
  <2>2. down' \in [Clients -> Seq(Reply \cup Event)]
    BY HeadDown DEF ReadReply
  <2>3. hand' \in [Clients -> SUBSET Letter]
    <3> HIDE DEF TypeOK, ClientTypes, ConnTypes
    <3>1. \A e \in pending[c] : [ch |-> e.ch, of |-> Head(down[c]).of,
                                 out |-> Head(down[c]).out] \in Letter
      BY <2>1, ConnFacts DEF Letter, Entry, Reply, Outcomes
    <3>2. CASE UNCHANGED hand
      BY <3>2, ConnFacts
    <3>3. CASE \E e \in pending[c] :
                hand' = [hand EXCEPT ![c] = {[ch |-> e.ch, of |-> Head(down[c]).of,
                                              out |-> Head(down[c]).out]}]
      BY <3>1, <3>3, ConnFacts
    <3> QED BY <3>2, <3>3 DEF ReadReply
  <2>4. pending' \in [Clients -> SUBSET Entry]
    BY DEF ReadReply
  <2>5. QED
    BY <1>0, <2>2, <2>3, <2>4 DEF ReadReply
<1>3. ReadEvent(c) => TypeOK'
  <2> SUFFICES ASSUME ReadEvent(c) PROVE TypeOK'
    OBVIOUS
  <2>1. Head(down[c]).ver \in Nat /\ down' \in [Clients -> Seq(Reply \cup Event)]
    BY HeadDown, HeadKinds DEF ReadEvent
  <2>2. QED
    BY <1>0, <2>1 DEF ReadEvent, pushEvent, Slot
<1>4. Deliver(c) => TypeOK'
  BY <1>0 DEF Deliver
<1>5. ReadEnd(c) => TypeOK'
  BY <1>0 DEF ReadEnd, Letter, Entry, Outcomes
<1>6. CloseClient(c) => TypeOK'
  BY <1>0 DEF CloseClient
<1>7. HangUp(c) => TypeOK'
  BY <1>0 DEF HangUp
<1>8. QED
  BY <1>1, <1>2, <1>3, <1>4, <1>5, <1>6, <1>7 DEF ReadStep

LEMMA ServerKeepsTypes ==
  ASSUME TypeOK, NEW c \in Clients
  PROVE  /\ Accept(c) => TypeOK'
         /\ HandlerStep(c) => TypeOK'
         /\ SearchReply(c) => TypeOK'
         /\ PumpStep(c) => TypeOK'
<1> USE DEF TypeOK, ServerTypes, clientVars, serverVars, engineVars, at, HanPcs
<1>0. UNCHANGED clientVars => ClientTypes'
  BY DEF ClientTypes
<1>1. UNCHANGED <<clEnd, svEnd, up, down>> => ConnTypes'
  BY DEF ConnTypes
<1>2. UNCHANGED <<engineVars, ran, stopper>> => EngineTypes'
  BY DEF EngineTypes
<1>3. Accept(c) => TypeOK'
  BY <1>0, <1>2 DEF Accept, ConnTypes
<1>4. Track(c) => TypeOK'
  BY <1>0, <1>1, <1>2 DEF Track
<1>5. Subscribe(c) => TypeOK'
  BY <1>0, <1>1 DEF Subscribe, EngineTypes, Slot
<1>6. ReadRequest(c) => TypeOK'
  <2> SUFFICES ASSUME ReadRequest(c) PROVE TypeOK'
    OBVIOUS
  <2>1. Head(up[c]) \in Request /\ up' \in [Clients -> Seq(Request)]
    BY HeadUp DEF ReadRequest
  <2>2. ConnTypes'
    BY <2>1 DEF ReadRequest, ConnTypes
  <2>3. job' \in [Clients -> SUBSET Job]
    BY <2>1 DEF ReadRequest, Job
  <2>4. QED
    <3>1. searches' \in [Clients -> SUBSET Request]
      <4> HIDE DEF TypeOK
      <4>1. CASE UNCHANGED searches
        BY <4>1 DEF TypeOK
      <4>2. CASE searches' = [searches EXCEPT ![c] = @ \cup {Head(up[c])}]
        BY <2>1, <4>2 DEF TypeOK
      <4> QED BY <4>1, <4>2 DEF ReadRequest
    <3>2. han' \in [Clients -> HanPcs]
      BY DEF ReadRequest
    <3> QED BY <1>0, <1>2, <2>2, <2>3, <3>1, <3>2 DEF ReadRequest
<1>7. ReadFails(c) => TypeOK'
  BY <1>0, <1>1, <1>2 DEF ReadFails
<1>8. Dispatch(c) => TypeOK'
  <2> SUFFICES ASSUME Dispatch(c) PROVE TypeOK'
    OBVIOUS
  <2>1. job' \in [Clients -> SUBSET Job]
    <3> HIDE DEF TypeOK, ServerTypes
    <3>1. PICK j \in job[c] :
              job' = job \/ job' = [job EXCEPT ![c] = {[j EXCEPT !.out = "err"]}]
      BY DEF Dispatch
    <3>2. j \in Job
      BY ConnFacts
    <3>3. [j EXCEPT !.out = "err"] \in Job
      BY <3>2 DEF Job
    <3>4. CASE job' = job
      BY <3>4, ConnFacts
    <3>5. CASE job' = [job EXCEPT ![c] = {[j EXCEPT !.out = "err"]}]
      BY <3>3, <3>5, ConnFacts
    <3> QED BY <3>1, <3>4, <3>5
  <2>2. ran' \subseteq Chan
    BY DEF Dispatch, Job, Request, EngineTypes
  <2>3. EngineTypes'
    BY <2>2 DEF Dispatch, EngineTypes
  <2>4. QED
    BY <1>0, <1>1, <2>1, <2>3 DEF Dispatch
<1>9. Build(c) => TypeOK'
  BY <1>0, <1>1, <1>2, JobEv DEF Build, EngineTypes
<1>10. Cast(c) => TypeOK'
  BY <1>0, <1>1 DEF Cast, broadcast, EngineTypes, Slot, Job
<1>11. SendReply(c) => TypeOK'
  <2> SUFFICES ASSUME SendReply(c) PROVE TypeOK'
    OBVIOUS
  <2>1. \A j \in job[c] : reply(j.req, j.out) \in Reply \cup Event
    BY ReplyMsg DEF Job
  <2>2. down' \in [Clients -> Seq(Reply \cup Event)]
    <3> HIDE DEF TypeOK, ServerTypes
    <3>1. CASE UNCHANGED down
      BY <3>1, ConnFacts
    <3>2. CASE \E j \in job[c] :
                down' = [down EXCEPT ![c] = Append(@, reply(j.req, j.out))]
      BY <2>1, <3>2, ConnFacts
    <3> QED BY <3>1, <3>2 DEF SendReply
  <2>3. ConnTypes'
    BY <2>2 DEF SendReply, ConnTypes
  <2>4. QED
    BY <1>0, <1>2, <2>3 DEF SendReply
<1>12. RequestShutdown(c) => TypeOK'
  BY <1>0, <1>1 DEF RequestShutdown, EngineTypes, Request, Job
<1>13. Unsubscribe(c) => TypeOK'
  BY <1>0, <1>1, SubLive DEF Unsubscribe, EngineTypes
<1>14. Untrack(c) => TypeOK'
  BY <1>0, <1>1, <1>2 DEF Untrack
<1>15. ConnDone(c) => TypeOK'
  BY <1>0, <1>2 DEF ConnDone, ConnTypes
<1>16. SearchReply(c) => TypeOK'
  <2> SUFFICES ASSUME NEW r \in searches[c], NEW out \in {"ok", "err"},
                      SearchReply(c)!(r, out)
               PROVE  TypeOK'
    BY DEF SearchReply
  <2>1. r \in Request /\ r.of \in Chan /\ reply(r, out) \in Reply \cup Event
    BY ReplyMsg DEF Request
  <2>2. ConnTypes'
    <3> HIDE DEF TypeOK, ServerTypes
    <3>1. CASE UNCHANGED down
      BY <3>1 DEF ConnTypes, TypeOK
    <3>2. CASE down' = [down EXCEPT ![c] = Append(@, reply(r, out))]
      <4>1. down' \in [Clients -> Seq(Reply \cup Event)]
        BY <2>1, <3>2, ConnFacts
      <4> QED BY <4>1 DEF ConnTypes, TypeOK
    <3> QED BY <3>1, <3>2
  <2>3. EngineTypes'
    BY <2>1 DEF EngineTypes
  <2>4. QED
    BY <1>0, <2>2, <2>3
<1>17. PumpTake(c) => TypeOK'
  <2> SUFFICES ASSUME PumpTake(c) PROVE TypeOK'
    OBVIOUS
  <2>1. pump' \in [Clients -> [pc : {"off", "wait", "send"}, ev : Nat]]
    <3> HIDE DEF ServerTypes
    <3>1. sub[c].slot # Empty => sub[c].slot \in Nat
      BY DEF EngineTypes, Slot
    <3>2. pump \in [Clients -> [pc : {"off", "wait", "send"}, ev : Nat]]
      BY DEF ServerTypes
    <3> QED BY <3>1, <3>2 DEF PumpTake
  <2>2. EngineTypes'
    <3>1. UNCHANGED sub \/ sub' = [sub EXCEPT ![c].slot = Empty]
      BY DEF PumpTake
    <3>2. sub' \in [Clients -> [live : BOOLEAN, slot : Slot]]
      <4> HIDE DEF ServerTypes
      <4>1. sub \in [Clients -> [live : BOOLEAN, slot : Slot]]
        BY DEF EngineTypes
      <4> HIDE DEF TypeOK
      <4>2. Empty \in Slot
        BY DEF Slot
      <4> HIDE DEF EngineTypes
      <4> QED BY <3>1, <4>1, <4>2
    <3>3. UNCHANGED <<version, tick, ran, stopper>>
      BY DEF PumpTake
    <3> QED BY <3>2, <3>3 DEF EngineTypes
  <2>3. QED
    BY <1>0, <1>1, <2>1, <2>2 DEF PumpTake
<1>18. PumpSend(c) => TypeOK'
  <2> SUFFICES ASSUME PumpSend(c) PROVE TypeOK'
    OBVIOUS
  <2>1. pump' \in [Clients -> [pc : {"off", "wait", "send"}, ev : Nat]]
    <3> HIDE DEF ServerTypes
    <3>1. CASE pump' = [pump EXCEPT ![c].pc = "off"]
      BY <3>1, PumpPc
    <3>2. CASE pump' = [pump EXCEPT ![c].pc = "wait"]
      BY <3>2, PumpPc
    <3> QED BY <3>1, <3>2 DEF PumpSend
  <2>2. ConnTypes'
    <3>1. pump[c].ev \in Nat
      OBVIOUS
    <3> HIDE DEF ServerTypes
    <3>2. CASE UNCHANGED down
      BY <3>2 DEF PumpSend, ConnTypes
    <3>3. CASE down' = [down EXCEPT ![c] =
                          Append(@, [type |-> "event", ver |-> pump[c].ev])]
      <4>1. down' \in [Clients -> Seq(Reply \cup Event)]
        BY <3>1, <3>3, EventMsg, ConnFacts
      <4> QED BY <4>1 DEF PumpSend, ConnTypes
    <3> QED BY <3>2, <3>3 DEF PumpSend
  <2>3. QED
    BY <1>0, <1>2, <2>1, <2>2 DEF PumpSend
<1>19. QED
  BY <1>3, <1>4, <1>5, <1>6, <1>7, <1>8, <1>9, <1>10, <1>11, <1>12, <1>13, <1>14, <1>15,
     <1>16, <1>17, <1>18 DEF HandlerStep, PumpStep

LEMMA DaemonKeepsTypes ==
  ASSUME TypeOK
  PROVE  /\ AcceptEnd => TypeOK'
         /\ TickStep => TypeOK'
         /\ MainStep => TypeOK'
         /\ Signal => TypeOK'
<1> USE DEF TypeOK, ServerTypes, clientVars, serverVars, engineVars, MainPcs
<1>0. UNCHANGED clientVars => ClientTypes'
  BY DEF ClientTypes
<1>1. UNCHANGED <<clEnd, svEnd, up, down>> => ConnTypes'
  BY DEF ConnTypes
<1>2. UNCHANGED <<engineVars, ran, stopper>> => EngineTypes'
  BY DEF EngineTypes
<1>3. AcceptEnd => TypeOK'
  BY <1>0, <1>1, <1>2 DEF AcceptEnd
<1>4. TickBuild => TypeOK'
  BY <1>0, <1>1 DEF TickBuild, EngineTypes
<1>5. TickCast => TypeOK'
  BY <1>0, <1>1 DEF TickCast, broadcast, EngineTypes, Slot
<1>6. Asked \/ Signal \/ WaitHandlers \/ CloseEngine => TypeOK'
  BY <1>0, <1>1, <1>2 DEF Asked, Signal, WaitHandlers, CloseEngine
<1>7. CloseListener => TypeOK'
  BY <1>0, <1>2 DEF CloseListener, ConnTypes
<1>8. CloseConns => TypeOK'
  BY <1>0, <1>2 DEF CloseConns, ConnTypes
<1>9. EngineClosed => TypeOK'
  <2> SUFFICES ASSUME EngineClosed PROVE TypeOK'
    OBVIOUS
  <2>1. sub' \in [Clients -> [live : BOOLEAN, slot : Slot]]
    BY DEF EngineClosed, EngineTypes
  <2>2. EngineTypes'
    BY <2>1 DEF EngineClosed, EngineTypes
  <2>3. QED
    BY <1>0, <1>1, <2>2 DEF EngineClosed
<1>10. QED
  BY <1>3, <1>4, <1>5, <1>6, <1>7, <1>8, <1>9 DEF TickStep, MainStep

-----------------------------------------------------------------------------
(* Sequence numbers.                                                       *)

(* Nothing is registered or forgotten.                                     *)
LEMMA NamesSame ==
  ASSUME UNCHANGED <<seq, pending>>
  PROVE  \A c \in Clients : \A s, t : Names(c, s, t)' <=> Names(c, s, t)
BY DEF Names

(* A number stays taken as long as none is given and no entry is added.    *)
LEMMA NamesKept ==
  ASSUME UNCHANGED seq, \A c \in Clients : pending'[c] \subseteq pending[c]
  PROVE  \A c \in Clients : \A s, t : Names(c, s, t) => Names(c, s, t)'
BY DEF Names

(* What a step that registers no call leaves as it was.                    *)
LEMMA FrameSeqs ==
  ASSUME TypeOK, SeqsNameCalls,
         UNCHANGED seq, \A c \in Clients : pending'[c] \subseteq pending[c]
  PROVE  /\ PendingKnown'
         /\ UNCHANGED up => UpNames'
         /\ UNCHANGED down => DownNames'
         /\ UNCHANGED job => JobNames'
         /\ UNCHANGED searches => SearchNames'
         /\ (\A g \in Gos : call'[g].seq = call[g].seq /\ call'[g].n = call[g].n)
              => CallNames'
<1> USE DEF SeqsNameCalls
<1>1. PendingKnown'
  BY DEF PendingKnown
<1>2. UNCHANGED up => UpNames'
  BY NamesKept DEF UpNames
<1>3. UNCHANGED down => DownNames'
  BY NamesKept DEF DownNames
<1>4. UNCHANGED job => JobNames'
  BY NamesKept DEF JobNames
<1>5. UNCHANGED searches => SearchNames'
  BY NamesKept DEF SearchNames
<1>6. ASSUME \A g \in Gos : call'[g].seq = call[g].seq /\ call'[g].n = call[g].n
      PROVE  CallNames'
  BY <1>6, NamesKept DEF CallNames
<1>7. QED
  BY <1>1, <1>2, <1>3, <1>4, <1>5, <1>6

(* Taking the first message of a connection, and putting one at its end.   *)
LEMMA TailAt ==
  ASSUME NEW S, NEW s \in Seq(S), s # <<>>
  PROVE  \A i \in 1..Len(Tail(s)) : i + 1 \in 1..Len(s) /\ Tail(s)[i] = s[i + 1]
OBVIOUS

LEMMA AppendAt ==
  ASSUME NEW S, NEW s \in Seq(S), NEW x \in S
  PROVE  \A i \in 1..Len(Append(s, x)) :
           \/ i \in 1..Len(s) /\ Append(s, x)[i] = s[i]
           \/ Append(s, x)[i] = x
OBVIOUS

LEMMA DownTail ==
  ASSUME TypeOK, DownNames, NEW c \in Clients, down[c] # <<>>,
         down' = [down EXCEPT ![c] = Tail(@)],
         UNCHANGED seq, \A d \in Clients : pending'[d] \subseteq pending[d]
  PROVE  DownNames'
<1>1. down[c] \in Seq(Reply \cup Event) /\ down \in [Clients -> Seq(Reply \cup Event)]
  BY ConnFacts
<1>2. \A d \in Clients : \A i \in 1..Len(down'[d]) :
        down'[d][i].type = "reply" => Names(d, down'[d][i].seq, down'[d][i].of)
  BY <1>1, TailAt DEF DownNames
<1>3. QED
  BY <1>2, NamesKept DEF DownNames

LEMMA DownAppend ==
  ASSUME TypeOK, DownNames, NEW c \in Clients, NEW m \in Reply \cup Event,
         m.type = "reply" => Names(c, m.seq, m.of),
         down' = [down EXCEPT ![c] = Append(@, m)],
         UNCHANGED <<seq, pending>>
  PROVE  DownNames'
<1>1. down[c] \in Seq(Reply \cup Event) /\ down \in [Clients -> Seq(Reply \cup Event)]
  BY ConnFacts
<1>2. \A d \in Clients : \A i \in 1..Len(down'[d]) :
        down'[d][i].type = "reply" => Names(d, down'[d][i].seq, down'[d][i].of)
  BY <1>1, AppendAt DEF DownNames
<1>3. QED
  BY <1>2, NamesSame DEF DownNames

(* The server copies the number of a request into its reply.               *)
LEMMA ServerKeepsSeqs ==
  ASSUME TypeOK, SeqsNameCalls, NEW c \in Clients
  PROVE  HandlerStep(c) \/ SearchReply(c) \/ PumpStep(c) => SeqsNameCalls'
<1> USE DEF clientVars, serverVars, engineVars
<1>0. ASSUME UNCHANGED <<seq, pending, call, up, down, job, searches>>
      PROVE  SeqsNameCalls'
  BY <1>0, FrameSeqs DEF SeqsNameCalls
<1>1. ASSUME ReadRequest(c) PROVE SeqsNameCalls'
  <2>1. /\ up \in [Clients -> Seq(Request)] /\ up[c] # <<>>
        /\ up' = [up EXCEPT ![c] = Tail(@)]
        /\ UNCHANGED <<seq, pending, call, down>>
    BY <1>1, ConnFacts DEF ReadRequest
  <2>2. \A d \in Clients : \A i \in 1..Len(up'[d]) :
          Names(d, up'[d][i].seq, up'[d][i].of)
    BY <2>1, TailAt DEF SeqsNameCalls, UpNames
  <2>3. UpNames'
    BY <2>1, <2>2, NamesSame DEF UpNames
  <2>4. Names(c, Head(up[c]).seq, Head(up[c]).of)
    BY <2>1 DEF SeqsNameCalls, UpNames
  <2>5. CASE UNCHANGED searches /\ job' = [job EXCEPT ![c] =
                                      {[req |-> Head(up[c]), out |-> "ok", ev |-> 0]}]
    <3>1. \A d \in Clients : \A j \in job'[d] : Names(d, j.req.seq, j.req.of)
      BY <2>4, <2>5, ConnFacts DEF SeqsNameCalls, JobNames
    <3>2. JobNames'
      BY <2>1, <3>1, NamesSame DEF JobNames
    <3> QED BY <2>1, <2>3, <2>5, <3>2, FrameSeqs DEF SeqsNameCalls
  <2>6. CASE UNCHANGED job /\ searches' = [searches EXCEPT ![c] = @ \cup {Head(up[c])}]
    <3>1. \A d \in Clients : \A r \in searches'[d] : Names(d, r.seq, r.of)
      BY <2>4, <2>6 DEF SeqsNameCalls, SearchNames, TypeOK, ServerTypes
    <3>2. SearchNames'
      BY <2>1, <3>1, NamesSame DEF SearchNames
    <3> QED BY <2>1, <2>3, <2>6, <3>2, FrameSeqs DEF SeqsNameCalls
  <2>7. QED
    BY <1>1, <2>5, <2>6 DEF ReadRequest
<1>2. ASSUME Dispatch(c) \/ Build(c) PROVE SeqsNameCalls'
  <2>1. UNCHANGED <<seq, pending, call, up, down, searches>>
    BY <1>2 DEF Dispatch, Build
  <2>2. \A d \in Clients : \A j \in job'[d] : \E k \in job[d] : j.req = k.req
    <3>1. CASE Dispatch(c)
      <4>1. PICK k \in job[c] :
                job' = job \/ job' = [job EXCEPT ![c] = {[k EXCEPT !.out = "err"]}]
        BY <3>1 DEF Dispatch
      <4>2. [k EXCEPT !.out = "err"].req = k.req
        BY ConnFacts DEF Job
      <4>3. CASE job' = job
        BY <4>3
      <4>4. CASE job' = [job EXCEPT ![c] = {[k EXCEPT !.out = "err"]}]
        BY <4>2, <4>4, ConnFacts
      <4> QED BY <4>1, <4>3, <4>4
    <3>2. CASE Build(c)
      <4>1. \A k \in job[c] : [k EXCEPT !.ev = version].req = k.req
        BY ConnFacts DEF Job
      <4>2. job' = [job EXCEPT ![c] = {[k EXCEPT !.ev = version] : k \in job[c]}]
        BY <3>2 DEF Build
      <4>3. SUFFICES ASSUME NEW d \in Clients, NEW j \in job'[d]
                     PROVE  \E k \in job[d] : j.req = k.req
        OBVIOUS
      <4>4. CASE d = c
        <5>1. j \in {[k EXCEPT !.ev = version] : k \in job[c]}
          BY <4>2, <4>4, ConnFacts
        <5> QED BY <4>1, <4>4, <5>1
      <4>5. CASE d # c
        BY <4>2, <4>5, ConnFacts
      <4> QED BY <4>4, <4>5
    <3> QED BY <1>2, <3>1, <3>2
  <2>3. JobNames'
    BY <2>1, <2>2, NamesSame DEF SeqsNameCalls, JobNames
  <2>4. QED
    BY <2>1, <2>3, FrameSeqs DEF SeqsNameCalls
<1>3. ASSUME SendReply(c) PROVE SeqsNameCalls'
  <2>1. UNCHANGED <<seq, pending, call, up, job, searches>>
    BY <1>3 DEF SendReply
  <2>2. CASE UNCHANGED down
    BY <1>0, <2>1, <2>2
  <2>3. ASSUME NEW j \in job[c],
               down' = [down EXCEPT ![c] = Append(@, reply(j.req, j.out))]
        PROVE  SeqsNameCalls'
    <3>1. reply(j.req, j.out) \in Reply \cup Event
      <4>1. j.req \in Request /\ j.out \in {"ok", "err"}
        BY ConnFacts DEF Job
      <4> QED BY <4>1, ReplyMsg
    <3>2. Names(c, reply(j.req, j.out).seq, reply(j.req, j.out).of)
      BY DEF reply, SeqsNameCalls, JobNames
    <3>3. DownNames'
      BY <2>1, <2>3, <3>1, <3>2, DownAppend DEF SeqsNameCalls
    <3> QED BY <2>1, <3>3, FrameSeqs DEF SeqsNameCalls
  <2>4. QED
    BY <1>3, <2>2, <2>3 DEF SendReply
<1>4. ASSUME SearchReply(c) PROVE SeqsNameCalls'
  <2>1. PICK r \in searches[c], out \in {"ok", "err"} : SearchReply(c)!(r, out)
    BY <1>4 DEF SearchReply
  <2>2. UNCHANGED <<seq, pending, call, up, job>>
    BY <2>1
  <2>3. SearchNames'
    BY <2>1, <2>2, NamesSame DEF SeqsNameCalls, SearchNames, TypeOK, ServerTypes
  <2>4. CASE UNCHANGED down
    BY <2>2, <2>3, <2>4, FrameSeqs DEF SeqsNameCalls
  <2>5. CASE down' = [down EXCEPT ![c] = Append(@, reply(r, out))]
    <3>1. reply(r, out) \in Reply \cup Event
      BY ReplyMsg DEF TypeOK, ServerTypes
    <3>2. Names(c, reply(r, out).seq, reply(r, out).of)
      BY DEF reply, SeqsNameCalls, SearchNames
    <3>3. DownNames'
      BY <2>2, <2>5, <3>1, <3>2, DownAppend DEF SeqsNameCalls
    <3> QED BY <2>2, <2>3, <3>3, FrameSeqs DEF SeqsNameCalls
  <2>6. QED
    BY <2>1, <2>4, <2>5
<1>5. ASSUME PumpSend(c) PROVE SeqsNameCalls'
  <2>1. UNCHANGED <<seq, pending, call, up, job, searches>>
    BY <1>5 DEF PumpSend
  <2>2. CASE UNCHANGED down
    BY <1>0, <2>1, <2>2
  <2>3. CASE down' = [down EXCEPT ![c] =
                        Append(@, [type |-> "event", ver |-> pump[c].ev])]
    <3>1. [type |-> "event", ver |-> pump[c].ev] \in Reply \cup Event
      BY EventMsg DEF TypeOK, ServerTypes
    <3>2. DownNames'
      BY <2>1, <2>3, <3>1, DownAppend DEF SeqsNameCalls
    <3> QED BY <2>1, <3>2, FrameSeqs DEF SeqsNameCalls
  <2>4. QED
    BY <1>5, <2>2, <2>3 DEF PumpSend
<1>6. Track(c) \/ Subscribe(c) \/ ReadFails(c) \/ Cast(c) \/ RequestShutdown(c)
        \/ Unsubscribe(c) \/ Untrack(c) \/ ConnDone(c) \/ PumpTake(c) => SeqsNameCalls'
  BY <1>0 DEF Track, Subscribe, ReadFails, Cast, RequestShutdown, Unsubscribe, Untrack,
              ConnDone, PumpTake
<1>7. QED
  BY <1>1, <1>2, <1>3, <1>4, <1>5, <1>6 DEF HandlerStep, PumpStep

-----------------------------------------------------------------------------
(* Callers and the read loop.                                              *)

(* Reply channels name a goroutine and one of its calls.                   *)
LEMMA ChanFacts ==
  ASSUME TypeOK
  PROVE  /\ \A c \in Clients : \A e \in pending[c] :
              e.seq \in Nat /\ e.ch[1] \in Gos /\ e.ch[2] \in Nat
         /\ \A c \in Clients : \A h \in hand[c] : h.ch[1] \in Gos /\ h.ch[2] \in Nat
         /\ \A l \in box : l.ch[1] \in Gos /\ l.ch[2] \in Nat
BY DEF TypeOK, ClientTypes, Entry, Letter, Chan

(* Steps that leave the channels, or the answers, alone.                   *)
LEMMA FrameChans ==
  ASSUME TypeOK, ChansOnce, UNCHANGED <<pending, hand, box>>,
         \A g \in Gos : call'[g].n = call[g].n
  PROVE  ChansOnce'
BY ChanFacts DEF ChansOnce, Made

LEMMA FrameAnswers ==
  ASSUME AnswerMatches, UNCHANGED last
  PROVE  AnswerMatches'
BY DEF AnswerMatches

LEMMA CallPc ==
  ASSUME TypeOK, NEW g \in Gos, NEW x, call' = [call EXCEPT ![g].pc = x]
  PROVE  \A h \in Gos : call'[h].seq = call[h].seq /\ call'[h].n = call[h].n
BY CallTypes DEF CallRec

(* IpcInv but for the types.                                               *)
Rest == SeqsNameCalls /\ ChansOnce /\ AnswerMatches

(* A new call: its number and its channel are both new.                    *)
LEMMA RegisterKeeps ==
  ASSUME IpcInv, NEW g \in Gos, NEW k \in Kinds, Register(g, k)
  PROVE  Rest'
<1> DEFINE c == Owner[g]
           e0 == [seq |-> seq[c] + 1, ch |-> <<g, call[g].n + 1>>]
<1>0. /\ TypeOK /\ SeqsNameCalls /\ ChansOnce /\ AnswerMatches
      /\ c \in Clients
      /\ seq \in [Clients -> Nat] /\ seq' = [seq EXCEPT ![c] = @ + 1]
      /\ pending' = [pending EXCEPT ![c] = @ \cup {e0}]
      /\ call' = [call EXCEPT ![g] = [pc |-> "send", n |-> call[g].n + 1,
                                     seq |-> seq[c] + 1, kind |-> k]]
      /\ UNCHANGED <<hand, box, last, up, down, job, searches>>
  BY DEF IpcInv, Register, TypeOK, ClientTypes, serverVars, engineVars
<1>1. ASSUME NEW d \in Clients, NEW s, NEW t, Names(d, s, t)
      PROVE  Names(d, s, t)'
  BY <1>0, <1>1, ConnFacts DEF Names
<1>2. UpNames' /\ DownNames' /\ JobNames' /\ SearchNames'
  BY <1>0, <1>1 DEF SeqsNameCalls, UpNames, DownNames, JobNames, SearchNames
<1>3. PendingKnown'
  BY <1>0, ConnFacts DEF SeqsNameCalls, PendingKnown, Entry
<1>4. CallNames'
  <2>1. SUFFICES ASSUME NEW h \in Gos
                 PROVE  Names(Owner[h], call[h].seq, <<h, call[h].n>>)'
    BY DEF CallNames
  <2>2. CASE h = g
    <3>1. call'[g].seq = seq[c] + 1 /\ call'[g].n = call[g].n + 1
      BY <1>0, CallTypes
    <3>2. \A e \in pending[c] : e.seq <= seq[c]
      BY <1>0 DEF SeqsNameCalls, PendingKnown
    <3> QED BY <1>0, <2>2, <3>1, <3>2, ConnFacts, ChanFacts DEF Names
  <2>3. CASE h # g
    BY <1>0, <1>1, <2>3, CallTypes DEF SeqsNameCalls, CallNames
  <2> QED BY <2>2, <2>3
<1>5. ChansOnce'
  <2>1. \A ch : ch[1] \in Gos /\ ch[2] \in Nat /\ Made(ch) => Made(ch)' /\ ch # e0.ch
    BY <1>0, CallTypes DEF Made, CallRec
  <2>2. e0.ch[2] <= call'[e0.ch[1]].n /\ Owner[e0.ch[1]] = c
    <3>1. e0.ch[1] = g /\ e0.ch[2] = call[g].n + 1 /\ call[g].n \in Nat
      BY <1>0, CallTypes DEF CallRec
    <3>2. call'[g].n = call[g].n + 1
      BY <1>0, CallTypes
    <3> QED BY <3>1, <3>2
  <2>3. \A d \in Clients : \A e \in pending'[d] : e \in pending[d] \/ (d = c /\ e = e0)
    BY <1>0, ConnFacts
  <2>4. \A l \in box : l.of = l.ch /\ Made(l.ch)' /\ l.ch # e0.ch
    BY <1>0, <2>1, ChanFacts DEF ChansOnce
  <2>5. \A d \in Clients : \A e \in pending[d] :
          Owner[e.ch[1]] = d /\ Made(e.ch)' /\ e.ch # e0.ch
    BY <1>0, <2>1, ChanFacts DEF ChansOnce
  <2>6. \A d \in Clients : \A h \in hand[d] :
          Owner[h.ch[1]] = d /\ Made(h.ch)' /\ h.of = h.ch /\ h.ch # e0.ch
    BY <1>0, <2>1, ChanFacts DEF ChansOnce
  <2> HIDE DEF e0, c
  <2>7. \A d \in Clients : \A e \in pending'[d] : Owner[e.ch[1]] = d /\ Made(e.ch)'
    BY <2>2, <2>3, <2>5 DEF Made
  <2>8. \A d \in Clients : \A e, f \in pending'[d] : e.ch = f.ch => e = f
    BY <1>0, <2>3, <2>5 DEF ChansOnce
  <2>9. \A d \in Clients : \A e \in pending'[d], l \in box : l.ch # e.ch
    BY <1>0, <2>3, <2>4 DEF ChansOnce
  <2>10. \A d \in Clients : \A h \in hand[d] :
           /\ \A e \in pending'[d] : e.ch # h.ch
           /\ \A l \in box : l.ch # h.ch
    BY <1>0, <2>3, <2>6 DEF ChansOnce
  <2> QED BY <1>0, <2>4, <2>6, <2>7, <2>8, <2>9, <2>10 DEF ChansOnce, Made
<1>6. QED
  BY <1>0, <1>2, <1>3, <1>4, <1>5, FrameAnswers DEF Rest, SeqsNameCalls

(* The request carries its caller's number.                                *)
LEMMA EncodeKeeps ==
  ASSUME IpcInv, NEW g \in Gos, Encode(g)
  PROVE  Rest'
<1>0. /\ TypeOK /\ SeqsNameCalls /\ ChansOnce /\ AnswerMatches /\ Owner[g] \in Clients
      /\ UNCHANGED <<seq, pending, hand, box, last, down, job, searches>>
  BY DEF IpcInv, Encode, serverVars, engineVars
<1>1. \A h \in Gos : call'[h].seq = call[h].seq /\ call'[h].n = call[h].n
  BY <1>0, CallPc DEF Encode
<1>2. UpNames'
  <2>1. CASE UNCHANGED up
    BY <1>0, <2>1, FrameSeqs
  <2>2. CASE up' = [up EXCEPT ![Owner[g]] = Append(@, requestOf(g))]
    <3>1. requestOf(g) \in Request
      BY <1>0, CallTypes DEF requestOf, Request, Chan, CallRec
    <3>2. Names(Owner[g], requestOf(g).seq, requestOf(g).of)
      BY <1>0 DEF requestOf, SeqsNameCalls, CallNames
    <3>3. \A d \in Clients : \A i \in 1..Len(up'[d]) :
            Names(d, up'[d][i].seq, up'[d][i].of)
      BY <1>0, <2>2, <3>1, <3>2, ConnFacts, AppendAt DEF SeqsNameCalls, UpNames
    <3> QED BY <1>0, <3>3, NamesSame DEF UpNames
  <2> QED BY <2>1, <2>2 DEF Encode
<1>3. QED
  BY <1>0, <1>1, <1>2, FrameSeqs, FrameChans, FrameAnswers DEF Rest, SeqsNameCalls

(* Entries and letters may go; what is left is still in one place.         *)
LEMMA ShrinkChans ==
  ASSUME TypeOK, ChansOnce, \A g \in Gos : call'[g].n = call[g].n, box' \subseteq box,
         \A c \in Clients : pending'[c] \subseteq pending[c] /\ hand'[c] \subseteq hand[c]
  PROVE  ChansOnce'
BY ChanFacts DEF ChansOnce, Made

(* A caller returns with an answer to its own call.                        *)
LEMMA ReturnMatches ==
  ASSUME TypeOK, AnswerMatches, NEW g \in Gos, NEW out, Return(g, out, <<g, call[g].n>>)
  PROVE  AnswerMatches'
BY DEF Return, AnswerMatches, TypeOK, ClientTypes

LEMMA DropPending ==
  ASSUME TypeOK, NEW c \in Clients, NEW s,
         pending' = [pending EXCEPT ![c] = {e \in @ : e.seq # s}]
  PROVE  \A d \in Clients : pending'[d] \subseteq pending[d]
BY ConnFacts

(* A caller that returns, or whose timer fires.                            *)
LEMMA WaitKeeps ==
  ASSUME IpcInv, NEW g \in Gos,
         Forget(g) \/ WaitReply(g) \/ WaitClosed(g) \/ WaitTimeout(g)
  PROVE  Rest'
<1> USE DEF serverVars, engineVars
<1>0. /\ TypeOK /\ SeqsNameCalls /\ ChansOnce /\ AnswerMatches /\ Owner[g] \in Clients
      /\ UNCHANGED <<seq, hand, up, down, job, searches>>
  BY DEF IpcInv, Forget, WaitReply, WaitClosed, WaitTimeout
<1>1. \A h \in Gos : call'[h].seq = call[h].seq /\ call'[h].n = call[h].n
  BY <1>0, CallPc DEF Forget, WaitReply, WaitClosed, WaitTimeout, Return
<1>2. \A d \in Clients : pending'[d] \subseteq pending[d]
  <2>1. CASE Forget(g)
    BY <1>0, <2>1, DropPending DEF Forget
  <2>2. CASE UNCHANGED pending
    BY <2>2
  <2> QED BY <2>1, <2>2 DEF WaitReply, WaitClosed, WaitTimeout
<1>3. box' \subseteq box
  BY DEF Forget, WaitReply, WaitClosed, WaitTimeout
<1>4. SeqsNameCalls'
  BY <1>0, <1>1, <1>2, FrameSeqs DEF SeqsNameCalls
<1>5. ChansOnce'
  BY <1>0, <1>1, <1>2, <1>3, ShrinkChans
<1>6. AnswerMatches'
  <2>1. CASE WaitTimeout(g)
    BY <1>0, <2>1, FrameAnswers DEF WaitTimeout
  <2>2. CASE WaitReply(g)
    <3>1. PICK l \in box : l.ch = <<g, call[g].n>> /\ Return(g, l.out, l.of)
      BY <2>2 DEF WaitReply
    <3>2. l.of = <<g, call[g].n>>
      BY <1>0, <3>1 DEF ChansOnce
    <3> QED BY <1>0, <3>1, <3>2, ReturnMatches
  <2>3. CASE Forget(g)
    BY <1>0, <2>3, ReturnMatches DEF Forget
  <2>4. CASE WaitClosed(g)
    BY <1>0, <2>4, ReturnMatches DEF WaitClosed
  <2> QED BY <2>1, <2>2, <2>3, <2>4
<1>7. QED
  BY <1>4, <1>5, <1>6 DEF Rest

(* The read loop looks up a reply: the entry it finds is of the call the   *)
(* reply answers, and its channel changes hands.                           *)
LEMMA ReplyKeeps ==
  ASSUME IpcInv, NEW c \in Clients, ReadReply(c)
  PROVE  Rest'
<1> DEFINE m == Head(down[c])
<1>0. /\ TypeOK /\ SeqsNameCalls /\ ChansOnce /\ AnswerMatches
      /\ UNCHANGED <<seq, call, box, last, up, job, searches>>
      /\ down[c] # <<>> /\ down' = [down EXCEPT ![c] = Tail(@)]
      /\ pending' = [pending EXCEPT ![c] = {e \in @ : e.seq # m.seq}]
      /\ m.type = "reply" /\ hand[c] = {}
  BY DEF IpcInv, ReadReply, serverVars, engineVars
<1>1. \A d \in Clients : pending'[d] \subseteq pending[d]
  BY <1>0, DropPending
<1>2. SeqsNameCalls'
  <2>1. DownNames'
    BY <1>0, <1>1, DownTail DEF SeqsNameCalls
  <2> QED BY <1>0, <1>1, <2>1, FrameSeqs DEF SeqsNameCalls
<1>3. Names(c, m.seq, m.of)
  BY <1>0, ConnFacts DEF SeqsNameCalls, DownNames
<1>4. ChansOnce'
  <2>1. CASE UNCHANGED hand
    BY <1>0, <1>1, <2>1, ShrinkChans
  <2>2. ASSUME NEW e \in pending[c], e.seq = m.seq,
               hand' = [hand EXCEPT ![c] = {[ch |-> e.ch, of |-> m.of, out |-> m.out]}]
        PROVE  ChansOnce'
    <3>1. e.ch = m.of
      BY <1>3, <2>2 DEF Names
    <3>2. e \notin pending'[c]
      BY <1>0, <2>2, ConnFacts
    <3> HIDE DEF m
    <3>3. \A d \in Clients : \A h \in hand'[d] :
            h \in hand[d] \/ (d = c /\ h.ch = e.ch /\ h.of = e.ch)
      BY <2>2, <3>1, ConnFacts
    <3>4. \A d \in Clients : \A h \in hand'[d] :
            /\ Owner[h.ch[1]] = d /\ Made(h.ch) /\ h.of = h.ch
            /\ \A l \in box : l.ch # h.ch
      BY <1>0, <3>3 DEF ChansOnce
    <3>5. \A d \in Clients : \A h \in hand'[d] : \A f \in pending'[d] : f.ch # h.ch
      BY <1>0, <1>1, <3>2, <3>3 DEF ChansOnce
    <3>6. \A ch : Made(ch)' <=> Made(ch)
      BY <1>0 DEF Made
    <3>7. \A d \in Clients :
            /\ \A f \in pending'[d] : Owner[f.ch[1]] = d /\ Made(f.ch)
            /\ \A f, f2 \in pending'[d] : f.ch = f2.ch => f = f2
            /\ \A f \in pending'[d], l \in box : l.ch # f.ch
      BY <1>0, <1>1 DEF ChansOnce
    <3>8. \A l \in box : l.of = l.ch /\ Made(l.ch)
      BY <1>0 DEF ChansOnce
    <3> QED BY <1>0, <3>4, <3>5, <3>6, <3>7, <3>8 DEF ChansOnce
  <2> QED BY <2>1, <2>2 DEF ReadReply
<1>5. QED
  BY <1>0, <1>2, <1>4, FrameAnswers DEF Rest

(* Events pass the callers by.                                             *)
LEMMA ReadEventKeeps ==
  ASSUME IpcInv, NEW c \in Clients, ReadEvent(c)
  PROVE  Rest'
<1>0. /\ TypeOK /\ SeqsNameCalls /\ ChansOnce /\ AnswerMatches
      /\ UNCHANGED <<seq, pending, hand, call, box, last, up, job, searches>>
      /\ down[c] # <<>> /\ down' = [down EXCEPT ![c] = Tail(@)]
  BY DEF IpcInv, ReadEvent, serverVars, engineVars
<1>1. DownNames'
  BY <1>0, DownTail DEF SeqsNameCalls
<1>2. SeqsNameCalls'
  BY <1>0, <1>1, FrameSeqs DEF SeqsNameCalls
<1>3. QED
  BY <1>0, <1>2, FrameChans, FrameAnswers DEF Rest

(* The send to the reply channel: from the hand to the box.                *)
LEMMA DeliverKeeps ==
  ASSUME IpcInv, NEW c \in Clients, Deliver(c)
  PROVE  Rest'
<1>0. /\ TypeOK /\ SeqsNameCalls /\ ChansOnce /\ AnswerMatches
      /\ UNCHANGED <<seq, pending, call, last, up, down, job, searches>>
      /\ hand' = [hand EXCEPT ![c] = {}]
  BY DEF IpcInv, Deliver, serverVars, engineVars
<1>1. SeqsNameCalls'
  BY <1>0, FrameSeqs DEF SeqsNameCalls
<1>2. PICK l \in hand[c] : box' = box \cup {l}
  BY DEF Deliver
<1>3. \A ch : Made(ch)' <=> Made(ch)
  BY <1>0 DEF Made
<1>4. Owner[l.ch[1]] = c /\ Made(l.ch) /\ l.of = l.ch
  BY <1>0 DEF ChansOnce
<1>5. \A d \in Clients : \A e \in pending[d] : e.ch # l.ch
  BY <1>0, <1>4 DEF ChansOnce
<1>6. \A d \in Clients : \A h \in hand'[d] : d # c /\ h \in hand[d]
  BY <1>0, ConnFacts
<1>7. \A d \in Clients : \A h \in hand'[d] : h.ch # l.ch
  BY <1>0, <1>4, <1>6 DEF ChansOnce
<1>8. ChansOnce'
  <2>1. \A d \in Clients : \A e \in pending[d], b \in box' : b.ch # e.ch
    BY <1>0, <1>2, <1>5 DEF ChansOnce
  <2>2. \A d \in Clients : \A h \in hand'[d] :
          /\ Owner[h.ch[1]] = d /\ Made(h.ch) /\ h.of = h.ch
          /\ \A e \in pending[d] : e.ch # h.ch
          /\ \A b \in box' : b.ch # h.ch
    BY <1>0, <1>2, <1>6, <1>7 DEF ChansOnce
  <2>3. \A b \in box' : b.of = b.ch /\ Made(b.ch)
    BY <1>0, <1>2, <1>4 DEF ChansOnce
  <2> QED BY <1>0, <1>3, <2>1, <2>2, <2>3 DEF ChansOnce
<1>9. QED
  BY <1>0, <1>1, <1>8, FrameAnswers DEF Rest

(* failAllPending: every entry's channel gets the error.                   *)
LEMMA ReadEndKeeps ==
  ASSUME IpcInv, NEW c \in Clients, ReadEnd(c)
  PROVE  Rest'
<1> DEFINE lost(e) == [ch |-> e.ch, of |-> e.ch, out |-> "lost"]
<1>0. /\ TypeOK /\ SeqsNameCalls /\ ChansOnce /\ AnswerMatches
      /\ UNCHANGED <<seq, hand, call, last, up, down, job, searches>>
      /\ pending' = [pending EXCEPT ![c] = {}]
      /\ box' = box \cup {lost(e) : e \in pending[c]}
  BY DEF IpcInv, ReadEnd, serverVars, engineVars
<1>1. \A d \in Clients : \A e \in pending'[d] : d # c /\ e \in pending[d]
  BY <1>0, ConnFacts
<1>2. SeqsNameCalls'
  BY <1>0, <1>1, FrameSeqs DEF SeqsNameCalls
<1>3. \A ch : Made(ch)' <=> Made(ch)
  BY <1>0 DEF Made
<1>4. \A b \in box' : b \in box \/ \E e \in pending[c] : b.ch = e.ch /\ b.of = e.ch
  BY <1>0
<1>5. ChansOnce'
  <2>1. \A d \in Clients : \A e \in pending'[d], b \in box' : b.ch # e.ch
    BY <1>0, <1>1, <1>4 DEF ChansOnce
  <2>2. \A d \in Clients : \A h \in hand[d], b \in box' : b.ch # h.ch
    BY <1>0, <1>4 DEF ChansOnce
  <2>3. \A b \in box' : b.of = b.ch /\ Made(b.ch)
    BY <1>0, <1>4 DEF ChansOnce
  <2>4. \A d \in Clients :
          /\ \A e \in pending'[d] : Owner[e.ch[1]] = d /\ Made(e.ch)
          /\ \A e, f \in pending'[d] : e.ch = f.ch => e = f
    BY <1>0, <1>1 DEF ChansOnce
  <2>5. \A d \in Clients : \A h \in hand[d] :
          /\ Owner[h.ch[1]] = d /\ Made(h.ch) /\ h.of = h.ch
          /\ \A e \in pending'[d] : e.ch # h.ch
    BY <1>0, <1>1 DEF ChansOnce
  <2> QED BY <1>0, <1>3, <2>1, <2>2, <2>3, <2>4, <2>5 DEF ChansOnce
<1>6. QED
  BY <1>0, <1>2, <1>5, FrameAnswers DEF Rest

-----------------------------------------------------------------------------
(* The other steps leave alone what the invariant speaks of.               *)
LEMMA FrameRest ==
  ASSUME IpcInv, UNCHANGED <<seq, pending, hand, call, box, last, up, down, job, searches>>
  PROVE  Rest'
<1>1. TypeOK /\ SeqsNameCalls /\ ChansOnce /\ AnswerMatches
  BY DEF IpcInv
<1>2. SeqsNameCalls'
  BY <1>1, FrameSeqs DEF SeqsNameCalls
<1>3. QED
  BY <1>1, <1>2, FrameChans, FrameAnswers DEF Rest

(* The steps of the server, and those of everyone else.                    *)
LEMMA ServerKeepsRest ==
  ASSUME IpcInv, NEW c \in Clients, HandlerStep(c) \/ SearchReply(c) \/ PumpStep(c)
  PROVE  Rest'
<1>0. /\ TypeOK /\ SeqsNameCalls /\ ChansOnce /\ AnswerMatches
  BY DEF IpcInv
<1>1. UNCHANGED clientVars
  BY DEF HandlerStep, SearchReply, PumpStep, Track, Subscribe, ReadRequest, ReadFails,
         Dispatch, Build, Cast, SendReply, RequestShutdown, Unsubscribe, Untrack, ConnDone,
         PumpTake, PumpSend
<1>2. QED
  BY <1>0, <1>1, ServerKeepsSeqs, FrameChans, FrameAnswers DEF Rest, clientVars

LEMMA OthersKeepRest ==
  ASSUME IpcInv
  PROVE  /\ \A c \in Clients :
              Dial(c) \/ CloseClient(c) \/ HangUp(c) \/ Accept(c) => Rest'
         /\ AcceptEnd \/ TickStep \/ MainStep \/ Signal => Rest'
<1> USE DEF clientVars, serverVars, engineVars
<1>1. ASSUME NEW c \in Clients, Dial(c) \/ CloseClient(c) \/ HangUp(c) \/ Accept(c)
      PROVE  Rest'
  BY <1>1, FrameRest DEF Dial, CloseClient, HangUp, Accept
<1>2. AcceptEnd \/ TickStep \/ Signal => Rest'
  BY FrameRest DEF AcceptEnd, TickStep, TickBuild, TickCast, Signal
<1>3. MainStep => Rest'
  BY FrameRest DEF MainStep, Asked, CloseListener, CloseConns, WaitHandlers, CloseEngine,
                   EngineClosed
<1>4. QED
  BY <1>1, <1>2, <1>3

-----------------------------------------------------------------------------
(* The induction.                                                          *)
LEMMA InitTypes == Init => TypeOK
<1> SUFFICES ASSUME Init PROVE TypeOK
  OBVIOUS
<1> USE DEF Init
<1>1. ConnTypes
  BY DEF ConnTypes
<1>2. ClientTypes
  BY DEF ClientTypes, Slot, CallPcs, CallKinds, Chan, Outcomes
<1>3. ServerTypes
  BY DEF ServerTypes, HanPcs, MainPcs
<1>4. EngineTypes
  BY DEF EngineTypes, Slot
<1>5. QED
  BY <1>1, <1>2, <1>3, <1>4 DEF TypeOK

(* Nothing is in circulation at the start.                                 *)
LEMMA InitInv == Init => IpcInv
<1> SUFFICES ASSUME Init PROVE IpcInv
  OBVIOUS
<1>1. TypeOK
  BY InitTypes
<1>2. SeqsNameCalls
  BY DEF Init, SeqsNameCalls, UpNames, DownNames, JobNames, SearchNames, CallNames,
         PendingKnown, Names
<1>3. ChansOnce
  BY DEF Init, ChansOnce
<1>4. AnswerMatches
  BY DEF Init, AnswerMatches
<1>5. QED
  BY <1>1, <1>2, <1>3, <1>4 DEF IpcInv

LEMMA NextTypes == TypeOK /\ [Next]_vars => TypeOK'
<1> SUFFICES ASSUME TypeOK, [Next]_vars PROVE TypeOK'
  OBVIOUS
<1>1. CASE UNCHANGED vars
  BY <1>1 DEF vars, clientVars, serverVars, engineVars, TypeOK, ConnTypes, ClientTypes,
              ServerTypes, EngineTypes
<1>2. ASSUME NEW c \in Clients, 
             \/ Dial(c) \/ ReadStep(c) \/ CloseClient(c) \/ HangUp(c)
             \/ Accept(c) \/ HandlerStep(c) \/ PumpStep(c) \/ SearchReply(c)
      PROVE  TypeOK'
  <2>1. CASE Dial(c) \/ ReadStep(c) \/ CloseClient(c) \/ HangUp(c)
    BY <2>1, ClientKeepsTypes
  <2>2. CASE Accept(c) \/ HandlerStep(c) \/ PumpStep(c) \/ SearchReply(c)
    BY <2>2, ServerKeepsTypes
  <2> QED BY <1>2, <2>1, <2>2
<1>3. ASSUME NEW g \in Gos,
             Call(g) \/ CallStep(g) \/ WaitTimeout(g)
      PROVE  TypeOK'
  BY <1>3, CallerKeepsTypes
<1>4. CASE AcceptEnd \/ TickStep \/ MainStep \/ Signal
  BY <1>4, DaemonKeepsTypes
<1>5. QED
  BY <1>1, <1>2, <1>3, <1>4 DEF Next

LEMMA NextRest == IpcInv /\ [Next]_vars => Rest'
<1> SUFFICES ASSUME IpcInv, [Next]_vars PROVE Rest'
  OBVIOUS
<1>1. CASE UNCHANGED vars
  BY <1>1, FrameRest DEF vars, clientVars, serverVars, engineVars
<1>2. ASSUME NEW c \in Clients,
             \/ Dial(c) \/ ReadStep(c) \/ CloseClient(c) \/ HangUp(c)
             \/ Accept(c) \/ HandlerStep(c) \/ PumpStep(c) \/ SearchReply(c)
      PROVE  Rest'
  BY <1>2, ReplyKeeps, ReadEventKeeps, DeliverKeeps, ReadEndKeeps, ServerKeepsRest,
     OthersKeepRest DEF ReadStep
<1>3. ASSUME NEW g \in Gos,
             Call(g) \/ CallStep(g) \/ WaitTimeout(g)
      PROVE  Rest'
  BY <1>3, RegisterKeeps, EncodeKeeps, WaitKeeps DEF Call, CallStep
<1>4. CASE AcceptEnd \/ TickStep \/ MainStep \/ Signal
  BY <1>4, OthersKeepRest
<1>5. QED
  BY <1>1, <1>2, <1>3, <1>4 DEF Next

LEMMA InvHolds == Spec => []IpcInv
<1>1. IpcInv /\ [Next]_vars => IpcInv'
  BY NextTypes, NextRest DEF IpcInv, Rest
<1>2. QED
  BY <1>1, InitInv, PTL DEF Spec

(* Every variable keeps its type, for any number of clients, callers and   *)
(* calls and any buffer: an event slot never holds what is not an event,   *)
(* a handler is only where handleConn can be.                              *)
THEOREM IpcTypesHold == Spec => []TypeOK
<1>1. IpcInv => TypeOK
  BY DEF IpcInv
<1>2. QED
  BY <1>1, InvHolds, PTL

(* callFor returns an answer to the call it was made for, whatever the     *)
(* order of replies, timeouts and lost connections.                        *)
THEOREM AnswersMatch == Spec => []AnswerMatches
<1>1. IpcInv => AnswerMatches
  BY DEF IpcInv
<1>2. QED
  BY <1>1, InvHolds, PTL

(* The read loop's sends to the reply channels never wait, so it never     *)
(* holds c.mu for longer than it works.                                    *)
THEOREM ReplySlotsFree == Spec => []ReplySlotFree
<1>1. IpcInv => ReplySlotFree
  BY DEF IpcInv, ChansOnce, ReplySlotFree
<1>2. QED
  BY <1>1, InvHolds, PTL

-----------------------------------------------------------------------------
(* Close drains the server.                                                *)

(* Where a handler is with its connection in s.conns.                      *)
Registered == {"sub", "read", "call", "build", "cast", "reply", "stop", "unsub", "untrack"}

(* The order of Close: no listener, then no handler; and a connection that *)
(* is not closed has a handler or waits in the listener's backlog.         *)
DrainInv ==
  /\ \A c \in Clients : clEnd[c] = "none" => svEnd[c] = "none"
  /\ \A c \in Clients : svEnd[c] \in {"none", "backlog"} => han[c] = "off"
  /\ \A c \in conns : han[c] \in Registered
  /\ \A c \in Clients : han[c] = "off" => svEnd[c] \in {"none", "backlog", "closed"}
  /\ ~listening => \A c \in Clients : svEnd[c] # "backlog"
  /\ main \in {"conns", "wait", "engine", "ticks", "down"} => ~listening
  /\ main \in {"engine", "ticks", "down"} => ~accepting /\ \A c \in Clients : han[c] = "off"

LEMMA DrainTypes ==
  ASSUME TypeOK
  PROVE  /\ han \in [Clients -> HanPcs]
         /\ clEnd \in [Clients -> {"none", "open", "closed"}]
         /\ svEnd \in [Clients -> {"none", "backlog", "open", "closed"}]
         /\ conns \subseteq Clients /\ main \in MainPcs
BY DEF TypeOK, ServerTypes, ConnTypes

(* A step that moves one handler, from a place other than "off" to another,*)
(* and leaves the connections and the daemon's main goroutine alone.       *)
LEMMA HandlerDrains ==
  ASSUME TypeOK, DrainInv, NEW c \in Clients, NEW x \in HanPcs \ {"off"},
         han[c] # "off", han' = [han EXCEPT ![c] = x],
         UNCHANGED <<clEnd, svEnd, listening, accepting, main>>,
         conns' \subseteq conns \cup {c}, c \in conns' => x \in Registered
  PROVE  DrainInv'
<1>1. han' \in [Clients -> HanPcs] /\ han'[c] = x /\ \A d \in Clients : d # c => han'[d] = han[d]
  BY DrainTypes
<1>2. main \notin {"engine", "ticks", "down"}
  BY DEF DrainInv
<1>3. \A d \in conns' : han'[d] \in Registered
  BY <1>1, DrainTypes DEF DrainInv
<1>4. \A d \in Clients : han'[d] = "off" => svEnd'[d] \in {"none", "backlog", "closed"}
  BY <1>1 DEF DrainInv
<1>5. \A d \in Clients : svEnd'[d] \in {"none", "backlog"} => han'[d] = "off"
  BY <1>1 DEF DrainInv
<1> QED BY <1>2, <1>3, <1>4, <1>5 DEF DrainInv

(* The steps of a handler.                                                 *)
LEMMA HandlerStepDrains ==
  ASSUME TypeOK, DrainInv, NEW c \in Clients, HandlerStep(c)
  PROVE  DrainInv'
<1>1. CASE ConnDone(c)
  <2>1. /\ han[c] = "hangup" /\ han' = [han EXCEPT ![c] = "off"]
        /\ svEnd' = [svEnd EXCEPT ![c] = "closed"]
        /\ UNCHANGED <<clEnd, listening, accepting, main, conns>>
    BY <1>1 DEF ConnDone, at, clientVars
  <2>2. /\ \A d \in Clients : d # c => han'[d] = han[d] /\ svEnd'[d] = svEnd[d]
        /\ han'[c] = "off" /\ svEnd'[c] = "closed"
    BY <2>1, DrainTypes
  <2>3. c \notin conns /\ main \notin {"engine", "ticks", "down"}
    BY <2>1 DEF DrainInv, Registered
  <2>4. \A d \in conns' : han'[d] \in Registered
    BY <2>1, <2>2, <2>3, DrainTypes DEF DrainInv
  <2>5. \A d \in Clients : /\ han'[d] = "off" => svEnd'[d] \in {"none", "backlog", "closed"}
                           /\ ~listening' => svEnd'[d] # "backlog"
                           /\ svEnd'[d] \in {"none", "backlog"} => han'[d] = "off"
                           /\ clEnd'[d] = "none" => svEnd'[d] = "none"
    BY <2>1, <2>2 DEF DrainInv
  <2> QED BY <2>1, <2>3, <2>4, <2>5 DEF DrainInv
<1>2. CASE Track(c)
  <2>1. /\ han[c] = "track" /\ UNCHANGED <<clEnd, svEnd, listening, accepting, main>>
        /\ \/ han' = [han EXCEPT ![c] = "hangup"] /\ conns' = conns
           \/ han' = [han EXCEPT ![c] = "sub"] /\ conns' = conns \cup {c}
    BY <1>2 DEF Track, at, clientVars
  <2>2. c \notin conns
    BY <2>1 DEF DrainInv, Registered
  <2> QED BY <2>1, <2>2, HandlerDrains DEF HanPcs, Registered
<1>3. CASE Untrack(c)
  <2>1. /\ han[c] = "untrack" /\ UNCHANGED <<clEnd, svEnd, listening, accepting, main>>
        /\ han' = [han EXCEPT ![c] = "hangup"] /\ conns' = conns \ {c}
    BY <1>3 DEF Untrack, at, clientVars
  <2> QED BY <2>1, HandlerDrains DEF HanPcs
<1>4. CASE \/ Subscribe(c) \/ ReadRequest(c) \/ ReadFails(c) \/ Dispatch(c) \/ Build(c) \/ Cast(c)
           \/ SendReply(c) \/ RequestShutdown(c) \/ Unsubscribe(c)
  <2>1. han[c] # "off" /\ UNCHANGED <<clEnd, svEnd, listening, accepting, main, conns>>
    BY <1>4 DEF clientVars, Subscribe, ReadRequest, ReadFails, Dispatch, Build, Cast, SendReply, RequestShutdown,
                Unsubscribe, at
  <2>2. UNCHANGED han \/ \E x \in Registered : han' = [han EXCEPT ![c] = x]
    BY <1>4 DEF Subscribe, ReadRequest, ReadFails, Dispatch, Build, Cast, SendReply, RequestShutdown,
                Unsubscribe, at, Registered
  <2>3. CASE UNCHANGED han
    BY <2>1, <2>3 DEF DrainInv
  <2>4. ASSUME NEW x \in Registered, han' = [han EXCEPT ![c] = x] PROVE DrainInv'
    BY <2>1, <2>4, HandlerDrains DEF HanPcs, Registered
  <2> QED BY <2>2, <2>3, <2>4
<1> QED BY <1>1, <1>2, <1>3, <1>4 DEF HandlerStep

(* Every step.                                                             *)
LEMMA NextDrains == ASSUME TypeOK, DrainInv, [Next]_vars PROVE DrainInv'
<1> USE DEF clientVars, serverVars, engineVars
<1>0. ASSUME UNCHANGED <<clEnd, conns, han, svEnd, listening, accepting, main>> PROVE DrainInv'
  BY <1>0 DEF DrainInv
<1>1. ASSUME NEW c \in Clients, Dial(c) PROVE DrainInv'
  <2>1. /\ listening /\ clEnd[c] = "none" /\ clEnd' = [clEnd EXCEPT ![c] = "open"]
        /\ svEnd' = [svEnd EXCEPT ![c] = "backlog"]
        /\ UNCHANGED <<conns, han, listening, accepting, main>>
    BY <1>1 DEF Dial
  <2>2. /\ \A d \in Clients : d # c => svEnd'[d] = svEnd[d] /\ clEnd'[d] = clEnd[d]
        /\ svEnd'[c] = "backlog" /\ clEnd'[c] = "open" /\ han[c] = "off"
    BY <2>1, DrainTypes DEF DrainInv
  <2> QED BY <2>1, <2>2 DEF DrainInv
<1>2. ASSUME NEW c \in Clients, Accept(c) PROVE DrainInv'
  <2>1. /\ accepting /\ listening /\ svEnd' = [svEnd EXCEPT ![c] = "open"]
        /\ han' = [han EXCEPT ![c] = "track"] /\ svEnd[c] = "backlog"
        /\ UNCHANGED <<clEnd, conns, listening, accepting, main>>
    BY <1>2 DEF Accept, at
  <2>2. main \notin {"engine", "ticks", "down", "conns", "wait"}
    BY <2>1 DEF DrainInv
  <2>3. /\ \A d \in Clients : d # c => svEnd'[d] = svEnd[d] /\ han'[d] = han[d]
        /\ svEnd'[c] = "open" /\ han'[c] = "track"
    BY <2>1, DrainTypes
  <2>4. c \notin conns /\ clEnd[c] # "none"
    BY <2>1 DEF DrainInv, Registered
  <2>5. \A d \in Clients : /\ clEnd'[d] = "none" => svEnd'[d] = "none"
                           /\ svEnd'[d] \in {"none", "backlog"} => han'[d] = "off"
                           /\ han'[d] = "off" => svEnd'[d] \in {"none", "backlog", "closed"}
    BY <2>1, <2>3, <2>4 DEF DrainInv
  <2>6. \A d \in conns' : han'[d] \in Registered
    BY <2>1, <2>3, <2>4, DrainTypes DEF DrainInv
  <2> QED BY <2>1, <2>2, <2>5, <2>6 DEF DrainInv
<1>3. ASSUME NEW c \in Clients,
             ReadStep(c) \/ CloseClient(c) \/ HangUp(c) \/ PumpStep(c) \/ SearchReply(c)
      PROVE  DrainInv'
  <2>1. CASE HangUp(c)
    <3>1. /\ clEnd[c] = "open" /\ clEnd' = [clEnd EXCEPT ![c] = "closed"]
          /\ UNCHANGED <<conns, han, svEnd, listening, accepting, main>>
      BY <2>1 DEF HangUp
    <3>2. \A d \in Clients : clEnd'[d] = "none" => clEnd[d] = "none"
      BY <3>1, DrainTypes
    <3> QED BY <3>1, <3>2 DEF DrainInv
  <2>2. CASE ReadStep(c) \/ CloseClient(c) \/ PumpStep(c) \/ SearchReply(c)
    BY <1>0, <2>2 DEF ReadStep, ReadReply, ReadEvent, Deliver, ReadEnd, CloseClient, PumpStep,
                      PumpTake, PumpSend, SearchReply
  <2> QED BY <1>3, <2>1, <2>2
<1>4. ASSUME NEW g \in Gos, Call(g) \/ CallStep(g) \/ WaitTimeout(g) PROVE DrainInv'
  BY <1>0, <1>4 DEF Call, Register, CallStep, Encode, Forget, WaitReply, WaitClosed, WaitTimeout
<1>5. CASE AcceptEnd
  BY <1>5 DEF AcceptEnd, DrainInv
<1>6. CASE TickStep
  BY <1>0, <1>6 DEF TickStep, TickBuild, TickCast
<1>7. CASE Asked \/ Signal
  BY <1>7 DEF Asked, Signal, DrainInv
<1>8. CASE CloseListener
  <2>1. /\ main = "lnclose" /\ listening' = FALSE /\ main' = "conns"
        /\ svEnd' = [c \in Clients |-> IF svEnd[c] = "backlog" THEN "closed" ELSE svEnd[c]]
        /\ UNCHANGED <<clEnd, conns, han, accepting>>
    BY <1>8 DEF CloseListener
  <2>2. \A c \in Clients : svEnd'[c] # "backlog" /\ (svEnd'[c] = svEnd[c] \/ svEnd'[c] = "closed")
    BY <2>1
  <2>3. \A c \in Clients : svEnd[c] = "none" => svEnd'[c] = "none"
    BY <2>1
  <2> QED BY <2>1, <2>2, <2>3 DEF DrainInv
<1>9. CASE CloseConns
  <2>1. /\ main = "conns" /\ main' = "wait" /\ UNCHANGED <<clEnd, conns, han, accepting, listening>>
        /\ svEnd' = [c \in Clients |-> IF c \in conns THEN "closed" ELSE svEnd[c]]
    BY <1>9 DEF CloseConns
  <2>2. \A c \in Clients : svEnd'[c] = svEnd[c] \/ svEnd'[c] = "closed"
    BY <2>1
  <2>3. \A c \in Clients : svEnd[c] = "none" => svEnd'[c] = "none"
    BY <2>1, DrainTypes DEF DrainInv, Registered
  <2> QED BY <2>1, <2>2, <2>3 DEF DrainInv
<1>10. CASE WaitHandlers \/ CloseEngine \/ EngineClosed
  BY <1>10 DEF WaitHandlers, CloseEngine, EngineClosed, DrainInv
<1>11. CASE UNCHANGED vars
  BY <1>0, <1>11 DEF vars
<1> QED BY <1>1, <1>2, <1>3, <1>4, <1>5, <1>6, <1>7, <1>8, <1>9, <1>10, <1>11, HandlerStepDrains
        DEF Next, MainStep

(* Once Close has returned no handler runs and no connection is open or    *)
(* waiting, whoever dials, is being accepted or is in the middle of a call *)
(* (server.go, Close, track and acceptLoop).                               *)
THEOREM Drained == Spec => []DrainedBeforeEngineClose
<1>1. Init => DrainInv
  BY DEF Init, DrainInv
<1>2. IpcInv /\ DrainInv /\ [Next]_vars => DrainInv'
  BY NextDrains DEF IpcInv
<1>3. TypeOK /\ DrainInv => DrainedBeforeEngineClose
  <2> SUFFICES ASSUME TypeOK, DrainInv, main \in {"engine", "ticks", "down"}
               PROVE  /\ conns = {}
                      /\ \A c \in Clients : han[c] = "off" /\ svEnd[c] \in {"none", "closed"}
    BY DEF DrainedBeforeEngineClose
  <2>1. ~listening /\ \A c \in Clients : han[c] = "off"
    BY DEF DrainInv
  <2>2. conns = {}
    BY <2>1, DrainTypes DEF DrainInv, Registered
  <2> QED BY <2>1, <2>2 DEF DrainInv
<1> QED BY <1>1, <1>2, <1>3, InvHolds, PTL DEF Spec, IpcInv

-----------------------------------------------------------------------------
(* The clients and the server implement Rpc.                               *)

(* The requests of a client that the server has not answered: written and  *)
(* not read, being served by the handler, and searches; and of those the   *)
(* ones that have not been run.                                            *)
Serving    == {"call", "build", "cast", "reply"}
UpReqs(c)  == {up[c][i] : i \in 1..Len(up[c])}
JobReqs(c) == {j.req : j \in {k \in job[c] : han[c] \in Serving}}
NewReqs(c) == {j.req : j \in {k \in job[c] : han[c] = "call"}}
Open(c)    == UpReqs(c) \cup JobReqs(c) \cup searches[c]
Todo(c)    == UpReqs(c) \cup NewReqs(c) \cup searches[c]

(* The call t has been made, and its write has not failed.                 *)
Sent(t) ==
  /\ t[2] \in 1..call[t[1]].n
  /\ t[2] = call[t[1]].n => call[t[1]].pc \notin {"send", "unsend"}
  /\ t[2] = last[t[1]].n => last[t[1]].out # "send"

(* A call has one request.                                                 *)
RequestsApart ==
  \A c \in Clients :
    /\ \A i, k \in 1..Len(up[c]) : up[c][i].of = up[c][k].of => i = k
    /\ \A r \in UpReqs(c), s \in JobReqs(c) \cup searches[c] : r.of # s.of
    /\ \A r \in JobReqs(c), s \in searches[c] : r.of # s.of
    /\ \A r, s \in searches[c] : r.of = s.of => r = s
    /\ \A j, k \in job[c] : j = k

(* It comes from its caller's client, after a write that did not fail, and *)
(* is run after that, if at all.                                           *)
RequestsSent == \A c \in Clients : \A r \in Open(c) : Owner[r.of[1]] = c /\ Sent(r.of)
NotRunYet    == \A c \in Clients : \A r \in Todo(c) : r.of \notin ran
RanSent      == \A t \in ran : Sent(t)

(* What says ok or err speaks of a call that has been run.                 *)
DownRan == \A c \in Clients : \A i \in 1..Len(down[c]) :
             down[c][i].type = "reply" => down[c][i].of \in ran
HandRan == \A c \in Clients : \A h \in hand[c] : h.out \in {"ok", "err"} /\ h.of \in ran
BoxRan  == \A l \in box : l.out \in {"ok", "err", "lost"} /\ (l.out # "lost" => l.of \in ran)
JobRan  == \A c \in Clients :
             han[c] \in {"build", "cast", "reply"} => \A j \in job[c] : j.req.of \in ran

(* A caller's last answer is to its last call but for the one it is in.    *)
LastCounts == \A g \in Gos : last[g].n = IF call[g].pc = "idle" THEN call[g].n ELSE call[g].n - 1

ReqInv  == RequestsApart /\ RequestsSent /\ NotRunYet /\ RanSent
WordInv == DownRan /\ HandRan /\ BoxRan /\ JobRan
RunInv  == ReqInv /\ WordInv /\ LastCounts

LEMMA RunTypes ==
  ASSUME TypeOK
  PROVE  /\ up \in [Clients -> Seq(Request)] /\ job \in [Clients -> SUBSET Job]
         /\ searches \in [Clients -> SUBSET Request]
         /\ down \in [Clients -> Seq(Reply \cup Event)]
         /\ ran \subseteq Chan /\ han \in [Clients -> HanPcs]
         /\ call \in [Gos -> CallRec]
         /\ last \in [Gos -> [n : Nat, of : Chan, out : Outcomes, kind : CallKinds]]
BY DEF TypeOK, ConnTypes, ServerTypes, EngineTypes, ClientTypes, CallRec

LEMMA ReqTypes ==
  ASSUME TypeOK, NEW c \in Clients
  PROVE  /\ Open(c) \subseteq Request /\ Todo(c) \subseteq Open(c)
         /\ UpReqs(c) \subseteq Request /\ JobReqs(c) \subseteq Request /\ NewReqs(c) \subseteq JobReqs(c)
<1>1. UpReqs(c) \subseteq Request
  BY RunTypes DEF UpReqs
<1>2. JobReqs(c) \subseteq Request
  BY RunTypes DEF JobReqs, Job
<1>3. NewReqs(c) \subseteq JobReqs(c)
  BY DEF NewReqs, JobReqs, Serving
<1> QED BY <1>1, <1>2, <1>3, RunTypes DEF Open, Todo

LEMMA OfChan == ASSUME NEW r \in Request PROVE r.of \in Chan
BY DEF Request

LEMMA ChanParts ==
  ASSUME NEW t \in Chan PROVE t[1] \in Gos /\ t[2] \in Nat /\ t = <<t[1], t[2]>>
BY DEF Chan

(* Requests go, or their callers go on.                                    *)
LEMMA FrameReqs ==
  ASSUME TypeOK, ReqInv, \A t \in Chan : Sent(t) => Sent(t)', UNCHANGED <<up, ran>>,
         \A c \in Clients : /\ JobReqs(c)' \subseteq JobReqs(c) /\ NewReqs(c)' \subseteq NewReqs(c)
                            /\ searches'[c] \subseteq searches[c]
                            /\ \A j, k \in job'[c] : j = k
  PROVE  ReqInv'
<1>1. \A c \in Clients : /\ UpReqs(c)' = UpReqs(c) 
                         /\ Open(c)' \subseteq Open(c) /\ Todo(c)' \subseteq Todo(c)
  BY DEF UpReqs, Open, Todo
<1>2. RequestsApart'
  BY <1>1 DEF ReqInv, RequestsApart
<1>3. \A c \in Clients : \A r \in Open(c) : r.of \in Chan
  BY ReqTypes, OfChan
<1>4. RequestsSent'
  BY <1>1, <1>3 DEF ReqInv, RequestsSent
<1>5. NotRunYet'
  BY <1>1 DEF ReqInv, NotRunYet
<1>6. RanSent'
  BY RunTypes DEF ReqInv, RanSent
<1> QED BY <1>2, <1>4, <1>5, <1>6 DEF ReqInv

(* No request appears.                                                     *)
OpenShrinks == \A c \in Clients : Open(c)' \subseteq Open(c)

(* None but the one that the caller g writes.                              *)
OpenGrows(g) ==
  \A c \in Clients : \A r \in Open(c)' :
    r \in Open(c) \/ (Encode(g) /\ c = Owner[g] /\ r = requestOf(g))

LEMMA SameSent ==
  ASSUME UNCHANGED <<call, last>> PROVE \A t \in Chan : Sent(t) => Sent(t)'
BY DEF Sent

LEMMA FrameWords ==
  ASSUME TypeOK, WordInv, UNCHANGED <<down, hand>>, box' \subseteq box, ran \subseteq ran', JobRan'
  PROVE  WordInv'
BY DEF WordInv, DownRan, HandRan, BoxRan
(* A caller's steps keep what has been sent.                               *)
LEMMA CallerSent ==
  ASSUME TypeOK, BoxRan, LastCounts, NEW g \in Gos,
         Call(g) \/ CallStep(g) \/ WaitTimeout(g)
  PROVE  (\A t \in Chan : Sent(t) => Sent(t)') /\ LastCounts'
<1>1. /\ call \in [Gos -> CallRec] /\ call[g] \in CallRec /\ call[g].n \in Nat
      /\ last \in [Gos -> [n : Nat, of : Chan, out : Outcomes, kind : CallKinds]]
      /\ \A t \in Chan : t[1] \in Gos /\ t[2] \in Nat
  BY RunTypes, ChanParts DEF CallRec
<1>2. ASSUME NEW k \in Kinds, Register(g, k)
      PROVE  (\A t \in Chan : Sent(t) => Sent(t)') /\ LastCounts'
  <2>1. /\ call[g].pc = "idle" /\ last' = last /\ call'[g].n = call[g].n + 1
        /\ call'[g].pc = "send" /\ \A h \in Gos : h # g => call'[h] = call[h]
    BY <1>1, <1>2 DEF Register
  <2>2. last[g].n = call[g].n
    BY <2>1 DEF LastCounts
  <2>3. LastCounts'
    BY <1>1, <2>1, <2>2 DEF LastCounts
  <2>4. ASSUME NEW t \in Chan, Sent(t) PROVE Sent(t)'
    <3>1. CASE t[1] = g
      BY <1>1, <2>1, <2>4, <3>1 DEF Sent
    <3>2. CASE t[1] # g
      BY <1>1, <2>1, <2>4, <3>2 DEF Sent
    <3> QED BY <3>1, <3>2
  <2> QED BY <2>3, <2>4
<1>3. CASE Encode(g) \/ WaitTimeout(g)
  <2>1. /\ last' = last /\ call'[g].n = call[g].n /\ call[g].pc # "idle" /\ call'[g].pc # "idle"
        /\ call'[g].pc \in {"send", "unsend"} => call[g].pc = "send"
        /\ \A h \in Gos : h # g => call'[h] = call[h]
    <3>1. PICK x \in {"wait", "unsend", "giveup"} :
            /\ call' = [call EXCEPT ![g].pc = x] /\ (x = "unsend" => call[g].pc = "send")
            /\ call[g].pc # "idle" /\ last' = last
      BY <1>3 DEF Encode, WaitTimeout
    <3>2. call'[g].n = call[g].n /\ call'[g].pc = x
      BY <1>1, <3>1 DEF CallRec
    <3> QED BY <1>1, <3>1, <3>2
  <2>2. LastCounts'
    BY <1>1, <2>1 DEF LastCounts
  <2>3. ASSUME NEW t \in Chan, Sent(t) PROVE Sent(t)'
    <3>1. CASE t[1] = g
      BY <1>1, <2>1, <2>3, <3>1 DEF Sent
    <3>2. CASE t[1] # g
      BY <1>1, <2>1, <2>3, <3>2 DEF Sent
    <3> QED BY <3>1, <3>2
  <2> QED BY <2>2, <2>3
<1>4. ASSUME NEW out \in Outcomes, NEW of, Return(g, out, of), call[g].pc # "idle",
             out = "send" => call[g].pc = "unsend"
      PROVE  (\A t \in Chan : Sent(t) => Sent(t)') /\ LastCounts'
  <2>1. /\ last'[g].n = call[g].n /\ last'[g].out = out /\ call'[g].n = call[g].n
        /\ call'[g].pc = "idle"
        /\ \A h \in Gos : h # g => call'[h] = call[h] /\ last'[h] = last[h]
    BY <1>1, <1>4 DEF Return, CallRec
  <2>2. LastCounts'
    BY <1>1, <2>1 DEF LastCounts
  <2>3. ASSUME NEW t \in Chan, Sent(t) PROVE Sent(t)'
    <3>1. CASE t[1] = g
      BY <1>1, <1>4, <2>1, <2>3, <3>1 DEF Sent
    <3>2. CASE t[1] # g
      BY <1>1, <2>1, <2>3, <3>2 DEF Sent
    <3> QED BY <3>1, <3>2
  <2> QED BY <2>2, <2>3
<1>5. CASE Forget(g)
  <2>1. CASE call[g].pc = "unsend"
    <3>1. Return(g, "send", <<g, call[g].n>>)
      BY <1>5, <2>1 DEF Forget
    <3> QED BY <1>4, <2>1, <3>1 DEF Outcomes
  <2>2. CASE call[g].pc = "giveup"
    <3>1. Return(g, "timeout", <<g, call[g].n>>)
      BY <1>5, <2>2 DEF Forget
    <3> QED BY <1>4, <2>2, <3>1 DEF Outcomes
  <2> QED BY <1>5, <2>1, <2>2 DEF Forget
<1>6. CASE WaitReply(g)
  <2>1. PICK l \in box : Return(g, l.out, l.of)
    BY <1>6 DEF WaitReply
  <2>2. l.out \in {"ok", "err", "lost"} /\ call[g].pc = "wait"
    BY <1>6 DEF BoxRan, WaitReply
  <2> QED BY <1>4, <2>1, <2>2 DEF Outcomes
<1>7. CASE WaitClosed(g)
  BY <1>4, <1>7 DEF WaitClosed, Outcomes
<1> QED BY <1>2, <1>3, <1>5, <1>6, <1>7 DEF Call, CallStep

LEMMA AppendSplit ==
  ASSUME NEW S, NEW s \in Seq(S), NEW x \in S
  PROVE  \A i \in 1..Len(Append(s, x)) :
           IF i = Len(s) + 1 THEN Append(s, x)[i] = x
           ELSE i \in 1..Len(s) /\ Append(s, x)[i] = s[i]
OBVIOUS

(* The request that Encode writes is the only one of its call.             *)
LEMMA EncodeReqs ==
  ASSUME TypeOK, ReqInv, LastCounts, NEW g \in Gos, Encode(g), \A t \in Chan : Sent(t) => Sent(t)'
  PROVE  ReqInv' /\ OpenGrows(g)
<1> DEFINE c == Owner[g]
<1>0. PICK q \in Request : q = requestOf(g)
  BY CallTypes DEF requestOf, Request, Chan, CallRec
<1>1. UNCHANGED <<ran, job, han, searches>> /\ call[g].pc = "send"
  BY DEF Encode, serverVars
<1>2. \A d \in Clients : JobReqs(d)' = JobReqs(d) /\ NewReqs(d)' = NewReqs(d)
  BY <1>1 DEF JobReqs, NewReqs
<1>3. CASE UNCHANGED up
  <2>1. \A d \in Clients : \A j, k \in job'[d] : j = k
    BY <1>1 DEF ReqInv, RequestsApart
  <2>2. OpenGrows(g)
    BY <1>1, <1>2, <1>3 DEF OpenGrows, Open, UpReqs
  <2> QED BY <1>1, <1>2, <1>3, <2>1, <2>2, FrameReqs
<1>4. CASE up' = [up EXCEPT ![c] = Append(@, q)] /\ call' = [call EXCEPT ![g].pc = "wait"]
  <2>1. /\ c \in Clients /\ q.of = <<g, call[g].n>> /\ q.of \in Chan
        /\ q.of[1] = g /\ q.of[2] = call[g].n /\ call[g].n \in Nat
    <3>1. q.of = <<g, call[g].n>>
      BY <1>0 DEF requestOf
    <3>2. c \in Clients /\ q.of \in Chan
      BY OfChan
    <3> QED BY <3>1, <3>2, CallTypes DEF CallRec
  <2>2. ~Sent(q.of)
    BY <1>1, <2>1 DEF Sent
  <2>3. /\ \A d \in Clients : d # c => up'[d] = up[d]
        /\ up'[c] = Append(up[c], q) /\ up[c] \in Seq(Request)
    BY <1>4, <2>1, RunTypes
  <2> HIDE DEF c
  <2>4. \A d \in Clients : \A r \in Open(d) : r.of # q.of /\ r.of \in Chan /\ Owner[r.of[1]] = d /\ Sent(r.of)'
    BY <2>2, ReqTypes, OfChan DEF ReqInv, RequestsSent
  <2>5. UpReqs(c)' = UpReqs(c) \cup {q}
    BY <2>1, <2>3 DEF UpReqs
  <2>6. \A d \in Clients : d # c => UpReqs(d)' = UpReqs(d)
    BY <2>3 DEF UpReqs
  <2>7. \A d \in Clients : \A r \in Open(d)' : r \in Open(d) \/ (d = c /\ r = q)
    BY <1>1, <1>2, <2>5, <2>6 DEF Open
  <2>8. \A d \in Clients : \A r \in Todo(d)' : r \in Todo(d) \/ (d = c /\ r = q)
    BY <1>1, <1>2, <2>5, <2>6 DEF Todo
  <2>9. Sent(q.of)'
    <3>1. call'[g].n = call[g].n /\ call'[g].pc = "wait" /\ UNCHANGED last
      BY <1>4, RunTypes DEF CallRec, Encode
    <3>2. last[g].n = call[g].n - 1 /\ last[g].n \in Nat
      BY <1>1, RunTypes DEF LastCounts
    <3> QED BY <2>1, <3>1, <3>2 DEF Sent
  <2>10. RequestsSent'
    BY <2>1, <2>4, <2>7, <2>9 DEF RequestsSent, c
  <2>11. NotRunYet'
    <3>1. q.of \notin ran
      BY <2>2 DEF ReqInv, RanSent
    <3> QED BY <1>1, <2>8, <3>1 DEF ReqInv, NotRunYet
  <2>12. RanSent'
    BY <1>1, RunTypes DEF ReqInv, RanSent
  <2>13. RequestsApart'
    <3>1. \A d \in Clients : \A i, k \in 1..Len(up'[d]) : up'[d][i].of = up'[d][k].of => i = k
      <4>1. \A i \in 1..Len(up[c]) : up[c][i].of # q.of
        <5>1. \A i \in 1..Len(up[c]) : up[c][i] \in Open(c)
          BY DEF Open, UpReqs
        <5> QED BY <2>1, <2>4, <5>1
      <4>2. \A i \in 1..Len(up'[c]) : IF i = Len(up[c]) + 1 THEN up'[c][i] = q
                                     ELSE i \in 1..Len(up[c]) /\ up'[c][i] = up[c][i]
        BY <2>3, AppendSplit
      <4>3. \A i, k \in 1..Len(up'[c]) : up'[c][i].of = up'[c][k].of => i = k
        <5>1. \A i, k \in 1..Len(up[c]) : up[c][i].of = up[c][k].of => i = k
          BY <2>1 DEF ReqInv, RequestsApart
        <5> QED BY <4>1, <4>2, <5>1
      <4> QED BY <2>3, <4>3 DEF ReqInv, RequestsApart
    <3>2. \A d \in Clients : \A r \in UpReqs(d)', s \in JobReqs(d) \cup searches[d] : r.of # s.of
      <4>1. \A s \in JobReqs(c) \cup searches[c] : q.of # s.of
        BY <2>1, <2>4 DEF Open
      <4> QED BY <2>5, <2>6, <4>1 DEF ReqInv, RequestsApart
    <3> QED BY <1>1, <1>2, <3>1, <3>2 DEF ReqInv, RequestsApart
  <2>14. OpenGrows(g)
    BY <1>0, <2>7 DEF OpenGrows, c
  <2> QED BY <2>10, <2>11, <2>12, <2>13, <2>14 DEF ReqInv
<1> QED BY <1>0, <1>3, <1>4 DEF Encode
(* Requests go from one place to another, and none is run.                 *)
LEMMA MoveReqs ==
  ASSUME TypeOK, ReqInv, UNCHANGED <<call, last, ran>>, RequestsApart',
         \A c \in Clients : Open(c)' \subseteq Open(c) /\ Todo(c)' \subseteq Todo(c)
  PROVE  ReqInv'
<1>1. RequestsSent'
  BY DEF ReqInv, RequestsSent, Sent
<1>2. NotRunYet'
  BY DEF ReqInv, NotRunYet
<1>3. RanSent'
  BY DEF ReqInv, RanSent, Sent
<1> QED BY <1>1, <1>2, <1>3 DEF ReqInv

(* One is run, and is not to be run again.                                 *)
LEMMA RunReq ==
  ASSUME TypeOK, ReqInv, UNCHANGED <<call, last>>, RequestsApart',
         \A d \in Clients : Open(d)' \subseteq Open(d) /\ Todo(d)' \subseteq Todo(d),
         NEW c \in Clients, NEW r \in Open(c), ran' = ran \cup {r.of},
         \A s \in Todo(c)' : s.of # r.of
  PROVE  ReqInv'
<1>1. RequestsSent'
  BY DEF ReqInv, RequestsSent, Sent
<1>2. NotRunYet'
  <2>1. \A d \in Clients : \A s \in Todo(d)' : s.of # r.of
    BY ReqTypes DEF ReqInv, RequestsSent
  <2> QED BY <2>1 DEF ReqInv, NotRunYet
<1>3. RanSent'
  BY DEF ReqInv, RanSent, RequestsSent, Sent
<1> QED BY <1>1, <1>2, <1>3 DEF ReqInv

(* A handler goes on, with the job it has.                                 *)
LEMMA HandlerReqs ==
  ASSUME TypeOK, ReqInv, JobRan, UNCHANGED <<up, job, searches, ran, call, last>>,
         NEW c \in Clients, NEW x \in HanPcs \ {"call"}, han' = [han EXCEPT ![c] = x],
         x \in Serving => han[c] \in Serving \ {"call"}
  PROVE  ReqInv' /\ JobRan' /\ OpenShrinks
<1>1. han'[c] = x /\ \A d \in Clients : d # c => han'[d] = han[d]
  BY RunTypes
<1>2. \A d \in Clients : JobReqs(d)' \subseteq JobReqs(d) /\ NewReqs(d)' \subseteq NewReqs(d)
  BY <1>1 DEF JobReqs, NewReqs
<1>3. \A d \in Clients : \A j, k \in job'[d] : j = k
  BY DEF ReqInv, RequestsApart
<1>4. ReqInv'
  BY <1>2, <1>3, FrameReqs, SameSent
<1>5. JobRan'
  BY <1>1 DEF JobRan, Serving
<1>6. OpenShrinks
  BY <1>2 DEF OpenShrinks, Open, UpReqs
<1> QED BY <1>4, <1>5, <1>6

(* Nothing of a request changes.                                           *)
LEMMA QuietReqs ==
  ASSUME TypeOK, ReqInv, JobRan, UNCHANGED <<up, job, han, searches, ran>>,
         \A t \in Chan : Sent(t) => Sent(t)'
  PROVE  ReqInv' /\ JobRan' /\ OpenShrinks
<1>1. \A c \in Clients : JobReqs(c)' = JobReqs(c) /\ NewReqs(c)' = NewReqs(c)
  BY DEF JobReqs, NewReqs
<1>2. \A d \in Clients : \A j, k \in job'[d] : j = k
  BY DEF ReqInv, RequestsApart
<1>3. ReqInv'
  BY <1>1, <1>2, FrameReqs
<1>4. OpenShrinks
  BY <1>1 DEF OpenShrinks, Open, UpReqs
<1> QED BY <1>3, <1>4 DEF JobRan

(* The handler reads a request.                                            *)
LEMMA ReadReqs ==
  ASSUME TypeOK, ReqInv, JobRan, NEW c \in Clients, ReadRequest(c)
  PROVE  ReqInv' /\ JobRan' /\ OpenShrinks
<1>1. /\ han[c] = "read" /\ up[c] # <<>> /\ up' = [up EXCEPT ![c] = Tail(@)]
      /\ UNCHANGED <<call, last, ran>>
  BY DEF ReadRequest, clientVars
<1>2. up[c] \in Seq(Request) /\ up \in [Clients -> Seq(Request)]
  BY RunTypes
<1>3. PICK r \in Request : r = Head(up[c]) /\ r = up[c][1] /\ 1 \in 1..Len(up[c])
  BY <1>1, <1>2
<1>4. /\ \A d \in Clients : d # c => up'[d] = up[d]
      /\ up'[c] = Tail(up[c])
      /\ \A i \in 1..Len(up'[c]) : i \in Nat /\ i + 1 \in 1..Len(up[c]) /\ up'[c][i] = up[c][i + 1]
  BY <1>1, <1>2, TailAt
<1>5. /\ \A d \in Clients : d # c => UpReqs(d)' = UpReqs(d)
      /\ UpReqs(c)' \subseteq UpReqs(c) /\ r \in UpReqs(c)
  BY <1>3, <1>4 DEF UpReqs
<1>6. \A s \in UpReqs(c)' : s.of # r.of
  <2>1. \A i, k \in 1..Len(up[c]) : up[c][i].of = up[c][k].of => i = k
    BY DEF ReqInv, RequestsApart
  <2>2. \A i \in 1..Len(up'[c]) : up'[c][i].of # r.of
    <3> SUFFICES ASSUME NEW i \in 1..Len(up'[c]) PROVE up'[c][i].of # r.of
      OBVIOUS
    <3>1. i + 1 \in 1..Len(up[c]) /\ i + 1 # 1 /\ up'[c][i] = up[c][i + 1]
      BY <1>4
    <3> QED BY <1>3, <2>1, <3>1
  <2> QED BY <2>2 DEF UpReqs
<1>7. \A d \in Clients : \A i, k \in 1..Len(up'[d]) : up'[d][i].of = up'[d][k].of => i = k
  <2>1. \A i, k \in 1..Len(up[c]) : up[c][i].of = up[c][k].of => i = k
    BY DEF ReqInv, RequestsApart
  <2>2. \A i, k \in 1..Len(up'[c]) : up'[c][i].of = up'[c][k].of => i = k
    <3> SUFFICES ASSUME NEW i \in 1..Len(up'[c]), NEW k \in 1..Len(up'[c]),
                        up'[c][i].of = up'[c][k].of
                 PROVE i = k
      OBVIOUS
    <3>1. /\ i \in Nat /\ i + 1 \in 1..Len(up[c]) /\ up'[c][i] = up[c][i + 1]
          /\ k \in Nat /\ k + 1 \in 1..Len(up[c]) /\ up'[c][k] = up[c][k + 1]
      BY <1>4
    <3>2. i + 1 = k + 1
      BY <2>1, <3>1
    <3> QED BY <3>1, <3>2
  <2>3. \A d \in Clients : d # c =>
          \A i, k \in 1..Len(up'[d]) : up'[d][i].of = up'[d][k].of => i = k
    BY <1>4 DEF ReqInv, RequestsApart
  <2> QED BY <2>2, <2>3
<1>8. JobReqs(c) = {} /\ NewReqs(c) = {}
  BY <1>1 DEF JobReqs, NewReqs, Serving
<1>9. CASE UNCHANGED <<han, job>> /\ searches' = [searches EXCEPT ![c] = @ \cup {r}]
  <2>1. \A d \in Clients : JobReqs(d)' = JobReqs(d) /\ NewReqs(d)' = NewReqs(d)
    BY <1>9 DEF JobReqs, NewReqs
  <2>2. searches'[c] = searches[c] \cup {r} /\ \A d \in Clients : d # c => searches'[d] = searches[d]
    BY <1>9, RunTypes
  <2>3. \A d \in Clients : Open(d)' \subseteq Open(d) /\ Todo(d)' \subseteq Todo(d)
    BY <1>5, <2>1, <2>2 DEF Open, Todo
  <2>4. \A s \in searches[c] : s.of # r.of
    BY <1>5 DEF ReqInv, RequestsApart
  <2>5. RequestsApart'
    BY <1>5, <1>6, <1>7, <1>8, <1>9, <2>1, <2>2, <2>4 DEF ReqInv, RequestsApart
  <2>6. JobRan'
    BY <1>1, <1>9 DEF JobRan
  <2> QED BY <1>1, <2>3, <2>5, <2>6, MoveReqs DEF OpenShrinks
<1>10. CASE /\ han' = at(c, "call") /\ UNCHANGED searches
            /\ job' = [job EXCEPT ![c] = {[req |-> r, out |-> "ok", ev |-> 0]}]
  <2>1. /\ job'[c] = {[req |-> r, out |-> "ok", ev |-> 0]} /\ han'[c] = "call"
        /\ \A d \in Clients : d # c => job'[d] = job[d] /\ han'[d] = han[d]
    BY <1>10, RunTypes DEF at
  <2>2. /\ JobReqs(c)' = {r} /\ NewReqs(c)' = {r}
        /\ \A d \in Clients : d # c => JobReqs(d)' = JobReqs(d) /\ NewReqs(d)' = NewReqs(d)
    <3>1. [req |-> r, out |-> "ok", ev |-> 0].req = r
      OBVIOUS
    <3>2. JobReqs(c)' = {j.req : j \in job'[c]} /\ NewReqs(c)' = {j.req : j \in job'[c]}
      BY <2>1 DEF JobReqs, NewReqs, Serving
    <3>3. \A d \in Clients : d # c => JobReqs(d)' = JobReqs(d) /\ NewReqs(d)' = NewReqs(d)
      BY <2>1 DEF JobReqs, NewReqs
    <3> QED BY <2>1, <3>1, <3>2, <3>3
  <2>3. \A d \in Clients : Open(d)' \subseteq Open(d) /\ Todo(d)' \subseteq Todo(d)
    BY <1>5, <1>10, <2>2 DEF Open, Todo
  <2>4. \A s \in searches[c] : s.of # r.of
    BY <1>5 DEF ReqInv, RequestsApart
  <2>5. RequestsApart'
    <3>1. \A d \in Clients : \A j, k \in job'[d] : j = k
      BY <2>1 DEF ReqInv, RequestsApart
    <3>2. \A d \in Clients :
            /\ \A q \in UpReqs(d)', s \in JobReqs(d)' \cup searches[d] : q.of # s.of
            /\ \A q \in JobReqs(d)', s \in searches[d] : q.of # s.of
      BY <1>5, <1>6, <2>2, <2>4 DEF ReqInv, RequestsApart
    <3> QED BY <1>7, <1>10, <3>1, <3>2 DEF ReqInv, RequestsApart
  <2>6. JobRan'
    BY <1>1, <2>1 DEF JobRan
  <2> QED BY <1>1, <2>3, <2>5, <2>6, MoveReqs DEF OpenShrinks
<1> QED BY <1>3, <1>9, <1>10 DEF ReadRequest

(* dispatch runs it.                                                       *)
LEMMA DispatchReqs ==
  ASSUME TypeOK, ReqInv, JobRan, NEW c \in Clients, Dispatch(c)
  PROVE  ReqInv' /\ JobRan' /\ OpenShrinks
<1>1. PICK j \in job[c] :
        /\ ran' = ran \cup {j.req.of}
        /\ \/ han' = at(c, "build") /\ job' = job
           \/ han' = at(c, "reply") /\ job' = [job EXCEPT ![c] = {[j EXCEPT !.out = "err"]}]
           \/ han' = at(c, "reply") /\ job' = job
  BY DEF Dispatch
<1>2. han[c] = "call" /\ UNCHANGED <<call, last, up, searches>>
  BY DEF Dispatch, clientVars
<1>3. job[c] = {j} /\ j \in Job
  BY RunTypes DEF ReqInv, RequestsApart
<1>4. /\ han'[c] \in {"build", "reply"} /\ \A d \in Clients : d # c => han'[d] = han[d]
      /\ \A d \in Clients : d # c => job'[d] = job[d]
  BY <1>1, RunTypes DEF at
<1>5. \E k : job'[c] = {k} /\ k.req = j.req
  <2>1. [j EXCEPT !.out = "err"].req = j.req
    BY <1>3 DEF Job
  <2> QED BY <1>1, <1>3, <2>1, RunTypes
<1>6. /\ JobReqs(c)' = {j.req} /\ NewReqs(c)' = {} /\ JobReqs(c) = {j.req}
      /\ \A d \in Clients : d # c => JobReqs(d)' = JobReqs(d) /\ NewReqs(d)' = NewReqs(d)
  BY <1>2, <1>3, <1>4, <1>5 DEF JobReqs, NewReqs, Serving
<1>7. \A d \in Clients : UpReqs(d)' = UpReqs(d)
  BY <1>2 DEF UpReqs
<1>8. \A d \in Clients : Open(d)' \subseteq Open(d) /\ Todo(d)' \subseteq Todo(d)
  BY <1>2, <1>6, <1>7 DEF Open, Todo
<1>9. RequestsApart'
  <2>1. \A d \in Clients : \A k, m \in job'[d] : k = m
    BY <1>4, <1>5 DEF ReqInv, RequestsApart
  <2> QED BY <1>2, <1>6, <1>7, <2>1 DEF ReqInv, RequestsApart
<1>10. j.req \in Open(c) /\ \A s \in Todo(c)' : s.of # j.req.of
  <2>1. \A s \in UpReqs(c) \cup searches[c] : s.of # j.req.of
    BY <1>6 DEF ReqInv, RequestsApart
  <2> QED BY <1>2, <1>6, <1>7, <2>1 DEF Open, Todo
<1>11. ReqInv'
  BY <1>1, <1>2, <1>8, <1>9, <1>10, RunReq
<1>12. JobRan'
  BY <1>1, <1>4, <1>5 DEF JobRan
<1> QED BY <1>8, <1>11, <1>12 DEF OpenShrinks

(* A search is run.                                                        *)
LEMMA SearchReqs ==
  ASSUME TypeOK, ReqInv, JobRan, NEW c \in Clients, NEW r \in searches[c],
         searches' = [searches EXCEPT ![c] = @ \ {r}], ran' = ran \cup {r.of},
         UNCHANGED <<up, job, han, call, last>>
  PROVE  ReqInv' /\ JobRan' /\ OpenShrinks
<1>1. searches'[c] = searches[c] \ {r} /\ \A d \in Clients : d # c => searches'[d] = searches[d]
  BY RunTypes
<1>2. \A d \in Clients : JobReqs(d)' = JobReqs(d) /\ NewReqs(d)' = NewReqs(d) /\ UpReqs(d)' = UpReqs(d)
  BY DEF JobReqs, NewReqs, UpReqs
<1>3. \A d \in Clients : Open(d)' \subseteq Open(d) /\ Todo(d)' \subseteq Todo(d)
  BY <1>1, <1>2 DEF Open, Todo
<1>4. RequestsApart'
  BY <1>1, <1>2 DEF ReqInv, RequestsApart
<1>5. r \in Open(c) /\ \A s \in Todo(c)' : s.of # r.of
  <2>1. \A s \in UpReqs(c) \cup JobReqs(c) \cup (searches[c] \ {r}) : s.of # r.of
    BY DEF ReqInv, RequestsApart
  <2> QED BY <1>1, <1>2, <2>1, ReqTypes DEF Open, Todo
<1>6. ReqInv'
  BY <1>3, <1>4, <1>5, RunReq
<1>7. JobRan'
  BY DEF JobRan
<1> QED BY <1>3, <1>6, <1>7 DEF OpenShrinks
(* Replies are written of calls that have been run.                        *)
LEMMA DownPut ==
  ASSUME TypeOK, DownRan, ran \subseteq ran', NEW c \in Clients, NEW m \in Reply \cup Event,
         m.type = "reply" => m.of \in ran', down' = [down EXCEPT ![c] = Append(@, m)]
  PROVE  DownRan'
<1>1. down \in [Clients -> Seq(Reply \cup Event)] /\ down[c] \in Seq(Reply \cup Event)
  BY RunTypes
<1>2. down'[c] = Append(down[c], m) /\ \A d \in Clients : d # c => down'[d] = down[d]
  BY <1>1
<1>3. \A i \in 1..Len(down'[c]) : (i \in 1..Len(down[c]) /\ down'[c][i] = down[c][i]) \/ down'[c][i] = m
  BY <1>1, <1>2, AppendAt
<1>4. \A i \in 1..Len(down'[c]) : down'[c][i].type = "reply" => down'[c][i].of \in ran'
  BY <1>3 DEF DownRan
<1> QED BY <1>2, <1>4 DEF DownRan

LEMMA DownTake ==
  ASSUME TypeOK, DownRan, UNCHANGED ran, NEW c \in Clients, down[c] # <<>>,
         down' = [down EXCEPT ![c] = Tail(@)]
  PROVE  DownRan'
<1>1. down \in [Clients -> Seq(Reply \cup Event)] /\ down[c] \in Seq(Reply \cup Event)
  BY RunTypes
<1>2. down'[c] = Tail(down[c]) /\ \A d \in Clients : d # c => down'[d] = down[d]
  BY <1>1
<1>3. \A i \in 1..Len(down'[c]) : i + 1 \in 1..Len(down[c]) /\ down'[c][i] = down[c][i + 1]
  BY <1>1, <1>2, TailAt
<1> QED BY <1>2, <1>3 DEF DownRan

(* The callers.                                                            *)
LEMMA CallerRuns ==
  ASSUME TypeOK, RunInv, NEW g \in Gos, Call(g) \/ CallStep(g) \/ WaitTimeout(g)
  PROVE  RunInv' /\ OpenGrows(g)
<1> USE DEF serverVars
<1>1. (\A t \in Chan : Sent(t) => Sent(t)') /\ LastCounts'
  BY CallerSent DEF RunInv, WordInv
<1>2. UNCHANGED <<down, hand, job, han, searches, ran>> /\ box' \subseteq box
  BY DEF Call, CallStep, Register, Encode, Forget, WaitReply, WaitClosed, WaitTimeout
<1>3. CASE Encode(g)
  <2>1. JobRan'
    BY <1>2 DEF JobRan, RunInv, WordInv
  <2> QED BY <1>1, <1>2, <1>3, <2>1, EncodeReqs, FrameWords DEF RunInv
<1>4. CASE UNCHANGED up
  BY <1>1, <1>2, <1>4, QuietReqs, FrameWords DEF RunInv, WordInv, OpenShrinks, OpenGrows
<1> QED BY <1>3, <1>4 DEF Call, CallStep, Register, Forget, WaitReply, WaitClosed, WaitTimeout

(* The read loop.                                                          *)
LEMMA ReaderRuns ==
  ASSUME TypeOK, RunInv, NEW c \in Clients, ReadStep(c)
  PROVE  RunInv' /\ OpenShrinks
<1> USE DEF serverVars
<1>1. UNCHANGED <<up, call, last, job, han, searches, ran>>
  BY DEF ReadStep, ReadReply, ReadEvent, Deliver, ReadEnd
<1>2. ReqInv' /\ JobRan' /\ OpenShrinks /\ LastCounts'
  BY <1>1, SameSent, QuietReqs DEF RunInv, WordInv, LastCounts
<1>3. DownRan /\ HandRan /\ BoxRan /\ hand \in [Clients -> SUBSET Letter]
  BY ConnFacts DEF RunInv, WordInv
<1>4. CASE ReadReply(c)
  <2>1. /\ down[c] # <<>> /\ Head(down[c]).type = "reply" /\ UNCHANGED box
        /\ down' = [down EXCEPT ![c] = Tail(@)]
    BY <1>4 DEF ReadReply
  <2>2. PICK m \in Reply \cup Event : m = Head(down[c]) /\ m = down[c][1] /\ 1 \in 1..Len(down[c])
    BY <2>1, RunTypes
  <2>3. m \in Reply /\ m.of \in ran
    BY <1>3, <2>1, <2>2, HeadKinds DEF DownRan
  <2>4. DownRan'
    BY <1>1, <1>3, <2>1, DownTake
  <2>5. UNCHANGED hand \/ \E e : hand' = [hand EXCEPT ![c] = {[ch |-> e.ch, of |-> m.of, out |-> m.out]}]
    BY <1>4, <2>2 DEF ReadReply
  <2>6. \A d \in Clients : \A h \in hand'[d] : h \in hand[d] \/ (h.of = m.of /\ h.out = m.out)
    BY <1>3, <2>5
  <2>7. HandRan'
    BY <1>1, <1>3, <2>3, <2>6 DEF HandRan, Reply
  <2>8. BoxRan'
    BY <1>1, <1>3, <2>1 DEF BoxRan
  <2> QED BY <1>2, <2>4, <2>7, <2>8 DEF RunInv, WordInv
<1>5. CASE ReadEvent(c)
  <2>1. DownRan'
    BY <1>1, <1>3, <1>5, DownTake DEF ReadEvent
  <2> QED BY <1>1, <1>2, <1>3, <1>5, <2>1 DEF ReadEvent, RunInv, WordInv, HandRan, BoxRan
<1>6. CASE Deliver(c)
  <2>1. PICK l \in hand[c] : box' = box \cup {l}
    BY <1>6 DEF Deliver
  <2>2. hand' = [hand EXCEPT ![c] = {}] /\ UNCHANGED down
    BY <1>6 DEF Deliver
  <2>3. HandRan'
    BY <1>1, <1>3, <2>2 DEF HandRan
  <2>4. BoxRan'
    BY <1>1, <1>3, <2>1 DEF BoxRan, HandRan
  <2> QED BY <1>1, <1>2, <1>3, <2>2, <2>3, <2>4 DEF RunInv, WordInv, DownRan
<1>7. CASE ReadEnd(c)
  <2>1. UNCHANGED <<down, hand>> /\ \A l \in box' : l \in box \/ l.out = "lost"
    BY <1>7 DEF ReadEnd
  <2>2. BoxRan'
    BY <1>1, <1>3, <2>1 DEF BoxRan
  <2> QED BY <1>1, <1>2, <1>3, <2>1, <2>2 DEF RunInv, WordInv, DownRan, HandRan
<1> QED BY <1>4, <1>5, <1>6, <1>7 DEF ReadStep

(* The handlers.                                                           *)
LEMMA HandlerRuns ==
  ASSUME TypeOK, RunInv, NEW c \in Clients, HandlerStep(c)
  PROVE  RunInv' /\ OpenShrinks
<1>1. UNCHANGED <<call, last, hand, box>>
  BY DEF HandlerStep, Track, Subscribe, ReadRequest, ReadFails, Dispatch, Build, Cast, SendReply,
         RequestShutdown, Unsubscribe, Untrack, ConnDone, clientVars
<1>2. LastCounts' /\ ReqInv /\ WordInv /\ JobRan
  BY <1>1 DEF RunInv, WordInv, LastCounts
<1>3. CASE ReadRequest(c)
  BY <1>1, <1>2, <1>3, ReadReqs, FrameWords DEF ReadRequest, RunInv
<1>4. CASE Dispatch(c)
  <2>1. ran \subseteq ran' /\ UNCHANGED down
    BY <1>4 DEF Dispatch
  <2> QED BY <1>1, <1>2, <1>4, <2>1, DispatchReqs, FrameWords DEF RunInv
<1>5. CASE Build(c)
  <2>1. /\ han[c] = "build" /\ han' = [han EXCEPT ![c] = "cast"]
        /\ job' = [job EXCEPT ![c] = {[j EXCEPT !.ev = version] : j \in @}]
        /\ UNCHANGED <<up, searches, ran, down>>
    BY <1>5 DEF Build, at
  <2>2. /\ han'[c] = "cast" /\ job'[c] = {[j EXCEPT !.ev = version] : j \in job[c]}
        /\ \A d \in Clients : d # c => han'[d] = han[d] /\ job'[d] = job[d]
    BY <2>1, RunTypes
  <2>3. \A j \in job[c] : [j EXCEPT !.ev = version].req = j.req
    BY RunTypes DEF Job
  <2>4. \A k \in job'[c] : \E j \in job[c] : k.req = j.req /\ k = [j EXCEPT !.ev = version]
    BY <2>2, <2>3
  <2>5. \A d \in Clients : JobReqs(d)' \subseteq JobReqs(d) /\ NewReqs(d)' \subseteq NewReqs(d)
    BY <2>1, <2>2, <2>4 DEF JobReqs, NewReqs, Serving
  <2>6. \A d \in Clients : \A j, k \in job'[d] : j = k
    BY <1>2, <2>2, <2>4 DEF ReqInv, RequestsApart
  <2>7. OpenShrinks
    BY <2>1, <2>5 DEF OpenShrinks, Open, UpReqs
  <2>8. ReqInv'
    BY <1>1, <1>2, <2>1, <2>5, <2>6, SameSent, FrameReqs
  <2>9. JobRan'
    BY <1>2, <2>1, <2>2, <2>4 DEF JobRan
  <2> QED BY <1>1, <1>2, <2>1, <2>8, <2>9, <2>7, FrameWords DEF RunInv
<1>6. CASE SendReply(c)
  <2>1. han[c] = "reply" /\ UNCHANGED <<up, job, searches, ran>>
    BY <1>6 DEF SendReply
  <2>2. \E x \in {"unsub", "stop", "read"} : han' = [han EXCEPT ![c] = x]
    BY <1>6 DEF SendReply, at
  <2>3. ReqInv' /\ JobRan' /\ OpenShrinks
    BY <1>1, <1>2, <2>1, <2>2, HandlerReqs DEF HanPcs, Serving
  <2>4. DownRan'
    <3>1. CASE UNCHANGED down
      BY <1>2, <2>1, <3>1 DEF WordInv, DownRan
    <3>2. ASSUME NEW j \in job[c], down' = [down EXCEPT ![c] = Append(@, reply(j.req, j.out))]
          PROVE  DownRan'
      <4>1. j.req \in Request /\ j.out \in {"ok", "err"}
        BY RunTypes DEF Job
      <4>2. PICK m \in Reply : m = reply(j.req, j.out)
        BY <4>1, ReplyMsg
      <4>3. m.of \in ran
        BY <1>2, <2>1, <4>2 DEF JobRan, reply
      <4> QED BY <1>2, <2>1, <3>2, <4>2, <4>3, DownPut DEF WordInv
    <3> QED BY <1>6, <3>1, <3>2 DEF SendReply
  <2> QED BY <1>1, <1>2, <2>1, <2>3, <2>4 DEF RunInv, WordInv, HandRan, BoxRan
<1>7. CASE \/ Track(c) \/ Subscribe(c) \/ ReadFails(c) \/ Cast(c) \/ RequestShutdown(c)
           \/ Unsubscribe(c) \/ Untrack(c) \/ ConnDone(c)
  <2>1. UNCHANGED <<up, down, job, searches, ran>>
    BY <1>7 DEF Track, Subscribe, ReadFails, Cast, RequestShutdown, Unsubscribe, Untrack, ConnDone
  <2>2. \E x \in HanPcs \ {"call"} : /\ han' = [han EXCEPT ![c] = x]
                                     /\ x \in Serving => han[c] \in Serving \ {"call"}
    BY <1>7 DEF Track, Subscribe, ReadFails, Cast, RequestShutdown, Unsubscribe, Untrack, ConnDone, at,
                HanPcs, Serving
  <2>3. ReqInv' /\ JobRan' /\ OpenShrinks
    BY <1>1, <1>2, <2>1, <2>2, HandlerReqs
  <2> QED BY <1>1, <1>2, <2>1, <2>3, FrameWords DEF RunInv
<1> QED BY <1>3, <1>4, <1>5, <1>6, <1>7 DEF HandlerStep

(* The searches.                                                           *)
LEMMA SearchRuns ==
  ASSUME TypeOK, RunInv, NEW c \in Clients, SearchReply(c)
  PROVE  RunInv' /\ OpenShrinks
<1>1. PICK r \in searches[c], out \in {"ok", "err"} : SearchReply(c)!(r, out)
  BY DEF SearchReply
<1>2. /\ UNCHANGED <<call, last, hand, box, up, job, han>> /\ ran' = ran \cup {r.of}
      /\ searches' = [searches EXCEPT ![c] = @ \ {r}]
      /\ UNCHANGED down \/ down' = [down EXCEPT ![c] = Append(@, reply(r, out))]
  BY <1>1 DEF clientVars
<1>3. LastCounts' /\ ReqInv /\ WordInv /\ JobRan /\ r \in Request
  BY <1>2, RunTypes DEF RunInv, WordInv, LastCounts
<1>4. ReqInv' /\ JobRan' /\ OpenShrinks
  BY <1>2, <1>3, SearchReqs
<1>5. DownRan'
  <2>1. CASE UNCHANGED down
    BY <1>2, <1>3, <2>1 DEF WordInv, DownRan
  <2>2. CASE down' = [down EXCEPT ![c] = Append(@, reply(r, out))]
    <3>1. PICK m \in Reply : m = reply(r, out)
      BY <1>3, ReplyMsg
    <3>2. m.of = r.of
      BY <3>1 DEF reply
    <3> QED BY <1>2, <1>3, <2>2, <3>1, <3>2, DownPut DEF WordInv
  <2> QED BY <1>2, <2>1, <2>2
<1> QED BY <1>2, <1>3, <1>4, <1>5 DEF RunInv, WordInv, HandRan, BoxRan

(* Everyone else.                                                          *)
LEMMA OthersRun ==
  ASSUME TypeOK, RunInv,
         \/ \E c \in Clients : Dial(c) \/ CloseClient(c) \/ HangUp(c) \/ Accept(c) \/ PumpStep(c)
         \/ AcceptEnd \/ TickStep \/ MainStep \/ Signal \/ UNCHANGED vars
  PROVE  RunInv' /\ OpenShrinks
<1> USE DEF clientVars, serverVars, engineVars
<1>1. UNCHANGED <<up, job, searches, ran, call, last, hand, box>>
  BY DEF Dial, CloseClient, HangUp, Accept, PumpStep, PumpTake, PumpSend, AcceptEnd, TickStep, TickBuild,
         TickCast, MainStep, Asked, CloseListener, CloseConns, WaitHandlers, CloseEngine, EngineClosed,
         Signal, vars
<1>2. ReqInv /\ JobRan /\ WordInv /\ LastCounts'
  BY <1>1 DEF RunInv, WordInv, LastCounts
<1>3. ReqInv' /\ JobRan' /\ OpenShrinks
  <2>1. CASE UNCHANGED han
    BY <1>1, <1>2, <2>1, SameSent, QuietReqs
  <2>2. ASSUME NEW c \in Clients, Accept(c) PROVE ReqInv' /\ JobRan' /\ OpenShrinks /\ OpenShrinks
    BY <1>1, <1>2, <2>2, HandlerReqs DEF Accept, at, HanPcs, Serving
  <2> QED BY <2>1, <2>2 DEF Dial, CloseClient, HangUp, PumpStep, PumpTake, PumpSend, AcceptEnd, TickStep,
             TickBuild, TickCast, MainStep, Asked, CloseListener, CloseConns, WaitHandlers, CloseEngine,
             EngineClosed, Signal, vars
<1>4. CASE UNCHANGED down
  BY <1>1, <1>2, <1>3, <1>4, FrameWords DEF RunInv
<1>5. ASSUME NEW c \in Clients, PumpSend(c), ~UNCHANGED down PROVE RunInv' /\ OpenShrinks
  <2>1. PICK m \in Event : down' = [down EXCEPT ![c] = Append(@, m)] /\ m.type = "event"
    <3>1. pump[c].ev \in Nat
      BY DEF TypeOK, ServerTypes
    <3> QED BY <1>5, <3>1, EventMsg DEF PumpSend
  <2>2. DownRan'
    BY <1>1, <1>2, <2>1, DownPut DEF WordInv
  <2> QED BY <1>1, <1>2, <1>3, <2>2 DEF RunInv, WordInv, HandRan, BoxRan
<1> QED BY <1>4, <1>5 DEF Dial, CloseClient, HangUp, Accept, PumpStep, PumpTake, AcceptEnd, TickStep,
           TickBuild, TickCast, MainStep, Asked, CloseListener, CloseConns, WaitHandlers, CloseEngine,
           EngineClosed, Signal, vars

LEMMA NextRuns == ASSUME TypeOK, RunInv, [Next]_vars PROVE RunInv'
BY CallerRuns, ReaderRuns, HandlerRuns, SearchRuns, OthersRun DEF Next

LEMMA InitRuns == Init => RunInv
<1> SUFFICES ASSUME Init PROVE RunInv
  OBVIOUS
<1>1. \A c \in Clients : Open(c) = {} /\ Todo(c) = {} /\ UpReqs(c) = {} /\ JobReqs(c) = {}
  <2> SUFFICES ASSUME NEW c \in Clients PROVE UpReqs(c) = {} /\ JobReqs(c) = {} /\ NewReqs(c) = {} /\ searches[c] = {}
    BY DEF Open, Todo
  <2>1. up[c] = <<>> /\ job[c] = {} /\ searches[c] = {}
    BY DEF Init
  <2>2. 1..Len(up[c]) = {}
    BY <2>1
  <2> QED BY <2>1, <2>2 DEF UpReqs, JobReqs, NewReqs
<1>2. ReqInv
  BY <1>1 DEF Init, ReqInv, RequestsApart, RequestsSent, NotRunYet, RanSent
<1>3. WordInv /\ LastCounts
  <2>1. DownRan /\ HandRan /\ BoxRan /\ JobRan
    BY DEF Init, DownRan, HandRan, BoxRan, JobRan
  <2>2. LastCounts
    BY DEF Init, LastCounts
  <2> QED BY <2>1, <2>2 DEF WordInv
<1> QED BY <1>2, <1>3 DEF RunInv
(* Every step is a step of Rpc or leaves its variables alone.              *)
Asks    == [g \in Gos |-> call[g].n]
Answers == [g \in Gos |-> [n |-> last[g].n, out |-> last[g].out]]

(* A call is made.                                                         *)
LEMMA RegisterAsks ==
  ASSUME TypeOK, RunInv, NEW g \in Gos, NEW k \in Kinds, Register(g, k)
  PROVE  Promise!Ask(g)
<1>1. /\ call[g].pc = "idle" /\ UNCHANGED <<last, ran>> /\ call'[g].n = call[g].n + 1
      /\ \A h \in Gos : h # g => call'[h] = call[h]
  BY RunTypes DEF Register
<1>2. last[g].n = call[g].n
  BY <1>1 DEF RunInv, LastCounts
<1>3. Asks' = [Asks EXCEPT ![g] = @ + 1] /\ Answers' = Answers
  BY <1>1 DEF Asks, Answers
<1>4. Answers[g].n = Asks[g]
  BY <1>2 DEF Asks, Answers
<1> QED BY <1>1, <1>3, <1>4 DEF Promise!Ask, Asks, Answers

(* A call is run: it has not been run, and its caller has not been told    *)
(* that its write failed.                                                  *)
LEMMA DispatchIsRun ==
  ASSUME TypeOK, RunInv, NEW c \in Clients, NEW r \in Todo(c), ran' = ran \cup {r.of},
         UNCHANGED <<call, last>>
  PROVE  Promise!Next
<1>1. r \in Open(c) /\ r.of \in Chan
  BY ReqTypes, OfChan
<1>2. r.of \notin ran /\ Sent(r.of)
  BY <1>1 DEF RunInv, ReqInv, NotRunYet, RequestsSent
<1>3. PICK g \in Gos, n \in Nat : r.of = <<g, n>>
  BY <1>1 DEF Chan
<1>4. n \in 1..call[g].n /\ ~(last[g].n = n /\ last[g].out = "send")
  BY <1>2, <1>3 DEF Sent
<1>5. Promise!Run(g, n)
  BY <1>2, <1>3, <1>4 DEF Promise!Run
<1> QED BY <1>4, <1>5 DEF Promise!Next

(* A call returns.                                                         *)
LEMMA ReturnAnswers ==
  ASSUME TypeOK, RunInv, NEW g \in Gos, NEW out \in Outcomes, NEW of, Return(g, out, of),
         call[g].pc # "idle", UNCHANGED ran,
         out \in {"ok", "err"} => <<g, call[g].n>> \in ran,
         out = "send" => <<g, call[g].n>> \notin ran
  PROVE  Promise!Next
<1>1. /\ last'[g].n = call[g].n /\ last'[g].out = out /\ call'[g].n = call[g].n /\ call[g].n \in Nat
      /\ \A h \in Gos : h # g => call'[h] = call[h] /\ last'[h] = last[h]
  BY RunTypes DEF Return, CallRec
<1>2. last[g].n = call[g].n - 1
  BY DEF RunInv, LastCounts
<1>3. Asks' = Asks /\ Answers' = [Answers EXCEPT ![g] = [n |-> Asks[g], out |-> out]]
  BY <1>1 DEF Asks, Answers
<1>4. Answers[g].n < Asks[g] /\ Asks[g] = call[g].n
  BY <1>1, <1>2 DEF Asks, Answers
<1>5. Promise!Answer(g, out)
  BY <1>3, <1>4 DEF Promise!Answer, Asks, Answers
<1> QED BY <1>5 DEF Promise!Next

(* The callers' steps.                                                     *)
LEMMA CallerPromise ==
  ASSUME IpcInv, RunInv, NEW g \in Gos, Call(g) \/ CallStep(g) \/ WaitTimeout(g)
  PROVE  Promise!Next \/ UNCHANGED <<Asks, ran, Answers>>
<1>0. TypeOK /\ ChansOnce
  BY DEF IpcInv
<1>1. ASSUME NEW k \in Kinds, Register(g, k) PROVE Promise!Next
  BY <1>0, <1>1, RegisterAsks DEF Promise!Next
<1>2. CASE Encode(g) \/ WaitTimeout(g)
  <2>1. UNCHANGED <<last, ran>> /\ \A h \in Gos : call'[h].n = call[h].n
    BY <1>0, <1>2, CallPc DEF Encode, WaitTimeout
  <2> QED BY <2>1 DEF Asks, Answers
<1>3. CASE Forget(g)
  <2>1. CASE call[g].pc = "unsend"
    <3>1. Return(g, "send", <<g, call[g].n>>) /\ UNCHANGED ran
      BY <1>3, <2>1 DEF Forget
    <3>2. <<g, call[g].n>> \notin ran
      BY <2>1 DEF RunInv, ReqInv, RanSent, Sent
    <3> QED BY <1>0, <2>1, <3>1, <3>2, ReturnAnswers DEF Outcomes
  <2>2. CASE call[g].pc = "giveup"
    <3>1. Return(g, "timeout", <<g, call[g].n>>) /\ UNCHANGED ran
      BY <1>3, <2>2 DEF Forget
    <3> QED BY <1>0, <2>2, <3>1, ReturnAnswers DEF Outcomes
  <2> QED BY <1>3, <2>1, <2>2 DEF Forget
<1>4. CASE WaitReply(g)
  <2>1. PICK l \in box : l.ch = <<g, call[g].n>> /\ Return(g, l.out, l.of)
    BY <1>4 DEF WaitReply
  <2>2. l.of = <<g, call[g].n>>
    BY <1>0, <2>1 DEF ChansOnce
  <2>3. l.out \in {"ok", "err", "lost"} /\ (l.out # "lost" => <<g, call[g].n>> \in ran)
    BY <2>2 DEF RunInv, WordInv, BoxRan
  <2>4. call[g].pc = "wait" /\ UNCHANGED ran
    BY <1>4 DEF WaitReply
  <2> QED BY <1>0, <2>1, <2>3, <2>4, ReturnAnswers DEF Outcomes
<1>5. CASE WaitClosed(g)
  BY <1>0, <1>5, ReturnAnswers DEF WaitClosed, Outcomes
<1> QED BY <1>1, <1>2, <1>3, <1>4, <1>5 DEF Call, CallStep

LEMMA StepPromise ==
  ASSUME IpcInv, RunInv, [Next]_vars
  PROVE  Promise!Next \/ UNCHANGED <<Asks, ran, Answers>>
<1> USE DEF clientVars, serverVars, engineVars
<1>0. TypeOK
  BY DEF IpcInv
<1>1. ASSUME UNCHANGED <<call, last, ran>> PROVE UNCHANGED <<Asks, ran, Answers>>
  BY <1>1 DEF Asks, Answers
<1>2. ASSUME NEW c \in Clients, Dispatch(c) PROVE Promise!Next
  <2>1. PICK j \in job[c] : ran' = ran \cup {j.req.of}
    BY <1>2 DEF Dispatch
  <2>2. PICK r \in Todo(c) : r = j.req
    BY <1>2 DEF Dispatch, Todo, NewReqs
  <2> QED BY <1>0, <1>2, <2>1, <2>2, DispatchIsRun DEF Dispatch
<1>3. ASSUME NEW c \in Clients, SearchReply(c) PROVE Promise!Next
  <2>1. PICK r \in searches[c] : ran' = ran \cup {r.of} /\ UNCHANGED <<call, last>>
    BY <1>3 DEF SearchReply
  <2>2. r \in Todo(c)
    BY DEF Todo
  <2> QED BY <1>0, <2>1, <2>2, DispatchIsRun
<1>4. ASSUME NEW c \in Clients,
             \/ Dial(c) \/ ReadStep(c) \/ CloseClient(c) \/ HangUp(c) \/ Accept(c) \/ PumpStep(c)
             \/ HandlerStep(c) /\ ~Dispatch(c)
      PROVE  UNCHANGED <<call, last, ran>>
  BY <1>4 DEF Dial, ReadStep, ReadReply, ReadEvent, Deliver, ReadEnd, CloseClient, HangUp, Accept,
              PumpStep, PumpTake, PumpSend, HandlerStep, Track, Subscribe, ReadRequest, ReadFails, Build,
              Cast, SendReply, RequestShutdown, Unsubscribe, Untrack, ConnDone
<1>5. CASE AcceptEnd \/ TickStep \/ MainStep \/ Signal \/ UNCHANGED vars
  <2>1. UNCHANGED <<call, last, ran>>
    BY <1>5 DEF AcceptEnd, TickStep, TickBuild, TickCast, MainStep, Asked, CloseListener, CloseConns,
                WaitHandlers, CloseEngine, EngineClosed, Signal, vars
  <2> QED BY <1>1, <2>1
<1> QED BY <1>1, <1>2, <1>3, <1>4, <1>5, CallerPromise DEF Next

LEMMA RunInvHolds == Spec => [](IpcInv /\ RunInv)
<1>1. IpcInv /\ RunInv /\ [Next]_vars => RunInv'
  BY NextRuns DEF IpcInv
<1>2. QED
  BY <1>1, InitRuns, InvHolds, PTL DEF Spec

(* The clients and the server keep the promise of Rpc: a call is run at    *)
(* most once, ok and err are said only of a call that was run, and a call  *)
(* whose write failed is never run (client.go, callFor; server.go,         *)
(* handleConn).                                                            *)
THEOREM PromiseKept == Spec => CallPromise
<1>1. Init => Promise!Init
  BY DEF Init, Promise!Init
<1>2. IpcInv /\ RunInv /\ [Next]_vars
        => [Promise!Next]_<<[g \in Gos |-> call[g].n], ran,
                            [g \in Gos |-> [n |-> last[g].n, out |-> last[g].out]]>>
  BY StepPromise DEF Asks, Answers
<1>3. QED
  BY <1>1, <1>2, RunInvHolds, PTL DEF Spec, CallPromise, Promise!Spec
-----------------------------------------------------------------------------
(* The caller that stops the daemon is told.                               *)

(* The calls that stop the daemon: those that have, and those whose        *)
(* handler has sent their reply and is about to.                           *)
StopJobs(c) == {j.req.of : j \in {k \in job[c] : han[c] = "stop"}}
Stoppers    == stopper \cup UNION {StopJobs(c) : c \in Clients}

Replies(c) == {down[c][i] : i \in {k \in 1..Len(down[c]) : down[c][k].type = "reply"}}

(* What the caller of t was told, if it was told something and t is its    *)
(* last call.                                                              *)
Told(t) == {last[g].out : g \in {h \in Gos : t = <<h, last[h].n>>}}

(* A request that is not answered: it has stopped nothing, and nothing     *)
(* answers it but errors of the client's own.                              *)
Quiet(c, r) ==
  /\ r.of \notin Stoppers
  /\ \A e \in pending[c] : e.ch = r.of => e.seq = r.seq
  /\ \A d \in Clients : /\ \A m \in Replies(d) : m.of # r.of
                        /\ \A l \in hand[d] : l.of # r.of
  /\ \A l \in box : l.of = r.of => l.out = "lost"
  /\ \A o \in Told(r.of) : o = "timeout" \/ (o = "lost" /\ broken(c)) \/ shut[c]

(* A call that stops the daemon: it has been run, its answer is ok, and as *)
(* long as its caller waits the answer is on its way.                      *)
Answered(t) ==
  /\ t \in ran
  /\ \A c \in Clients :
       /\ \A m \in Replies(c) : m.of = t => m.out = "ok"
       /\ \A l \in hand[c] : l.of = t => l.out = "ok"
       /\ \A e \in pending[c] : e.ch = t => shut[c] \/ \E m \in Replies(c) : m.of = t /\ m.seq = e.seq
  /\ \A l \in box : l.of = t => l.out = "ok" \/ shut[Owner[t[1]]]
  /\ \A o \in Told(t) : o \in {"ok", "timeout"} \/ shut[Owner[t[1]]]

OpenQuiet  == \A c \in Clients : \A r \in Open(c) : Quiet(c, r)
StopsOk    == \A t \in Stoppers : Answered(t)
ClosedShut == \A c \in Clients : clEnd[c] = "closed" => shut[c]
EntrySeqs  == \A g \in Gos : \A e \in pending[Owner[g]] : e.ch = <<g, call[g].n>> => e.seq = call[g].seq
LostBroken == \A l \in box : l.out = "lost" => broken(Owner[l.ch[1]])

(* What a handler knows of its job.                                        *)
JobOuts ==
  \A c \in Clients : \A j \in job[c] :
    /\ han[c] = "call" => j.out = "ok"
    /\ han[c] \in {"build", "cast"} => j.req.kind = "change"
    /\ han[c] = "reply" /\ j.req.kind = "shutdown" => j.out = "ok"

StopInv == OpenQuiet /\ StopsOk /\ ClosedShut /\ EntrySeqs /\ LostBroken /\ JobOuts

LEMMA StopTypes ==
  ASSUME TypeOK
  PROVE  /\ pending \in [Clients -> SUBSET Entry] /\ hand \in [Clients -> SUBSET Letter]
         /\ shut \in [Clients -> BOOLEAN] /\ box \subseteq Letter
         /\ svEnd \in [Clients -> {"none", "backlog", "open", "closed"}]
         /\ clEnd \in [Clients -> {"none", "open", "closed"}]
BY DEF TypeOK, ClientTypes, ConnTypes

(* What keeps a request unanswered, and a stop answered.                   *)
LEMMA QuietKept ==
  ASSUME NEW c \in Clients, NEW r, Quiet(c, r),
         shut[c] => shut'[c], broken(c) => broken(c)', r.of \notin Stoppers',
         \A e \in pending'[c] : e.ch = r.of => e \in pending[c],
         \A d \in Clients : /\ \A m \in Replies(d)' : m.of = r.of => m \in Replies(d)
                            /\ \A l \in hand'[d] : l.of = r.of => l \in hand[d],
         \A l \in box' : l.of = r.of => l \in box \/ l.out = "lost",
         \A o \in Told(r.of)' : \/ o \in Told(r.of) \/ o = "timeout" \/ shut[c]
                                \/ o = "lost" /\ broken(c)
  PROVE  Quiet(c, r)'
BY DEF Quiet

LEMMA AnsweredKept ==
  ASSUME NEW t, Answered(t), Owner[t[1]] \in Clients, \A c \in Clients : shut[c] => shut'[c],
         ran \subseteq ran',
         \A c \in Clients :
           /\ \A m \in Replies(c)' : m.of = t => m \in Replies(c) \/ m.out = "ok"
           /\ \A l \in hand'[c] : l.of = t => l \in hand[c] \/ l.out = "ok"
           /\ \A e \in pending'[c] : e.ch = t =>
                /\ e \in pending[c]
                /\ \A m \in Replies(c) : m.of = t /\ m.seq = e.seq => m \in Replies(c)',
         \A l \in box' : l.of = t => l \in box \/ l.out = "ok" \/ shut[Owner[t[1]]],
         \A o \in Told(t)' : o \in Told(t) \/ o \in {"ok", "timeout"} \/ shut[Owner[t[1]]]
  PROVE  Answered(t)'
<1>1. ASSUME NEW c \in Clients
      PROVE  /\ \A m \in Replies(c)' : m.of = t => m.out = "ok"
             /\ \A l \in hand'[c] : l.of = t => l.out = "ok"
  BY DEF Answered
<1>2. ASSUME NEW c \in Clients, NEW e \in pending'[c], e.ch = t
      PROVE  shut'[c] \/ \E m \in Replies(c)' : m.of = t /\ m.seq = e.seq
  BY <1>2 DEF Answered
<1>3. \A l \in box' : l.of = t => l.out = "ok" \/ shut'[Owner[t[1]]]
  BY DEF Answered
<1>4. \A o \in Told(t)' : o \in {"ok", "timeout"} \/ shut'[Owner[t[1]]]
  BY DEF Answered
<1> QED BY <1>1, <1>2, <1>3, <1>4 DEF Answered

LEMMA ToldSame == ASSUME UNCHANGED last PROVE \A t : Told(t)' = Told(t)
BY DEF Told

LEMMA ToldReturn ==
  ASSUME TypeOK, NEW g \in Gos, NEW out, NEW of, Return(g, out, of)
  PROVE  \A t : \A o \in Told(t)' : o \in Told(t) \/ (o = out /\ t = <<g, call[g].n>>)
<1>1. last'[g].n = call[g].n /\ last'[g].out = out /\ \A h \in Gos : h # g => last'[h] = last[h]
  BY RunTypes DEF Return
<1> QED BY <1>1 DEF Told

LEMMA PushReplies ==
  ASSUME TypeOK, NEW c \in Clients, NEW m \in Reply \cup Event,
         down' = [down EXCEPT ![c] = Append(@, m)]
  PROVE  \A d \in Clients :
           /\ Replies(d) \subseteq Replies(d)'
           /\ \A k \in Replies(d)' : k \in Replies(d) \/ (d = c /\ m.type = "reply" /\ k = m)
           /\ d = c /\ m.type = "reply" => m \in Replies(d)'
<1>1. /\ down[c] \in Seq(Reply \cup Event) /\ down'[c] = Append(down[c], m)
      /\ \A d \in Clients : d # c => down'[d] = down[d]
  BY RunTypes
<1>2. /\ Len(down'[c]) = Len(down[c]) + 1 /\ Len(down[c]) \in Nat
      /\ down'[c][Len(down[c]) + 1] = m
      /\ \A i \in 1..Len(down[c]) : down'[c][i] = down[c][i]
  BY <1>1
<1>3. /\ Replies(c) \subseteq Replies(c)'
      /\ \A k \in Replies(c)' : k \in Replies(c) \/ (m.type = "reply" /\ k = m)
      /\ m.type = "reply" => m \in Replies(c)'
  BY <1>2 DEF Replies
<1>4. \A d \in Clients : d # c => Replies(d)' = Replies(d)
  BY <1>1 DEF Replies
<1> QED BY <1>3, <1>4

LEMMA TailLen ==
  ASSUME NEW S, NEW s \in Seq(S), s # <<>>
  PROVE  Len(s) \in Nat \ {0} /\ Len(Tail(s)) = Len(s) - 1 /\ Head(s) = s[1]
OBVIOUS

LEMMA PopReplies ==
  ASSUME TypeOK, NEW c \in Clients, down[c] # <<>>, down' = [down EXCEPT ![c] = Tail(@)]
  PROVE  \A d \in Clients : /\ Replies(d)' \subseteq Replies(d)
                            /\ \A m \in Replies(d) : m \in Replies(d)' \/ (d = c /\ m = Head(down[c]))
<1>1. /\ down[c] \in Seq(Reply \cup Event) /\ down'[c] = Tail(down[c])
      /\ \A d \in Clients : d # c => down'[d] = down[d]
  BY RunTypes
<1>2. /\ Len(down'[c]) = Len(down[c]) - 1 /\ Len(down[c]) \in Nat \ {0}
      /\ Head(down[c]) = down[c][1]
      /\ \A i \in 1..Len(down'[c]) : down'[c][i] = down[c][i + 1]
  <2>1. Len(down[c]) \in Nat \ {0} /\ Len(Tail(down[c])) = Len(down[c]) - 1 /\ Head(down[c]) = down[c][1]
    BY <1>1, TailLen
  <2>2. \A i \in 1..Len(Tail(down[c])) : Tail(down[c])[i] = down[c][i + 1]
    BY <1>1, TailAt
  <2> QED BY <1>1, <2>1, <2>2
<1>3. Replies(c)' \subseteq Replies(c)
  BY <1>2 DEF Replies
<1>4. ASSUME NEW m \in Replies(c) PROVE m \in Replies(c)' \/ m = Head(down[c])
  <2>1. PICK i \in 1..Len(down[c]) : m = down[c][i] /\ down[c][i].type = "reply"
    BY DEF Replies
  <2>2. CASE i # 1
    <3>1. i - 1 \in 1..Len(down'[c]) /\ down'[c][i - 1] = down[c][i]
      BY <1>2, <2>2
    <3> QED BY <2>1, <3>1 DEF Replies
  <2> QED BY <1>2, <2>1, <2>2
<1>5. \A d \in Clients : d # c => Replies(d)' = Replies(d)
  BY <1>1 DEF Replies
<1> QED BY <1>3, <1>4, <1>5

LEMMA SameReplies == ASSUME UNCHANGED down PROVE \A d : Replies(d)' = Replies(d)
BY DEF Replies

LEMMA SameStoppers ==
  ASSUME UNCHANGED <<stopper, job, han>>
  PROVE  Stoppers' = Stoppers
BY DEF Stoppers, StopJobs

(* A stop has been run, so it is a call of one of the clients' callers.    *)
LEMMA StopperTypes ==
  ASSUME TypeOK, StopsOk
  PROVE  \A t \in Stoppers : t \in ran /\ t \in Chan /\ t[1] \in Gos /\ Owner[t[1]] \in Clients
<1>1. \A t \in Stoppers : t \in ran /\ t \in Chan
  BY RunTypes DEF StopsOk, Answered
<1> QED BY <1>1, ChanParts

(* Replies are to calls that have been run.                                *)
LEMMA RepliesRan ==
  ASSUME DownRan PROVE \A d \in Clients : \A m \in Replies(d) : m.of \in ran
BY DEF DownRan, Replies

(* Requests of two clients are of two calls.                               *)
LEMMA OpenApart ==
  ASSUME TypeOK, ReqInv, NEW c \in Clients, NEW d \in Clients, c # d,
         NEW r \in Open(c), NEW s \in Open(d)
  PROVE  r.of # s.of
BY DEF ReqInv, RequestsSent
(* A connection that is lost stays lost, a client that is closed, closed.  *)
LEMMA LostForGood ==
  ASSUME TypeOK, DrainInv, ClosedShut, [Next]_vars
  PROVE  /\ ClosedShut'
         /\ \A c \in Clients : (shut[c] => shut'[c]) /\ (broken(c) => broken(c)')
<1> USE DEF clientVars, serverVars, engineVars
<1>1. CASE UNCHANGED <<clEnd, svEnd, shut>>
  BY <1>1 DEF ClosedShut, broken
<1>2. ASSUME NEW c \in Clients, Dial(c)
      PROVE  /\ ClosedShut'
             /\ \A d \in Clients : (shut[d] => shut'[d]) /\ (broken(d) => broken(d)')
  <2>1. /\ clEnd[c] = "none" /\ svEnd[c] = "none" /\ UNCHANGED shut
        /\ clEnd' = [clEnd EXCEPT ![c] = "open"] /\ svEnd' = [svEnd EXCEPT ![c] = "backlog"]
    BY <1>2 DEF Dial, DrainInv
  <2>2. /\ clEnd'[c] = "open"
        /\ \A d \in Clients : d # c => clEnd'[d] = clEnd[d] /\ svEnd'[d] = svEnd[d]
    BY <2>1, StopTypes
  <2> QED BY <2>1, <2>2 DEF ClosedShut, broken
<1>3. ASSUME NEW c \in Clients, CloseClient(c) \/ HangUp(c)
      PROVE  /\ ClosedShut'
             /\ \A d \in Clients : (shut[d] => shut'[d]) /\ (broken(d) => broken(d)')
  <2>1. CASE CloseClient(c)
    <3>1. shut' = [shut EXCEPT ![c] = TRUE] /\ UNCHANGED <<clEnd, svEnd>>
      BY <2>1 DEF CloseClient
    <3>2. \A d \in Clients : shut[d] => shut'[d]
      BY <3>1, StopTypes
    <3> QED BY <3>1, <3>2 DEF ClosedShut, broken
  <2>2. CASE HangUp(c)
    <3>1. shut[c] /\ clEnd' = [clEnd EXCEPT ![c] = "closed"] /\ UNCHANGED <<shut, svEnd>>
      BY <2>2 DEF HangUp
    <3>2. \A d \in Clients : d # c => clEnd'[d] = clEnd[d]
      BY <3>1, StopTypes
    <3>3. clEnd'[c] = "closed"
      BY <3>1, StopTypes
    <3> QED BY <3>1, <3>2, <3>3 DEF ClosedShut, broken
  <2> QED BY <1>3, <2>1, <2>2
<1>4. ASSUME UNCHANGED <<clEnd, shut>>, \A d \in Clients : svEnd[d] = "closed" => svEnd'[d] = "closed"
      PROVE  /\ ClosedShut'
             /\ \A d \in Clients : (shut[d] => shut'[d]) /\ (broken(d) => broken(d)')
  BY <1>4 DEF ClosedShut, broken
<1>5. ASSUME NEW c \in Clients, Accept(c) \/ ConnDone(c)
      PROVE  /\ UNCHANGED <<clEnd, shut>>
             /\ \A d \in Clients : svEnd[d] = "closed" => svEnd'[d] = "closed"
  BY <1>5, StopTypes DEF Accept, ConnDone
<1>6. ASSUME CloseListener \/ CloseConns
      PROVE  /\ UNCHANGED <<clEnd, shut>>
             /\ \A d \in Clients : svEnd[d] = "closed" => svEnd'[d] = "closed"
  BY <1>6 DEF CloseListener, CloseConns
<1>7. CASE UNCHANGED vars
  BY <1>1, <1>7 DEF vars
<1>8. ASSUME NEW c \in Clients,
             \/ ReadStep(c) \/ PumpStep(c) \/ SearchReply(c) \/ (HandlerStep(c) /\ ~ConnDone(c))
      PROVE  UNCHANGED <<clEnd, svEnd, shut>>
  BY <1>8 DEF ReadStep, ReadReply, ReadEvent, Deliver, ReadEnd, PumpStep, PumpTake, PumpSend,
              SearchReply, HandlerStep, Track, Subscribe, ReadRequest, ReadFails, Dispatch, Build, Cast,
              SendReply, RequestShutdown, Unsubscribe, Untrack
<1>9. ASSUME \/ \E g \in Gos : Call(g) \/ CallStep(g) \/ WaitTimeout(g)
             \/ AcceptEnd \/ TickStep \/ Asked \/ WaitHandlers \/ CloseEngine \/ EngineClosed \/ Signal
      PROVE  UNCHANGED <<clEnd, svEnd, shut>>
  BY <1>9 DEF Call, Register, CallStep, Encode, Forget, WaitReply, WaitClosed, WaitTimeout, AcceptEnd,
              TickStep, TickBuild, TickCast, Asked, WaitHandlers, CloseEngine, EngineClosed, Signal
<1> QED BY <1>1, <1>2, <1>3, <1>4, <1>5, <1>6, <1>7, <1>8, <1>9 DEF Next, MainStep

(* An entry has its caller's number.                                       *)
LEMMA NextEntries ==
  ASSUME IpcInv, EntrySeqs, [Next]_vars
  PROVE  EntrySeqs'
<1> USE DEF clientVars, serverVars, engineVars
<1>0. TypeOK /\ ChansOnce
  BY DEF IpcInv
<1>1. ASSUME \A c \in Clients : pending'[c] \subseteq pending[c],
             \A g \in Gos : call'[g].n = call[g].n /\ call'[g].seq = call[g].seq
      PROVE  EntrySeqs'
  BY <1>1 DEF EntrySeqs
<1>2. ASSUME NEW g \in Gos, NEW k \in Kinds, Register(g, k) PROVE EntrySeqs'
  <2>1. /\ call'[g].n = call[g].n + 1 /\ call'[g].seq = seq[Owner[g]] + 1 /\ call[g].n \in Nat
        /\ \A h \in Gos : h # g => call'[h] = call[h]
    <3>1. call' = [call EXCEPT ![g] = [pc |-> "send", n |-> call[g].n + 1, seq |-> seq[Owner[g]] + 1, kind |-> k]]
      BY <1>2 DEF Register
    <3>2. call[g] \in CallRec /\ \A h \in Gos : h # g => call'[h] = call[h]
      BY <1>0, <3>1, CallTypes
    <3>3. call'[g] = [pc |-> "send", n |-> call[g].n + 1, seq |-> seq[Owner[g]] + 1, kind |-> k]
      BY <1>0, <3>1, CallTypes
    <3> QED BY <3>2, <3>3 DEF CallRec
  <2>2. \A d \in Clients : \A e \in pending'[d] : e \in pending[d] \/ e = [seq |-> seq[Owner[g]] + 1, ch |-> <<g, call[g].n + 1>>]
    BY <1>0, <1>2, ConnFacts DEF Register
  <2>3. \A d \in Clients : \A e \in pending[d] : e.ch # <<g, call[g].n + 1>>
    BY <1>0, <2>1 DEF ChansOnce, Made
  <2> SUFFICES ASSUME NEW h \in Gos, NEW e \in pending'[Owner[h]], e.ch = <<h, call'[h].n>>
               PROVE  e.seq = call'[h].seq
    BY DEF EntrySeqs
  <2>4. CASE h = g
    BY <2>1, <2>2, <2>3, <2>4
  <2>5. CASE h # g
    BY <2>1, <2>2, <2>5 DEF EntrySeqs
  <2> QED BY <2>4, <2>5
<1>3. ASSUME NEW g \in Gos, CallStep(g) \/ WaitTimeout(g) PROVE EntrySeqs'
  <2>1. \A h \in Gos : call'[h].n = call[h].n /\ call'[h].seq = call[h].seq
    BY <1>0, <1>3, CallPc DEF CallStep, Encode, Forget, WaitReply, WaitClosed, WaitTimeout, Return
  <2>2. UNCHANGED pending \/ pending' = [pending EXCEPT ![Owner[g]] = {e \in @ : e.seq # call[g].seq}]
    BY <1>3 DEF CallStep, Encode, Forget, WaitReply, WaitClosed, WaitTimeout
  <2>3. \A c \in Clients : pending'[c] \subseteq pending[c]
    BY <1>0, <2>2, DropPending
  <2> QED BY <1>1, <2>1, <2>3
<1>4. ASSUME NEW c \in Clients, ReadStep(c) PROVE EntrySeqs'
  <2>1. UNCHANGED call
    BY <1>4 DEF ReadStep, ReadReply, ReadEvent, Deliver, ReadEnd
  <2>2. CASE ReadReply(c)
    <3>1. pending' = [pending EXCEPT ![c] = {e \in @ : e.seq # Head(down[c]).seq}]
      BY <2>2 DEF ReadReply
    <3> QED BY <1>0, <1>1, <2>1, <3>1, DropPending
  <2>3. CASE ReadEvent(c) \/ Deliver(c) \/ ReadEnd(c)
    <3>1. UNCHANGED pending \/ pending' = [pending EXCEPT ![c] = {}]
      BY <2>3 DEF ReadEvent, Deliver, ReadEnd
    <3>2. \A d \in Clients : pending'[d] \subseteq pending[d]
      BY <1>0, <3>1, ConnFacts
    <3> QED BY <1>1, <2>1, <3>2
  <2> QED BY <1>4, <2>2, <2>3 DEF ReadStep
<1>5. ASSUME UNCHANGED <<pending, call>> PROVE EntrySeqs'
  BY <1>5 DEF EntrySeqs
<1>6. ASSUME NEW c \in Clients,
             \/ Dial(c) \/ CloseClient(c) \/ HangUp(c) \/ Accept(c) \/ HandlerStep(c) \/ PumpStep(c)
             \/ SearchReply(c)
      PROVE  UNCHANGED <<pending, call>>
  BY <1>6 DEF Dial, CloseClient, HangUp, Accept, PumpStep, PumpTake, PumpSend, SearchReply, HandlerStep,
              Track, Subscribe, ReadRequest, ReadFails, Dispatch, Build, Cast, SendReply,
              RequestShutdown, Unsubscribe, Untrack, ConnDone
<1>7. CASE AcceptEnd \/ TickStep \/ MainStep \/ Signal \/ UNCHANGED vars
  BY <1>5, <1>7 DEF AcceptEnd, TickStep, TickBuild, TickCast, MainStep, Asked, CloseListener, CloseConns,
                    WaitHandlers, CloseEngine, EngineClosed, Signal, vars
<1> QED BY <1>2, <1>3, <1>4, <1>5, <1>6, <1>7 DEF Next, Call

(* Only a lost connection makes the client answer its callers itself.      *)
LEMMA NextLost ==
  ASSUME IpcInv, RunInv, LostBroken, [Next]_vars, \A c \in Clients : broken(c) => broken(c)'
  PROVE  LostBroken'
<1> USE DEF clientVars, serverVars, engineVars
<1>0. TypeOK /\ ChansOnce /\ \A l \in box : Owner[l.ch[1]] \in Clients
  BY ChanFacts DEF IpcInv
<1>1. ASSUME \A l \in box' : l \in box \/ l.out # "lost" PROVE LostBroken'
  BY <1>0, <1>1 DEF LostBroken
<1>2. ASSUME NEW c \in Clients, Deliver(c) PROVE LostBroken'
  BY <1>1, <1>2 DEF Deliver, RunInv, WordInv, HandRan
<1>3. ASSUME NEW c \in Clients, ReadEnd(c) PROVE LostBroken'
  <2>1. broken(c)'
    BY <1>3 DEF ReadEnd, endOfDown, broken
  <2>2. \A l \in box' : l \in box \/ Owner[l.ch[1]] = c
    BY <1>0, <1>3 DEF ReadEnd, ChansOnce
  <2> QED BY <1>0, <2>1, <2>2 DEF LostBroken
<1>4. ASSUME NEW c \in Clients,
             \/ Dial(c) \/ ReadReply(c) \/ ReadEvent(c) \/ CloseClient(c) \/ HangUp(c) \/ Accept(c)
             \/ HandlerStep(c) \/ PumpStep(c) \/ SearchReply(c)
      PROVE  UNCHANGED box
  BY <1>4 DEF Dial, ReadReply, ReadEvent, CloseClient, HangUp, Accept, PumpStep, PumpTake, PumpSend,
              SearchReply, HandlerStep, Track, Subscribe, ReadRequest, ReadFails, Dispatch, Build, Cast,
              SendReply, RequestShutdown, Unsubscribe, Untrack, ConnDone
<1>5. ASSUME NEW g \in Gos, Call(g) \/ CallStep(g) \/ WaitTimeout(g) PROVE box' \subseteq box
  BY <1>5 DEF Call, Register, CallStep, Encode, Forget, WaitReply, WaitClosed, WaitTimeout
<1>6. CASE AcceptEnd \/ TickStep \/ MainStep \/ Signal \/ UNCHANGED vars
  BY <1>1, <1>6 DEF AcceptEnd, TickStep, TickBuild, TickCast, MainStep, Asked, CloseListener, CloseConns,
                    WaitHandlers, CloseEngine, EngineClosed, Signal, vars
<1> QED BY <1>1, <1>2, <1>3, <1>4, <1>5, <1>6 DEF Next, ReadStep
(* A shutdown's job has no other answer than ok.                           *)
LEMMA NextJobs ==
  ASSUME IpcInv, RunInv, JobOuts, [Next]_vars
  PROVE  JobOuts'
<1> USE DEF clientVars, serverVars, engineVars
<1>0. TypeOK /\ job \in [Clients -> SUBSET Job] /\ han \in [Clients -> HanPcs]
  BY RunTypes DEF IpcInv
<1>1. ASSUME NEW c \in Clients, NEW x \in HanPcs, han' = [han EXCEPT ![c] = x], UNCHANGED job,
             \A j \in job[c] : /\ x = "call" => j.out = "ok"
                               /\ x \in {"build", "cast"} => j.req.kind = "change"
                               /\ x = "reply" /\ j.req.kind = "shutdown" => j.out = "ok"
      PROVE  JobOuts'
  <2>1. han'[c] = x /\ \A d \in Clients : d # c => han'[d] = han[d]
    BY <1>0, <1>1
  <2> QED BY <1>1, <2>1 DEF JobOuts
<1>2. ASSUME NEW c \in Clients, NEW x \in HanPcs, han' = [han EXCEPT ![c] = x],
             NEW j \in Job, job' = [job EXCEPT ![c] = {j}], x \in {"call", "reply"},
             j.out = "ok" \/ (x = "reply" /\ j.req.kind = "change")
      PROVE  JobOuts'
  <2>1. /\ han'[c] = x /\ job'[c] = {j}
        /\ \A d \in Clients : d # c => han'[d] = han[d] /\ job'[d] = job[d]
    BY <1>0, <1>2
  <2> QED BY <1>2, <2>1 DEF JobOuts
<1>3. CASE UNCHANGED <<han, job>>
  BY <1>3 DEF JobOuts
<1>4. ASSUME NEW c \in Clients, ReadRequest(c) PROVE JobOuts'
  <2>1. Head(up[c]) \in Request
    BY <1>0, <1>4, HeadUp DEF ReadRequest, TypeOK
  <2>2. PICK j : j = [req |-> Head(up[c]), out |-> "ok", ev |-> 0]
    OBVIOUS
  <2>3. j \in Job /\ j.out = "ok"
    BY <2>1, <2>2 DEF Job
  <2> QED BY <1>2, <1>3, <1>4, <2>2, <2>3 DEF ReadRequest, at, HanPcs
<1>5. ASSUME NEW c \in Clients, Dispatch(c) PROVE JobOuts'
  <2>1. PICK j \in job[c] :
          \/ j.req.kind = "change" /\ han' = at(c, "build") /\ job' = job
          \/ /\ j.req.kind = "change" /\ han' = at(c, "reply")
             /\ job' = [job EXCEPT ![c] = {[j EXCEPT !.out = "err"]}]
          \/ j.req.kind = "shutdown" /\ han' = at(c, "reply") /\ job' = job
    BY <1>5 DEF Dispatch
  <2>2. j \in Job /\ j.out = "ok" /\ \A k \in job[c] : k = j
    <3>1. j \in Job
      BY <1>0
    <3>2. j.out = "ok"
      BY <1>5 DEF Dispatch, JobOuts
    <3>3. \A k \in job[c] : k = j
      BY DEF RunInv, ReqInv, RequestsApart
    <3> QED BY <3>1, <3>2, <3>3
  <2>3. PICK k : k = [j EXCEPT !.out = "err"]
    OBVIOUS
  <2>4. k \in Job /\ k.req = j.req
    BY <2>2, <2>3 DEF Job
  <2>5. CASE job' = job
    BY <1>1, <2>1, <2>2, <2>5 DEF at, HanPcs
  <2>6. CASE job' = [job EXCEPT ![c] = {k}] /\ han' = at(c, "reply") /\ j.req.kind = "change"
    BY <1>2, <2>6, <2>4 DEF at, HanPcs
  <2> QED BY <2>1, <2>3, <2>5, <2>6
<1>6. ASSUME NEW c \in Clients, Build(c) PROVE JobOuts'
  <2>1. /\ han[c] = "build" /\ han' = [han EXCEPT ![c] = "cast"]
        /\ job' = [job EXCEPT ![c] = {[j EXCEPT !.ev = version] : j \in @}]
    BY <1>6 DEF Build, at
  <2>2. /\ han'[c] = "cast" /\ job'[c] = {[j EXCEPT !.ev = version] : j \in job[c]}
        /\ \A d \in Clients : d # c => han'[d] = han[d] /\ job'[d] = job[d]
    BY <1>0, <2>1
  <2>3. \A j \in job[c] : [j EXCEPT !.ev = version].req = j.req
    BY <1>0 DEF Job
  <2>4. \A j \in job[c] : j.req.kind = "change"
    BY <2>1 DEF JobOuts
  <2>5. \A k \in job'[c] : \E j \in job[c] : k.req = j.req
    BY <2>2, <2>3
  <2>6. \A k \in job'[c] : k.req.kind = "change"
    BY <2>4, <2>5
  <2> QED BY <2>2, <2>6 DEF JobOuts
<1>7. ASSUME NEW c \in Clients, Cast(c) PROVE JobOuts'
  <2>1. han[c] = "cast" /\ han' = [han EXCEPT ![c] = "reply"] /\ UNCHANGED job
    BY <1>7 DEF Cast, at
  <2>2. \A j \in job[c] : j.req.kind = "change"
    BY <2>1 DEF JobOuts
  <2> QED BY <1>1, <2>1, <2>2 DEF HanPcs
<1>8. ASSUME NEW c \in Clients,
             \/ Accept(c) \/ Track(c) \/ Subscribe(c) \/ ReadFails(c) \/ SendReply(c)
             \/ RequestShutdown(c) \/ Unsubscribe(c) \/ Untrack(c) \/ ConnDone(c)
      PROVE  JobOuts'
  <2>1. \E x \in HanPcs \ {"call", "build", "cast", "reply"} :
          han' = [han EXCEPT ![c] = x] /\ UNCHANGED job
    BY <1>8 DEF Accept, Track, Subscribe, ReadFails, SendReply, RequestShutdown, Unsubscribe, Untrack,
                ConnDone, at, HanPcs
  <2> QED BY <1>1, <2>1
<1>9. ASSUME NEW c \in Clients,
             \/ Dial(c) \/ ReadStep(c) \/ CloseClient(c) \/ HangUp(c) \/ PumpStep(c) \/ SearchReply(c)
      PROVE  UNCHANGED <<han, job>>
  BY <1>9 DEF Dial, ReadStep, ReadReply, ReadEvent, Deliver, ReadEnd, CloseClient, HangUp, PumpStep,
              PumpTake, PumpSend, SearchReply
<1>10. ASSUME NEW g \in Gos, Call(g) \/ CallStep(g) \/ WaitTimeout(g) PROVE UNCHANGED <<han, job>>
  BY <1>10 DEF Call, Register, CallStep, Encode, Forget, WaitReply, WaitClosed, WaitTimeout
<1>11. CASE AcceptEnd \/ TickStep \/ MainStep \/ Signal \/ UNCHANGED vars
  BY <1>3, <1>11 DEF AcceptEnd, TickStep, TickBuild, TickCast, MainStep, Asked, CloseListener,
                     CloseConns, WaitHandlers, CloseEngine, EngineClosed, Signal, vars
<1> QED BY <1>3, <1>4, <1>5, <1>6, <1>7, <1>8, <1>9, <1>10, <1>11 DEF Next, HandlerStep
(* What a caller is told of a call that has been sent.                     *)
LEMMA CallerTold ==
  ASSUME IpcInv, RunInv, NEW g \in Gos, Call(g) \/ CallStep(g) \/ WaitTimeout(g),
         NEW t \in Chan, Sent(t)
  PROVE  \A o \in Told(t)' : \/ o \in Told(t) \/ o = "timeout" \/ shut[Owner[t[1]]]
                             \/ \E l \in box : l.of = t /\ l.ch = t /\ l.out = o
<1>0. TypeOK /\ ChansOnce
  BY DEF IpcInv
<1>1. CASE Call(g) \/ Encode(g) \/ WaitTimeout(g)
  <2>1. UNCHANGED last
    BY <1>1 DEF Call, Register, Encode, WaitTimeout
  <2> QED BY <2>1, ToldSame
<1>2. CASE Forget(g)
  <2>1. CASE call[g].pc = "unsend"
    <3>1. Return(g, "send", <<g, call[g].n>>)
      BY <1>2, <2>1 DEF Forget
    <3>2. t # <<g, call[g].n>>
      BY <2>1 DEF Sent
    <3> QED BY <1>0, <3>1, <3>2, ToldReturn
  <2>2. CASE call[g].pc = "giveup"
    <3>1. Return(g, "timeout", <<g, call[g].n>>)
      BY <1>2, <2>2 DEF Forget
    <3> QED BY <1>0, <3>1, ToldReturn
  <2> QED BY <1>2, <2>1, <2>2 DEF Forget
<1>3. CASE WaitReply(g)
  <2>1. PICK l \in box : l.ch = <<g, call[g].n>> /\ Return(g, l.out, l.of)
    BY <1>3 DEF WaitReply
  <2>2. l.of = l.ch
    BY <1>0 DEF ChansOnce
  <2>3. \A o \in Told(t)' : o \in Told(t) \/ (o = l.out /\ t = <<g, call[g].n>>)
    BY <1>0, <2>1, ToldReturn
  <2> QED BY <2>1, <2>2, <2>3
<1>4. CASE WaitClosed(g)
  <2>1. Return(g, "closed", <<g, call[g].n>>) /\ shut[Owner[g]]
    BY <1>4 DEF WaitClosed
  <2>2. \A o \in Told(t)' : o \in Told(t) \/ t = <<g, call[g].n>>
    BY <1>0, <2>1, ToldReturn
  <2>3. t = <<g, call[g].n>> => t[1] = g
    OBVIOUS
  <2> QED BY <2>1, <2>2, <2>3
<1> QED BY <1>1, <1>2, <1>3, <1>4 DEF CallStep

(* The callers' steps.                                                     *)
LEMMA CallerStops ==
  ASSUME IpcInv, RunInv, StopInv, NEW g \in Gos, Call(g) \/ CallStep(g) \/ WaitTimeout(g)
  PROVE  OpenQuiet' /\ StopsOk'
<1>0. TypeOK /\ OpenQuiet /\ StopsOk /\ LostBroken /\ EntrySeqs
  BY DEF IpcInv, StopInv
<1>1. /\ UNCHANGED <<clEnd, svEnd, shut, hand, down, ran, stopper, job, han>>
      /\ box' \subseteq box
  BY DEF Call, Register, CallStep, Encode, Forget, WaitReply, WaitClosed, WaitTimeout, serverVars
<1>2. Stoppers' = Stoppers /\ \A d \in Clients : Replies(d)' = Replies(d)
  BY <1>1, SameStoppers, SameReplies
<1>3. ASSUME NEW t \in Chan, Sent(t), NEW c \in Clients, NEW e \in pending'[c], e.ch = t
      PROVE  e \in pending[c]
  <2>1. CASE Call(g)
    <3>1. PICK k \in Kinds : Register(g, k)
      BY <2>1 DEF Call
    <3>2. e \in pending[c] \/ e = [seq |-> seq[Owner[g]] + 1, ch |-> <<g, call[g].n + 1>>]
      BY <1>0, <3>1, StopTypes DEF Register
    <3>3. t # <<g, call[g].n + 1>>
      <4>1. call[g].n \in Nat
        BY <1>0, CallTypes DEF CallRec
      <4>2. t[1] = g => t[2] \in 1..call[g].n
        BY <1>3 DEF Sent
      <4> QED BY <4>1, <4>2
    <3> QED BY <1>3, <3>2, <3>3
  <2>2. CASE Forget(g)
    BY <1>0, <1>3, <2>2, DropPending DEF Forget
  <2>3. CASE UNCHANGED pending
    BY <1>3, <2>3
  <2> QED BY <2>1, <2>2, <2>3 DEF CallStep, Encode, WaitReply, WaitClosed, WaitTimeout
<1>4. StopsOk'
  <2> SUFFICES ASSUME NEW t \in Stoppers PROVE Answered(t)'
    BY <1>2 DEF StopsOk
  <2>1. t \in Chan /\ Owner[t[1]] \in Clients /\ Sent(t) /\ Answered(t)
    <3>1. t \in ran /\ t \in Chan /\ Owner[t[1]] \in Clients
      BY <1>0, StopperTypes
    <3> QED BY <1>0, <3>1 DEF StopsOk, RunInv, ReqInv, RanSent
  <2>2. \A o \in Told(t)' : o \in Told(t) \/ o \in {"ok", "timeout"} \/ shut[Owner[t[1]]]
    <3>1. \A l \in box : l.of = t => l.out = "ok" \/ shut[Owner[t[1]]]
      BY <2>1 DEF Answered
    <3> QED BY <2>1, <3>1, CallerTold
  <2>3. \A c \in Clients : \A e \in pending'[c] : e.ch = t => e \in pending[c]
    BY <1>3, <2>1
  <2> QED BY <1>1, <1>2, <2>1, <2>2, <2>3, AnsweredKept
<1>5. ASSUME NEW c \in Clients, NEW r \in Open(c) PROVE Quiet(c, r)'
  <2>1. r.of \in Chan /\ Sent(r.of) /\ Owner[r.of[1]] = c /\ Quiet(c, r)
    BY <1>0, ReqTypes, OfChan DEF RunInv, ReqInv, RequestsSent, OpenQuiet
  <2>2. \A o \in Told(r.of)' : o \in Told(r.of) \/ o = "timeout" \/ shut[c] \/ (o = "lost" /\ broken(c))
    <3>1. \A l \in box : l.of = r.of /\ l.ch = r.of => l.out = "lost" /\ broken(c)
      BY <1>0, <2>1 DEF Quiet, LostBroken
    <3> QED BY <2>1, <3>1, CallerTold
  <2>3. \A e \in pending'[c] : e.ch = r.of => e \in pending[c]
    BY <1>3, <2>1
  <2>4. r.of \notin Stoppers'
    BY <1>2, <2>1 DEF Quiet
  <2>5. broken(c) => broken(c)'
    BY <1>1 DEF broken
  <2> QED BY <1>1, <1>2, <2>1, <2>2, <2>3, <2>4, <2>5, QuietKept
<1>6. CASE \A c \in Clients : Open(c)' \subseteq Open(c)
  BY <1>4, <1>5, <1>6 DEF OpenQuiet
<1>7. CASE Encode(g)
  <2> DEFINE t == <<g, call[g].n>>
  <2>1. call[g].pc = "send" /\ UNCHANGED <<pending, box, last>> /\ t \in Chan /\ Owner[g] \in Clients
    BY <1>0, <1>7, CallTypes DEF Encode, Chan, CallRec
  <2>2. ~Sent(t) /\ t[1] = g /\ t[2] = call[g].n
    BY <2>1 DEF Sent
  <2>3. t \notin ran
    BY <2>2 DEF RunInv, ReqInv, RanSent
  <2>4. Told(t) = {}
    <3>1. last[g].n = call[g].n - 1 /\ call[g].n \in Nat
      BY <1>0, <2>1, RunTypes DEF RunInv, LastCounts, CallRec
    <3> QED BY <3>1 DEF Told
  <2>5. PICK q : q = requestOf(g)
    OBVIOUS
  <2>6. q.of = t /\ q.seq = call[g].seq
    BY <2>5 DEF requestOf
  <2>7. PICK u : u = t
    OBVIOUS
  <2>8. Quiet(Owner[g], q)'
    <3>1. u \notin Stoppers'
      BY <1>0, <1>2, <2>3, <2>7, StopperTypes
    <3>2. \A e \in pending'[Owner[g]] : e.ch = u => e.seq = q.seq
      BY <1>0, <2>1, <2>6, <2>7 DEF EntrySeqs
    <3>3. \A d \in Clients : \A m \in Replies(d)' : m.of # u
      BY <1>2, <2>3, <2>7, RepliesRan DEF RunInv, WordInv
    <3>4. \A d \in Clients : \A l \in hand'[d] : l.of # u
      BY <1>1, <2>3, <2>7 DEF RunInv, WordInv, HandRan
    <3>5. \A l \in box' : l.of = u => l.out = "lost"
      BY <2>1, <2>3, <2>7 DEF RunInv, WordInv, BoxRan
    <3>6. Told(u)' = {}
      BY <2>1, <2>4, <2>7, ToldSame
    <3>7. q.of = u
      BY <2>6, <2>7
    <3> HIDE DEF t
    <3> QED BY <3>1, <3>2, <3>3, <3>4, <3>5, <3>6, <3>7 DEF Quiet
  <2>9. \A c \in Clients : \A r \in Open(c)' : r \in Open(c) \/ (c = Owner[g] /\ r = q)
    BY <1>0, <2>5, CallerRuns DEF OpenGrows
  <2> QED BY <1>4, <1>5, <2>8, <2>9 DEF OpenQuiet
<1>8. CASE ~Encode(g)
  BY <1>0, <1>6, <1>8, CallerRuns DEF OpenGrows
<1> QED BY <1>7, <1>8
(* The read loop: an answer goes from the connection to the channel.       *)
LEMMA ReaderStops ==
  ASSUME IpcInv, RunInv, StopInv, NEW c \in Clients, ReadStep(c)
  PROVE  OpenQuiet' /\ StopsOk'
<1>0. TypeOK /\ ChansOnce /\ OpenQuiet /\ StopsOk /\ ClosedShut
  BY DEF IpcInv, StopInv
<1>1. UNCHANGED <<clEnd, svEnd, shut, last, ran, stopper, job, han>> /\ OpenShrinks
  BY <1>0, ReaderRuns DEF ReadStep, ReadReply, ReadEvent, Deliver, ReadEnd, serverVars
<1>2. Stoppers' = Stoppers /\ \A t : Told(t)' = Told(t)
  BY <1>1, SameStoppers, ToldSame
<1>3. ASSUME \A d \in Clients : pending'[d] \subseteq pending[d] /\ Replies(d)' \subseteq Replies(d),
             \A d \in Clients : \A l \in hand'[d] :
               \/ l \in hand[d]
               \/ \E m \in Replies(d) : l.of = m.of /\ l.out = m.out,
             \A l \in box' : \/ l \in box \/ \E d \in Clients : l \in hand[d]
                             \/ /\ l.out = "lost" /\ l.of[1] \in Gos
                                /\ l.of \in Stoppers => shut[Owner[l.of[1]]],
             \A d \in Clients : \A e \in pending'[d] : \A m \in Replies(d) :
               m.seq = e.seq => m \in Replies(d)'
      PROVE  OpenQuiet' /\ StopsOk'
  <2>1. ASSUME NEW d \in Clients, NEW r \in Open(d) PROVE Quiet(d, r)'
    <3>1. Quiet(d, r) /\ r.of \notin Stoppers'
      BY <1>0, <1>2 DEF OpenQuiet, Quiet
    <3>2. \A k \in Clients : \A l \in hand'[k] : l.of # r.of
      BY <1>3, <3>1 DEF Quiet
    <3>3. \A l \in box' : l.of = r.of => l \in box \/ l.out = "lost"
      BY <1>3, <3>1 DEF Quiet
    <3>4. broken(d) => broken(d)'
      BY <1>1 DEF broken
    <3> QED BY <1>1, <1>2, <1>3, <3>1, <3>2, <3>3, <3>4, QuietKept
  <2>2. OpenQuiet'
    BY <1>1, <2>1 DEF OpenQuiet, OpenShrinks
  <2>3. ASSUME NEW t \in Stoppers PROVE Answered(t)'
    <3>1. Answered(t) /\ Owner[t[1]] \in Clients
      BY <1>0, StopperTypes DEF StopsOk
    <3>2. \A d \in Clients : \A l \in hand'[d] : l.of = t => l \in hand[d] \/ l.out = "ok"
      BY <1>3, <3>1 DEF Answered
    <3>3. \A l \in box' : l.of = t => l \in box \/ l.out = "ok" \/ shut[Owner[t[1]]]
      BY <1>3, <3>1 DEF Answered
    <3> QED BY <1>1, <1>2, <1>3, <3>1, <3>2, <3>3, AnsweredKept
  <2> QED BY <1>2, <2>2, <2>3 DEF StopsOk
<1>4. CASE ReadReply(c)
  <2>1. /\ down[c] # <<>> /\ Head(down[c]).type = "reply" /\ UNCHANGED box
        /\ down' = [down EXCEPT ![c] = Tail(@)]
        /\ pending' = [pending EXCEPT ![c] = {e \in @ : e.seq # Head(down[c]).seq}]
    BY <1>4 DEF ReadReply
  <2>2. PICK m : m = Head(down[c])
    OBVIOUS
  <2>3. m \in Replies(c)
    <3>1. m = down[c][1] /\ 1 \in 1..Len(down[c])
      BY <1>0, <2>1, <2>2, RunTypes
    <3> QED BY <2>1, <2>2, <3>1 DEF Replies
  <2>4. /\ \A d \in Clients : pending'[d] \subseteq pending[d]
        /\ \A e \in pending'[c] : e.seq # m.seq
    BY <1>0, <2>1, <2>2, StopTypes
  <2>5. \A d \in Clients : /\ Replies(d)' \subseteq Replies(d)
                           /\ \A k \in Replies(d) : k \in Replies(d)' \/ (d = c /\ k = m)
    BY <1>0, <2>1, <2>2, PopReplies
  <2>6. UNCHANGED hand \/ \E e : hand' = [hand EXCEPT ![c] = {[ch |-> e.ch, of |-> m.of, out |-> m.out]}]
    BY <1>4, <2>2 DEF ReadReply
  <2>7. \A d \in Clients : \A l \in hand'[d] : l \in hand[d] \/ (d = c /\ l.of = m.of /\ l.out = m.out)
    BY <1>0, <2>6, StopTypes
  <2> QED BY <1>3, <2>1, <2>3, <2>4, <2>5, <2>7
<1>5. CASE ReadEvent(c)
  <2>1. /\ down[c] # <<>> /\ Head(down[c]).type = "event" /\ UNCHANGED <<box, hand, pending>>
        /\ down' = [down EXCEPT ![c] = Tail(@)]
    BY <1>5 DEF ReadEvent
  <2>2. Head(down[c]) \notin Replies(c)
    BY <2>1 DEF Replies
  <2>3. \A d \in Clients : Replies(d)' \subseteq Replies(d) /\ Replies(d) \subseteq Replies(d)'
    <3>1. \A d \in Clients : /\ Replies(d)' \subseteq Replies(d)
                             /\ \A m \in Replies(d) : m \in Replies(d)' \/ (d = c /\ m = Head(down[c]))
      BY <1>0, <2>1, PopReplies
    <3> QED BY <2>2, <3>1
  <2> QED BY <1>3, <2>1, <2>3
<1>6. CASE Deliver(c)
  <2>1. /\ UNCHANGED <<down, pending>> /\ hand' = [hand EXCEPT ![c] = {}]
        /\ \A l \in box' : l \in box \/ l \in hand[c]
    BY <1>6 DEF Deliver
  <2>2. \A d \in Clients : hand'[d] \subseteq hand[d]
    BY <1>0, <2>1, StopTypes
  <2> QED BY <1>3, <2>1, <2>2, SameReplies
<1>7. CASE ReadEnd(c)
  <2>1. /\ UNCHANGED <<down, hand>> /\ pending' = [pending EXCEPT ![c] = {}] /\ endOfDown(c)
        /\ \A l \in box' : l \in box \/ \E e \in pending[c] : l.ch = e.ch /\ l.of = e.ch /\ l.out = "lost"
    BY <1>7 DEF ReadEnd
  <2>2. \A d \in Clients : pending'[d] \subseteq pending[d]
    BY <1>0, <2>1, StopTypes
  <2>3. ASSUME NEW e \in pending[c]
        PROVE  e.ch[1] \in Gos /\ (e.ch \in Stoppers => shut[Owner[e.ch[1]]])
    <3>1. e.ch[1] \in Gos /\ Owner[e.ch[1]] = c
      BY <1>0, ChanFacts DEF ChansOnce
    <3>2. ASSUME e.ch \in Stoppers PROVE shut[c]
      <4>1. shut[c] \/ \E m \in Replies(c) : m.of = e.ch
        BY <1>0, <3>2 DEF StopsOk, Answered
      <4>2. clEnd[c] = "closed" => shut[c]
        BY <1>0 DEF ClosedShut
      <4>3. down[c] = <<>> => Replies(c) = {}
        BY DEF Replies
      <4> QED BY <2>1, <4>1, <4>2, <4>3 DEF endOfDown
    <3> QED BY <3>1, <3>2
  <2> QED BY <1>3, <2>1, <2>2, <2>3, SameReplies
<1> QED BY <1>4, <1>5, <1>6, <1>7 DEF ReadStep

-----------------------------------------------------------------------------
(* The server: a step that leaves the callers' tables alone.               *)
LEMMA ServerKept ==
  ASSUME TypeOK, OpenQuiet, StopsOk, UNCHANGED <<pending, hand, box, last>>, OpenShrinks,
         \A c \in Clients : (shut[c] => shut'[c]) /\ (broken(c) => broken(c)'),
         ran \subseteq ran',
         \A d \in Clients : Replies(d) \subseteq Replies(d)',
         \A d \in Clients : \A m \in Replies(d)' :
           \/ m \in Replies(d)
           \/ m.of \notin Stoppers /\ \A e \in Clients : \A r \in Open(e)' : r.of # m.of,
         \A t \in Stoppers' : \/ t \in Stoppers
                              \/ Answered(t)' /\ \A e \in Clients : \A r \in Open(e)' : r.of # t
  PROVE  OpenQuiet' /\ StopsOk'
<1>1. \A t : Told(t)' = Told(t)
  BY ToldSame
<1>2. ASSUME NEW c \in Clients, NEW r \in Open(c)' PROVE Quiet(c, r)'
  <2>1. r \in Open(c) /\ Quiet(c, r)
    BY <1>2 DEF OpenShrinks, OpenQuiet
  <2>2. r.of \notin Stoppers'
    BY <1>2, <2>1 DEF Quiet
  <2>3. \A d \in Clients : \A m \in Replies(d)' : m.of = r.of => m \in Replies(d)
    BY <1>2
  <2> QED BY <1>1, <2>1, <2>2, <2>3, QuietKept
<1>3. ASSUME NEW t \in Stoppers PROVE Answered(t)'
  <2>1. Answered(t) /\ Owner[t[1]] \in Clients
    BY StopperTypes DEF StopsOk
  <2>2. \A d \in Clients : \A m \in Replies(d)' : m.of = t => m \in Replies(d)
    OBVIOUS
  <2> QED BY <1>1, <2>1, <2>2, AnsweredKept
<1> QED BY <1>2, <1>3 DEF OpenQuiet, StopsOk

LEMMA HanStoppers ==
  ASSUME TypeOK, NEW c \in Clients, NEW x, x # "stop", han' = [han EXCEPT ![c] = x],
         stopper' = stopper, \A d \in Clients : d # c => job'[d] = job[d]
  PROVE  Stoppers' \subseteq Stoppers
<1>1. han'[c] = x /\ \A d \in Clients : d # c => han'[d] = han[d]
  BY RunTypes
<1>2. StopJobs(c)' = {} /\ \A d \in Clients : d # c => StopJobs(d)' = StopJobs(d)
  BY <1>1 DEF StopJobs
<1> QED BY <1>2 DEF Stoppers

(* The handlers but for their replies.                                     *)
LEMMA HandlerStops ==
  ASSUME IpcInv, RunInv, StopInv, NEW c \in Clients, HandlerStep(c), ~SendReply(c),
         \A d \in Clients : broken(d) => broken(d)'
  PROVE  OpenQuiet' /\ StopsOk'
<1>0. TypeOK /\ OpenQuiet /\ StopsOk /\ OpenShrinks
  BY HandlerRuns DEF IpcInv, StopInv
<1>1. UNCHANGED <<pending, hand, box, last, shut, down>> /\ ran \subseteq ran'
  BY DEF HandlerStep, Track, Subscribe, ReadRequest, ReadFails, Dispatch, Build, Cast,
         RequestShutdown, Unsubscribe, Untrack, ConnDone, clientVars
<1>2. \A d \in Clients : Replies(d)' = Replies(d)
  BY <1>1, SameReplies
<1>3. Stoppers' \subseteq Stoppers
  <2>1. CASE RequestShutdown(c)
    <3>1. /\ han[c] = "stop" /\ han' = [han EXCEPT ![c] = "unsub"] /\ UNCHANGED job
          /\ stopper' = stopper \cup {j.req.of : j \in job[c]}
      BY <2>1 DEF RequestShutdown, at
    <3>2. StopJobs(c) = {j.req.of : j \in job[c]}
      BY <3>1 DEF StopJobs
    <3>3. \A d \in Clients : StopJobs(d)' \subseteq StopJobs(d)
      BY <1>0, <3>1, RunTypes DEF StopJobs
    <3> QED BY <3>1, <3>2, <3>3 DEF Stoppers
  <2>2. CASE UNCHANGED <<stopper, han, job>>
    BY <2>2, SameStoppers
  <2>3. CASE Build(c) \/ ReadRequest(c) \/ Dispatch(c)
    <3>1. stopper' = stopper
      BY <2>3 DEF Build, ReadRequest, Dispatch
    <3>2. UNCHANGED <<han, job>> \/ \E x \in {"cast", "call", "build", "reply"} : han' = [han EXCEPT ![c] = x]
      BY <2>3 DEF Build, ReadRequest, Dispatch, at
    <3>3. UNCHANGED job \/ \E x : job' = [job EXCEPT ![c] = x]
      BY <2>3 DEF Build, ReadRequest, Dispatch
    <3>4. \A d \in Clients : d # c => job'[d] = job[d]
      BY <1>0, <3>3, RunTypes
    <3> QED BY <1>0, <3>1, <3>2, <3>4, SameStoppers, HanStoppers
  <2>4. CASE \/ Track(c) \/ Subscribe(c) \/ ReadFails(c) \/ Cast(c)
             \/ Unsubscribe(c) \/ Untrack(c) \/ ConnDone(c)
    <3>1. stopper' = stopper /\ job' = job
      BY <2>4 DEF Track, Subscribe, ReadFails, Cast, Unsubscribe, Untrack, ConnDone
    <3>2. \E x : x # "stop" /\ han' = [han EXCEPT ![c] = x]
      BY <2>4 DEF Track, Subscribe, ReadFails, Cast, Unsubscribe, Untrack, ConnDone, at
    <3> QED BY <1>0, <3>1, <3>2, HanStoppers
  <2> QED BY <2>1, <2>3, <2>4 DEF HandlerStep
<1> QED BY <1>0, <1>1, <1>2, <1>3, ServerKept
(* The reply of a handler: no other speaks of the call; and after a        *)
(* shutdown's, written to a connection that holds, its caller is told.     *)
LEMMA ReplyStops ==
  ASSUME IpcInv, RunInv, StopInv, NEW c \in Clients, SendReply(c)
  PROVE  OpenQuiet' /\ StopsOk'
<1>0. TypeOK /\ OpenQuiet /\ StopsOk /\ JobOuts /\ LostBroken /\ ChansOnce /\ OpenShrinks
  <2>1. HandlerStep(c)
    BY DEF HandlerStep
  <2> QED BY <2>1, HandlerRuns DEF IpcInv, StopInv
<1>1. /\ UNCHANGED <<pending, hand, box, last, shut, clEnd, svEnd, ran, stopper, job, up, searches>>
      /\ han[c] = "reply"
  BY DEF SendReply, clientVars
<1>2. \A d \in Clients : (shut[d] => shut'[d]) /\ (broken(d) => broken(d)')
  BY <1>1 DEF broken
<1>3. CASE UNCHANGED down /\ han' = [han EXCEPT ![c] = "unsub"]
  <2>1. Stoppers' \subseteq Stoppers
    BY <1>0, <1>1, <1>3, HanStoppers
  <2>2. \A d \in Clients : Replies(d)' = Replies(d)
    BY <1>3, SameReplies
  <2> QED BY <1>0, <1>1, <1>2, <2>1, <2>2, ServerKept
<1>4. ASSUME NEW j \in job[c], ~broken(c), down' = [down EXCEPT ![c] = Append(@, reply(j.req, j.out))],
             han' = at(c, IF j.req.kind = "shutdown" THEN "stop" ELSE "read")
      PROVE  OpenQuiet' /\ StopsOk'
  <2>1. j.req \in Request /\ j.out \in {"ok", "err"}
    BY <1>0, RunTypes DEF Job
  <2>2. PICK m \in Reply : m = reply(j.req, j.out)
    BY <2>1, ReplyMsg
  <2>3. m.of = j.req.of /\ m.seq = j.req.seq /\ m.out = j.out /\ m.type = "reply"
    BY <2>2 DEF reply
  <2>4. PICK q \in Open(c) : q = j.req
    BY <1>1 DEF Open, JobReqs, Serving
  <2>5. Quiet(c, q) /\ q.of \in ran /\ q.of \in Chan /\ Owner[q.of[1]] = c
    <3>1. q.of \in ran
      BY <1>1, <2>4 DEF RunInv, WordInv, JobRan
    <3>2. q.of \in Chan
      BY <1>0, ReqTypes, OfChan
    <3> QED BY <1>0, <3>1, <3>2 DEF OpenQuiet, RunInv, ReqInv, RequestsSent
  <2>6. \A d \in Clients :
          /\ Replies(d) \subseteq Replies(d)'
          /\ \A k \in Replies(d)' : k \in Replies(d) \/ (d = c /\ k = m)
          /\ d = c => m \in Replies(d)'
    <3>1. down' = [down EXCEPT ![c] = Append(@, m)]
      BY <1>4, <2>2, Zenon
    <3>2. TypeOK /\ m \in Reply \cup Event
      BY <1>0, <2>2
    <3>3. \A d \in Clients :
            /\ Replies(d) \subseteq Replies(d)'
            /\ \A k \in Replies(d)' : k \in Replies(d) \/ (d = c /\ m.type = "reply" /\ k = m)
            /\ d = c /\ m.type = "reply" => m \in Replies(d)'
      BY <3>1, <3>2, PushReplies, Zenon
    <3> QED BY <2>3, <3>3
  <2>7. /\ han'[c] = IF j.req.kind = "shutdown" THEN "stop" ELSE "read"
        /\ \A d \in Clients : d # c => han'[d] = han[d]
    BY <1>0, <1>4, RunTypes DEF at
  <2>8. \A e \in Clients : \A r \in Open(e)' : r.of # q.of
    <3>1. \A e \in Clients : \A r \in Open(e)' : r \in Open(e)
      BY <1>0 DEF OpenShrinks
    <3>2. \A r \in UpReqs(c) \cup searches[c] : r.of # q.of
      <4>1. q \in JobReqs(c)
        BY <1>1, <2>4 DEF JobReqs, Serving
      <4> QED BY <4>1 DEF RunInv, ReqInv, RequestsApart
    <3>3. Open(c)' \subseteq UpReqs(c) \cup searches[c]
      BY <1>1, <2>7 DEF Open, UpReqs, JobReqs, Serving
    <3>4. ASSUME NEW e \in Clients, e # c, NEW r \in Open(e)' PROVE r.of # q.of
      BY <1>0, <3>1, <3>4, OpenApart DEF RunInv
    <3> QED BY <3>2, <3>3, <3>4
  <2>9. \A d \in Clients : \A k \in Replies(d)' :
          \/ k \in Replies(d)
          \/ k.of \notin Stoppers /\ \A e \in Clients : \A r \in Open(e)' : r.of # k.of
    BY <2>3, <2>4, <2>5, <2>6, <2>8 DEF Quiet
  <2>10. \A t \in Stoppers' : t \in Stoppers \/ (t = q.of /\ j.req.kind = "shutdown")
    <3>1. \A d \in Clients : d # c => StopJobs(d)' = StopJobs(d)
      BY <1>1, <2>7 DEF StopJobs
    <3>2. \A t \in StopJobs(c)' : t = q.of /\ j.req.kind = "shutdown"
      <4>1. \A k \in job[c] : k = j
        BY DEF RunInv, ReqInv, RequestsApart
      <4> QED BY <1>1, <2>4, <2>7, <4>1 DEF StopJobs
    <3> QED BY <1>1, <3>1, <3>2 DEF Stoppers
  <2>11. ASSUME j.req.kind = "shutdown" PROVE Answered(q.of)'
    <3>0. PICK t : t = q.of
      OBVIOUS
    <3>1. j.out = "ok"
      BY <1>0, <1>1, <2>11 DEF JobOuts
    <3>2. \A d \in Clients : \A k \in Replies(d)' : k.of = t => k.out = "ok"
      BY <2>3, <2>5, <2>6, <3>0, <3>1 DEF Quiet
    <3>3. \A d \in Clients : \A l \in hand'[d] : l.of = t => l.out = "ok"
      BY <1>1, <2>5, <3>0 DEF Quiet
    <3>4. \A d \in Clients : \A e \in pending'[d] : e.ch = t => \E k \in Replies(d)' : k.of = t /\ k.seq = e.seq
      <4> SUFFICES ASSUME NEW d \in Clients, NEW e \in pending[d], e.ch = t
                   PROVE  \E k \in Replies(d)' : k.of = t /\ k.seq = e.seq
        BY <1>1
      <4>1. d = c
        BY <1>0, <2>5, <3>0 DEF ChansOnce
      <4>2. e.seq = q.seq
        BY <2>5, <3>0, <4>1 DEF Quiet
      <4> QED BY <2>3, <2>4, <2>6, <3>0, <4>1, <4>2
    <3>5. \A l \in box' : l.of # t
      <4>1. \A l \in box : l.of = t => l.out = "lost" /\ l.ch = t
        BY <1>0, <2>5, <3>0 DEF Quiet, ChansOnce
      <4>2. \A l \in box : l.of = t => broken(c)
        BY <1>0, <2>5, <3>0, <4>1 DEF LostBroken
      <4> QED BY <1>1, <1>4, <4>2
    <3>6. \A o \in Told(t)' : o = "timeout" \/ shut'[Owner[t[1]]]
      <4>1. Told(t)' = Told(t)
        BY <1>1, ToldSame
      <4> QED BY <1>1, <1>4, <2>5, <3>0, <4>1 DEF Quiet
    <3>7. t \in ran'
      BY <1>1, <2>5, <3>0
    <3>8. Answered(t)'
      BY <3>2, <3>3, <3>4, <3>5, <3>6, <3>7 DEF Answered
    <3> QED BY <3>0, <3>8
  <2> QED BY <1>0, <1>1, <1>2, <2>6, <2>8, <2>9, <2>10, <2>11, ServerKept
<1> QED BY <1>3, <1>4 DEF SendReply, at

(* A search's reply.                                                       *)
LEMMA SearchStops ==
  ASSUME IpcInv, RunInv, StopInv, NEW c \in Clients, SearchReply(c)
  PROVE  OpenQuiet' /\ StopsOk'
<1>0. TypeOK /\ OpenQuiet /\ StopsOk /\ OpenShrinks
  BY SearchRuns DEF IpcInv, StopInv
<1>1. PICK r \in searches[c], out \in {"ok", "err"} : SearchReply(c)!(r, out)
  BY DEF SearchReply
<1>2. /\ UNCHANGED <<pending, hand, box, last, shut, clEnd, svEnd, stopper, job, han, up>>
      /\ ran \subseteq ran' /\ searches' = [searches EXCEPT ![c] = @ \ {r}]
      /\ UNCHANGED down \/ down' = [down EXCEPT ![c] = Append(@, reply(r, out))]
  BY <1>1 DEF clientVars
<1>3. (\A d \in Clients : (shut[d] => shut'[d]) /\ (broken(d) => broken(d)')) /\ Stoppers' = Stoppers
  BY <1>2, SameStoppers DEF broken
<1>4. CASE UNCHANGED down
  <2>1. \A d \in Clients : Replies(d)' = Replies(d)
    BY <1>4, SameReplies
  <2> QED BY <1>0, <1>2, <1>3, <2>1, ServerKept
<1>5. CASE down' = [down EXCEPT ![c] = Append(@, reply(r, out))]
  <2>1. r \in Request /\ r \in Open(c)
    BY <1>0, RunTypes DEF Open
  <2>2. PICK m \in Reply : m = reply(r, out)
    BY <2>1, ReplyMsg
  <2>3. m.of = r.of
    BY <2>2 DEF reply
  <2>4. \A d \in Clients : /\ Replies(d) \subseteq Replies(d)'
                           /\ \A k \in Replies(d)' : k \in Replies(d) \/ k = m
    <3>1. down' = [down EXCEPT ![c] = Append(@, m)]
      BY <1>5, <2>2, Zenon
    <3>2. TypeOK /\ m \in Reply \cup Event
      BY <1>0, <2>2
    <3>3. \A d \in Clients :
            /\ Replies(d) \subseteq Replies(d)'
            /\ \A k \in Replies(d)' : k \in Replies(d) \/ (d = c /\ m.type = "reply" /\ k = m)
      BY <3>1, <3>2, PushReplies, Zenon
    <3> QED BY <3>3
  <2>5. r.of \notin Stoppers
    BY <1>0, <2>1 DEF OpenQuiet, Quiet
  <2>6. \A e \in Clients : \A s \in Open(e)' : s.of # r.of
    <3>1. \A s \in UpReqs(c) \cup JobReqs(c) \cup (searches[c] \ {r}) : s.of # r.of
      BY DEF RunInv, ReqInv, RequestsApart
    <3>2. Open(c)' = UpReqs(c) \cup JobReqs(c) \cup (searches[c] \ {r})
      BY <1>0, <1>2, RunTypes DEF Open, UpReqs, JobReqs
    <3>3. ASSUME NEW e \in Clients, e # c, NEW s \in Open(e)' PROVE s.of # r.of
      BY <1>0, <2>1, <3>3, OpenApart DEF RunInv, OpenShrinks
    <3> QED BY <3>1, <3>2, <3>3
  <2> QED BY <1>0, <1>2, <1>3, <2>3, <2>4, <2>5, <2>6, ServerKept
<1> QED BY <1>2, <1>4, <1>5

(* Everyone else.                                                          *)
LEMMA OthersStop ==
  ASSUME IpcInv, RunInv, StopInv,
         \A c \in Clients : (shut[c] => shut'[c]) /\ (broken(c) => broken(c)'),
         \/ \E c \in Clients : Dial(c) \/ CloseClient(c) \/ HangUp(c) \/ Accept(c) \/ PumpStep(c)
         \/ AcceptEnd \/ TickStep \/ MainStep \/ Signal \/ UNCHANGED vars
  PROVE  OpenQuiet' /\ StopsOk'
<1> USE DEF clientVars, serverVars, engineVars
<1>0. TypeOK /\ OpenQuiet /\ StopsOk /\ OpenShrinks
  BY OthersRun DEF IpcInv, StopInv
<1>1. UNCHANGED <<pending, hand, box, last, ran, stopper, job>>
  BY DEF Dial, CloseClient, HangUp, Accept, PumpStep, PumpTake, PumpSend, AcceptEnd, TickStep, TickBuild,
         TickCast, MainStep, Asked, CloseListener, CloseConns, WaitHandlers, CloseEngine, EngineClosed,
         Signal, vars
<1>2. Stoppers' \subseteq Stoppers
  <2>1. CASE UNCHANGED han
    BY <1>1, <2>1, SameStoppers
  <2>2. ASSUME NEW c \in Clients, Accept(c) PROVE Stoppers' \subseteq Stoppers
    BY <1>0, <1>1, <2>2, HanStoppers DEF Accept, at
  <2> QED BY <2>1, <2>2 DEF Dial, CloseClient, HangUp, PumpStep, PumpTake, PumpSend, AcceptEnd, TickStep,
             TickBuild, TickCast, MainStep, Asked, CloseListener, CloseConns, WaitHandlers, CloseEngine,
             EngineClosed, Signal, vars
<1>3. \A d \in Clients : Replies(d) \subseteq Replies(d)' /\ Replies(d)' \subseteq Replies(d)
  <2>1. CASE UNCHANGED down
    BY <2>1, SameReplies
  <2>2. ASSUME NEW c \in Clients, PumpSend(c), ~UNCHANGED down
        PROVE  \A d \in Clients : Replies(d) \subseteq Replies(d)' /\ Replies(d)' \subseteq Replies(d)
    <3>1. pump[c].ev \in Nat
      BY <1>0 DEF TypeOK, ServerTypes
    <3>2. PICK m \in Event : down' = [down EXCEPT ![c] = Append(@, m)] /\ m.type = "event"
      BY <2>2, <3>1, EventMsg DEF PumpSend
    <3> QED BY <1>0, <3>2, PushReplies
  <2> QED BY <2>1, <2>2 DEF Dial, CloseClient, HangUp, Accept, PumpStep, PumpTake, AcceptEnd, TickStep,
             TickBuild, TickCast, MainStep, Asked, CloseListener, CloseConns, WaitHandlers, CloseEngine,
             EngineClosed, Signal, vars
<1> QED BY <1>0, <1>1, <1>2, <1>3, ServerKept

LEMMA NextStops ==
  ASSUME IpcInv, DrainInv, RunInv, StopInv, [Next]_vars
  PROVE  StopInv'
<1>1. TypeOK /\ ClosedShut
  BY DEF IpcInv, StopInv
<1>2. ClosedShut' /\ \A c \in Clients : (shut[c] => shut'[c]) /\ (broken(c) => broken(c)')
  BY <1>1, LostForGood
<1>3. EntrySeqs' /\ LostBroken' /\ JobOuts'
  BY <1>2, NextEntries, NextLost, NextJobs DEF StopInv
<1>4. OpenQuiet' /\ StopsOk'
  BY <1>2, CallerStops, ReaderStops, HandlerStops, ReplyStops, SearchStops, OthersStop DEF Next
<1> QED BY <1>2, <1>3, <1>4 DEF StopInv

LEMMA InitStops == Init => StopInv
<1> SUFFICES ASSUME Init PROVE StopInv
  OBVIOUS
<1>1. \A c \in Clients : Open(c) = {} /\ StopJobs(c) = {}
  <2> SUFFICES ASSUME NEW c \in Clients PROVE UpReqs(c) = {} /\ JobReqs(c) = {} /\ searches[c] = {} /\ StopJobs(c) = {}
    BY DEF Open
  <2>1. up[c] = <<>> /\ job[c] = {} /\ searches[c] = {}
    BY DEF Init
  <2>2. 1..Len(up[c]) = {}
    BY <2>1
  <2> QED BY <2>1, <2>2 DEF UpReqs, JobReqs, StopJobs
<1>2. Stoppers = {}
  BY <1>1 DEF Init, Stoppers
<1>3. OpenQuiet /\ StopsOk
  BY <1>1, <1>2 DEF OpenQuiet, StopsOk
<1>4. ClosedShut /\ EntrySeqs /\ LostBroken /\ JobOuts
  BY DEF Init, ClosedShut, EntrySeqs, LostBroken, JobOuts
<1> QED BY <1>3, <1>4 DEF StopInv

(* The caller whose request stops the daemon is told ok, unless it gave up *)
(* or closed its client: neither the hang-up nor an answer that a lost     *)
(* connection, a search or another caller is given overtakes it            *)
(* (server.go, handleConn; client.go, failAllPending).                     *)
THEOREM StopAnswered == Spec => []ShutdownAnswered
<1>1. IpcInv /\ DrainInv /\ RunInv /\ StopInv /\ [Next]_vars => StopInv'
  BY NextStops
<1>2. IpcInv /\ DrainInv /\ [Next]_vars => DrainInv'
  BY NextDrains DEF IpcInv
<1>3. Init => DrainInv
  BY DEF Init, DrainInv
<1>4. StopInv => ShutdownAnswered
  <2> SUFFICES ASSUME StopInv, NEW g \in Gos, <<g, last[g].n>> \in stopper
               PROVE  last[g].out \in {"ok", "timeout"} \/ shut[Owner[g]]
    BY DEF ShutdownAnswered
  <2>1. PICK t \in Stoppers : t = <<g, last[g].n>> /\ t[1] = g
    BY DEF Stoppers
  <2>2. last[g].out \in Told(t)
    BY <2>1 DEF Told
  <2> QED BY <2>1, <2>2 DEF StopInv, StopsOk, Answered
<1> QED BY <1>1, <1>2, <1>3, <1>4, RunInvHolds, InitStops, PTL DEF Spec
=============================================================================
