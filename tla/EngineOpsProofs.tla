--------------------------- MODULE EngineOpsProofs ---------------------------
(***************************************************************************)
(* Each step of an operation keeps Inv: applyFlow and persist, the calls,  *)
(* adds and the goroutines waiting for metadata, pauses, setters, streams, *)
(* hash checks, and the start of a structural operation up to removal.     *)
(*                                                                         *)
(* First the frame of these proofs and of EngineProofs: what a step must   *)
(* show to keep the inductive invariant Inv of EngineControl.  A step moves*)
(* one thread p, or two (an operation and the goroutine it starts), and    *)
(* leaves pc, loc and save of the others alone, so Inv' comes down to the  *)
(* types of what the step assigns and to the place its threads come to.    *)
(***************************************************************************)
EXTENDS EngineControl, TLAPS

-----------------------------------------------------------------------------
(* Facts about types.                                                      *)

(* A function updated at one point.                                        *)
LEMMA FunUpdate ==
  ASSUME NEW S, NEW T, NEW f \in [S -> T], NEW a, NEW v, a \in S => v \in T
  PROVE  /\ [f EXCEPT ![a] = v] \in [S -> T]
         /\ a \in S => [f EXCEPT ![a] = v][a] = v
         /\ \A b \in S : b # a => [f EXCEPT ![a] = v][b] = f[b]
OBVIOUS

(* The numbers among a thread's locals.                                    *)
LEMMA LocalsFacts ==
  ASSUME NEW l \in Locals
  PROVE  /\ l.o \in Int /\ l.o \in Objs \cup {NoObj}
         /\ l.t \in Int /\ l.t \in Insts \cup {NoInst}
         /\ l.ft \in Int /\ l.ft \in Insts \cup {NoInst}
<1>1. /\ l.o \in Objs \cup {NoObj} /\ l.t \in Insts \cup {NoInst}
      /\ l.ft \in Insts \cup {NoInst}
  BY DEF Locals
<1>2. QED
  BY <1>1, BoundsAssumption DEF Objs, Insts, NoObj, NoInst

(* What a step that assigns another local keeps.                           *)
Alike(n, l) == n.op = l.op /\ n.ret = l.ret /\ n.o = l.o /\ n.t = l.t /\ n.old = l.old

(* One of them assigned.                                                   *)
LEMMA Locals_op ==
  ASSUME NEW l \in Locals, NEW x \in {"", "remove", "purge", "move"}
  PROVE  LET n == [l EXCEPT !.op = x] IN n \in Locals /\ n.op = x /\ n.ret = l.ret /\ n.o = l.o /\ n.t = l.t /\ n.old = l.old
<1>1. [l EXCEPT !.op = x] \in Locals
  BY DEF Locals
<1>2. LET n == [l EXCEPT !.op = x] IN /\ n.op = x /\ n.ret = l.ret /\ n.o = l.o /\ n.t = l.t /\ n.old = l.old
  BY DEF Locals, Alike
<1>3. QED
  BY <1>1, <1>2, Zenon

LEMMA Locals_ret ==
  ASSUME NEW l \in Locals, NEW x \in RetNext
  PROVE  LET n == [l EXCEPT !.ret = x] IN n \in Locals /\ n.ret = x /\ n.op = l.op /\ n.o = l.o /\ n.t = l.t /\ n.old = l.old
<1>1. [l EXCEPT !.ret = x] \in Locals
  BY DEF Locals
<1>2. LET n == [l EXCEPT !.ret = x] IN /\ n.ret = x /\ n.op = l.op /\ n.o = l.o /\ n.t = l.t /\ n.old = l.old
  BY DEF Locals, Alike
<1>3. QED
  BY <1>1, <1>2, Zenon

LEMMA Locals_id ==
  ASSUME NEW l \in Locals, NEW x \in Ids
  PROVE  LET n == [l EXCEPT !.id = x] IN n \in Locals /\ Alike(n, l)
<1>1. [l EXCEPT !.id = x] \in Locals
  BY DEF Locals
<1>2. LET n == [l EXCEPT !.id = x] IN /\ Alike(n, l)
  BY DEF Locals, Alike
<1>3. QED
  BY <1>1, <1>2, Zenon

LEMMA Locals_o ==
  ASSUME NEW l \in Locals, NEW x \in Objs \cup {NoObj}
  PROVE  LET n == [l EXCEPT !.o = x] IN n \in Locals /\ n.o = x /\ n.op = l.op /\ n.ret = l.ret /\ n.t = l.t /\ n.old = l.old
<1>1. [l EXCEPT !.o = x] \in Locals
  BY DEF Locals
<1>2. LET n == [l EXCEPT !.o = x] IN /\ n.o = x /\ n.op = l.op /\ n.ret = l.ret /\ n.t = l.t /\ n.old = l.old
  BY DEF Locals, Alike
<1>3. QED
  BY <1>1, <1>2, Zenon

LEMMA Locals_t ==
  ASSUME NEW l \in Locals, NEW x \in Insts \cup {NoInst}
  PROVE  LET n == [l EXCEPT !.t = x] IN n \in Locals /\ n.t = x /\ n.op = l.op /\ n.ret = l.ret /\ n.o = l.o /\ n.old = l.old
<1>1. [l EXCEPT !.t = x] \in Locals
  BY DEF Locals
<1>2. LET n == [l EXCEPT !.t = x] IN /\ n.t = x /\ n.op = l.op /\ n.ret = l.ret /\ n.o = l.o /\ n.old = l.old
  BY DEF Locals, Alike
<1>3. QED
  BY <1>1, <1>2, Zenon

LEMMA Locals_dir ==
  ASSUME NEW l \in Locals, NEW x \in Dirs
  PROVE  LET n == [l EXCEPT !.dir = x] IN n \in Locals /\ Alike(n, l)
<1>1. [l EXCEPT !.dir = x] \in Locals
  BY DEF Locals
<1>2. LET n == [l EXCEPT !.dir = x] IN /\ Alike(n, l)
  BY DEF Locals, Alike
<1>3. QED
  BY <1>1, <1>2, Zenon

LEMMA Locals_flag ==
  ASSUME NEW l \in Locals, NEW x \in BOOLEAN
  PROVE  LET n == [l EXCEPT !.flag = x] IN n \in Locals /\ Alike(n, l)
<1>1. [l EXCEPT !.flag = x] \in Locals
  BY DEF Locals
<1>2. LET n == [l EXCEPT !.flag = x] IN /\ Alike(n, l)
  BY DEF Locals, Alike
<1>3. QED
  BY <1>1, <1>2, Zenon

LEMMA Locals_magnet ==
  ASSUME NEW l \in Locals, NEW x \in BOOLEAN
  PROVE  LET n == [l EXCEPT !.magnet = x] IN n \in Locals /\ Alike(n, l)
<1>1. [l EXCEPT !.magnet = x] \in Locals
  BY DEF Locals
<1>2. LET n == [l EXCEPT !.magnet = x] IN /\ Alike(n, l)
  BY DEF Locals, Alike
<1>3. QED
  BY <1>1, <1>2, Zenon

LEMMA Locals_file ==
  ASSUME NEW l \in Locals, NEW x \in Files
  PROVE  LET n == [l EXCEPT !.file = x] IN n \in Locals /\ Alike(n, l)
<1>1. [l EXCEPT !.file = x] \in Locals
  BY DEF Locals
<1>2. LET n == [l EXCEPT !.file = x] IN /\ Alike(n, l)
  BY DEF Locals, Alike
<1>3. QED
  BY <1>1, <1>2, Zenon

LEMMA Locals_ft ==
  ASSUME NEW l \in Locals, NEW x \in Insts \cup {NoInst}
  PROVE  LET n == [l EXCEPT !.ft = x] IN n \in Locals /\ Alike(n, l)
<1>1. [l EXCEPT !.ft = x] \in Locals
  BY DEF Locals
<1>2. LET n == [l EXCEPT !.ft = x] IN /\ Alike(n, l)
  BY DEF Locals, Alike
<1>3. QED
  BY <1>1, <1>2, Zenon

LEMMA Locals_down ==
  ASSUME NEW l \in Locals, NEW x \in BOOLEAN
  PROVE  LET n == [l EXCEPT !.down = x] IN n \in Locals /\ Alike(n, l)
<1>1. [l EXCEPT !.down = x] \in Locals
  BY DEF Locals
<1>2. LET n == [l EXCEPT !.down = x] IN /\ Alike(n, l)
  BY DEF Locals, Alike
<1>3. QED
  BY <1>1, <1>2, Zenon

LEMMA Locals_up ==
  ASSUME NEW l \in Locals, NEW x \in BOOLEAN
  PROVE  LET n == [l EXCEPT !.up = x] IN n \in Locals /\ Alike(n, l)
<1>1. [l EXCEPT !.up = x] \in Locals
  BY DEF Locals
<1>2. LET n == [l EXCEPT !.up = x] IN /\ Alike(n, l)
  BY DEF Locals, Alike
<1>3. QED
  BY <1>1, <1>2, Zenon

LEMMA Locals_fk ==
  ASSUME NEW l \in Locals, NEW x \in FlowNext \cup {""}
  PROVE  LET n == [l EXCEPT !.fk = x] IN n \in Locals /\ Alike(n, l)
<1>1. [l EXCEPT !.fk = x] \in Locals
  BY DEF Locals
<1>2. LET n == [l EXCEPT !.fk = x] IN /\ Alike(n, l)
  BY DEF Locals, Alike
<1>3. QED
  BY <1>1, <1>2, Zenon

LEMMA Locals_done ==
  ASSUME NEW l \in Locals, NEW x \in Nat
  PROVE  LET n == [l EXCEPT !.done = x] IN n \in Locals /\ Alike(n, l)
<1>1. [l EXCEPT !.done = x] \in Locals
  BY DEF Locals
<1>2. LET n == [l EXCEPT !.done = x] IN /\ Alike(n, l)
  BY DEF Locals, Alike
<1>3. QED
  BY <1>1, <1>2, Zenon

LEMMA Locals_err ==
  ASSUME NEW l \in Locals, NEW x \in {"", "canceled", "failed"}
  PROVE  LET n == [l EXCEPT !.err = x] IN n \in Locals /\ Alike(n, l)
<1>1. [l EXCEPT !.err = x] \in Locals
  BY DEF Locals
<1>2. LET n == [l EXCEPT !.err = x] IN /\ Alike(n, l)
  BY DEF Locals, Alike
<1>3. QED
  BY <1>1, <1>2, Zenon

(* The labels of structural operations are not those of the rest.          *)
LEMMA LabelsApart ==
  /\ \A c \in OtherLabels : c \notin StructLabels /\ c \notin NeedsFresh
  /\ "op.lock" \in NeedsObj /\ "op.lock" \in StructLabels /\ "op.lock" \notin NeedsFresh
<1>1. \A c \in OtherLabels : c \notin StructLabels
  BY SMTT(30) DEF OtherLabels, StructLabels
<1>2. \A c \in OtherLabels : c \notin NeedsFresh
  BY SMTT(30) DEF OtherLabels, NeedsFresh
<1>3. "op.lock" \in NeedsObj /\ "op.lock" \in StructLabels /\ "op.lock" \notin NeedsFresh
  BY SMTT(30) DEF StructLabels, NeedsFresh, NeedsObj
<1>4. QED
  BY <1>1, <1>2, <1>3

LEMMA ObjFacts ==
  ASSUME NEW n \in 0..MaxObjs
  PROVE  n \in Int /\ MaxObjs \in Int
  BY BoundsAssumption

(* The null values have their types.                                       *)
LEMMA NullTypes ==
  /\ Loc0 \in Locals /\ Save0 \in Saving /\ Tk0 \in Ticking
  /\ Loc0.op = "" /\ Loc0.ret = "idle" /\ Loc0.o = NoObj /\ Loc0.t = NoInst
<1>1. (CHOOSE i \in Ids : TRUE) \in Ids /\ (CHOOSE f \in Files : TRUE) \in Files
  BY ConfigAssumption
<1>2. Loc0 \in Locals
  <2>1. [f \in Files |-> "normal"] \in [Files -> Prios] /\ "normal" \in Prios
    BY DEF Prios
  <2>2. DataDir \in Dirs
    BY ConfigAssumption
  <2>3. ASSUME NEW i \in Ids, NEW f \in Files, NEW q \in [Files -> Prios]
        PROVE  [op |-> "", ret |-> "idle", id |-> i, o |-> NoObj, t |-> NoInst,
                old |-> DataDir, dir |-> DataDir, flag |-> FALSE,
                magnet |-> FALSE, pick |-> FALSE, sel |-> {}, chosen |-> {},
                file |-> f, prio |-> "normal", prios |-> q, ft |-> NoInst,
                down |-> FALSE, up |-> FALSE, fk |-> "", done |-> 0,
                err |-> ""] \in Locals
    BY <2>1, <2>2 DEF Locals, RetNext
  <2>4. QED
    BY <1>1, <2>1, <2>3, Zenon DEF Loc0
<1>3. Save0 \in Saving
  <2>1. [i \in Ids |-> NoRec] \in [Ids -> Record \cup {NoRec}]
    OBVIOUS
  <2>2. ASSUME NEW d \in [Ids -> Record \cup {NoRec}]
        PROVE  [k |-> "", draft |-> d, todo |-> {}] \in Saving
    BY DEF Saving
  <2>3. QED
    BY <2>1, <2>2, Zenon DEF Save0
<1>4. Tk0 \in Ticking
  BY DEF Tk0, Ticking
<1>5. QED
  BY <1>2, <1>3, <1>4 DEF Loc0

LEMMA BudgetTypes ==
  ASSUME NEW b \in Budget
  PROVE  /\ [b EXCEPT !.ops = @ - 1] \in Budget
         /\ [b EXCEPT !.ticks = @ - TickCost] \in Budget
         /\ [b EXCEPT !.restarts = @ - 1] \in Budget
         /\ [b EXCEPT !.bytes = @ - 1] \in Budget
         /\ [b EXCEPT !.faults = @ - 1] \in Budget
<1>1. TickCost \in Int
  BY BoundsAssumption
<1>2. QED
  BY <1>1 DEF Budget

(* The flow decision is typed and leaves the rest of the locals alone.     *)
LEMMA DecideFacts ==
  ASSUME NEW x \in Tracked, NEW l \in Locals, NEW k \in FlowNext
  PROVE  /\ Decide(l, x, k) \in Locals
         /\ Decide(l, x, k).fk = k /\ Decide(l, x, k).ft = x.t
         /\ Decide(l, x, k).o = l.o /\ Decide(l, x, k).t = l.t
         /\ Decide(l, x, k).op = l.op /\ Decide(l, x, k).ret = l.ret
         /\ Decide(l, x, k).old = l.old
<1>1. x.t \in Insts \cup {NoInst}
  BY DEF Tracked
<1>2. DownFlow(x, Guarded) \in BOOLEAN /\ UpFlow(x, Guarded) \in BOOLEAN
  BY DEF DownFlow, UpFlow
<1> HIDE DEF DownFlow, UpFlow
<1> DEFINE l1 == [l EXCEPT !.ft = x.t]
           l2 == [l1 EXCEPT !.down = DownFlow(x, Guarded)]
           l3 == [l2 EXCEPT !.up = UpFlow(x, Guarded)]
           l4 == [l3 EXCEPT !.fk = k]
<1>3. Decide(l, x, k) = l4
  BY DEF Decide
<1>4. l1 \in Locals /\ Alike(l1, l) /\ l1.ft = x.t
  <2>1. l1.ft = x.t
    BY DEF Locals
  <2> QED  BY <1>1, <2>1, Locals_ft, Zenon
<1> HIDE DEF l1
<1>5. l2 \in Locals /\ Alike(l2, l1) /\ l2.ft = l1.ft
  <2>1. l2.ft = l1.ft
    BY <1>4 DEF Locals
  <2> QED  BY <1>2, <1>4, <2>1, Locals_down, Zenon
<1> HIDE DEF l2
<1>6. l3 \in Locals /\ Alike(l3, l2) /\ l3.ft = l2.ft
  <2>1. l3.ft = l2.ft
    BY <1>5 DEF Locals
  <2> QED  BY <1>2, <1>5, <2>1, Locals_up, Zenon
<1> HIDE DEF l3
<1>7. l4 \in Locals /\ Alike(l4, l3) /\ l4.ft = l3.ft /\ l4.fk = k
  <2>1. l4.ft = l3.ft /\ l4.fk = k
    BY <1>6 DEF Locals
  <2> QED  BY <1>6, <2>1, Locals_fk, Zenon
<1> HIDE DEF l4
<1>8. QED
  BY <1>3, <1>4, <1>5, <1>6, <1>7 DEF Alike

-----------------------------------------------------------------------------
(* The frame.                                                              *)

(* The thread p goes to label c with locals l (SetLoc and Goto).           *)
Moves(p, c, l) ==
  /\ pc' = [pc EXCEPT ![p] = c]
  /\ loc' = [loc EXCEPT ![p] = l]

LEMMA MovesTypes ==
  ASSUME ThreadTypes, NEW p \in Threads, NEW c \in Places, NEW l \in Locals,
         Moves(p, c, l)
  PROVE  /\ ThreadTypes'
         /\ pc'[p] = c /\ loc'[p] = l
         /\ \A q \in Threads : q # p => pc'[q] = pc[q] /\ loc'[q] = loc[q]
<1>1. /\ pc' \in [Threads -> Places] /\ pc'[p] = c
      /\ \A q \in Threads : q # p => pc'[q] = pc[q]
  BY DEF ThreadTypes, Moves
<1>2. /\ loc' \in [Threads -> Locals] /\ loc'[p] = l
      /\ \A q \in Threads : q # p => loc'[q] = loc[q]
  BY DEF ThreadTypes, Moves
<1>3. QED
  BY <1>1, <1>2 DEF ThreadTypes

LEMMA GotoMoves ==
  ASSUME ThreadTypes, NEW p \in Threads, NEW c, Goto(p, c), UNCHANGED loc
  PROVE  Moves(p, c, loc[p])
  BY DEF ThreadTypes, Moves, Goto

(* Only p and w move.                                                      *)
OthersKept(p, w) ==
  \A q \in Threads : q # p /\ q # w =>
    pc'[q] = pc[q] /\ loc'[q] = loc[q] /\ save'[q].k = save[q].k

(* The instance and save path of a struct change only under its opMu.      *)
InstancesKept(p) ==
  \A o \in Objs : o <= nobj /\ opMu[o] # p =>
    tr'[o].t = tr[o].t /\ tr'[o].savePath = tr[o].savePath

(* p takes a free opMu, or releases its own.                               *)
MutexKept(p) ==
  \A o \in Objs : opMu'[o] # opMu[o] => opMu[o] \in {p, NoThread}

StructsOK ==
  /\ \A i \in Ids : torrents[i] <= nobj
  /\ \A o \in Objs : o <= nobj => tr[o].t # NoInst

(* What p, come to label c with locals l, still knows of its torrent.      *)
OwnsOK(p, c, l) ==
  /\ l.op # "" /\ c # "op.lock" => opMu'[l.o] = p
  /\ l.op \in {"purge", "move"} /\ l.t # NoInst =>
       tr'[l.o].t = l.t /\ tr'[l.o].savePath = l.old

LEMMA Frame ==
  ASSUME Inv, TypeOK', NEW p \in Threads, NEW w \in Threads, OthersKept(p, w),
         InstancesKept(p), MutexKept(p), StructsOK', nobj <= nobj',
         OwnsOK(p, pc'[p], loc'[p]), OwnsOK(w, pc'[w], loc'[w]),
         LocalOK(p, pc'[p], loc'[p], save'[p].k, nobj'),
         LocalOK(w, pc'[w], loc'[w], save'[w].k, nobj')
  PROVE  Inv'
<1>0. /\ nobj \in Int /\ nobj' \in Int /\ p # NoThread
      /\ \A q \in Threads : /\ loc[q].o \in Int /\ loc[q].o \in Objs \cup {NoObj}
                            /\ loc[q].t \in Int /\ q # NoThread
  <2>1. nobj \in Int /\ nobj' \in Int
    BY ObjFacts DEF Inv, TypeOK, EngineTypes
  <2>2. QED
    BY <2>1, LocalsFacts, ThreadsAssumption DEF Inv, TypeOK, ThreadTypes
<1>1. \A q \in Threads : LocalOK(q, pc[q], loc[q], save[q].k, nobj)
  BY DEF Inv, NoNilPointer
<1>2. ASSUME NEW q \in Threads
      PROVE  LocalOK(q, pc'[q], loc'[q], save'[q].k, nobj')
  <2>1. CASE q = p \/ q = w
    BY <2>1
  <2>2. CASE q # p /\ q # w
    <3>1. /\ pc'[q] = pc[q] /\ loc'[q] = loc[q] /\ save'[q].k = save[q].k
      BY <2>2 DEF OthersKept
    <3>2. loc[q].o <= nobj
      BY <1>1 DEF LocalOK, PointersOK
    <3>3. loc[q].o <= nobj'
      BY <1>0, <3>2
    <3>4. QED
      BY <1>1, <3>1, <3>3 DEF LocalOK, PointersOK
  <2>3. QED
    BY <2>1, <2>2
<1>3. NoNilPointer'
  BY <1>2 DEF NoNilPointer, StructsOK
(* A thread that does not move and holds a mutex: it is not p's.           *)
<1>4. ASSUME NEW q \in Threads, q # p, q # w, loc[q].op # "", pc[q] # "op.lock"
      PROVE  /\ loc[q].o \in Objs /\ loc[q].o <= nobj
             /\ opMu[loc[q].o] = q /\ opMu'[loc[q].o] = q
  <2>1. loc[q].o \in Objs /\ loc[q].o <= nobj
    BY <1>0, <1>1, <1>4 DEF LocalOK, PointersOK, OperationOK
  <2>2. opMu[loc[q].o] = q
    BY <1>4 DEF Inv, OpMuHeld, HoldsOpMu
  <2>3. QED
    BY <1>0, <1>4, <2>1, <2>2 DEF MutexKept
<1>5. OpMuHeld'
  <2> SUFFICES ASSUME NEW q \in Threads, loc'[q].op # "", pc'[q] # "op.lock"
               PROVE  opMu'[loc'[q].o] = q
    BY DEF OpMuHeld, HoldsOpMu
  <2>1. CASE q = p \/ q = w
    BY <2>1 DEF OwnsOK
  <2>2. CASE q # p /\ q # w
    BY <2>2, <1>4 DEF OthersKept
  <2>3. QED
    BY <2>1, <2>2
<1>6. StableInstance'
  <2> SUFFICES ASSUME NEW q \in Clients, loc'[q].op \in {"purge", "move"},
                      loc'[q].t # NoInst
               PROVE  /\ tr'[loc'[q].o].t = loc'[q].t
                      /\ tr'[loc'[q].o].savePath = loc'[q].old
    BY DEF StableInstance
  <2>0. q \in Threads
    BY DEF Threads, Callers
  <2>1. CASE q = p \/ q = w
    BY <2>1 DEF OwnsOK
  <2>2. CASE q # p /\ q # w
    <3>1. loc'[q] = loc[q] /\ loc[q].op \in {"purge", "move"} /\ loc[q].t # NoInst
      BY <2>0, <2>2 DEF OthersKept
    <3>2. pc[q] # "op.lock"
      BY <1>1, <2>0, <3>1 DEF LocalOK, OperationOK
    <3>3. loc[q].o \in Objs /\ loc[q].o <= nobj /\ opMu[loc[q].o] # p
      BY <1>4, <2>0, <2>2, <3>1, <3>2
    <3>4. tr[loc[q].o].t = loc[q].t /\ tr[loc[q].o].savePath = loc[q].old
      BY <3>1 DEF Inv, StableInstance
    <3>5. QED
      BY <3>1, <3>3, <3>4 DEF InstancesKept
  <2>3. QED
    BY <2>1, <2>2
<1>7. QED
  BY <1>3, <1>5, <1>6 DEF Inv

-----------------------------------------------------------------------------
(* What is known of a thread.                                              *)
LEMMA ThreadFacts ==
  ASSUME Inv, NEW p \in Threads
  PROVE  /\ EngineTypes /\ LibTypes /\ GuardTypes /\ DiskTypes /\ SaveTypes
         /\ MainTypes /\ ThreadTypes /\ TallyTypes /\ StructsOK
         /\ loc[p] \in Locals /\ pc[p] \in Places /\ save[p] \in Saving
         /\ save[p].k \in SaveNext \cup {""}
         /\ LocalOK(p, pc[p], loc[p], save[p].k, nobj)
         /\ nobj \in Int
<1>1. /\ EngineTypes /\ LibTypes /\ GuardTypes /\ DiskTypes /\ SaveTypes
      /\ MainTypes /\ ThreadTypes /\ TallyTypes
  BY DEF Inv, TypeOK
<1>2. loc[p] \in Locals /\ pc[p] \in Places /\ save[p] \in Saving
  BY <1>1 DEF ThreadTypes, SaveTypes
<1>3. nobj \in Int
  BY <1>1, ObjFacts DEF EngineTypes
<1>4. StructsOK /\ LocalOK(p, pc[p], loc[p], save[p].k, nobj)
  BY DEF Inv, NoNilPointer, StructsOK
<1>5. save[p].k \in SaveNext \cup {""}
  BY <1>2 DEF Saving
<1>6. QED
  BY <1>1, <1>2, <1>3, <1>4, <1>5

(* The struct a thread points to.                                          *)
LEMMA ObjOf ==
  ASSUME Inv, NEW p \in Threads, loc[p].o # NoObj
  PROVE  /\ loc[p].o \in Objs /\ tr[loc[p].o] \in Tracked
         /\ tr[loc[p].o].t \in Insts /\ tr[loc[p].o].savePath \in Dirs
<1>1. EngineTypes /\ StructsOK /\ loc[p] \in Locals /\ LocalOK(p, pc[p], loc[p], save[p].k, nobj)
  BY ThreadFacts
<1>2. loc[p].o \in Objs /\ loc[p].o <= nobj
  BY <1>1, LocalsFacts DEF LocalOK, PointersOK
<1>3. tr[loc[p].o] \in Tracked /\ tr[loc[p].o].t # NoInst
  BY <1>1, <1>2 DEF EngineTypes, StructsOK
<1>4. QED
  BY <1>2, <1>3 DEF Tracked

(* The struct e.torrents has for an id.                                    *)
LEMMA ObjFor ==
  ASSUME Inv, NEW i \in Ids
  PROVE  /\ torrents[i] \in Objs \cup {NoObj} /\ torrents[i] <= nobj
         /\ torrents[i] # NoObj => /\ torrents[i] \in Objs
                                   /\ tr[torrents[i]] \in Tracked
                                   /\ tr[torrents[i]].t \in Insts
<1>1. EngineTypes /\ StructsOK
  BY DEF Inv, TypeOK, NoNilPointer, StructsOK
<1>2. torrents[i] \in Objs \cup {NoObj} /\ torrents[i] <= nobj
  BY <1>1 DEF EngineTypes, StructsOK
<1>3. ASSUME torrents[i] # NoObj
      PROVE  torrents[i] \in Objs /\ tr[torrents[i]] \in Tracked /\ tr[torrents[i]].t # NoInst
  BY <1>1, <1>2, <1>3 DEF EngineTypes, StructsOK
<1>4. QED
  BY <1>2, <1>3 DEF Tracked

(* What is not assigned keeps its type.                                    *)
LEMMA SameTypes ==
  ASSUME Inv
  PROVE  /\ UNCHANGED engineVars => EngineTypes'
         /\ UNCHANGED libVars => LibTypes'
         /\ UNCHANGED guardVars => GuardTypes'
         /\ UNCHANGED diskVars => DiskTypes'
         /\ UNCHANGED saveVars => SaveTypes'
         /\ UNCHANGED mainVars => MainTypes'
         /\ UNCHANGED <<tk, hooks>> /\ budget' \in Budget => TallyTypes'
  BY DEF Inv, TypeOK, EngineTypes, LibTypes, GuardTypes, DiskTypes, SaveTypes,
         MainTypes, TallyTypes, engineVars, libVars, guardVars, diskVars,
         saveVars, mainVars

(* The structs after a step of p.                                          *)
Kept(p) ==
  InstancesKept(p) /\ MutexKept(p) /\ StructsOK' /\ nobj <= nobj'

Typed ==
  /\ EngineTypes' /\ LibTypes' /\ GuardTypes' /\ DiskTypes' /\ SaveTypes'
  /\ MainTypes' /\ TallyTypes'

(* A step that assigns no tracked struct ...                               *)
LEMMA KeptUnchanged ==
  ASSUME Inv, NEW p, UNCHANGED engineVars
  PROVE  Kept(p)
<1>1. StructsOK /\ nobj \in Int
  BY ObjFacts DEF Inv, TypeOK, EngineTypes, NoNilPointer, StructsOK
<1>2. QED
  BY <1>1 DEF Kept, InstancesKept, MutexKept, StructsOK, engineVars

(* ... and one that assigns x to struct o, without a new instance.         *)
LEMMA KeptAssigned ==
  ASSUME Inv, NEW p, UNCHANGED <<torrents, nobj, opMu>>,
         NEW o, NEW x, SetTr(o, x),
         o \in Objs => x \in Tracked /\ x.t = tr[o].t /\ x.savePath = tr[o].savePath
  PROVE  Kept(p) /\ tr' \in [Objs -> Tracked]
<1>0. StructsOK /\ nobj \in Int /\ EngineTypes
  BY ObjFacts DEF Inv, TypeOK, EngineTypes, NoNilPointer, StructsOK
<1>1. /\ tr' \in [Objs -> Tracked]
      /\ \A b \in Objs : tr'[b].t = tr[b].t /\ tr'[b].savePath = tr[b].savePath
  BY <1>0, FunUpdate DEF SetTr, EngineTypes
<1>2. QED
  BY <1>0, <1>1 DEF Kept, InstancesKept, MutexKept, StructsOK

(* One thread moves.                                                       *)
LEMMA FrameMoves ==
  ASSUME Inv, NEW p \in Threads, NEW c \in Places, NEW l \in Locals,
         Moves(p, c, l), Typed, Kept(p), OwnsOK(p, c, l),
         \A q \in Threads : q # p => save'[q].k = save[q].k,
         LocalOK(p, c, l, save'[p].k, nobj')
  PROVE  Inv'
<1>1. /\ ThreadTypes' /\ pc'[p] = c /\ loc'[p] = l
      /\ \A q \in Threads : q # p => pc'[q] = pc[q] /\ loc'[q] = loc[q]
  BY MovesTypes DEF Inv, TypeOK
<1>2. TypeOK'
  BY <1>1 DEF TypeOK, Typed
<1>3. OthersKept(p, p)
  BY <1>1 DEF OthersKept
<1>4. InstancesKept(p) /\ MutexKept(p) /\ StructsOK' /\ nobj <= nobj'
  BY DEF Kept
<1>5. QED
  BY <1>1, <1>2, <1>3, <1>4, Frame

(* What p knows of its torrent after a step that leaves the mutexes and    *)
(* the instances alone: it starts a call, has ended one, forgets the       *)
(* instance it read, still knows it, or has just read it.                  *)
Goes(p, c, l) ==
  l.op # "" =>
    \/ c = "op.lock" /\ l.t = NoInst
    \/ /\ l.op = loc[p].op /\ pc[p] # "op.lock" /\ l.o = loc[p].o
       /\ \/ l.t = NoInst
          \/ l.t = loc[p].t /\ l.old = loc[p].old
          \/ l.t = tr[l.o].t /\ l.old = tr[l.o].savePath

LEMMA GoesOwns ==
  ASSUME Inv, NEW p \in Threads, NEW c, NEW l, Goes(p, c, l), UNCHANGED opMu,
         \A o \in Objs : tr'[o].t = tr[o].t /\ tr'[o].savePath = tr[o].savePath
  PROVE  OwnsOK(p, c, l)
<1>1. CASE l.op = "" \/ (c = "op.lock" /\ l.t = NoInst)
  BY <1>1 DEF OwnsOK
<1>2. CASE /\ l.op # "" /\ l.op = loc[p].op /\ pc[p] # "op.lock" /\ l.o = loc[p].o
           /\ \/ l.t = NoInst
              \/ l.t = loc[p].t /\ l.old = loc[p].old
              \/ l.t = tr[l.o].t /\ l.old = tr[l.o].savePath
  <2>1. opMu[l.o] = p
    BY <1>2 DEF Inv, OpMuHeld, HoldsOpMu
  <2>2. l.o \in Objs /\ p \in Clients
    BY <1>2, ThreadFacts, LocalsFacts DEF LocalOK, OperationOK
  <2>3. l.op \in {"purge", "move"} /\ loc[p].t # NoInst =>
          tr[l.o].t = loc[p].t /\ tr[l.o].savePath = loc[p].old
    BY <1>2, <2>2 DEF Inv, StableInstance
  <2>4. QED
    BY <1>2, <2>1, <2>2, <2>3 DEF OwnsOK
<1>3. QED
  BY <1>1, <1>2 DEF Goes

-----------------------------------------------------------------------------
(* The shapes most steps have.                                             *)

(* p only moves.                                                           *)
LEMMA StepMoves ==
  ASSUME Inv, NEW p \in Threads, NEW c \in Places, NEW l \in Locals,
         Moves(p, c, l), Goes(p, c, l), LocalOK(p, c, l, save[p].k, nobj),
         UNCHANGED <<engineVars, libVars, guardVars, diskVars, saveVars,
                     mainVars, tk, hooks>>,
         budget' \in Budget
  PROVE  Inv'
<1>1. Typed
  BY SameTypes DEF Typed
<1>2. Kept(p)
  BY KeptUnchanged
<1>3. UNCHANGED <<opMu, tr, nobj, save>>
  BY DEF engineVars, saveVars
<1>4. OwnsOK(p, c, l)
  BY <1>3, GoesOwns
<1>5. QED
  BY <1>1, <1>2, <1>3, <1>4, FrameMoves

(* p moves and assigns an instance.                                        *)
LEMMA StepLib ==
  ASSUME Inv, NEW p \in Threads, NEW c \in Places, NEW l \in Locals,
         Moves(p, c, l), Goes(p, c, l), LocalOK(p, c, l, save[p].k, nobj),
         LibTypes', DiskTypes',
         UNCHANGED <<engineVars, guardVars, saveVars, mainVars, tk, hooks>>,
         budget' \in Budget
  PROVE  Inv'
<1>1. Typed
  BY SameTypes DEF Typed
<1>2. Kept(p)
  BY KeptUnchanged
<1>3. UNCHANGED <<opMu, tr, nobj, save>>
  BY DEF engineVars, saveVars
<1>4. OwnsOK(p, c, l)
  BY <1>3, GoesOwns
<1>5. QED
  BY <1>1, <1>2, <1>3, <1>4, FrameMoves

(* p moves and assigns the struct o.                                       *)
LEMMA StepStruct ==
  ASSUME Inv, NEW p \in Threads, NEW c \in Places, NEW l \in Locals,
         Moves(p, c, l), Goes(p, c, l), LocalOK(p, c, l, save[p].k, nobj),
         NEW o, NEW x, SetTr(o, x),
         o \in Objs => x \in Tracked /\ x.t = tr[o].t /\ x.savePath = tr[o].savePath,
         UNCHANGED <<torrents, nobj, opMu, checkWG>>,
         canceled' \in [Checkers -> BOOLEAN],
         UNCHANGED <<libVars, guardVars, diskVars, saveVars, mainVars, tk, hooks>>,
         budget' \in Budget
  PROVE  Inv'
<1>1. Kept(p) /\ tr' \in [Objs -> Tracked]
  BY KeptAssigned
<1>2. EngineTypes'
  BY <1>1 DEF Inv, TypeOK, EngineTypes
<1>3. Typed
  BY <1>2, SameTypes DEF Typed
<1>4. \A b \in Objs : tr'[b].t = tr[b].t /\ tr'[b].savePath = tr[b].savePath
  BY FunUpdate DEF Inv, TypeOK, EngineTypes, SetTr
<1>5. UNCHANGED save
  BY DEF saveVars
<1>6. OwnsOK(p, c, l)
  BY <1>4, GoesOwns
<1>7. QED
  BY <1>1, <1>3, <1>5, <1>6, FrameMoves
-----------------------------------------------------------------------------
(* persist as the tail of a step.                                          *)

(* Going to persist and on to k is as good as going to k.                  *)
LEMMA SavePlace ==
  ASSUME NEW p, NEW k \in SaveNext, NEW l, NEW k0, NEW n, LocalOK(p, k, l, k0, n)
  PROVE  /\ LocalOK(p, "save.check", l, k, n)
         /\ "save.check" \in Places /\ k \in Places /\ k # "op.lock"
<1> USE DEF ReturnsOK, PointersOK, OperationOK, WhereOf, FlowLabels,
            SaveLabels, SaveNext, NeedsFresh
<1>1. k \notin FlowLabels /\ k \notin SaveLabels /\ k # "op.lock"
  OBVIOUS
<1>2. LocalOK(p, "save.check", l, k, n)
  BY <1>1 DEF LocalOK
<1>3. "save.check" \in Places /\ k \in Places
  BY DEF Places, StructLabels, OtherLabels
<1>4. QED
  BY <1>1, <1>2, <1>3

LEMMA SaveUpdate ==
  ASSUME NEW s \in Saving, NEW k \in SaveNext
  PROVE  [s EXCEPT !.k = k] \in Saving /\ [s EXCEPT !.k = k].k = k
  BY DEF Saving

LEMMA PersistFacts ==
  ASSUME Inv, NEW p \in Threads, NEW k \in SaveNext, Persist(p, k), UNCHANGED saveMu
  PROVE  /\ SaveTypes'
         /\ \A q \in Threads : q # p => save'[q].k = save[q].k
         /\ \/ Goto(p, k) /\ save' = save
            \/ Goto(p, "save.check") /\ save'[p].k = k
<1>1. SaveTypes /\ save[p] \in Saving
  BY ThreadFacts
<1>2. CASE StateDir
  <2>1. Goto(p, "save.check") /\ SetSave(p, [save[p] EXCEPT !.k = k])
    BY <1>2 DEF Persist
  <2>2. /\ save' \in [Threads -> Saving] /\ save'[p] = [save[p] EXCEPT !.k = k]
        /\ \A q \in Threads : q # p => save'[q] = save[q]
    BY <1>1, <2>1, SaveUpdate, FunUpdate DEF SaveTypes, SetSave
  <2>3. save'[p].k = k
    BY <1>1, <2>2, SaveUpdate
  <2>4. QED
    BY <1>1, <2>1, <2>2, <2>3 DEF SaveTypes
<1>3. CASE ~StateDir
  BY <1>1, <1>3 DEF Persist, SaveTypes
<1>4. QED
  BY <1>2, <1>3

LEMMA StepPersist ==
  ASSUME Inv, NEW p \in Threads, NEW k \in SaveNext, NEW l \in Locals, NEW k0,
         Persist(p, k), SetLoc(p, l), UNCHANGED saveMu, Kept(p),
         EngineTypes', LibTypes', GuardTypes', DiskTypes', MainTypes', TallyTypes',
         OwnsOK(p, k, l), LocalOK(p, k, l, k0, nobj')
  PROVE  Inv'
<1>1. /\ SaveTypes'
      /\ \A q \in Threads : q # p => save'[q].k = save[q].k
      /\ \/ Goto(p, k) /\ save' = save
         \/ Goto(p, "save.check") /\ save'[p].k = k
  BY PersistFacts
<1>2. /\ LocalOK(p, "save.check", l, k, nobj')
      /\ "save.check" \in Places /\ k \in Places /\ k # "op.lock"
  BY SavePlace
<1>3. Typed
  BY <1>1 DEF Typed
<1>4. CASE Goto(p, k) /\ save' = save
  <2>1. Moves(p, k, l)
    BY <1>4 DEF Moves, Goto, SetLoc
  <2>2. LocalOK(p, k, l, save'[p].k, nobj')
    BY DEF LocalOK, ReturnsOK, PointersOK, OperationOK, WhereOf, FlowLabels,
           SaveLabels, SaveNext
  <2>3. QED
    BY <1>1, <1>2, <1>3, <2>1, <2>2, FrameMoves
<1>5. CASE Goto(p, "save.check") /\ save'[p].k = k
  <2>1. Moves(p, "save.check", l)
    BY <1>5 DEF Moves, Goto, SetLoc
  <2>2. OwnsOK(p, "save.check", l)
    BY <1>2 DEF OwnsOK
  <2>3. LocalOK(p, "save.check", l, save'[p].k, nobj')
    BY <1>2, <1>5
  <2>4. QED
    BY <1>1, <1>2, <1>3, <2>1, <2>2, <2>3, FrameMoves
<1>6. QED
  BY <1>1, <1>4, <1>5

(* A step that only saves ...                                              *)
LEMMA StepSave ==
  ASSUME Inv, NEW p \in Threads, NEW k \in SaveNext, NEW l \in Locals, NEW k0,
         Persist(p, k), SetLoc(p, l), Goes(p, k, l), LocalOK(p, k, l, k0, nobj),
         UNCHANGED <<engineVars, libVars, guardVars, saveMu, tk, hooks>>,
         DiskTypes', MainTypes', budget' \in Budget
  PROVE  Inv'
<1>1. /\ EngineTypes' /\ LibTypes' /\ GuardTypes' /\ TallyTypes'
  BY SameTypes
<1>2. Kept(p)
  BY KeptUnchanged
<1>3. UNCHANGED <<opMu, tr, nobj>>
  BY DEF engineVars
<1>4. OwnsOK(p, k, l)
  BY <1>3, GoesOwns
<1>5. QED
  BY <1>1, <1>2, <1>3, <1>4, StepPersist

(* ... and one that saves an assignment to the struct o.                   *)
LEMMA StepStructSave ==
  ASSUME Inv, NEW p \in Threads, NEW k \in SaveNext, NEW l \in Locals, NEW k0,
         Persist(p, k), SetLoc(p, l), Goes(p, k, l), LocalOK(p, k, l, k0, nobj),
         NEW o, NEW x, SetTr(o, x),
         o \in Objs => x \in Tracked /\ x.t = tr[o].t /\ x.savePath = tr[o].savePath,
         UNCHANGED <<torrents, nobj, opMu, checkWG, canceled, libVars,
                     guardVars, diskVars, saveMu, mainVars, tk, hooks, budget>>
  PROVE  Inv'
<1>1. Kept(p) /\ tr' \in [Objs -> Tracked]
  BY KeptAssigned
<1>2. EngineTypes'
  BY <1>1 DEF Inv, TypeOK, EngineTypes
<1>3. budget' \in Budget
  BY DEF Inv, TypeOK, TallyTypes
<1>4. LibTypes' /\ GuardTypes' /\ DiskTypes' /\ MainTypes' /\ TallyTypes'
  BY <1>3, SameTypes
<1>5. \A b \in Objs : tr'[b].t = tr[b].t /\ tr'[b].savePath = tr[b].savePath
  BY FunUpdate DEF Inv, TypeOK, EngineTypes, SetTr
<1>6. OwnsOK(p, k, l)
  BY <1>5, GoesOwns
<1>7. QED
  BY <1>1, <1>2, <1>4, <1>6, StepPersist

-----------------------------------------------------------------------------
(* applyFlow.                                                              *)

(* Both steps of applyFlow lead to a place that is allowed.                *)
LEMMA FlowPlaces ==
  ASSUME NEW p, NEW c \in FlowLabels, NEW l, NEW k, NEW n, LocalOK(p, c, l, k, n)
  PROVE  /\ LocalOK(p, "flow.up", l, k, n) /\ LocalOK(p, l.fk, l, k, n)
         /\ c # "op.lock"
         /\ "flow.up" \in Places /\ l.fk \in Places
<1> USE DEF ReturnsOK, PointersOK, OperationOK, WhereOf, FlowLabels,
            SaveLabels, FlowNext, NeedsFresh
<1>1. c # "op.lock" /\ c \notin SaveLabels /\ c \notin NeedsFresh
  OBVIOUS
<1>2. LocalOK(p, "flow.up", l, k, n)
  BY DEF LocalOK
<1>3. /\ l.fk \notin FlowLabels /\ l.fk \notin SaveLabels /\ l.fk \notin NeedsFresh
      /\ l.fk # "op.lock"
  BY DEF LocalOK
<1>4. LocalOK(p, l.fk, l, k, n)
  BY <1>1, <1>3 DEF LocalOK
<1>5. "flow.up" \in Places /\ l.fk \in Places
  BY DEF LocalOK, Places, StructLabels, OtherLabels
<1>6. QED
  BY <1>1, <1>2, <1>4, <1>5

(* An instance assigned.                                                   *)
LEMMA LibAssigned ==
  ASSUME LibTypes, NEW t, NEW y, SetLib(t, y), t \in Insts => y \in Instance,
         UNCHANGED <<ninst, client>>
  PROVE  LibTypes'
  BY FunUpdate DEF LibTypes, SetLib

LEMMA SwitchTypes ==
  ASSUME NEW y \in Instance, NEW b \in BOOLEAN
  PROVE  [y EXCEPT !.down = b] \in Instance /\ [y EXCEPT !.up = b] \in Instance
  BY DEF Instance

LEMMA ApplyFlowInv ==
  ASSUME Inv, NEW p \in Threads, ApplyFlowDown(p) \/ ApplyFlowUp(p)
  PROVE  Inv'
<1>0. /\ LibTypes /\ DiskTypes /\ ThreadTypes /\ TallyTypes /\ loc[p] \in Locals
      /\ LocalOK(p, pc[p], loc[p], save[p].k, nobj)
  BY ThreadFacts
<1>1. /\ UNCHANGED <<engineVars, guardVars, saveVars, mainVars, tk, hooks>>
      /\ UNCHANGED diskVars /\ UNCHANGED <<ninst, client, loc, budget>>
  BY DEF ApplyFlowDown, ApplyFlowUp
<1>2. LibTypes'
  <2>1. loc[p].down \in BOOLEAN /\ loc[p].up \in BOOLEAN
    BY <1>0 DEF Locals
  <2>2. loc[p].ft \in Insts => lib[loc[p].ft] \in Instance
    BY <1>0 DEF LibTypes
  <2>3. CASE ApplyFlowDown(p)
    <3>1. SetLib(loc[p].ft, [lib[loc[p].ft] EXCEPT !.down = loc[p].down])
      BY <2>3 DEF ApplyFlowDown
    <3>2. QED
      BY <1>0, <1>1, <2>1, <2>2, <3>1, SwitchTypes, LibAssigned
  <2>4. CASE ApplyFlowUp(p)
    <3>1. SetLib(loc[p].ft, [lib[loc[p].ft] EXCEPT !.up = loc[p].up])
      BY <2>4 DEF ApplyFlowUp
    <3>2. QED
      BY <1>0, <1>1, <2>1, <2>2, <3>1, SwitchTypes, LibAssigned
  <2>5. QED
    BY <2>3, <2>4
<1>3. DiskTypes' /\ budget' \in Budget
  BY <1>0, <1>1, SameTypes DEF TallyTypes
<1>4. pc[p] \in FlowLabels
  BY DEF ApplyFlowDown, ApplyFlowUp, At, FlowLabels
<1>5. ASSUME NEW c \in Places, LocalOK(p, c, loc[p], save[p].k, nobj), Goto(p, c)
      PROVE  Inv'
  <2>1. Moves(p, c, loc[p])
    BY <1>0, <1>1, <1>5, GotoMoves
  <2>2. Goes(p, c, loc[p])
    BY <1>4 DEF Goes, FlowLabels
  <2>3. QED
    BY <1>0, <1>1, <1>2, <1>3, <1>5, <2>1, <2>2, StepLib
<1>6. /\ LocalOK(p, "flow.up", loc[p], save[p].k, nobj)
      /\ LocalOK(p, loc[p].fk, loc[p], save[p].k, nobj)
      /\ "flow.up" \in Places /\ loc[p].fk \in Places
  BY <1>0, <1>4, FlowPlaces
<1>7. Goto(p, "flow.up") \/ Goto(p, loc[p].fk)
  BY DEF ApplyFlowDown, ApplyFlowUp
<1>8. QED
  BY <1>5, <1>6, <1>7

-----------------------------------------------------------------------------
(* persist.                                                                *)

(* Each step of persist leads to a place that is allowed.                  *)
LEMMA SavePlaces ==
  ASSUME NEW p, NEW c \in SaveLabels, NEW l, NEW k, NEW n, LocalOK(p, c, l, k, n)
  PROVE  /\ \A d \in SaveLabels : LocalOK(p, d, l, k, n) /\ d \in Places
         /\ \A k0 : LocalOK(p, k, l, k0, n)
         /\ k \in Places /\ c # "op.lock"
<1> USE DEF ReturnsOK, PointersOK, OperationOK, WhereOf, FlowLabels,
            SaveLabels, SaveNext, NeedsFresh
<1>1. \A d \in SaveLabels : LocalOK(p, d, l, k, n)
  BY DEF LocalOK
<1>2. k \notin FlowLabels /\ k \notin SaveLabels /\ k # "op.lock"
  BY DEF LocalOK
<1>3. \A k0 : LocalOK(p, k, l, k0, n)
  BY <1>2 DEF LocalOK
<1>4. k \in Places /\ \A d \in SaveLabels : d \in Places
  BY DEF LocalOK, Places, StructLabels, OtherLabels
<1>5. QED
  BY <1>1, <1>3, <1>4

(* The records of a session are typed.                                     *)
LEMMA RecordTypes ==
  ASSUME Inv
  PROVE  Records \in [Ids -> Record \cup {NoRec}]
<1> SUFFICES ASSUME NEW i \in Ids, torrents[i] # NoObj
             PROVE  RecordOf(torrents[i]) \in Record
  BY DEF Records
<1> DEFINE o == torrents[i]
<1>1. tr[o] \in Tracked /\ lib[tr[o].t] \in Instance
  BY ObjFor DEF Inv, TypeOK, LibTypes
<1> DEFINE x == tr[o]
           y == lib[tr[o].t]
           q == [f \in Files |-> IF y.info THEN fromLibPriority(y.prio[f]) ELSE "normal"]
<1>2. q \in [Files -> Prios]
  BY DEF fromLibPriority, Prios
<1>3. /\ x.magnet \in BOOLEAN /\ x.savePath \in Dirs /\ x.paused \in BOOLEAN
      /\ x.downLimit \in {0, 1} /\ x.upLimit \in {0, 1} /\ x.base \in Nat
      /\ x.seedLimit \in {-1, 0, 1} /\ x.completedAt \in BOOLEAN /\ x.label \in Labels
  BY <1>1 DEF Tracked
<1>4. x.base + y.bytes \in Nat
  <2>1. y.bytes \in Nat
    BY <1>1 DEF Instance
  <2>2. QED
    BY <1>3, <2>1
<1>5. RecordOf(o) =
        [saved |-> TRUE, magnet |-> x.magnet, savePath |-> x.savePath,
         paused |-> x.paused, downLimit |-> x.downLimit, upLimit |-> x.upLimit,
         downloaded |-> x.base + y.bytes, seedLimit |-> x.seedLimit,
         completedAt |-> x.completedAt, label |-> x.label, prio |-> q]
  BY Zenon DEF RecordOf
<1> HIDE DEF x, y, q
<1>6. QED
  BY <1>2, <1>3, <1>4, <1>5 DEF Record

LEMMA SavingStep ==
  ASSUME Inv, NEW p \in Threads, pc[p] \in SaveLabels,
         NEW c \in SaveLabels \cup {save[p].k}, Goto(p, c), UNCHANGED loc,
         NEW s \in Saving, SetSave(p, s), c \in SaveLabels => s.k = save[p].k,
         saveMu' \in Threads \cup {NoThread}, DiskTypes', budget' \in Budget,
         UNCHANGED <<engineVars, libVars, guardVars, mainVars, tk, hooks>>
  PROVE  Inv'
<1>0. /\ SaveTypes /\ ThreadTypes /\ loc[p] \in Locals
      /\ LocalOK(p, pc[p], loc[p], save[p].k, nobj)
  BY ThreadFacts
<1>1. /\ save' \in [Threads -> Saving] /\ save'[p] = s
      /\ \A q \in Threads : q # p => save'[q] = save[q]
  BY <1>0, FunUpdate DEF SaveTypes, SetSave
<1>2. Typed
  BY <1>1, SameTypes DEF Typed, SaveTypes
<1>3. Kept(p) /\ UNCHANGED <<opMu, tr, nobj>>
  BY KeptUnchanged DEF engineVars
<1>4. /\ \A d \in SaveLabels : LocalOK(p, d, loc[p], save[p].k, nobj) /\ d \in Places
      /\ \A k0 : LocalOK(p, save[p].k, loc[p], k0, nobj)
      /\ save[p].k \in Places /\ pc[p] # "op.lock"
  BY <1>0, SavePlaces
<1>5. c \in Places /\ LocalOK(p, c, loc[p], save'[p].k, nobj')
  BY <1>1, <1>3, <1>4
<1>6. Moves(p, c, loc[p])
  BY <1>0, GotoMoves
<1>7. OwnsOK(p, c, loc[p])
  BY <1>3, <1>4, GoesOwns DEF Goes
<1>8. QED
  BY <1>0, <1>1, <1>2, <1>3, <1>5, <1>6, <1>7, FrameMoves

LEMMA SavingTypes ==
  ASSUME NEW s \in Saving, NEW d \in [Ids -> Record \cup {NoRec}], NEW todo \in SUBSET Ids
  PROVE  /\ [s EXCEPT !.draft = d] \in Saving /\ [s EXCEPT !.draft = d].k = s.k
         /\ [s EXCEPT !.todo = todo] \in Saving /\ [s EXCEPT !.todo = todo].k = s.k
         /\ s.draft \in [Ids -> Record \cup {NoRec}] /\ s.todo \in SUBSET Ids
  BY DEF Saving

LEMMA PersistInv ==
  ASSUME Inv, NEW p \in Threads, PersistStep(p)
  PROVE  Inv'
<1>0. /\ SaveTypes /\ ThreadTypes /\ DiskTypes /\ TallyTypes /\ save[p] \in Saving
  BY ThreadFacts
<1>1. /\ UNCHANGED <<engineVars, libVars, guardVars, mainVars, tk, hooks>>
      /\ UNCHANGED loc /\ pc[p] \in SaveLabels
  BY DEF PersistStep, PersistCheck, SaveGather, SaveMetaCollect, SaveMetaWrite,
         SaveWrite, SaveDirFails, At, SaveLabels
<1>2. saveMu \in Threads \cup {NoThread} /\ budget \in Budget
  BY <1>0 DEF SaveTypes, TallyTypes
<1>3. UNCHANGED save => SetSave(p, save[p])
  BY <1>0 DEF SaveTypes, SetSave
<1>3a. save[p].k \notin SaveLabels
  BY <1>1, ThreadFacts DEF LocalOK, ReturnsOK, SaveLabels, SaveNext
<1>4. CASE PersistCheck(p)
  <2>1. UNCHANGED diskVars /\ UNCHANGED <<saveMu, budget>>
    BY <1>4 DEF PersistCheck
  <2>2. DiskTypes'
    BY <2>1, SameTypes
  <2>3. CASE Goto(p, save[p].k) /\ SetSave(p, Save0)
    BY <1>1, <1>2, <1>3a, <2>1, <2>2, <2>3, NullTypes, SavingStep
  <2>4. CASE Goto(p, "save.gather") /\ UNCHANGED save
    BY <1>0, <1>1, <1>2, <1>3, <2>1, <2>2, <2>4, SavingStep DEF SaveLabels
  <2>5. QED
    BY <1>4, <2>3, <2>4 DEF PersistCheck
<1>5. CASE SaveGather(p)
  <2>1. /\ UNCHANGED diskVars /\ UNCHANGED budget /\ saveMu' = p
        /\ Goto(p, "save.meta") /\ SetSave(p, [save[p] EXCEPT !.draft = Records])
    BY <1>5 DEF SaveGather
  <2>2. DiskTypes' /\ "save.meta" \in SaveLabels
    BY <2>1, SameTypes DEF SaveLabels
  <2>3. [save[p] EXCEPT !.draft = Records] \in Saving /\ [save[p] EXCEPT !.draft = Records].k = save[p].k
    BY <1>0, RecordTypes, SavingTypes
  <2>4. QED
    BY <1>1, <1>2, <2>1, <2>2, <2>3, SavingStep
<1>6. CASE SaveMetaCollect(p)
  <2> DEFINE todo == {i \in Ids : torrents[i] # NoObj /\ lib[tr[torrents[i]].t].info}
  <2>1. /\ UNCHANGED diskVars /\ UNCHANGED <<budget, saveMu>>
        /\ Goto(p, "save.write") /\ SetSave(p, [save[p] EXCEPT !.todo = todo])
    BY <1>6 DEF SaveMetaCollect
  <2>2. DiskTypes' /\ "save.write" \in SaveLabels
    BY <2>1, SameTypes DEF SaveLabels
  <2>3. [save[p] EXCEPT !.todo = todo] \in Saving /\ [save[p] EXCEPT !.todo = todo].k = save[p].k
    BY <1>0, RecordTypes, SavingTypes
  <2>4. QED
    BY <1>1, <1>2, <2>1, <2>2, <2>3, SavingStep
<1>7. CASE SaveMetaWrite(p)
  <2>1. PICK i \in save[p].todo :
          /\ SetSave(p, [save[p] EXCEPT !.todo = @ \ {i}])
          /\ \/ metainfo' = metainfo \cup {i} /\ UNCHANGED budget
             \/ budget' = [budget EXCEPT !.faults = @ - 1] /\ UNCHANGED metainfo
    BY <1>7 DEF SaveMetaWrite
  <2>2. UNCHANGED <<session, data, saveMu, pc>> /\ pc[p] = "save.write"
    BY <1>7 DEF SaveMetaWrite, At
  <2>3. /\ save[p].todo \in SUBSET Ids
        /\ [save[p] EXCEPT !.todo = @ \ {i}] \in Saving
        /\ [save[p] EXCEPT !.todo = @ \ {i}].k = save[p].k
    BY <1>0, RecordTypes DEF Saving
  <2>4. DiskTypes' /\ budget' \in Budget
    BY <1>0, <1>2, <2>1, <2>2, <2>3, BudgetTypes DEF DiskTypes
  <2>5. Goto(p, "save.write")
    BY <1>0, <2>2 DEF ThreadTypes, Goto
  <2>6. QED
    BY <1>1, <1>2, <2>1, <2>2, <2>3, <2>4, <2>5, SavingStep
<1>8. CASE SaveWrite(p)
  <2>1. /\ saveMu' = NoThread /\ Goto(p, save[p].k) /\ SetSave(p, Save0)
        /\ UNCHANGED <<metainfo, data>>
        /\ \/ session' = save[p].draft /\ UNCHANGED budget
           \/ budget' = [budget EXCEPT !.faults = @ - 1] /\ UNCHANGED session
    BY <1>8 DEF SaveWrite
  <2>2. save[p].draft \in [Ids -> Record \cup {NoRec}]
    BY <1>0 DEF Saving
  <2>3. DiskTypes' /\ budget' \in Budget
    BY <1>0, <1>2, <2>1, <2>2, BudgetTypes DEF DiskTypes
  <2>4. QED
    BY <1>1, <1>3a, <2>1, <2>3, NullTypes, SavingStep
<1>9. CASE SaveDirFails(p)
  <2>1. /\ saveMu' = NoThread /\ Goto(p, save[p].k) /\ SetSave(p, Save0)
        /\ UNCHANGED diskVars /\ budget' = [budget EXCEPT !.faults = @ - 1]
    BY <1>9 DEF SaveDirFails
  <2>2. DiskTypes' /\ budget' \in Budget
    BY <1>2, <2>1, SameTypes, BudgetTypes
  <2>3. QED
    BY <1>1, <1>3a, <2>1, <2>2, NullTypes, SavingStep
<1>10. QED
  BY <1>4, <1>5, <1>6, <1>7, <1>8, <1>9 DEF PersistStep

-----------------------------------------------------------------------------
(* Calls.                                                                  *)

(* LocalOK at a place that is not in applyFlow or persist.                 *)
LEMMA Plain ==
  ASSUME NEW p, NEW c \in StructLabels \cup OtherLabels, NEW l, NEW k, NEW n
  PROVE  /\ c \in Places
         /\ LocalOK(p, c, l, k, n) <=>
              /\ l.o <= n
              /\ c \in NeedsObj => l.o # NoObj
              /\ c \in NeedsInst \/ l.ret = "stream.prio" => l.t # NoInst
              /\ c \in NeedsFresh => l.ft # NoInst
              /\ IF l.op = ""
                 THEN c \notin StructLabels
                 ELSE /\ p \in Clients /\ l.ret = "idle" /\ l.o # NoObj
                      /\ c \in StructLabels \cup {"check.add", "check.begin", "end"}
                      /\ c = "op.lock" => l.t = NoInst
<1>1. c \notin FlowLabels /\ c \notin SaveLabels
  BY DEF FlowLabels, SaveLabels, StructLabels, OtherLabels
<1>2. QED
  BY <1>1 DEF Places, LocalOK, ReturnsOK, PointersOK, OperationOK, WhereOf

LEMMA NullNobj ==
  ASSUME Inv
  PROVE  Loc0.o <= nobj
<1>1. nobj \in 0..MaxObjs
  BY DEF Inv, TypeOK, EngineTypes
<1>2. QED
  BY <1>1, BoundsAssumption DEF Loc0, NoObj

LEMMA CallInv ==
  ASSUME Inv, NEW p \in Clients, NEW op, NEW c \in OtherLabels \cup {"op.lock"},
         NEW l \in Locals, Call(p, op, c, l), l.ret = "idle", l.o <= nobj,
         c \in NeedsObj => l.o # NoObj, c \in NeedsInst => l.t # NoInst,
         IF c = "op.lock" THEN l.op # "" /\ l.t = NoInst ELSE l.op = ""
  PROVE  Inv'
<1>1. p \in Threads /\ TallyTypes
  BY ThreadFacts DEF Threads, Callers
<1>2. /\ UNCHANGED <<engineVars, libVars, guardVars, diskVars, saveVars,
                     mainVars, tk, hooks>>
      /\ Moves(p, c, l)
      /\ budget' = [budget EXCEPT !.ops = @ - 1]
  BY DEF Call, Moves, SetLoc, Goto
<1>3. budget' \in Budget
  BY <1>1, <1>2, BudgetTypes DEF TallyTypes
<1>4. c \in StructLabels \cup OtherLabels /\ c \notin NeedsFresh
      /\ (c \in StructLabels => c = "op.lock")
      /\ "op.lock" \in NeedsObj /\ "op.lock" \in StructLabels
  BY LabelsApart
<1>5. c \in Places /\ LocalOK(p, c, l, save[p].k, nobj)
  <2>1. l.op # "" => c = "op.lock"
    OBVIOUS
  <2>2. IF l.op = ""
        THEN c \notin StructLabels
        ELSE /\ p \in Clients /\ l.ret = "idle" /\ l.o # NoObj
             /\ c \in StructLabels \cup {"check.add", "check.begin", "end"}
             /\ c = "op.lock" => l.t = NoInst
    BY <1>4, <2>1
  <2>3. l.ret # "stream.prio"
    OBVIOUS
  <2>4. QED
    BY <1>4, <2>2, <2>3, Plain
<1>6. Goes(p, c, l)
  BY DEF Goes
<1>7. QED
  BY <1>1, <1>2, <1>3, <1>5, <1>6, StepMoves

LEMMA FoundFacts ==
  ASSUME Inv, NEW i \in Ids, torrents[i] # NoObj
  PROVE  /\ Found(i) \in Locals /\ Found(i).o = torrents[i] /\ Found(i).o <= nobj
         /\ Found(i).o # NoObj /\ Found(i).op = "" /\ Found(i).ret = "idle"
         /\ Found(i).t = NoInst
<1>1. torrents[i] \in Objs \cup {NoObj} /\ torrents[i] <= nobj
  BY ObjFor
<1>2. ASSUME NEW l \in Locals, NEW o \in Objs \cup {NoObj}
      PROVE  /\ [l EXCEPT !.id = i, !.o = o] \in Locals
             /\ [l EXCEPT !.id = i, !.o = o].o = o
             /\ [l EXCEPT !.id = i, !.o = o].op = l.op
             /\ [l EXCEPT !.id = i, !.o = o].t = l.t
             /\ [l EXCEPT !.id = i, !.o = o].ret = l.ret
  BY DEF Locals
<1>3. QED
  BY <1>1, <1>2, NullTypes DEF Found

LEMMA ClientCallsInv ==
  ASSUME Inv, NEW p \in Clients, ClientCalls(p)
  PROVE  Inv'
<1>1. CASE CallAdd(p)
  <2>1. PICK i \in Ids, opts \in AddOpts :
          Call(p, "add", "add.spec",
               [Loc0 EXCEPT !.id = i, !.dir = opts.dir, !.magnet = opts.magnet,
                            !.flag = opts.paused, !.pick = opts.pick, !.sel = opts.sel])
    BY <1>1 DEF CallAdd
  <2>2. /\ opts.dir \in Dirs /\ opts.magnet \in BOOLEAN /\ opts.paused \in BOOLEAN
        /\ opts.pick \in BOOLEAN /\ opts.sel \in SUBSET Files
    BY CallsAssumption
  <2>4. "add.spec" \in OtherLabels /\ "add.spec" \notin NeedsObj /\ "add.spec" \notin NeedsInst
    BY DEF OtherLabels, NeedsObj, StructLabels, NeedsInst
  <2>5. Loc0.o <= nobj
    BY NullNobj
  <2> DEFINE n == [Loc0 EXCEPT !.id = i, !.dir = opts.dir, !.magnet = opts.magnet,
                         !.flag = opts.paused, !.pick = opts.pick, !.sel = opts.sel]
  <2>6. n \in Locals /\ n.op = "" /\ n.ret = "idle" /\ n.o <= nobj
    <3>1. n \in Locals /\ n.op = Loc0.op /\ n.ret = Loc0.ret /\ n.o = Loc0.o
      BY <2>2, NullTypes DEF Locals
    <3>2. QED
      BY <2>5, <3>1, NullTypes
  <2> HIDE DEF n
  <2>7. Call(p, "add", "add.spec", n)
    BY <2>1 DEF n
  <2>8. QED
    BY <2>4, <2>6, <2>7, CallInv
<1>2. CASE CallSetPaused(p)
  <2>1. PICK i \in Ids, b \in BOOLEAN :
          /\ torrents[i] # NoObj
          /\ Call(p, "pause", "pause.set", [Found(i) EXCEPT !.flag = b])
    BY <1>2 DEF CallSetPaused
  <2>2. ASSUME NEW l \in Locals
        PROVE  LET n == [l EXCEPT !.flag = b]
               IN n \in Locals /\ n.op = l.op /\ n.ret = l.ret /\ n.o = l.o /\ n.t = l.t
    BY DEF Locals
  <2>3. "pause.set" \in OtherLabels /\ "pause.set" \notin NeedsInst
    BY DEF OtherLabels, NeedsInst
  <2> DEFINE n == [Found(i) EXCEPT !.flag = b]
  <2>4. /\ n \in Locals /\ n.ret = "idle" /\ n.o <= nobj
        /\ n.op = "" /\ n.o # NoObj
    BY <2>1, <2>2, <2>3, FoundFacts
  <2> HIDE DEF n
  <2>5. Call(p, "pause", "pause.set", n)
    BY <2>1 DEF n
  <2>6. QED
    BY <2>3, <2>4, <2>5, CallInv
<1>3. CASE CallSetFilePriority(p)
  <2>1. PICK i \in Ids, f \in Files, q \in SetPrios :
          /\ torrents[i] # NoObj
          /\ Call(p, "prio", "prio.set", [Found(i) EXCEPT !.file = f, !.prio = q])
    BY <1>3 DEF CallSetFilePriority
  <2>2. ASSUME NEW l \in Locals
        PROVE  LET n == [l EXCEPT !.file = f, !.prio = q]
               IN n \in Locals /\ n.op = l.op /\ n.ret = l.ret /\ n.o = l.o /\ n.t = l.t
    <3>1. q \in Prios
      BY CallsAssumption
    <3>2. QED
      BY <3>1 DEF Locals
  <2>3. "prio.set" \in OtherLabels /\ "prio.set" \notin NeedsInst
    BY DEF OtherLabels, NeedsInst
  <2> DEFINE n == [Found(i) EXCEPT !.file = f, !.prio = q]
  <2>4. /\ n \in Locals /\ n.ret = "idle" /\ n.o <= nobj
        /\ n.op = "" /\ n.o # NoObj
    BY <2>1, <2>2, <2>3, FoundFacts
  <2> HIDE DEF n
  <2>5. Call(p, "prio", "prio.set", n)
    BY <2>1 DEF n
  <2>6. QED
    BY <2>3, <2>4, <2>5, CallInv
<1>4. CASE CallSetter(p)
  <2>1. PICK i \in Ids, op \in {"rate", "seed", "label"} :
          torrents[i] # NoObj /\ Call(p, op, op, Found(i))
    BY <1>4 DEF CallSetter
  <2>2. op \in OtherLabels /\ op \notin NeedsInst /\ op # "op.lock"
    BY DEF OtherLabels, NeedsInst
  <2>3. QED
    BY <2>1, <2>2, FoundFacts, CallInv
<1>5. CASE CallPrepareStream(p)
  <2>1. PICK i \in Ids, f \in Files :
          /\ torrents[i] # NoObj
          /\ Call(p, "stream", "stream.paused",
                  [Found(i) EXCEPT !.file = f, !.t = tr[torrents[i]].t])
    BY <1>5 DEF CallPrepareStream
  <2>2. ASSUME NEW l \in Locals, NEW t \in Insts
        PROVE  LET n == [l EXCEPT !.file = f, !.t = t]
               IN n \in Locals /\ n.op = l.op /\ n.ret = l.ret /\ n.o = l.o /\ n.t = t
    <3> DEFINE l1 == [l EXCEPT !.file = f]
    <3>1. l1 \in Locals /\ Alike(l1, l)
      BY Locals_file, Zenon
    <3> HIDE DEF l1
    <3>2. t \in Insts \cup {NoInst}
      OBVIOUS
    <3>3. LET n == [l1 EXCEPT !.t = t]
          IN n \in Locals /\ n.op = l1.op /\ n.ret = l1.ret /\ n.o = l1.o /\ n.t = t
      BY <3>1, <3>2, Locals_t, Zenon
    <3>4. [l EXCEPT !.file = f, !.t = t] = [l1 EXCEPT !.t = t]
      BY DEF l1
    <3>5. QED
      BY <3>1, <3>3, <3>4, Zenon DEF Alike
  <2>3. "stream.paused" \in OtherLabels
    BY DEF OtherLabels
  <2>4. tr[torrents[i]].t \in Insts /\ tr[torrents[i]].t # NoInst
    BY <2>1, ObjFor DEF Insts, NoInst
  <2> DEFINE n == [Found(i) EXCEPT !.file = f, !.t = tr[torrents[i]].t]
  <2>5. /\ n \in Locals /\ n.ret = "idle" /\ n.o <= nobj
        /\ n.op = "" /\ n.o # NoObj /\ n.t # NoInst
    <3>1. /\ Found(i) \in Locals /\ Found(i).o <= nobj /\ Found(i).o # NoObj
          /\ Found(i).op = "" /\ Found(i).ret = "idle"
      BY <2>1, FoundFacts
    <3>2. n \in Locals /\ n.op = Found(i).op /\ n.ret = Found(i).ret /\ n.o = Found(i).o
          /\ n.t = tr[torrents[i]].t
      BY <2>2, <2>4, <3>1, Zenon
    <3>3. QED
      BY <2>4, <3>1, <3>2, Zenon
  <2> HIDE DEF n
  <2>6. Call(p, "stream", "stream.paused", n)
    BY <2>1 DEF n
  <2>7. QED
    BY <2>3, <2>5, <2>6, CallInv
<1>6. CASE CallForceRecheck(p)
  <2>1. PICK i \in Ids : torrents[i] # NoObj /\ Call(p, "recheck", "check.add", Found(i))
    BY <1>6 DEF CallForceRecheck
  <2>2. "check.add" \in OtherLabels /\ "check.add" \notin NeedsInst
    BY DEF OtherLabels, NeedsInst
  <2>3. QED
    BY <2>1, <2>2, FoundFacts, CallInv
<1>7. CASE CallStruct(p)
  <2>1. PICK i \in Ids, op \in {"remove", "purge", "move"}, d \in Dirs, b \in BOOLEAN :
          /\ torrents[i] # NoObj
          /\ Call(p, op, "op.lock", [Found(i) EXCEPT !.op = op, !.dir = d, !.flag = b])
    BY <1>7 DEF CallStruct
  <2>2. ASSUME NEW l \in Locals
        PROVE  LET n == [l EXCEPT !.op = op, !.dir = d, !.flag = b]
               IN n \in Locals /\ n.op = op /\ n.ret = l.ret /\ n.o = l.o /\ n.t = l.t
    <3> DEFINE l1 == [l EXCEPT !.op = op]
               l2 == [l1 EXCEPT !.dir = d]
               n == [l EXCEPT !.op = op, !.dir = d, !.flag = b]
    <3>0. op \in {"", "remove", "purge", "move"}
      OBVIOUS
    <3>1. l1 \in Locals /\ l1.op = op /\ l1.ret = l.ret /\ l1.o = l.o /\ l1.t = l.t
      BY <3>0, Locals_op, Zenon
    <3> HIDE DEF l1
    <3>2. l2 \in Locals /\ Alike(l2, l1)
      BY <3>1, Locals_dir, Zenon
    <3>3. n = [l2 EXCEPT !.flag = b]
      BY DEF l1
    <3> HIDE DEF n, l2
    <3>4. n \in Locals /\ Alike(n, l2)
      BY <3>2, <3>3, Locals_flag, Zenon
    <3>5. QED
      BY <3>1, <3>2, <3>4 DEF n, Alike
  <2>3. "op.lock" \notin NeedsInst /\ op # ""
    BY DEF NeedsInst
  <2> DEFINE n == [Found(i) EXCEPT !.op = op, !.dir = d, !.flag = b]
  <2>4. /\ n \in Locals /\ n.ret = "idle" /\ n.o <= nobj
        /\ n.op # "" /\ n.o # NoObj /\ n.t = NoInst
    BY <2>1, <2>2, <2>3, FoundFacts
  <2> HIDE DEF n
  <2>5. Call(p, op, "op.lock", n)
    BY <2>1 DEF n
  <2>6. QED
    BY <2>3, <2>4, <2>5, CallInv
<1>8. QED
  BY <1>1, <1>2, <1>3, <1>4, <1>5, <1>6, <1>7 DEF ClientCalls

-----------------------------------------------------------------------------
(* The end of an operation.                                                *)

LEMMA EndOpInv ==
  ASSUME Inv, NEW p \in Threads, EndOp(p)
  PROVE  Inv'
<1>0. /\ EngineTypes /\ StructsOK /\ TallyTypes /\ loc[p] \in Locals /\ pc[p] = "end"
      /\ LocalOK(p, "end", loc[p], save[p].k, nobj)
  BY ThreadFacts DEF EndOp, At
<1>1. "end" \in OtherLabels /\ "end" \notin StructLabels
  BY DEF OtherLabels, StructLabels
<1>2. /\ loc[p].o <= nobj /\ (loc[p].ret = "stream.prio" => loc[p].t # NoInst)
      /\ loc[p].op # "" => loc[p].ret = "idle" /\ loc[p].o # NoObj
  BY <1>0 DEF LocalOK, PointersOK, OperationOK
<1>3. /\ UNCHANGED <<torrents, tr, nobj, checkWG, canceled>> /\ UNCHANGED saveVars
      /\ UNCHANGED <<libVars, guardVars, diskVars, mainVars, tk, hooks>>
      /\ UNCHANGED budget
  BY DEF EndOp
<1>4. EngineTypes' /\ Kept(p)
  <2>1. CASE loc[p].op = ""
    <3>1. UNCHANGED engineVars
      BY <1>3, <2>1 DEF EndOp, engineVars
    <3>2. QED
      BY <3>1, SameTypes, KeptUnchanged
  <2>2. CASE loc[p].op # ""
    <3>1. opMu' = [opMu EXCEPT ![loc[p].o] = NoThread]
      BY <2>2 DEF EndOp
    <3>2. opMu[loc[p].o] = p
      BY <1>0, <2>2 DEF Inv, OpMuHeld, HoldsOpMu
    <3>3. EngineTypes' /\ \A o \in Objs : o # loc[p].o => opMu'[o] = opMu[o]
      BY <1>0, <1>3, <3>1, FunUpdate DEF EngineTypes
    <3>4. QED
      BY <1>0, <1>3, <3>2, <3>3, ObjFacts
         DEF Kept, InstancesKept, MutexKept, StructsOK, EngineTypes
  <2>3. QED
    BY <2>1, <2>2
<1>5. Typed /\ \A q \in Threads : q # p => save'[q].k = save[q].k
  BY <1>0, <1>3, <1>4, SameTypes DEF Typed, TallyTypes, saveVars
<1> DEFINE l == IF loc[p].ret = "idle" THEN Loc0 ELSE loc[p]
<1>6. /\ l \in Locals /\ Moves(p, loc[p].ret, l) /\ l.op = "" /\ l.o <= nobj
      /\ loc[p].ret = "stream.prio" => l.t # NoInst
      /\ l.ret = "stream.prio" => l.t # NoInst
  <2>1. Loc0.o <= nobj
    BY NullNobj
  <2>2. Moves(p, loc[p].ret, l)
    BY DEF EndOp, Return, Moves, Goto, SetLoc
  <2>3. QED
    BY <1>0, <1>2, <2>1, <2>2, NullTypes
<1> HIDE DEF l
<1>7. loc[p].ret \in RetNext
  BY <1>0 DEF Locals
<1>8. /\ loc[p].ret \in OtherLabels /\ loc[p].ret \notin NeedsObj
      /\ loc[p].ret \notin NeedsFresh /\ loc[p].ret \notin StructLabels
      /\ loc[p].ret \in NeedsInst => loc[p].ret = "stream.prio"
  BY <1>7 DEF RetNext, OtherLabels, NeedsObj, NeedsFresh, StructLabels, NeedsInst
<1>9. loc[p].ret \in Places /\ LocalOK(p, loc[p].ret, l, save'[p].k, nobj')
  BY <1>3, <1>6, <1>8, Plain
<1>10. OwnsOK(p, loc[p].ret, l)
  BY <1>6 DEF OwnsOK
<1>11. QED
  BY <1>4, <1>5, <1>6, <1>9, <1>10, FrameMoves

-----------------------------------------------------------------------------
(* Adding a torrent.                                                       *)

(* AddTorrentSpec keeps the library's types.                               *)
LEMMA AddTypes ==
  ASSUME LibTypes, DiskTypes, NEW i \in Ids, NEW d \in Dirs, NEW b \in BOOLEAN,
         AddTorrentSpec(i, d, b)
  PROVE  LibTypes' /\ AddedInst(i) \in Insts
<1>1. AddedInst(i) \in Insts
  BY DEF AddTorrentSpec
<1>2. client' \in [Ids -> Insts \cup {NoInst}]
  BY <1>1 DEF AddTorrentSpec, LibTypes
<1>3. ninst' \in 0..MaxInsts
  <2>1. CASE client[i] # NoInst
    BY <2>1 DEF AddTorrentSpec, LibTypes
  <2>2. CASE client[i] = NoInst
    <3>1. ninst' = ninst + 1 /\ ninst + 1 \in Insts
      BY <1>1, <2>2 DEF AddTorrentSpec, AddedInst
    <3>2. QED
      BY <3>1, BoundsAssumption DEF Insts
  <2>3. QED
    BY <2>1, <2>2
<1>4. lib' \in [Insts -> Instance]
  <2>1. CASE client[i] # NoInst
    <3>1. client[i] \in Insts
      BY <2>1 DEF LibTypes
    <3>2. SetLib(client[i], [lib[client[i]] EXCEPT !.info = @ \/ b])
      BY <2>1 DEF AddTorrentSpec, AddedInst
    <3>3. ASSUME NEW y \in Instance PROVE [y EXCEPT !.info = @ \/ b] \in Instance
      BY DEF Instance
    <3>4. [lib[client[i]] EXCEPT !.info = @ \/ b] \in Instance
      BY <3>1, <3>3 DEF LibTypes
    <3>5. QED
      BY <3>2, <3>4 DEF SetLib, LibTypes
  <2>2. CASE client[i] = NoInst
    <3> DEFINE q == [f \in Files |-> "None"]
               y == [id |-> i, dir |-> d, live |-> TRUE, info |-> b,
                     have |-> d \in data[i], down |-> TRUE, up |-> TRUE,
                     bytes |-> 0, prio |-> q]
    <3>1. SetLib(ninst + 1, y)
      BY <2>2, Zenon DEF AddTorrentSpec, AddedInst
    <3>2. q \in [Files -> LibPrios]
      BY DEF LibPrios
    <3>3. ASSUME NEW h \in BOOLEAN, NEW r \in [Files -> LibPrios]
          PROVE  [id |-> i, dir |-> d, live |-> TRUE, info |-> b, have |-> h,
                  down |-> TRUE, up |-> TRUE, bytes |-> 0, prio |-> r] \in Instance
      BY DEF Instance
    <3>4. y \in Instance
      <4>1. (d \in data[i]) \in BOOLEAN
        OBVIOUS
      <4> HIDE DEF q
      <4>2. QED
        BY <3>2, <3>3, <4>1, Zenon
    <3> HIDE DEF y
    <3>5. QED
      BY <3>1, <3>4 DEF SetLib, LibTypes
  <2>3. QED
    BY <2>1, <2>2
<1>5. QED
  BY <1>1, <1>2, <1>3, <1>4 DEF LibTypes

LEMMA AddSpecInv ==
  ASSUME Inv, NEW p \in Threads, AddSpec(p)
  PROVE  Inv'
<1>0. /\ LibTypes /\ DiskTypes /\ TallyTypes /\ loc[p] \in Locals /\ pc[p] = "add.spec"
      /\ LocalOK(p, "add.spec", loc[p], save[p].k, nobj)
  BY ThreadFacts DEF AddSpec, At
<1>1. /\ UNCHANGED <<engineVars, guardVars, saveVars, mainVars, tk, hooks>>
      /\ UNCHANGED diskVars /\ UNCHANGED budget
      /\ AddTorrentSpec(loc[p].id, loc[p].dir, ~loc[p].magnet)
      /\ Moves(p, "add.track", [loc[p] EXCEPT !.t = AddedInst(loc[p].id)])
  BY DEF AddSpec, Moves, SetLoc, Goto
<1>2. loc[p].id \in Ids /\ loc[p].dir \in Dirs
  BY <1>0 DEF Locals
<1>3. LibTypes' /\ AddedInst(loc[p].id) \in Insts
  BY <1>0, <1>1, <1>2, AddTypes
<1>4. DiskTypes' /\ budget' \in Budget
  BY <1>0, <1>1, SameTypes DEF TallyTypes
<1>5. "add.spec" \in OtherLabels /\ "add.track" \in OtherLabels
      /\ "add.spec" \notin StructLabels /\ "add.track" \notin StructLabels
      /\ "add.track" \notin NeedsObj /\ "add.track" \notin NeedsFresh
  BY DEF OtherLabels, StructLabels, NeedsObj, NeedsFresh
<1>6. loc[p].o <= nobj /\ loc[p].op = ""
  BY <1>0 DEF LocalOK, PointersOK, OperationOK, WhereOf, FlowLabels, SaveLabels,
              StructLabels
<1> DEFINE l == [loc[p] EXCEPT !.t = AddedInst(loc[p].id)]
<1>7. l \in Locals /\ l.o = loc[p].o /\ l.op = loc[p].op /\ l.t = AddedInst(loc[p].id)
  BY <1>0, <1>3 DEF Locals
<1>8. l.t # NoInst
  BY <1>3, <1>7 DEF Insts, NoInst
<1> HIDE DEF l
<1>9. "add.track" \in Places /\ LocalOK(p, "add.track", l, save[p].k, nobj)
  BY <1>5, <1>6, <1>7, <1>8, Plain
<1>10. Goes(p, "add.track", l)
  BY <1>6, <1>7 DEF Goes
<1>11. QED
  BY <1>1, <1>3, <1>4, <1>7, <1>9, <1>10, StepLib DEF l

-----------------------------------------------------------------------------
(* Places: what p knows where it is, and what it has to show to go on.     *)

LEMMA AtFacts ==
  ASSUME Inv, NEW p \in Threads, pc[p] \notin FlowLabels, pc[p] \notin SaveLabels
  PROVE  /\ loc[p].o <= nobj
         /\ pc[p] \in NeedsObj => loc[p].o # NoObj
         /\ pc[p] \in NeedsInst => loc[p].t # NoInst
         /\ loc[p].ret = "stream.prio" => loc[p].t # NoInst
         /\ pc[p] \in NeedsFresh => loc[p].ft # NoInst
         /\ pc[p] \in StructLabels => loc[p].op # ""
         /\ pc[p] \in OtherLabels \ {"check.add", "check.begin", "end"} => loc[p].op = ""
         /\ loc[p].op # "" => p \in Clients /\ loc[p].ret = "idle" /\ loc[p].o # NoObj
<1>1. LocalOK(p, pc[p], loc[p], save[p].k, nobj)
  BY ThreadFacts
<1>2. WhereOf(pc[p], loc[p], save[p].k) = pc[p]
  BY DEF WhereOf
<1>3. OtherLabels \cap StructLabels = {}
  BY DEF OtherLabels, StructLabels
<1>4. QED
  BY <1>1, <1>2, <1>3 DEF LocalOK, PointersOK, OperationOK

(* On to c with no operation under way ...                                 *)
LEMMA OtherPlace ==
  ASSUME NEW p, NEW c \in OtherLabels, NEW l, NEW n, NEW k,
         l.op = "", l.o <= n, c \in NeedsObj => l.o # NoObj,
         c \in NeedsInst => l.t # NoInst, l.ret = "stream.prio" => l.t # NoInst
  PROVE  c \in Places /\ LocalOK(p, c, l, k, n) /\ Goes(p, c, l)
<1>1. c \notin StructLabels /\ c \notin NeedsFresh
  BY DEF OtherLabels, StructLabels, NeedsFresh
<1>2. QED
  BY <1>1, Plain DEF Goes

(* ... with one ...                                                        *)
LEMMA OpPlace ==
  ASSUME Inv, NEW p \in Threads, pc[p] \in StructLabels \cup {"check.add", "check.begin"},
         pc[p] # "op.lock", loc[p].op # "",
         NEW c \in StructLabels \cup {"check.add", "check.begin", "end"}, c # "op.lock",
         NEW l, NEW k, l.op = loc[p].op, l.o = loc[p].o, l.ret = loc[p].ret,
         c \in NeedsInst => l.t # NoInst, c \in NeedsFresh => l.ft # NoInst
  PROVE  c \in Places /\ LocalOK(p, c, l, k, nobj)
<1>1. pc[p] \notin FlowLabels /\ pc[p] \notin SaveLabels
  BY DEF StructLabels, FlowLabels, SaveLabels
<1>2. /\ loc[p].o <= nobj /\ loc[p].o # NoObj /\ p \in Clients /\ loc[p].ret = "idle"
  BY <1>1, AtFacts
<1>3. c \in StructLabels \cup OtherLabels
  BY DEF OtherLabels
<1>4. QED
  BY <1>2, <1>3, Plain

(* ... or through applyFlow.                                               *)
LEMMA FlowPlace ==
  ASSUME NEW p, NEW k \in FlowNext, NEW l, NEW n, NEW k0, NEW k1,
         l.fk = k, l.ft \in Insts, LocalOK(p, k, l, k0, n)
  PROVE  "flow.down" \in Places /\ LocalOK(p, "flow.down", l, k1, n)
<1> USE DEF ReturnsOK, PointersOK, OperationOK, WhereOf, FlowLabels,
            SaveLabels, FlowNext, NeedsFresh
<1>1. k \notin FlowLabels /\ k \notin SaveLabels /\ k # "op.lock"
  OBVIOUS
<1>2. LocalOK(p, "flow.down", l, k1, n)
  BY <1>1 DEF LocalOK
<1>3. QED
  BY <1>2 DEF Places

LEMMA NewTrackedTypes ==
  ASSUME NEW t \in Insts, NEW d \in Dirs, NEW m \in BOOLEAN, NEW b \in BOOLEAN
  PROVE  /\ NewTracked(t, d, m, b) \in Tracked
         /\ NewTracked(t, d, m, b).t = t
<1>1. "" \in Labels /\ 0 \in Rates
  BY ConfigAssumption
<1>2. QED
  BY <1>1 DEF NewTracked, Tracked

LEMMA AddTrackInv ==
  ASSUME Inv, NEW p \in Threads, AddTrack(p)
  PROVE  Inv'
<1>0. /\ EngineTypes /\ TallyTypes /\ StructsOK /\ loc[p] \in Locals /\ pc[p] = "add.track"
      /\ nobj \in Int
  BY ThreadFacts DEF AddTrack, At
<1> DEFINE i == loc[p].id
           o == IF torrents[i] # NoObj THEN torrents[i] ELSE nobj + 1
           x == IF torrents[i] # NoObj
                THEN [tr[o] EXCEPT !.paused = @ \/ loc[p].flag]
                ELSE NewTracked(loc[p].t, loc[p].dir, loc[p].magnet, loc[p].flag)
           l == Decide(loc[p], x, "add.spawn")
<1>1. /\ o \in Objs
      /\ torrents' = [torrents EXCEPT ![i] = o]
      /\ tr' = [tr EXCEPT ![o] = x]
      /\ nobj' = IF torrents[i] # NoObj THEN nobj ELSE nobj + 1
      /\ Moves(p, "flow.down", l)
      /\ UNCHANGED <<opMu, checkWG, canceled>> /\ UNCHANGED saveVars
      /\ UNCHANGED <<libVars, guardVars, diskVars, mainVars, tk, hooks>>
      /\ UNCHANGED budget
  BY DEF AddTrack, Moves, SetLoc, SetTr, Goto
<1>2. i \in Ids /\ loc[p].dir \in Dirs /\ loc[p].magnet \in BOOLEAN /\ loc[p].flag \in BOOLEAN
  BY <1>0 DEF Locals
<1>3. loc[p].t # NoInst /\ loc[p].op = "" /\ loc[p].o <= nobj /\ loc[p].t \in Insts
  <2>1. /\ "add.track" \in NeedsInst /\ "add.track" \notin FlowLabels
        /\ "add.track" \notin SaveLabels
        /\ "add.track" \in OtherLabels \ {"check.add", "check.begin", "end"}
    BY DEF NeedsInst, FlowLabels, SaveLabels, OtherLabels
  <2>2. loc[p].t # NoInst /\ loc[p].op = "" /\ loc[p].o <= nobj
    BY <1>0, <2>1, AtFacts
  <2>3. QED
    BY <1>0, <2>2, LocalsFacts
<1>4. /\ x \in Tracked /\ x.t \in Insts
      /\ torrents[i] # NoObj => x.t = tr[o].t /\ x.savePath = tr[o].savePath
  <2>1. CASE torrents[i] # NoObj
    <3>1. tr[torrents[i]] \in Tracked /\ tr[torrents[i]].t \in Insts
      BY <1>2, <2>1, ObjFor
    <3>2. ASSUME NEW y \in Tracked, NEW b \in BOOLEAN
          PROVE  /\ [y EXCEPT !.paused = @ \/ b] \in Tracked
                 /\ [y EXCEPT !.paused = @ \/ b].t = y.t
                 /\ [y EXCEPT !.paused = @ \/ b].savePath = y.savePath
      BY DEF Tracked
    <3>3. loc[p].flag \in BOOLEAN
      BY <1>0 DEF Locals
    <3>4. QED
      BY <1>2, <2>1, <3>1, <3>2, <3>3
  <2>2. CASE torrents[i] = NoObj
    <3>1. x = NewTracked(loc[p].t, loc[p].dir, loc[p].magnet, loc[p].flag)
      BY <2>2
    <3>2. QED
      BY <1>2, <1>3, <2>2, <3>1, NewTrackedTypes, Zenon
  <2>3. QED
    BY <2>1, <2>2
<1>5. o <= nobj' /\ nobj <= nobj' /\ (torrents[i] = NoObj => ~(o <= nobj)) /\ nobj' \in 0..MaxObjs
  <2>1. CASE torrents[i] # NoObj
    BY <1>0, <1>1, <1>2, <2>1, ObjFor DEF EngineTypes
  <2>2. CASE torrents[i] = NoObj
    <3>1. nobj + 1 \in Objs /\ nobj' = nobj + 1
      BY <1>1, <2>2
    <3>2. QED
      BY <1>0, <2>2, <3>1, BoundsAssumption DEF Objs
  <2>3. QED
    BY <2>1, <2>2
<1> HIDE DEF i, o, x
<1>6. l \in Locals /\ l.fk = "add.spawn" /\ l.ft = x.t /\ l.o = loc[p].o
      /\ l.t = loc[p].t /\ l.op = loc[p].op /\ l.ret = loc[p].ret
  <2>1. "add.spawn" \in FlowNext
    BY DEF FlowNext
  <2>2. QED
    BY <1>0, <1>4, <2>1, DecideFacts
<1> HIDE DEF l
<1>7. /\ torrents' \in [Ids -> Objs \cup {NoObj}] /\ torrents'[i] = o
      /\ \A j \in Ids : j # i => torrents'[j] = torrents[j]
  BY <1>0, <1>1, <1>2 DEF EngineTypes
<1>8. /\ tr' \in [Objs -> Tracked] /\ tr'[o] = x
      /\ \A b \in Objs : b # o => tr'[b] = tr[b]
  BY <1>0, <1>1, <1>4 DEF EngineTypes
<1>9. EngineTypes'
  BY <1>0, <1>1, <1>5, <1>7, <1>8 DEF EngineTypes
<1>10. StructsOK'
  <2>1. \A j \in Ids : torrents[j] \in Int
    BY <1>0, BoundsAssumption DEF EngineTypes, Objs, NoObj
  <2>2. nobj' \in Int
    BY <1>5, ObjFacts
  <2>3. \A j \in Ids : torrents'[j] <= nobj'
    BY <1>0, <1>5, <1>7, <2>1, <2>2 DEF StructsOK
  <2>4. \A b \in Objs : b <= nobj' => tr'[b].t # NoInst
    <3> SUFFICES ASSUME NEW b \in Objs, b <= nobj' PROVE tr'[b].t # NoInst
      OBVIOUS
    <3>1. CASE b = o
      BY <1>4, <1>8, <3>1 DEF Insts, NoInst
    <3>2. CASE b # o
      <4>1. b <= nobj
        BY <1>0, <1>1, <1>5, <3>2, BoundsAssumption DEF Objs, o
      <4>2. QED
        BY <1>0, <1>8, <3>2, <4>1 DEF StructsOK
    <3>3. QED
      BY <3>1, <3>2
  <2>5. QED
    BY <2>3, <2>4 DEF StructsOK
<1>11. Kept(p)
  BY <1>1, <1>4, <1>5, <1>8, <1>10 DEF Kept, InstancesKept, MutexKept
<1>12. Typed /\ \A q \in Threads : q # p => save'[q].k = save[q].k
  BY <1>0, <1>1, <1>9, SameTypes DEF Typed, TallyTypes, saveVars
<1>13. "flow.down" \in Places /\ LocalOK(p, "flow.down", l, save'[p].k, nobj')
  <2>1. "add.spawn" \in OtherLabels /\ "add.spawn" \notin NeedsObj /\ "add.spawn" \in FlowNext
    BY DEF OtherLabels, NeedsObj, StructLabels, FlowNext
  <2>2. l.o <= nobj'
    <3>1. loc[p].o \in Int
      BY <1>0, LocalsFacts
    <3>2. nobj' \in Int
      BY <1>5, ObjFacts
    <3>3. nobj \in Int /\ loc[p].o <= nobj /\ nobj <= nobj'
      BY <1>0, <1>3, <1>5
    <3>4. loc[p].o <= nobj'
      BY <3>1, <3>2, <3>3
    <3>5. QED
      BY <1>6, <3>4
  <2>3. LocalOK(p, "add.spawn", l, save'[p].k, nobj')
    BY <1>3, <1>6, <2>1, <2>2, OtherPlace
  <2>4. QED
    BY <1>4, <1>6, <2>1, <2>3, FlowPlace
<1>14. OwnsOK(p, "flow.down", l)
  BY <1>3, <1>6 DEF OwnsOK
<1>15. QED
  BY <1>1, <1>6, <1>11, <1>12, <1>13, <1>14, FrameMoves

-----------------------------------------------------------------------------
(* A thread starts a goroutine.                                            *)

LEMMA FrameSpawn ==
  ASSUME Inv, NEW p \in Threads, NEW w \in Threads, p # w,
         NEW c \in Places, NEW d \in Places, NEW m \in Locals,
         pc' \in [Threads -> Places], pc'[p] = c, pc'[w] = d,
         \A q \in Threads : q # p /\ q # w => pc'[q] = pc[q],
         SetLoc(w, m), Typed, Kept(p),
         \A q \in Threads : q # p => save'[q].k = save[q].k,
         OwnsOK(p, c, loc[p]), OwnsOK(w, d, m),
         LocalOK(p, c, loc[p], save'[p].k, nobj'),
         LocalOK(w, d, m, save'[w].k, nobj')
  PROVE  Inv'
<1>1. /\ loc' \in [Threads -> Locals] /\ loc'[w] = m
      /\ \A q \in Threads : q # w => loc'[q] = loc[q]
  BY FunUpdate DEF SetLoc, Inv, TypeOK, ThreadTypes
<1>2. TypeOK'
  BY <1>1 DEF TypeOK, Typed, ThreadTypes
<1>3. OthersKept(p, w)
  BY <1>1 DEF OthersKept
<1>4. InstancesKept(p) /\ MutexKept(p) /\ StructsOK' /\ nobj <= nobj'
  BY DEF Kept
<1>5. QED
  BY <1>1, <1>2, <1>3, <1>4, Frame

LEMMA AddSpawnInv ==
  ASSUME Inv, NEW p \in Threads, AddSpawn(p)
  PROVE  Inv'
<1>0. /\ TallyTypes /\ SaveTypes /\ ThreadTypes /\ loc[p] \in Locals
      /\ pc[p] = "add.spawn"
      /\ save[p] \in Saving
  BY ThreadFacts DEF AddSpawn, At
<1> DEFINE w == CHOOSE x \in Waiters : At(x, "off")
           m == [loc[p] EXCEPT !.ret = "off"]
<1>1. /\ w \in Waiters /\ pc[w] = "off" /\ SetLoc(w, m)
      /\ UNCHANGED <<engineVars, libVars, guardVars, diskVars, mainVars, tk, hooks>>
      /\ UNCHANGED <<budget, saveMu>>
  <2>1. w \in Waiters /\ At(w, "off")
    BY DEF AddSpawn
  <2>2. QED
    BY <2>1 DEF AddSpawn, At
<1>2. \/ pc' = [pc EXCEPT ![p] = "save.check", ![w] = "wait.info"]
         /\ SetSave(p, [save[p] EXCEPT !.k = "end"])
      \/ pc' = [pc EXCEPT ![p] = "end", ![w] = "wait.info"] /\ UNCHANGED save
  BY DEF AddSpawn
<1>3. /\ loc[p].t # NoInst /\ loc[p].op = "" /\ loc[p].o <= nobj
  <2>1. /\ "add.spawn" \in NeedsInst /\ "add.spawn" \notin FlowLabels
        /\ "add.spawn" \notin SaveLabels
        /\ "add.spawn" \in OtherLabels \ {"check.add", "check.begin", "end"}
    BY DEF NeedsInst, FlowLabels, SaveLabels, OtherLabels
  <2>2. QED
    BY <1>0, <2>1, AtFacts
<1>4. /\ m \in Locals /\ m.o = loc[p].o /\ m.t = loc[p].t /\ m.op = "" /\ m.ret = "off"
  <2>1. "off" \in RetNext
    BY DEF RetNext
  <2>2. QED
    BY <1>0, <1>3, <2>1 DEF Locals
<1> HIDE DEF w, m
<1>5. w \in Threads /\ w # p
  BY <1>0, <1>1 DEF Threads
<1>6. /\ Kept(p) /\ UNCHANGED <<opMu, tr, nobj>>
  BY <1>1, KeptUnchanged DEF engineVars
<1>7. \A k : /\ LocalOK(w, "wait.info", m, k, nobj') /\ LocalOK(p, "end", loc[p], k, nobj')
             /\ "wait.info" \in Places /\ "end" \in Places
  <2>1. /\ "wait.info" \in OtherLabels /\ "wait.info" \notin NeedsObj
        /\ "end" \in OtherLabels /\ "end" \notin NeedsObj /\ "end" \notin NeedsInst
    BY DEF OtherLabels, NeedsObj, StructLabels, NeedsInst
  <2>2. QED
    BY <1>3, <1>4, <1>6, <2>1, OtherPlace
<1>8. "end" \in SaveNext
  BY DEF SaveNext
<1>9. LocalOK(p, "save.check", loc[p], "end", nobj') /\ "save.check" \in Places
  BY <1>7, <1>8, SavePlace
<1>10. \A c : OwnsOK(p, c, loc[p]) /\ OwnsOK(w, c, m)
  BY <1>3, <1>4 DEF OwnsOK
<1>11. CASE /\ pc' = [pc EXCEPT ![p] = "save.check", ![w] = "wait.info"]
            /\ SetSave(p, [save[p] EXCEPT !.k = "end"])
  <2>1. /\ save' \in [Threads -> Saving] /\ save'[p].k = "end"
        /\ \A q \in Threads : q # p => save'[q] = save[q]
    <3>1. [save[p] EXCEPT !.k = "end"] \in Saving /\ [save[p] EXCEPT !.k = "end"].k = "end"
      BY <1>0, <1>8, SaveUpdate
    <3>2. QED
      BY <1>0, <1>11, <3>1, FunUpdate DEF SetSave, SaveTypes
  <2>2. Typed
    BY <1>0, <1>1, <2>1, SameTypes DEF Typed, TallyTypes, SaveTypes
  <2>3. /\ pc' \in [Threads -> Places] /\ pc'[p] = "save.check" /\ pc'[w] = "wait.info"
        /\ \A q \in Threads : q # p /\ q # w => pc'[q] = pc[q]
    BY <1>0, <1>5, <1>7, <1>9, <1>11 DEF ThreadTypes
  <2>4. LocalOK(p, "save.check", loc[p], save'[p].k, nobj')
    BY <1>9, <2>1
  <2>5. QED
    BY <1>1, <1>4, <1>5, <1>6, <1>7, <1>9, <1>10, <2>1, <2>2, <2>3, <2>4, FrameSpawn
<1>12. CASE pc' = [pc EXCEPT ![p] = "end", ![w] = "wait.info"] /\ UNCHANGED save
  <2>1. Typed
    BY <1>0, <1>1, <1>12, SameTypes DEF Typed, TallyTypes, saveVars
  <2>2. /\ pc' \in [Threads -> Places] /\ pc'[p] = "end" /\ pc'[w] = "wait.info"
        /\ \A q \in Threads : q # p /\ q # w => pc'[q] = pc[q]
    BY <1>0, <1>5, <1>7, <1>12 DEF ThreadTypes
  <2>3. QED
    BY <1>1, <1>4, <1>5, <1>6, <1>7, <1>10, <1>12, <2>1, <2>2, FrameSpawn
<1>13. QED
  BY <1>2, <1>11, <1>12

-----------------------------------------------------------------------------
(* The goroutine that waits for metadata.                                  *)

(* AtFacts for a thread with no operation under way.                       *)
LEMMA OtherAt ==
  ASSUME Inv, NEW p \in Threads, pc[p] \in OtherLabels \ {"check.add", "check.begin", "end"}
  PROVE  /\ loc[p] \in Locals /\ loc[p].op = "" /\ loc[p].o <= nobj
         /\ pc[p] \in NeedsObj => loc[p].o # NoObj
         /\ pc[p] \in NeedsInst => loc[p].t # NoInst
         /\ loc[p].ret = "stream.prio" => loc[p].t # NoInst
<1>1. pc[p] \notin FlowLabels /\ pc[p] \notin SaveLabels
  BY DEF OtherLabels, FlowLabels, SaveLabels
<1>2. QED
  BY <1>1, AtFacts, ThreadFacts

(* A file priority assigned.                                               *)
LEMMA PrioTypes ==
  ASSUME LibTypes, NEW t, NEW q \in [Files -> LibPrios], SetPrio(t, q),
         UNCHANGED <<ninst, client>>
  PROVE  LibTypes'
<1>1. ASSUME NEW y \in Instance PROVE [y EXCEPT !.prio = q] \in Instance
  BY DEF Instance
<1>2. t \in Insts => [lib[t] EXCEPT !.prio = q] \in Instance
  BY <1>1 DEF LibTypes
<1>3. QED
  BY <1>2, LibAssigned DEF SetPrio

LEMMA MarkTypes ==
  ASSUME LibTypes, NEW t \in Insts, NEW s, MarkWanted(t, s), UNCHANGED <<ninst, client>>
  PROVE  LibTypes'
<1>1. lib[t].prio \in [Files -> LibPrios]
  BY DEF LibTypes, Instance
<1>2. [f \in Files |-> IF f \in s THEN lib[t].prio[f] ELSE "Normal"] \in [Files -> LibPrios]
  BY <1>1 DEF LibPrios
<1>3. QED
  BY <1>2, PrioTypes DEF MarkWanted

LEMMA WaitInfoInv ==
  ASSUME Inv, NEW p \in Threads, WaitInfo(p)
  PROVE  Inv'
<1>0. pc[p] = "wait.info" /\ ThreadTypes /\ TallyTypes /\ EngineTypes
  BY ThreadFacts DEF WaitInfo, At
<1>1. /\ UNCHANGED <<engineVars, libVars, guardVars, diskVars, saveVars, mainVars,
                     tk, hooks>>
      /\ UNCHANGED budget
  BY DEF WaitInfo
<1>2. budget' \in Budget
  BY <1>0, <1>1 DEF TallyTypes
<1>3. /\ loc[p] \in Locals /\ loc[p].op = "" /\ loc[p].o <= nobj /\ loc[p].t # NoInst
  BY <1>0, OtherAt DEF OtherLabels, NeedsInst
<1>4. ASSUME NEW c \in {"wait.select", "wait.save"}, Goto(p, c), UNCHANGED loc
      PROVE  Inv'
  <2>1. c \in OtherLabels /\ c \notin NeedsObj
    BY DEF OtherLabels, NeedsObj, StructLabels
  <2>2. c \in Places /\ LocalOK(p, c, loc[p], save[p].k, nobj) /\ Goes(p, c, loc[p])
    BY <1>3, <2>1, OtherPlace
  <2>3. Moves(p, c, loc[p])
    BY <1>0, <1>4, GotoMoves
  <2>4. QED
    BY <1>1, <1>2, <1>3, <2>2, <2>3, StepMoves
<1>5. ASSUME NEW s \in SUBSET Files, Moves(p, "wait.mark", [loc[p] EXCEPT !.chosen = s])
      PROVE  Inv'
  <2> DEFINE l == [loc[p] EXCEPT !.chosen = s]
  <2>1. l \in Locals /\ l.op = loc[p].op /\ l.o = loc[p].o /\ l.t = loc[p].t
    BY <1>3 DEF Locals
  <2> HIDE DEF l
  <2>2. "wait.mark" \in OtherLabels /\ "wait.mark" \notin NeedsObj
    BY DEF OtherLabels, NeedsObj, StructLabels
  <2>3. /\ "wait.mark" \in Places /\ LocalOK(p, "wait.mark", l, save[p].k, nobj)
        /\ Goes(p, "wait.mark", l)
    BY <1>3, <2>1, <2>2, OtherPlace
  <2>4. QED
    BY <1>1, <1>2, <1>5, <2>1, <2>3, StepMoves DEF l
<1>6. ASSUME Moves(p, "off", Loc0)
      PROVE  Inv'
  <2>1. "off" \in OtherLabels /\ "off" \notin NeedsObj /\ "off" \notin NeedsInst
    BY DEF OtherLabels, NeedsObj, StructLabels, NeedsInst
  <2>2. "off" \in Places /\ LocalOK(p, "off", Loc0, save[p].k, nobj) /\ Goes(p, "off", Loc0)
    BY <2>1, NullTypes, NullNobj, OtherPlace
  <2>3. QED
    BY <1>1, <1>2, <1>6, <2>2, NullTypes, StepMoves
<1>7. CASE Goto(p, "off") /\ SetLoc(p, Loc0)
  BY <1>6, <1>7 DEF Moves, Goto, SetLoc
<1>8. CASE /\ Goto(p, IF loc[p].pick THEN "wait.select" ELSE "wait.save")
           /\ UNCHANGED loc
  BY <1>4, <1>8
<1> DEFINE o == torrents[loc[p].id]
           s == IF o = NoObj THEN {} ELSE tr[o].chosenFiles
<1>9. CASE Goto(p, "wait.mark") /\ SetLoc(p, [loc[p] EXCEPT !.chosen = s])
  <2>1. s \in SUBSET Files
    <3>1. loc[p].id \in Ids
      BY <1>3 DEF Locals
    <3>2. o # NoObj => tr[o] \in Tracked
      BY <3>1, ObjFor
    <3>3. o # NoObj => tr[o].chosenFiles \in SUBSET Files
      BY <3>2 DEF Tracked
    <3>4. QED
      BY <3>3
  <2> HIDE DEF s
  <2>2. QED
    BY <1>5, <1>9, <2>1 DEF Moves, Goto, SetLoc
<1>10. QED
  BY <1>7, <1>8, <1>9 DEF WaitInfo

(* A step of a thread with no operation under way that changes the         *)
(* library and goes on to c.                                               *)
LEMMA OtherLib ==
  ASSUME Inv, NEW p \in Threads, pc[p] \in OtherLabels \ {"check.add", "check.begin", "end"},
         NEW c \in OtherLabels, c \in NeedsObj => loc[p].o # NoObj, c \notin NeedsInst,
         Goto(p, c), UNCHANGED loc, LibTypes',
         UNCHANGED <<engineVars, guardVars, saveVars, mainVars, tk, hooks>>,
         UNCHANGED diskVars, UNCHANGED budget
  PROVE  Inv'
<1>1. /\ loc[p] \in Locals /\ loc[p].op = "" /\ loc[p].o <= nobj
      /\ loc[p].ret = "stream.prio" => loc[p].t # NoInst
  BY OtherAt
<1>2. c \in Places /\ LocalOK(p, c, loc[p], save[p].k, nobj) /\ Goes(p, c, loc[p])
  BY <1>1, OtherPlace
<1>3. Moves(p, c, loc[p])
  BY ThreadFacts, GotoMoves
<1>4. DiskTypes' /\ budget' \in Budget
  BY SameTypes, ThreadFacts DEF TallyTypes
<1>5. QED
  BY <1>1, <1>2, <1>3, <1>4, StepLib

LEMMA WaiterInv ==
  ASSUME Inv, NEW p \in Threads, WaiterStep(p)
  PROVE  Inv'
<1>0. LibTypes /\ TallyTypes /\ ThreadTypes /\ loc[p] \in Locals
  BY ThreadFacts
<1>1. CASE WaitInfo(p)
  BY <1>1, WaitInfoInv
<1>2. "wait.save" \in OtherLabels /\ "wait.save" \notin NeedsInst /\ "wait.save" \notin NeedsObj
      /\ "wait.chosen" \in OtherLabels /\ "wait.chosen" \notin NeedsInst /\ "wait.chosen" \notin NeedsObj
      /\ "wait.mark" \in OtherLabels \ {"check.add", "check.begin", "end"}
      /\ "wait.select" \in OtherLabels \ {"check.add", "check.begin", "end"}
      /\ "wait.mark" \in NeedsInst
  BY DEF OtherLabels, NeedsInst, NeedsObj, StructLabels
<1>3. CASE WaitMark(p)
  <2>1. pc[p] = "wait.mark" /\ MarkWanted(loc[p].t, loc[p].chosen)
    BY <1>3 DEF WaitMark, At
  <2>2. loc[p].t \in Insts
    BY <1>0, <1>2, <2>1, OtherAt, LocalsFacts
  <2>3. /\ UNCHANGED <<engineVars, guardVars, saveVars, mainVars, tk, hooks>>
        /\ UNCHANGED diskVars /\ UNCHANGED <<ninst, client, loc>> /\ UNCHANGED budget
        /\ Goto(p, "wait.save")
    BY <1>3 DEF WaitMark
  <2>4. LibTypes'
    BY <1>0, <2>1, <2>2, <2>3, MarkTypes
  <2>5. QED
    BY <1>2, <2>1, <2>3, <2>4, OtherLib
<1>4. CASE WaitSelect(p)
  <2> DEFINE q == [f \in Files |-> IF f \in loc[p].sel THEN "Normal" ELSE "None"]
  <2>1. pc[p] = "wait.select" /\ SetPrio(loc[p].t, q)
    BY <1>4 DEF WaitSelect, At
  <2>2. q \in [Files -> LibPrios]
    BY DEF LibPrios
  <2>3. /\ UNCHANGED <<engineVars, guardVars, saveVars, mainVars, tk, hooks>>
        /\ UNCHANGED diskVars /\ UNCHANGED <<ninst, client, loc>> /\ UNCHANGED budget
        /\ Goto(p, "wait.chosen")
    BY <1>4 DEF WaitSelect
  <2> HIDE DEF q
  <2>4. LibTypes'
    BY <1>0, <2>1, <2>2, <2>3, PrioTypes
  <2>5. QED
    BY <1>2, <2>1, <2>3, <2>4, OtherLib
<1>5. CASE WaitChosen(p)
  <2> DEFINE o == torrents[loc[p].id]
             x == [tr[o] EXCEPT !.chosenFiles = Files]
  <2>1. /\ pc[p] = "wait.chosen" /\ Goto(p, "wait.save") /\ UNCHANGED loc
        /\ UNCHANGED <<torrents, nobj, opMu, checkWG>> /\ UNCHANGED canceled
        /\ UNCHANGED <<libVars, guardVars, diskVars, saveVars, mainVars, tk, hooks>>
        /\ UNCHANGED budget
        /\ IF o = NoObj THEN UNCHANGED tr ELSE SetTr(o, x)
    BY <1>5 DEF WaitChosen, At
  <2>2. /\ loc[p].op = "" /\ loc[p].o <= nobj
        /\ loc[p].ret = "stream.prio" => loc[p].t # NoInst
    BY <2>1, OtherAt DEF OtherLabels
  <2>3. Moves(p, "wait.save", loc[p])
    BY <1>0, <2>1, GotoMoves
  <2>4. /\ "wait.save" \in Places /\ LocalOK(p, "wait.save", loc[p], save[p].k, nobj)
        /\ Goes(p, "wait.save", loc[p])
    BY <1>2, <2>2, OtherPlace
  <2>5. canceled' \in [Checkers -> BOOLEAN] /\ budget' \in Budget
    BY <1>0, <2>1, ThreadFacts DEF EngineTypes, TallyTypes
  <2>6. CASE o = NoObj
    <3>1. UNCHANGED engineVars /\ UNCHANGED <<libVars, guardVars, diskVars, saveVars, mainVars, tk, hooks>>
      BY <2>1, <2>6 DEF engineVars
    <3>2. QED
      BY <1>0, <2>3, <2>4, <2>5, <3>1, StepMoves
  <2>7. CASE o # NoObj
    <3>1. SetTr(o, x)
      BY <2>1, <2>7
    <3>2. loc[p].id \in Ids
      BY <1>0 DEF Locals
    <3>3. tr[o] \in Tracked
      BY <2>7, <3>2, ObjFor
    <3>4. x \in Tracked /\ x.t = tr[o].t /\ x.savePath = tr[o].savePath
      BY <3>3 DEF Tracked
    <3> HIDE DEF o, x
    <3>5. QED
      BY <1>0, <2>1, <2>3, <2>4, <2>5, <3>1, <3>4, StepStruct
  <2>8. QED
    BY <2>6, <2>7
<1>6. CASE WaitSave(p)
  <2>1. /\ pc[p] = "wait.save" /\ Persist(p, "off") /\ SetLoc(p, Loc0)
        /\ UNCHANGED <<engineVars, libVars, guardVars, saveMu, tk, hooks>>
        /\ UNCHANGED diskVars /\ UNCHANGED mainVars /\ UNCHANGED budget
    BY <1>6 DEF WaitSave, At
  <2>2. "off" \in OtherLabels /\ "off" \notin NeedsObj /\ "off" \notin NeedsInst /\ "off" \in SaveNext
    BY DEF OtherLabels, NeedsObj, StructLabels, NeedsInst, SaveNext
  <2>3. LocalOK(p, "off", Loc0, "", nobj) /\ Goes(p, "off", Loc0)
    BY <2>2, NullTypes, NullNobj, OtherPlace
  <2>4. DiskTypes' /\ MainTypes' /\ budget' \in Budget
    BY <1>0, <2>1, SameTypes DEF TallyTypes
  <2>5. QED
    BY <2>1, <2>2, <2>3, <2>4, NullTypes, StepSave
<1>7. QED
  BY <1>1, <1>3, <1>4, <1>5, <1>6 DEF WaiterStep

-----------------------------------------------------------------------------
(* A struct assigned and its flow decided: applyFlow follows.              *)

LEMMA DecidePlace ==
  ASSUME NEW p, NEW k \in FlowNext, NEW l \in Locals, NEW x \in Tracked, NEW n,
         NEW k0, NEW k1, LocalOK(p, k, l, k0, n), x.t \in Insts
  PROVE  /\ "flow.down" \in Places /\ Decide(l, x, k) \in Locals
         /\ LocalOK(p, "flow.down", Decide(l, x, k), k1, n)
<1>1. /\ Decide(l, x, k) \in Locals
      /\ Decide(l, x, k).fk = k /\ Decide(l, x, k).ft = x.t
      /\ Decide(l, x, k).o = l.o /\ Decide(l, x, k).t = l.t
      /\ Decide(l, x, k).op = l.op /\ Decide(l, x, k).ret = l.ret
  BY DecideFacts
<1>2. ASSUME NEW d, d.o = l.o, d.t = l.t, d.op = l.op, d.ret = l.ret
      PROVE  LocalOK(p, k, d, k0, n)
  <2>1. k \notin FlowLabels /\ k \notin SaveLabels /\ k \notin NeedsFresh
    BY DEF FlowNext, FlowLabels, SaveLabels, NeedsFresh
  <2>2. QED
    BY <1>2, <2>1 DEF LocalOK, ReturnsOK, PointersOK, OperationOK, WhereOf
<1>3. LocalOK(p, k, Decide(l, x, k), k0, n)
  BY <1>1, <1>2
<1>4. QED
  BY <1>1, <1>3, FlowPlace

LEMMA StepFlow ==
  ASSUME Inv, NEW p \in Threads, loc[p].o # NoObj, NEW x \in Tracked,
         SetTr(loc[p].o, x), x.t = tr[loc[p].o].t, x.savePath = tr[loc[p].o].savePath,
         NEW k \in FlowNext, NEW l \in Locals, NEW k0, LocalOK(p, k, l, k0, nobj),
         Moves(p, "flow.down", Decide(l, x, k)),
         l.op # "" => /\ l.op = loc[p].op /\ pc[p] # "op.lock" /\ l.o = loc[p].o
                      /\ \/ l.t = NoInst
                         \/ l.t = loc[p].t /\ l.old = loc[p].old,
         UNCHANGED <<torrents, nobj, opMu, checkWG>>,
         canceled' \in [Checkers -> BOOLEAN],
         UNCHANGED <<libVars, guardVars, diskVars, saveVars, mainVars, tk, hooks>>,
         UNCHANGED budget
  PROVE  Inv'
<1>1. x.t \in Insts
  BY ObjOf
<1>2. /\ "flow.down" \in Places /\ Decide(l, x, k) \in Locals
      /\ LocalOK(p, "flow.down", Decide(l, x, k), save[p].k, nobj)
  BY <1>1, DecidePlace
<1>3. /\ Decide(l, x, k).o = l.o /\ Decide(l, x, k).t = l.t
      /\ Decide(l, x, k).op = l.op /\ Decide(l, x, k).old = l.old
  BY DecideFacts
<1>4. Goes(p, "flow.down", Decide(l, x, k))
  BY <1>3 DEF Goes
<1>5. budget' \in Budget
  BY ThreadFacts DEF TallyTypes
<1>6. QED
  BY <1>2, <1>4, <1>5, StepStruct

LEMMA CancelTypes ==
  ASSUME Inv, NEW x
  PROVE  Cancel(x) \in [Checkers -> BOOLEAN]
<1>1. canceled \in [Checkers -> BOOLEAN]
  BY DEF Inv, TypeOK, EngineTypes
<1>2. QED
  BY <1>1 DEF Cancel

-----------------------------------------------------------------------------
(* SetPaused.                                                              *)

LEMMA PauseInv ==
  ASSUME Inv, NEW p \in Threads, PauseStep(p)
  PROVE  Inv'
<1>0. LibTypes /\ EngineTypes /\ TallyTypes /\ ThreadTypes /\ loc[p] \in Locals
  BY ThreadFacts
<1>1. CASE SetPaused(p)
  <2> DEFINE o == loc[p].o
             x == [tr[o] EXCEPT !.paused = loc[p].flag]
             k == IF loc[p].flag THEN "pause.save" ELSE "pause.chosen"
  <2>1. /\ pc[p] = "pause.set" /\ SetTr(o, x)
        /\ canceled' = IF loc[p].flag THEN Cancel(x) ELSE canceled
        /\ Moves(p, "flow.down", Decide(loc[p], x, k))
        /\ UNCHANGED <<torrents, nobj, opMu, checkWG>>
        /\ UNCHANGED <<libVars, guardVars, diskVars, saveVars, mainVars, tk, hooks>>
        /\ UNCHANGED budget
    BY <1>1 DEF SetPaused, At, Moves, SetLoc, Goto
  <2>2. /\ loc[p].op = "" /\ loc[p].o <= nobj /\ loc[p].o # NoObj
        /\ loc[p].ret = "stream.prio" => loc[p].t # NoInst
    BY <2>1, OtherAt DEF OtherLabels, NeedsObj
  <2>3. loc[p].flag \in BOOLEAN
    BY <1>0 DEF Locals
  <2>4. x \in Tracked /\ x.t = tr[o].t /\ x.savePath = tr[o].savePath
    <3>1. tr[o] \in Tracked
      BY <2>2, ObjOf
    <3>2. QED
      BY <2>3, <3>1 DEF Tracked
  <2>5. canceled' \in [Checkers -> BOOLEAN]
    BY <1>0, <2>1, CancelTypes DEF EngineTypes
  <2>6. k \in FlowNext /\ k \in OtherLabels /\ k \notin NeedsInst
    BY DEF FlowNext, OtherLabels, NeedsInst
  <2> HIDE DEF o, x, k
  <2>7. LocalOK(p, k, loc[p], "", nobj)
    BY <2>2, <2>6, OtherPlace
  <2>8. QED
    BY <1>0, <2>1, <2>2, <2>4, <2>5, <2>6, <2>7, StepFlow DEF o
<1>2. CASE SetPausedChosen(p)
  <2> DEFINE o == torrents[loc[p].id]
             s == IF o = NoObj THEN {} ELSE tr[o].chosenFiles
             l == [loc[p] EXCEPT !.chosen = s]
  <2>1. /\ pc[p] = "pause.chosen" /\ Moves(p, "pause.mark", l)
        /\ UNCHANGED <<engineVars, libVars, guardVars, diskVars, saveVars, mainVars,
                       tk, hooks>>
        /\ UNCHANGED budget
    BY <1>2 DEF SetPausedChosen, At, Moves, SetLoc, Goto
  <2>2. /\ loc[p].op = "" /\ loc[p].o <= nobj /\ loc[p].o # NoObj
        /\ loc[p].ret = "stream.prio" => loc[p].t # NoInst
    BY <2>1, OtherAt DEF OtherLabels, NeedsObj
  <2>3. s \in SUBSET Files
    <3>1. loc[p].id \in Ids
      BY <1>0 DEF Locals
    <3>2. o # NoObj => tr[o] \in Tracked
      BY <3>1, ObjFor
    <3>3. o # NoObj => tr[o].chosenFiles \in SUBSET Files
      BY <3>2 DEF Tracked
    <3>4. QED
      BY <3>3
  <2> HIDE DEF s
  <2>4. l \in Locals /\ l.op = loc[p].op /\ l.o = loc[p].o /\ l.t = loc[p].t /\ l.ret = loc[p].ret
    BY <1>0, <2>3 DEF Locals
  <2> HIDE DEF l
  <2>5. "pause.mark" \in OtherLabels /\ "pause.mark" \notin NeedsInst
    BY DEF OtherLabels, NeedsInst
  <2>6. /\ "pause.mark" \in Places /\ LocalOK(p, "pause.mark", l, save[p].k, nobj)
        /\ Goes(p, "pause.mark", l)
    BY <2>2, <2>4, <2>5, OtherPlace
  <2>7. budget' \in Budget
    BY <1>0, <2>1 DEF TallyTypes
  <2>8. QED
    BY <2>1, <2>4, <2>6, <2>7, StepMoves
<1>3. CASE SetPausedMark(p)
  <2> DEFINE t == tr[loc[p].o].t
  <2>1. /\ pc[p] = "pause.mark" /\ Goto(p, "pause.save")
        /\ IF lib[t].info THEN MarkWanted(t, loc[p].chosen) ELSE UNCHANGED lib
        /\ UNCHANGED <<engineVars, guardVars, saveVars, mainVars, tk, hooks>>
        /\ UNCHANGED diskVars /\ UNCHANGED <<ninst, client, loc>> /\ UNCHANGED budget
    BY <1>3 DEF SetPausedMark, At
  <2>2. loc[p].o # NoObj
    BY <2>1, OtherAt DEF OtherLabels, NeedsObj
  <2>3. t \in Insts
    BY <2>2, ObjOf
  <2> HIDE DEF t
  <2>4. LibTypes'
    <3>1. CASE UNCHANGED lib
      BY <1>0, <2>1, <3>1 DEF LibTypes
    <3>2. CASE MarkWanted(t, loc[p].chosen)
      BY <1>0, <2>1, <2>3, <3>2, MarkTypes
    <3>3. QED
      BY <2>1, <3>1, <3>2
  <2>5. "pause.save" \in OtherLabels /\ "pause.save" \notin NeedsInst
    BY DEF OtherLabels, NeedsInst
  <2>6. "pause.mark" \in OtherLabels \ {"check.add", "check.begin", "end"}
    BY DEF OtherLabels
  <2>7. QED
    BY <2>1, <2>2, <2>4, <2>5, <2>6, OtherLib
<1>4. CASE SetPausedSave(p)
  <2>1. /\ pc[p] = "pause.save" /\ Persist(p, "end") /\ UNCHANGED loc
        /\ UNCHANGED <<engineVars, libVars, guardVars, saveMu, tk, hooks>>
        /\ UNCHANGED diskVars /\ UNCHANGED mainVars /\ UNCHANGED budget
    BY <1>4 DEF SetPausedSave, At
  <2>2. /\ loc[p].op = "" /\ loc[p].o <= nobj
        /\ loc[p].ret = "stream.prio" => loc[p].t # NoInst
    BY <2>1, OtherAt DEF OtherLabels
  <2>3. /\ "end" \in OtherLabels /\ "end" \notin NeedsObj /\ "end" \notin NeedsInst
        /\ "end" \in SaveNext
    BY DEF OtherLabels, NeedsObj, StructLabels, NeedsInst, SaveNext
  <2>4. LocalOK(p, "end", loc[p], "", nobj) /\ Goes(p, "end", loc[p])
    BY <2>2, <2>3, OtherPlace
  <2>5. DiskTypes' /\ MainTypes' /\ budget' \in Budget
    BY <1>0, <2>1, SameTypes DEF TallyTypes
  <2>6. SetLoc(p, loc[p])
    BY <1>0, <2>1 DEF SetLoc, ThreadTypes
  <2>7. QED
    BY <1>0, <2>1, <2>3, <2>4, <2>5, <2>6, StepSave
<1>5. QED
  BY <1>1, <1>2, <1>3, <1>4 DEF PauseStep

-----------------------------------------------------------------------------
(* SetFilePriority and the setters.                                        *)

(* A field of the struct, then persist, then the end of the operation.     *)
LEMMA FieldSaved ==
  ASSUME Inv, NEW p \in Threads, pc[p] \in {"prio.chosen", "rate", "seed", "label"},
         NEW x, SetTr(loc[p].o, x), Persist(p, "end"), UNCHANGED loc,
         tr[loc[p].o] \in Tracked =>
           x \in Tracked /\ x.t = tr[loc[p].o].t /\ x.savePath = tr[loc[p].o].savePath,
         UNCHANGED <<torrents, nobj, opMu, checkWG, canceled, libVars,
                     guardVars, diskVars, saveMu, mainVars, tk, hooks, budget>>
  PROVE  Inv'
<1>0. ThreadTypes /\ loc[p] \in Locals
  BY ThreadFacts
<1>1. /\ loc[p].op = "" /\ loc[p].o <= nobj /\ loc[p].o # NoObj
      /\ loc[p].ret = "stream.prio" => loc[p].t # NoInst
  BY OtherAt DEF OtherLabels, NeedsObj
<1>2. tr[loc[p].o] \in Tracked
  BY <1>1, ObjOf
<1>3. /\ "end" \in OtherLabels /\ "end" \notin NeedsObj /\ "end" \notin NeedsInst
      /\ "end" \in SaveNext
  BY DEF OtherLabels, NeedsObj, StructLabels, NeedsInst, SaveNext
<1>4. LocalOK(p, "end", loc[p], "", nobj) /\ Goes(p, "end", loc[p])
  BY <1>1, <1>3, OtherPlace
<1>5. SetLoc(p, loc[p])
  BY <1>0 DEF SetLoc, ThreadTypes
<1>6. QED
  BY <1>0, <1>2, <1>3, <1>4, <1>5, StepStructSave

LEMMA FieldInv ==
  ASSUME Inv, NEW p \in Threads, FieldStep(p)
  PROVE  Inv'
<1>0. LibTypes /\ TallyTypes /\ ThreadTypes /\ loc[p] \in Locals
  BY ThreadFacts
<1>1. CASE SetFilePriority(p)
  <2> DEFINE t == tr[loc[p].o].t
             q == [lib[t].prio EXCEPT ![loc[p].file] = toLibPriority(loc[p].prio)]
  <2>1. /\ pc[p] = "prio.set" /\ UNCHANGED <<ninst, client, loc>>
        /\ UNCHANGED <<engineVars, guardVars, saveVars, mainVars, tk, hooks>>
        /\ UNCHANGED diskVars /\ UNCHANGED budget
        /\ \/ SetPrio(t, q) /\ Goto(p, "prio.chosen")
           \/ Goto(p, "end") /\ UNCHANGED lib
    BY <1>1 DEF SetFilePriority, At
  <2>2. /\ "prio.set" \in OtherLabels \ {"check.add", "check.begin", "end"}
        /\ "prio.set" \in NeedsObj
        /\ "prio.chosen" \in OtherLabels /\ "prio.chosen" \notin NeedsInst
        /\ "end" \in OtherLabels /\ "end" \notin NeedsInst
    BY DEF OtherLabels, NeedsObj, NeedsInst
  <2>3. loc[p].o # NoObj
    BY <2>1, <2>2, OtherAt
  <2>4. LibTypes'
    <3>1. CASE UNCHANGED lib
      BY <1>0, <2>1, <3>1 DEF LibTypes
    <3>2. CASE SetPrio(t, q)
      <4>1. t \in Insts
        BY <2>3, ObjOf
      <4>2. lib[t].prio \in [Files -> LibPrios]
        BY <1>0, <4>1 DEF LibTypes, Instance
      <4>3. toLibPriority(loc[p].prio) \in LibPrios
        BY DEF toLibPriority, LibPrios
      <4>4. q \in [Files -> LibPrios]
        BY <4>2, <4>3
      <4> HIDE DEF q, t
      <4>5. QED
        BY <1>0, <2>1, <3>2, <4>4, PrioTypes
    <3>3. QED
      BY <2>1, <3>1, <3>2
  <2>5. CASE Goto(p, "prio.chosen")
    BY <2>1, <2>2, <2>3, <2>4, <2>5, OtherLib
  <2>6. CASE Goto(p, "end")
    BY <2>1, <2>2, <2>3, <2>4, <2>6, OtherLib
  <2>7. QED
    BY <2>1, <2>5, <2>6
<1>2. CASE SetFilePriorityChosen(p)
  <2> DEFINE x == [tr[loc[p].o] EXCEPT !.chosenFiles = @ \cup {loc[p].file}]
  <2>1. /\ pc[p] = "prio.chosen" /\ SetTr(loc[p].o, x) /\ Persist(p, "end") /\ UNCHANGED loc
        /\ UNCHANGED <<torrents, nobj, opMu, checkWG, canceled, libVars,
                       guardVars, diskVars, saveMu, mainVars, tk, hooks, budget>>
    BY <1>2 DEF SetFilePriorityChosen, At
  <2>2. ASSUME NEW y \in Tracked, NEW f \in Files
        PROVE  LET z == [y EXCEPT !.chosenFiles = @ \cup {f}]
               IN z \in Tracked /\ z.t = y.t /\ z.savePath = y.savePath
    BY DEF Tracked
  <2>3. loc[p].file \in Files
    BY <1>0 DEF Locals
  <2>4. tr[loc[p].o] \in Tracked =>
          x \in Tracked /\ x.t = tr[loc[p].o].t /\ x.savePath = tr[loc[p].o].savePath
    BY <2>2, <2>3
  <2> HIDE DEF x
  <2>5. QED
    BY <2>1, <2>4, FieldSaved
<1>3. CASE SetTorrentRateLimit(p)
  <2>1. PICK up \in {-1, 0, 1}, down \in {-1, 0, 1} :
          SetTr(loc[p].o, [tr[loc[p].o] EXCEPT !.upLimit = IF up >= 0 THEN up ELSE @,
                                               !.downLimit = IF down >= 0 THEN down ELSE @])
    BY <1>3 DEF SetTorrentRateLimit
  <2> DEFINE x == [tr[loc[p].o] EXCEPT !.upLimit = IF up >= 0 THEN up ELSE @,
                                       !.downLimit = IF down >= 0 THEN down ELSE @]
  <2>2. /\ pc[p] = "rate" /\ Persist(p, "end") /\ UNCHANGED loc
        /\ UNCHANGED <<torrents, nobj, opMu, checkWG, canceled, libVars,
                       guardVars, diskVars, saveMu, mainVars, tk, hooks, budget>>
    BY <1>3 DEF SetTorrentRateLimit, At
  <2>3. ASSUME NEW y \in Tracked
        PROVE  LET z == [y EXCEPT !.upLimit = IF up >= 0 THEN up ELSE @,
                                  !.downLimit = IF down >= 0 THEN down ELSE @]
               IN z \in Tracked /\ z.t = y.t /\ z.savePath = y.savePath
    <3>1. /\ (IF up >= 0 THEN up ELSE y.upLimit) \in {0, 1}
          /\ (IF down >= 0 THEN down ELSE y.downLimit) \in {0, 1}
      BY DEF Tracked
    <3>2. QED
      BY <3>1 DEF Tracked
  <2>4. tr[loc[p].o] \in Tracked =>
          x \in Tracked /\ x.t = tr[loc[p].o].t /\ x.savePath = tr[loc[p].o].savePath
    BY <2>3
  <2>5. SetTr(loc[p].o, x)
    BY <2>1
  <2> HIDE DEF x
  <2>6. QED
    BY <2>2, <2>4, <2>5, FieldSaved
<1>4. CASE SetSeedLimit(p)
  <2>1. PICK v \in {-1, 0, 1} : SetTr(loc[p].o, [tr[loc[p].o] EXCEPT !.seedLimit = v])
    BY <1>4 DEF SetSeedLimit
  <2> DEFINE x == [tr[loc[p].o] EXCEPT !.seedLimit = v]
  <2>2. /\ pc[p] = "seed" /\ Persist(p, "end") /\ UNCHANGED loc
        /\ UNCHANGED <<torrents, nobj, opMu, checkWG, canceled, libVars,
                       guardVars, diskVars, saveMu, mainVars, tk, hooks, budget>>
    BY <1>4 DEF SetSeedLimit, At
  <2>3. tr[loc[p].o] \in Tracked =>
          x \in Tracked /\ x.t = tr[loc[p].o].t /\ x.savePath = tr[loc[p].o].savePath
    BY DEF Tracked
  <2> HIDE DEF x
  <2>4. QED
    BY <2>1, <2>2, <2>3, FieldSaved DEF x
<1>5. CASE SetLabel(p)
  <2>1. PICK v \in Labels : SetTr(loc[p].o, [tr[loc[p].o] EXCEPT !.label = v])
    BY <1>5 DEF SetLabel
  <2> DEFINE x == [tr[loc[p].o] EXCEPT !.label = v]
  <2>2. /\ pc[p] = "label" /\ Persist(p, "end") /\ UNCHANGED loc
        /\ UNCHANGED <<torrents, nobj, opMu, checkWG, canceled, libVars,
                       guardVars, diskVars, saveMu, mainVars, tk, hooks, budget>>
    BY <1>5 DEF SetLabel, At
  <2>3. tr[loc[p].o] \in Tracked =>
          x \in Tracked /\ x.t = tr[loc[p].o].t /\ x.savePath = tr[loc[p].o].savePath
    BY DEF Tracked
  <2> HIDE DEF x
  <2>4. QED
    BY <2>1, <2>2, <2>3, FieldSaved DEF x
<1>6. QED
  BY <1>1, <1>2, <1>3, <1>4, <1>5 DEF FieldStep

-----------------------------------------------------------------------------
(* PrepareStream.                                                          *)

(* A step of a thread with no operation under way that only moves it.      *)
LEMMA OtherMoves ==
  ASSUME Inv, NEW p \in Threads, NEW c \in OtherLabels, NEW l \in Locals,
         Moves(p, c, l), l.op = "", l.o <= nobj, c \in NeedsObj => l.o # NoObj,
         c \in NeedsInst => l.t # NoInst, l.ret = "stream.prio" => l.t # NoInst,
         UNCHANGED <<engineVars, libVars, guardVars, diskVars, saveVars, mainVars,
                     tk, hooks>>,
         budget' \in Budget
  PROVE  Inv'
<1>1. c \in Places /\ LocalOK(p, c, l, save[p].k, nobj) /\ Goes(p, c, l)
  BY OtherPlace
<1>2. QED
  BY <1>1, StepMoves

LEMMA StreamInv ==
  ASSUME Inv, NEW p \in Threads, StreamStep(p)
  PROVE  Inv'
<1>0. ThreadTypes /\ TallyTypes /\ loc[p] \in Locals
  BY ThreadFacts
<1>1. /\ pc[p] \in {"stream.paused", "stream.resume", "stream.prio"}
      /\ UNCHANGED <<engineVars, libVars, guardVars, diskVars, saveVars, mainVars,
                     tk, hooks>>
      /\ UNCHANGED budget
  BY DEF StreamStep, PrepareStreamPaused, PrepareStreamResume, PrepareStreamPrio, At
<1>2. /\ loc[p].op = "" /\ loc[p].o <= nobj /\ loc[p].t # NoInst
  BY <1>1, OtherAt DEF OtherLabels, NeedsInst
<1>3. budget' \in Budget
  BY <1>0, <1>1 DEF TallyTypes
<1>4. /\ {"stream.resume", "stream.prio", "end"} \subseteq OtherLabels \ NeedsObj
      /\ {"pause.set", "prio.set"} \subseteq OtherLabels
      /\ {"idle", "stream.prio"} \subseteq RetNext /\ "high" \in Prios
  BY DEF OtherLabels, NeedsObj, StructLabels, RetNext, Prios
<1>5. ASSUME NEW c \in {"stream.resume", "stream.prio", "end"}, Goto(p, c), UNCHANGED loc
      PROVE  Inv'
  <2>1. Moves(p, c, loc[p])
    BY <1>0, <1>5, GotoMoves
  <2>2. QED
    BY <1>0, <1>1, <1>2, <1>3, <1>4, <2>1, OtherMoves
<1>6. loc[p].id \in Ids
  BY <1>0 DEF Locals
<1> DEFINE o == torrents[loc[p].id]
<1>7. o <= nobj /\ o \in Objs \cup {NoObj}
  BY <1>6, ObjFor
<1>8. CASE PrepareStreamPaused(p)
  BY <1>5, <1>8 DEF PrepareStreamPaused
<1>9. CASE PrepareStreamResume(p)
  <2>1. CASE o = NoObj
    BY <1>5, <1>9, <2>1 DEF PrepareStreamResume
  <2>2. CASE o # NoObj
    <3> DEFINE l == [loc[p] EXCEPT !.o = o, !.flag = FALSE, !.ret = "stream.prio"]
    <3>1. Moves(p, "pause.set", l)
      BY <1>9, <2>2 DEF PrepareStreamResume, Moves, Goto, SetLoc
    <3> HIDE DEF o
    <3>2. l \in Locals /\ l.op = loc[p].op /\ l.o = o /\ l.t = loc[p].t
      BY <1>0, <1>4, <1>7 DEF Locals
    <3> HIDE DEF l
    <3>3. QED
      BY <1>1, <1>2, <1>3, <1>4, <1>7, <2>2, <3>1, <3>2, OtherMoves
  <2>3. QED
    BY <2>1, <2>2
<1>10. CASE PrepareStreamPrio(p)
  <2> DEFINE l == [loc[p] EXCEPT !.o = o, !.prio = "high", !.ret = "idle"]
             m == [loc[p] EXCEPT !.ret = "idle"]
  <2>1. \/ o # NoObj /\ Moves(p, "prio.set", l)
        \/ Moves(p, "end", m)
    BY <1>10 DEF PrepareStreamPrio, Moves, Goto, SetLoc
  <2> HIDE DEF o
  <2>2. /\ l \in Locals /\ l.op = loc[p].op /\ l.o = o /\ l.t = loc[p].t
    BY <1>0, <1>4, <1>7 DEF Locals
  <2>3. m \in Locals /\ m.op = loc[p].op /\ m.o = loc[p].o /\ m.t = loc[p].t
    BY <1>0, <1>4, <1>7 DEF Locals
  <2> HIDE DEF l, m
  <2>4. CASE o # NoObj /\ Moves(p, "prio.set", l)
    BY <1>1, <1>2, <1>3, <1>4, <1>7, <2>2, <2>4, OtherMoves
  <2>5. CASE Moves(p, "end", m)
    BY <1>1, <1>2, <1>3, <1>4, <2>3, <2>5, OtherMoves
  <2>6. QED
    BY <2>1, <2>4, <2>5
<1>11. QED
  BY <1>8, <1>9, <1>10 DEF StreamStep

-----------------------------------------------------------------------------
(* Hash checks.                                                            *)

(* p moves, and cancels or counts checks.                                  *)
LEMMA StepChecks ==
  ASSUME Inv, NEW p \in Threads, NEW c \in Places, NEW l \in Locals,
         Moves(p, c, l), Goes(p, c, l), LocalOK(p, c, l, save[p].k, nobj),
         UNCHANGED <<torrents, tr, nobj, opMu>>,
         checkWG' \in [Objs -> Int], canceled' \in [Checkers -> BOOLEAN],
         UNCHANGED <<libVars, guardVars, diskVars, saveVars, mainVars, tk, hooks>>,
         UNCHANGED budget
  PROVE  Inv'
<1>0. EngineTypes /\ StructsOK /\ TallyTypes /\ nobj \in Int
  BY ThreadFacts
<1>1. Kept(p)
  BY <1>0 DEF Kept, InstancesKept, MutexKept, StructsOK
<1>2. EngineTypes'
  BY <1>0 DEF EngineTypes
<1>3. Typed
  BY <1>0, <1>2, SameTypes DEF Typed, TallyTypes
<1>4. OwnsOK(p, c, l)
  BY GoesOwns
<1>5. UNCHANGED save
  BY DEF saveVars
<1>6. QED
  BY <1>1, <1>3, <1>4, <1>5, FrameMoves

LEMMA CountTypes ==
  ASSUME Inv, NEW o
  PROVE  /\ [checkWG EXCEPT ![o] = @ + 1] \in [Objs -> Int]
         /\ [checkWG EXCEPT ![o] = @ - 1] \in [Objs -> Int]
<1>1. checkWG \in [Objs -> Int]
  BY DEF Inv, TypeOK, EngineTypes
<1>2. o \in Objs => checkWG[o] + 1 \in Int /\ checkWG[o] - 1 \in Int
  BY <1>1
<1>3. QED
  BY <1>1, <1>2, FunUpdate

(* beginCheck, called by a recheck or by a move.                           *)
LEMMA BeginPlaces ==
  ASSUME Inv, NEW p \in Threads, pc[p] \in {"check.add", "check.begin"},
         NEW c \in {"check.begin", "end"}, NEW k
  PROVE  /\ loc[p].o # NoObj /\ loc[p].o <= nobj
         /\ c \in Places /\ LocalOK(p, c, loc[p], k, nobj) /\ Goes(p, c, loc[p])
<1>1. /\ pc[p] \in NeedsObj /\ pc[p] \notin FlowLabels /\ pc[p] \notin SaveLabels
      /\ c \in OtherLabels /\ c \notin NeedsInst /\ c \notin NeedsFresh
      /\ c # "op.lock" /\ pc[p] # "op.lock"
  BY DEF NeedsObj, FlowLabels, SaveLabels, OtherLabels, NeedsInst, NeedsFresh
<1>2. /\ loc[p].o # NoObj /\ loc[p].o <= nobj
      /\ loc[p].ret = "stream.prio" => loc[p].t # NoInst
  BY <1>1, AtFacts
<1>3. CASE loc[p].op = ""
  BY <1>1, <1>2, <1>3, OtherPlace
<1>4. CASE loc[p].op # ""
  <2>1. c \in Places /\ LocalOK(p, c, loc[p], k, nobj)
    BY <1>1, <1>4, OpPlace
  <2>2. Goes(p, c, loc[p])
    BY <1>1 DEF Goes
  <2>3. QED
    BY <1>2, <2>1, <2>2
<1>5. QED
  BY <1>3, <1>4

LEMMA BeginCheckAddInv ==
  ASSUME Inv, NEW p \in Threads, BeginCheckAdd(p)
  PROVE  Inv'
<1>1. /\ pc[p] = "check.add" /\ Goto(p, "check.begin") /\ UNCHANGED loc
      /\ checkWG' = [checkWG EXCEPT ![loc[p].o] = @ + 1]
      /\ UNCHANGED <<torrents, tr, nobj, opMu>> /\ UNCHANGED canceled
      /\ UNCHANGED <<libVars, guardVars, diskVars, saveVars, mainVars, tk, hooks>>
      /\ UNCHANGED budget
  BY DEF BeginCheckAdd, At
<1>2. /\ "check.begin" \in Places /\ LocalOK(p, "check.begin", loc[p], save[p].k, nobj)
      /\ Goes(p, "check.begin", loc[p])
  BY <1>1, BeginPlaces
<1>3. Moves(p, "check.begin", loc[p]) /\ loc[p] \in Locals
  BY <1>1, GotoMoves, ThreadFacts
<1>4. checkWG' \in [Objs -> Int] /\ canceled' \in [Checkers -> BOOLEAN]
  BY <1>1, CountTypes DEF Inv, TypeOK, EngineTypes
<1>5. QED
  BY <1>1, <1>2, <1>3, <1>4, StepChecks

LEMMA BeginCheckInv ==
  ASSUME Inv, NEW p \in Threads, BeginCheck(p)
  PROVE  Inv'
<1>0. EngineTypes /\ TallyTypes /\ ThreadTypes /\ loc[p] \in Locals /\ pc[p] = "check.begin"
  BY ThreadFacts DEF BeginCheck, At
<1> DEFINE k == CHOOSE x \in Checkers : At(x, "off")
           o == loc[p].o
           x == [tr[o] EXCEPT !.cancelCheck = k, !.checking = TRUE]
           m == [Loc0 EXCEPT !.id = loc[p].id, !.o = o, !.flag = loc[p].op = "move"]
<1>1. /\ k \in Checkers /\ At(k, "off")
  BY DEF BeginCheck
<1>2. /\ canceled' = [Cancel(tr[o]) EXCEPT ![k] = FALSE] /\ SetTr(o, x) /\ SetLoc(k, m)
      /\ pc' = [pc EXCEPT ![k] = "check.read", ![p] = "end"]
      /\ UNCHANGED <<torrents, nobj, opMu>> /\ UNCHANGED checkWG
      /\ UNCHANGED <<libVars, guardVars, diskVars, saveVars, mainVars, tk, hooks>>
      /\ UNCHANGED budget
  BY DEF BeginCheck
<1> HIDE DEF k
<1>3. /\ loc[p].o # NoObj /\ loc[p].o <= nobj
      /\ "end" \in Places /\ LocalOK(p, "end", loc[p], save[p].k, nobj)
      /\ Goes(p, "end", loc[p])
  BY <1>0, BeginPlaces
<1>4. k \in Threads /\ k # p
  BY <1>0, <1>1 DEF Threads, At
<1>5. o \in Objs /\ tr[o] \in Tracked
  BY <1>3, ObjOf
<1>6. x \in Tracked /\ x.t = tr[o].t /\ x.savePath = tr[o].savePath
  BY <1>1, <1>5 DEF Tracked
<1>7. m \in Locals /\ m.op = "" /\ m.o = o /\ m.ret = "idle"
  <2>1. loc[p].id \in Ids
    BY <1>0 DEF Locals
  <2>2. ASSUME NEW l \in Locals, NEW b \in BOOLEAN
        PROVE  LET n == [l EXCEPT !.id = loc[p].id, !.o = o, !.flag = b]
               IN n \in Locals /\ n.op = l.op /\ n.o = o /\ n.ret = l.ret
    BY <1>5, <2>1 DEF Locals
  <2>3. (loc[p].op = "move") \in BOOLEAN
    OBVIOUS
  <2> HIDE DEF o
  <2>4. QED
    BY <2>2, <2>3, NullTypes
<1> HIDE DEF o, x, m
<1>8. Kept(p) /\ tr' \in [Objs -> Tracked]
  BY <1>2, <1>6, KeptAssigned
<1>9. canceled' \in [Checkers -> BOOLEAN]
  BY <1>2, CancelTypes
<1>10. EngineTypes'
  BY <1>0, <1>2, <1>8, <1>9 DEF EngineTypes
<1>11. Typed
  BY <1>0, <1>2, <1>10, SameTypes DEF Typed, TallyTypes
<1>12. /\ "check.read" \in OtherLabels /\ "check.read" \notin NeedsInst
  BY DEF OtherLabels, NeedsInst
<1>13. "check.read" \in Places /\ LocalOK(k, "check.read", m, save[k].k, nobj)
  BY <1>3, <1>7, <1>12, OtherPlace DEF o
<1>14. /\ pc' \in [Threads -> Places] /\ pc'[p] = "end" /\ pc'[k] = "check.read"
       /\ \A q \in Threads : q # p /\ q # k => pc'[q] = pc[q]
  BY <1>0, <1>2, <1>3, <1>4, <1>13 DEF ThreadTypes
<1>15. OwnsOK(k, "check.read", m)
  BY <1>7 DEF OwnsOK
<1>16. OwnsOK(p, "end", loc[p])
  <2>1. \A b \in Objs : tr'[b].t = tr[b].t /\ tr'[b].savePath = tr[b].savePath
    BY <1>0, <1>2, <1>6 DEF EngineTypes, SetTr
  <2>2. QED
    BY <1>2, <1>3, <2>1, GoesOwns
<1>17. UNCHANGED <<save, nobj>>
  BY <1>2 DEF saveVars
<1>18. QED
  BY <1>2, <1>3, <1>4, <1>7, <1>8, <1>11, <1>13, <1>14, <1>15, <1>16, <1>17, FrameSpawn

LEMMA CheckerInv ==
  ASSUME Inv, NEW p \in Threads, CheckerStep(p)
  PROVE  Inv'
<1>0. EngineTypes /\ ThreadTypes /\ TallyTypes /\ loc[p] \in Locals
  BY ThreadFacts
<1>1. CASE VerifyRead(p)
  <2> DEFINE l == [loc[p] EXCEPT !.t = tr[loc[p].o].t]
  <2>1. /\ pc[p] = "check.read" /\ Moves(p, "check.loop", l)
        /\ UNCHANGED <<engineVars, libVars, guardVars, diskVars, saveVars, mainVars,
                       tk, hooks>>
        /\ UNCHANGED budget
    BY <1>1 DEF VerifyRead, At, Moves, SetLoc, Goto
  <2>2. loc[p].op = "" /\ loc[p].o <= nobj /\ loc[p].o # NoObj
    BY <2>1, OtherAt DEF OtherLabels, NeedsObj
  <2>3. tr[loc[p].o].t \in Insts
    BY <2>2, ObjOf
  <2>4. l \in Locals /\ l.op = loc[p].op /\ l.o = loc[p].o /\ l.t = tr[loc[p].o].t
    BY <1>0, <2>3 DEF Locals
  <2>5. l.t # NoInst
    BY <2>3, <2>4 DEF Insts, NoInst
  <2> HIDE DEF l
  <2>6. "check.loop" \in OtherLabels /\ budget' \in Budget
    BY <1>0, <2>1 DEF OtherLabels, TallyTypes
  <2>7. QED
    BY <2>1, <2>2, <2>4, <2>5, <2>6, OtherMoves
(* The loop over the pieces: only err and done change.                     *)
<1>2. ASSUME pc[p] \in {"check.loop", "check.hash"},
             NEW c \in {"check.loop", "check.hash", "check.clear"}, NEW l \in Locals,
             l.op = loc[p].op, l.o = loc[p].o, l.t = loc[p].t, l.ret = loc[p].ret,
             Moves(p, c, l), budget' \in Budget,
             UNCHANGED <<engineVars, libVars, guardVars, diskVars, saveVars, mainVars,
                         tk, hooks>>
      PROVE  Inv'
  <2>1. /\ loc[p].op = "" /\ loc[p].o <= nobj /\ loc[p].o # NoObj
        /\ loc[p].ret = "stream.prio" => loc[p].t # NoInst
    BY <1>2, OtherAt DEF OtherLabels, NeedsObj
  <2>2. c \in OtherLabels /\ c \notin NeedsInst
    BY DEF OtherLabels, NeedsInst
  <2>3. QED
    BY <1>2, <2>1, <2>2, OtherMoves
<1>3. ASSUME NEW e \in {"", "canceled", "failed"}
      PROVE  LET l == [loc[p] EXCEPT !.err = e]
             IN l \in Locals /\ l.op = loc[p].op /\ l.o = loc[p].o /\ l.t = loc[p].t
                /\ l.ret = loc[p].ret
  <2> DEFINE k == loc[p]
             l == [k EXCEPT !.err = e]
  <2>1. k \in Locals
    BY <1>0
  <2> HIDE DEF k
  <2>2. l \in Locals /\ Alike(l, k)
    BY <2>1, Locals_err, Zenon
  <2>3. QED
    BY <2>2 DEF k, Alike
<1>4. LET l == [loc[p] EXCEPT !.done = @ + 1]
      IN l \in Locals /\ l.op = loc[p].op /\ l.o = loc[p].o /\ l.t = loc[p].t
         /\ l.ret = loc[p].ret
  <2>1. ASSUME NEW d \in Nat
        PROVE  LET l == [loc[p] EXCEPT !.done = d]
               IN l \in Locals /\ l.op = loc[p].op /\ l.o = loc[p].o /\ l.t = loc[p].t
                  /\ l.ret = loc[p].ret
    BY <1>0 DEF Locals
  <2>2. loc[p].done \in Nat
    BY <1>0 DEF Locals
  <2>3. loc[p].done + 1 \in Nat
    BY <2>2
  <2>4. QED
    BY <2>1, <2>3
<1>5. budget \in Budget
  BY <1>0 DEF TallyTypes
<1>6. CASE VerifyLoop(p)
  <2> DEFINE e == IF loc[p].done < Pieces THEN "canceled" ELSE ""
             l == [loc[p] EXCEPT !.err = e]
  <2>1. /\ pc[p] = "check.loop"
        /\ UNCHANGED <<engineVars, libVars, guardVars, diskVars, saveVars, mainVars,
                       tk, hooks>>
        /\ UNCHANGED budget
        /\ \/ Goto(p, "check.hash") /\ UNCHANGED loc
           \/ Moves(p, "check.clear", l)
    BY <1>6 DEF VerifyLoop, At, Moves, SetLoc, Goto
  <2>2. CASE Goto(p, "check.hash") /\ UNCHANGED loc
    <3>1. Moves(p, "check.hash", loc[p])
      BY <1>0, <2>2, GotoMoves
    <3>2. QED
      BY <1>0, <1>2, <1>5, <2>1, <3>1
  <2>3. CASE Moves(p, "check.clear", l)
    <3>1. /\ l \in Locals /\ l.op = loc[p].op /\ l.o = loc[p].o /\ l.t = loc[p].t
          /\ l.ret = loc[p].ret
      BY <1>3
    <3> HIDE DEF l
    <3>2. QED
      BY <1>2, <1>5, <2>1, <2>3, <3>1
  <2>4. QED
    BY <2>1, <2>2, <2>3
<1>7. CASE VerifyPiece(p)
  <2>1. /\ pc[p] = "check.hash"
        /\ UNCHANGED <<engineVars, libVars, guardVars, diskVars, saveVars, mainVars,
                       tk, hooks>>
    BY <1>7 DEF VerifyPiece, At
  <2>2. budget' \in Budget
    BY <1>5, <1>7, BudgetTypes DEF VerifyPiece, Fault
  <2>3. \/ Moves(p, "check.loop", [loc[p] EXCEPT !.done = @ + 1])
        \/ \E e \in {"", "canceled", "failed"} :
             Moves(p, "check.clear", [loc[p] EXCEPT !.err = e])
    BY <1>7 DEF VerifyPiece, Moves, SetLoc, Goto
  <2>4. CASE Moves(p, "check.loop", [loc[p] EXCEPT !.done = @ + 1])
    <3> DEFINE l == [loc[p] EXCEPT !.done = @ + 1]
    <3>1. /\ l \in Locals /\ l.op = loc[p].op /\ l.o = loc[p].o /\ l.t = loc[p].t
          /\ l.ret = loc[p].ret
      BY <1>4
    <3>2. Moves(p, "check.loop", l)
      BY <2>4
    <3> HIDE DEF l
    <3>3. QED
      BY <1>2, <2>1, <2>2, <3>1, <3>2
  <2>5. ASSUME NEW e \in {"", "canceled", "failed"},
               Moves(p, "check.clear", [loc[p] EXCEPT !.err = e])
        PROVE  Inv'
    <3> DEFINE l == [loc[p] EXCEPT !.err = e]
    <3>1. /\ l \in Locals /\ l.op = loc[p].op /\ l.o = loc[p].o /\ l.t = loc[p].t
          /\ l.ret = loc[p].ret
      BY <1>3
    <3>2. Moves(p, "check.clear", l)
      BY <2>5
    <3> HIDE DEF l
    <3>3. QED
      BY <1>2, <2>1, <2>2, <3>1, <3>2
  <2>6. QED
    BY <2>3, <2>4, <2>5
<1>8. CASE CheckClear(p)
  <2> DEFINE x == [tr[loc[p].o] EXCEPT !.cancelCheck = NoThread, !.checking = FALSE]
  <2>1. /\ pc[p] = "check.clear" /\ SetTr(loc[p].o, x) /\ Goto(p, "check.done")
        /\ canceled' = [canceled EXCEPT ![p] = TRUE] /\ UNCHANGED loc
        /\ UNCHANGED <<torrents, nobj, opMu, checkWG>>
        /\ UNCHANGED <<libVars, guardVars, diskVars, saveVars, mainVars, tk, hooks>>
        /\ UNCHANGED budget
    BY <1>8 DEF CheckClear, At
  <2>2. /\ loc[p].op = "" /\ loc[p].o <= nobj /\ loc[p].o # NoObj
        /\ loc[p].ret = "stream.prio" => loc[p].t # NoInst
    BY <2>1, OtherAt DEF OtherLabels, NeedsObj
  <2>3. tr[loc[p].o] \in Tracked
    BY <2>2, ObjOf
  <2>4. x \in Tracked /\ x.t = tr[loc[p].o].t /\ x.savePath = tr[loc[p].o].savePath
    BY <2>3 DEF Tracked
  <2> HIDE DEF x
  <2>5. canceled' \in [Checkers -> BOOLEAN]
    BY <1>0, <2>1 DEF EngineTypes
  <2>6. "check.done" \in OtherLabels /\ "check.done" \notin NeedsInst
    BY DEF OtherLabels, NeedsInst
  <2>7. /\ "check.done" \in Places /\ LocalOK(p, "check.done", loc[p], save[p].k, nobj)
        /\ Goes(p, "check.done", loc[p])
    BY <2>2, <2>6, OtherPlace
  <2>8. Moves(p, "check.done", loc[p])
    BY <1>0, <2>1, GotoMoves
  <2>9. QED
    BY <1>0, <1>5, <2>1, <2>4, <2>5, <2>7, <2>8, StepStruct
<1>9. CASE CheckDone(p)
  <2>1. /\ pc[p] = "check.done" /\ Goto(p, "check.end") /\ UNCHANGED loc
        /\ checkWG' = [checkWG EXCEPT ![loc[p].o] = @ - 1]
        /\ UNCHANGED <<torrents, tr, nobj, opMu>> /\ UNCHANGED canceled
        /\ UNCHANGED <<libVars, guardVars, diskVars, saveVars, mainVars, tk, hooks>>
        /\ UNCHANGED budget
    BY <1>9 DEF CheckDone, At
  <2>2. /\ loc[p].op = "" /\ loc[p].o <= nobj /\ loc[p].o # NoObj
        /\ loc[p].ret = "stream.prio" => loc[p].t # NoInst
    BY <2>1, OtherAt DEF OtherLabels, NeedsObj
  <2>3. "check.end" \in OtherLabels /\ "check.end" \notin NeedsInst
    BY DEF OtherLabels, NeedsInst
  <2>4. /\ "check.end" \in Places /\ LocalOK(p, "check.end", loc[p], save[p].k, nobj)
        /\ Goes(p, "check.end", loc[p])
    BY <2>2, <2>3, OtherPlace
  <2>5. Moves(p, "check.end", loc[p])
    BY <1>0, <2>1, GotoMoves
  <2>6. checkWG' \in [Objs -> Int] /\ canceled' \in [Checkers -> BOOLEAN]
    BY <1>0, <2>1, CountTypes DEF EngineTypes
  <2>7. QED
    BY <1>0, <2>1, <2>4, <2>5, <2>6, StepChecks
<1>10. CASE CheckEnd(p)
  <2> DEFINE o == loc[p].o
             x == [tr[o] EXCEPT !.lastErr = @ \/ loc[p].err = "failed",
                                !.holdData = @ /\ ~loc[p].flag]
  <2>1. /\ pc[p] = "check.end" /\ SetTr(o, x)
        /\ \/ Moves(p, "flow.down", Decide(loc[p], x, "check.off"))
           \/ Moves(p, "off", Loc0)
        /\ UNCHANGED <<torrents, nobj, opMu, checkWG>> /\ UNCHANGED canceled
        /\ UNCHANGED <<libVars, guardVars, diskVars, saveVars, mainVars, tk, hooks>>
        /\ UNCHANGED budget
    BY <1>10 DEF CheckEnd, At, Moves, SetLoc, Goto
  <2>2. /\ loc[p].op = "" /\ loc[p].o <= nobj /\ loc[p].o # NoObj
        /\ loc[p].ret = "stream.prio" => loc[p].t # NoInst
    BY <2>1, OtherAt DEF OtherLabels, NeedsObj
  <2>3. tr[o] \in Tracked
    BY <2>2, ObjOf
  <2>4. x \in Tracked /\ x.t = tr[o].t /\ x.savePath = tr[o].savePath
    <3>1. ASSUME NEW y \in Tracked, NEW a \in BOOLEAN, NEW b \in BOOLEAN
          PROVE  LET z == [y EXCEPT !.lastErr = a, !.holdData = b]
                 IN z \in Tracked /\ z.t = y.t /\ z.savePath = y.savePath
      <4> DEFINE w == [y EXCEPT !.lastErr = a]
      <4>1. w \in Tracked /\ w.t = y.t /\ w.savePath = y.savePath
        BY DEF Tracked
      <4> HIDE DEF w
      <4>2. /\ [w EXCEPT !.holdData = b] \in Tracked
            /\ [w EXCEPT !.holdData = b].t = w.t /\ [w EXCEPT !.holdData = b].savePath = w.savePath
        BY <4>1 DEF Tracked
      <4>3. QED
        BY <4>1, <4>2 DEF w
    <3>2. loc[p].flag \in BOOLEAN /\ tr[o].lastErr \in BOOLEAN /\ tr[o].holdData \in BOOLEAN
      BY <1>0, <2>3 DEF Locals, Tracked
    <3> DEFINE a == tr[o].lastErr \/ loc[p].err = "failed"
               b == tr[o].holdData /\ ~loc[p].flag
    <3>3. a \in BOOLEAN /\ b \in BOOLEAN
      BY <3>2
    <3>4. x = [tr[o] EXCEPT !.lastErr = a, !.holdData = b]
      OBVIOUS
    <3> HIDE DEF o, a, b, x
    <3>5. QED
      BY <2>3, <3>1, <3>3, <3>4
  <2>5. canceled' \in [Checkers -> BOOLEAN]
    BY <1>0, <2>1 DEF EngineTypes
  <2> HIDE DEF x, o
  <2>6. CASE Moves(p, "flow.down", Decide(loc[p], x, "check.off"))
    <3>1. /\ "check.off" \in OtherLabels /\ "check.off" \notin NeedsInst
          /\ "check.off" \in FlowNext
      BY DEF OtherLabels, NeedsInst, FlowNext
    <3>2. LocalOK(p, "check.off", loc[p], "", nobj)
      BY <2>2, <3>1, OtherPlace
    <3>3. QED
      BY <1>0, <2>1, <2>2, <2>4, <2>5, <2>6, <3>1, <3>2, StepFlow DEF o
  <2>7. CASE Moves(p, "off", Loc0)
    <3>1. "off" \in OtherLabels /\ "off" \notin NeedsObj /\ "off" \notin NeedsInst
      BY DEF OtherLabels, NeedsObj, StructLabels, NeedsInst
    <3>2. "off" \in Places /\ LocalOK(p, "off", Loc0, save[p].k, nobj) /\ Goes(p, "off", Loc0)
      BY <3>1, NullTypes, NullNobj, OtherPlace
    <3>3. QED
      BY <1>5, <2>1, <2>4, <2>5, <2>7, <3>2, NullTypes, StepStruct
  <2>8. QED
    BY <2>1, <2>6, <2>7
<1>11. CASE CheckOff(p)
  <2>1. /\ Moves(p, "off", Loc0)
        /\ UNCHANGED <<engineVars, libVars, guardVars, diskVars, saveVars, mainVars,
                       tk, hooks>>
        /\ UNCHANGED budget
    BY <1>11 DEF CheckOff, Moves, SetLoc, Goto
  <2>2. "off" \in OtherLabels /\ "off" \notin NeedsObj /\ "off" \notin NeedsInst
    BY DEF OtherLabels, NeedsObj, StructLabels, NeedsInst
  <2>3. QED
    BY <1>5, <2>1, <2>2, NullTypes, NullNobj, OtherMoves
<1>12. QED
  BY <1>1, <1>6, <1>7, <1>8, <1>9, <1>10, <1>11 DEF CheckerStep

-----------------------------------------------------------------------------
(* Remove, purge and move.                                                 *)

LEMMA StructAt ==
  ASSUME Inv, NEW p \in Threads, pc[p] \in StructLabels
  PROVE  /\ loc[p] \in Locals /\ loc[p].op # "" /\ p \in Clients /\ loc[p].ret = "idle"
         /\ loc[p].o # NoObj /\ loc[p].o <= nobj /\ loc[p].o \in Objs
         /\ tr[loc[p].o] \in Tracked /\ tr[loc[p].o].t \in Insts
         /\ tr[loc[p].o].savePath \in Dirs
         /\ pc[p] \in NeedsInst => loc[p].t \in Insts
         /\ pc[p] \in NeedsFresh => loc[p].ft \in Insts
         /\ pc[p] = "op.lock" => loc[p].t = NoInst
         /\ loc[p].id \in Ids /\ loc[p].old \in Dirs /\ loc[p].dir \in Dirs
<1>1. pc[p] \notin FlowLabels /\ pc[p] \notin SaveLabels /\ pc[p] \in NeedsObj
  BY DEF StructLabels, FlowLabels, SaveLabels, NeedsObj
<1>2. /\ loc[p] \in Locals /\ loc[p].op # "" /\ p \in Clients /\ loc[p].ret = "idle"
      /\ loc[p].o # NoObj /\ loc[p].o <= nobj
      /\ pc[p] \in NeedsInst => loc[p].t # NoInst
      /\ pc[p] \in NeedsFresh => loc[p].ft # NoInst
  BY <1>1, AtFacts, ThreadFacts
<1>3. LocalOK(p, pc[p], loc[p], save[p].k, nobj)
  BY ThreadFacts
<1>4. pc[p] = "op.lock" => loc[p].t = NoInst
  BY <1>2, <1>3 DEF LocalOK, OperationOK
<1>5. loc[p].id \in Ids /\ loc[p].old \in Dirs /\ loc[p].dir \in Dirs
  BY <1>2 DEF Locals
<1>6. loc[p].t \in Insts \cup {NoInst} /\ loc[p].ft \in Insts \cup {NoInst}
  BY <1>2, LocalsFacts
<1>7. QED
  BY <1>2, <1>4, <1>5, <1>6, ObjOf

(* On to c under opMu.                                                     *)
LEMMA OpGoes ==
  ASSUME Inv, NEW p \in Threads, pc[p] \in StructLabels, pc[p] # "op.lock",
         NEW c \in StructLabels \cup {"check.add", "check.begin", "end"}, c # "op.lock",
         NEW l, l.op = loc[p].op, l.o = loc[p].o, l.ret = loc[p].ret,
         \/ l.t = NoInst
         \/ l.t = loc[p].t /\ l.old = loc[p].old
         \/ l.t = tr[l.o].t /\ l.old = tr[l.o].savePath,
         c \in NeedsInst => l.t # NoInst, c \in NeedsFresh => l.ft # NoInst
  PROVE  /\ c \in Places /\ Goes(p, c, l)
         /\ \A k : LocalOK(p, c, l, k, nobj)
<1>1. loc[p].op # ""
  BY StructAt
<1>2. Goes(p, c, l)
  BY DEF Goes
<1>3. c \in Places /\ \A k : LocalOK(p, c, l, k, nobj)
  BY <1>1, OpPlace
<1>4. QED
  BY <1>2, <1>3

LEMMA LockOpInv ==
  ASSUME Inv, NEW p \in Threads, LockOp(p)
  PROVE  Inv'
<1>0. EngineTypes /\ StructsOK /\ ThreadTypes /\ TallyTypes /\ nobj \in Int
  BY ThreadFacts
<1>1. /\ pc[p] = "op.lock" /\ opMu[loc[p].o] = NoThread
      /\ opMu' = [opMu EXCEPT ![loc[p].o] = p]
      /\ Goto(p, "op.cancel") /\ UNCHANGED <<torrents, tr, nobj, checkWG, canceled>>
      /\ UNCHANGED <<libVars, guardVars, diskVars, saveVars, mainVars, tk, hooks>>
      /\ UNCHANGED budget /\ UNCHANGED loc
  BY DEF LockOp, At
<1>2. /\ loc[p] \in Locals /\ loc[p].op # "" /\ p \in Clients /\ loc[p].ret = "idle"
      /\ loc[p].o # NoObj /\ loc[p].o <= nobj /\ loc[p].o \in Objs
      /\ loc[p].t = NoInst
  BY <1>1, StructAt DEF StructLabels
<1>3. /\ opMu' \in [Objs -> Threads \cup {NoThread}] /\ opMu'[loc[p].o] = p
      /\ \A o \in Objs : o # loc[p].o => opMu'[o] = opMu[o]
  BY <1>0, <1>1, <1>2 DEF EngineTypes
<1>4. EngineTypes'
  BY <1>0, <1>1, <1>3 DEF EngineTypes
<1>5. Typed /\ \A q \in Threads : q # p => save'[q].k = save[q].k
  BY <1>0, <1>1, <1>4, SameTypes DEF Typed, TallyTypes, saveVars
<1>6. Kept(p)
  BY <1>0, <1>1, <1>3 DEF Kept, InstancesKept, MutexKept, StructsOK
<1>7. OwnsOK(p, "op.cancel", loc[p])
  BY <1>2, <1>3 DEF OwnsOK
<1>8. "op.cancel" \in Places /\ LocalOK(p, "op.cancel", loc[p], save'[p].k, nobj')
  <2>1. /\ "op.cancel" \in StructLabels /\ "op.cancel" \notin NeedsInst
        /\ "op.cancel" \notin NeedsFresh
    BY DEF StructLabels, NeedsInst, NeedsFresh
  <2>2. /\ nobj' = nobj /\ loc[p].ret # "stream.prio"
        /\ "op.cancel" \in StructLabels \cup OtherLabels
        /\ "op.cancel" \in StructLabels \cup {"check.add", "check.begin", "end"}
        /\ "op.cancel" # "op.lock"
    BY <1>1, <1>2, <2>1
  <2>3. \A k : LocalOK(p, "op.cancel", loc[p], k, nobj)
    <3> SUFFICES ASSUME NEW k PROVE LocalOK(p, "op.cancel", loc[p], k, nobj)
      OBVIOUS
    <3>1. QED
      BY <1>2, <2>1, <2>2, Plain
  <2>4. QED
    BY <2>2, <2>3, Plain
<1>9. Moves(p, "op.cancel", loc[p])
  BY <1>0, <1>1, GotoMoves
<1>10. QED
  BY <1>2, <1>5, <1>6, <1>7, <1>8, <1>9, FrameMoves

LEMMA QuiesceInv ==
  ASSUME Inv, NEW p \in Threads, QuiesceCancel(p) \/ QuiesceWait(p)
  PROVE  Inv'
<1>0. EngineTypes /\ ThreadTypes /\ TallyTypes
  BY ThreadFacts
<1>1. /\ pc[p] \in StructLabels /\ pc[p] # "op.lock" /\ UNCHANGED loc
      /\ UNCHANGED <<torrents, tr, nobj, opMu>> /\ UNCHANGED checkWG
      /\ UNCHANGED <<libVars, guardVars, diskVars, saveVars, mainVars, tk, hooks>>
      /\ UNCHANGED budget
      /\ canceled' = Cancel(tr[loc[p].o]) \/ canceled' = canceled
      /\ Goto(p, "op.wait") \/ Goto(p, loc[p].op)
  BY DEF QuiesceCancel, QuiesceWait, At, StructLabels, engineVars
<1>2. loc[p] \in Locals /\ loc[p].op # ""
  BY <1>1, StructAt
<1>3. loc[p].op \in {"remove", "purge", "move"}
  BY <1>2 DEF Locals
<1>4. checkWG' \in [Objs -> Int] /\ canceled' \in [Checkers -> BOOLEAN]
  BY <1>0, <1>1, CancelTypes DEF EngineTypes
<1>5. ASSUME NEW c \in {"op.wait", "remove", "purge", "move"}, Goto(p, c)
      PROVE  Inv'
  <2>1. c \in StructLabels /\ c # "op.lock" /\ c \notin NeedsInst /\ c \notin NeedsFresh
    BY DEF StructLabels, NeedsInst, NeedsFresh
  <2>2. c \in Places /\ Goes(p, c, loc[p]) /\ LocalOK(p, c, loc[p], save[p].k, nobj)
    BY <1>1, <2>1, OpGoes
  <2>3. Moves(p, c, loc[p])
    BY <1>0, <1>1, <1>5, GotoMoves
  <2>4. QED
    BY <1>1, <1>2, <1>4, <2>2, <2>3, StepChecks
<1>6. QED
  BY <1>1, <1>3, <1>5

(* The library drops an instance.                                          *)
LEMMA DropTypes ==
  ASSUME LibTypes, NEW t \in Insts, Drop(t)
  PROVE  LibTypes'
<1>1. lib[t] \in Instance
  BY DEF LibTypes
<1>2. [lib[t] EXCEPT !.live = FALSE] \in Instance /\ lib[t].id \in Ids
  BY <1>1 DEF Instance
<1>3. lib' \in [Insts -> Instance]
  BY <1>2 DEF Drop, SetLib, LibTypes
<1>4. client' \in [Ids -> Insts \cup {NoInst}]
  BY <1>2 DEF Drop, LibTypes
<1>5. QED
  BY <1>3, <1>4 DEF Drop, LibTypes

LEMMA DeleteTypes ==
  ASSUME DiskTypes, NEW i \in Ids, NEW t, NEW d, DeleteData(i, t, d),
         UNCHANGED <<session, metainfo>>
  PROVE  DiskTypes'
<1>1. data' \in [Ids -> SUBSET Dirs]
  BY DEF DeleteData, DiskTypes
<1>2. QED
  BY <1>1 DEF DiskTypes

LEMMA RemoveInv ==
  ASSUME Inv, NEW p \in Threads, RemoveStep(p)
  PROVE  Inv'
<1>0. /\ EngineTypes /\ StructsOK /\ LibTypes /\ DiskTypes /\ ThreadTypes /\ TallyTypes
      /\ nobj \in Int
  BY ThreadFacts
<1>1. /\ pc[p] \in StructLabels /\ pc[p] # "op.lock" /\ UNCHANGED loc /\ UNCHANGED budget
  BY DEF RemoveStep, RemoveDelete, RemoveDrop, RemoveFiles, RemoveMeta, At, StructLabels
<1>2. /\ loc[p] \in Locals /\ loc[p].id \in Ids /\ tr[loc[p].o].t \in Insts
  BY <1>1, StructAt
<1>3. /\ {"remove.drop", "remove.files", "remove.meta"} \subseteq StructLabels
      /\ {"remove.drop", "remove.files", "remove.meta", "end"} \cap (NeedsInst \cup NeedsFresh) = {}
      /\ "end" \in SaveNext
  BY DEF StructLabels, NeedsInst, NeedsFresh, SaveNext
<1>4. ASSUME NEW c \in {"remove.drop", "remove.files", "remove.meta", "end"}
      PROVE  /\ c \in Places /\ Goes(p, c, loc[p]) /\ LocalOK(p, c, loc[p], save[p].k, nobj)
  BY <1>1, <1>3, OpGoes
<1>5. ASSUME NEW c, Goto(p, c) PROVE Moves(p, c, loc[p])
  BY <1>0, <1>1, <1>5, GotoMoves
<1>6. budget' \in Budget
  BY <1>0, <1>1 DEF TallyTypes
<1>7. CASE RemoveDelete(p)
  <2>1. /\ UNCHANGED <<tr, nobj, opMu, checkWG, canceled>>
        /\ UNCHANGED <<libVars, guardVars, diskVars, saveVars, mainVars, tk, hooks>>
        /\ \/ Goto(p, "end") /\ UNCHANGED torrents
           \/ Goto(p, "remove.drop") /\ torrents' = [torrents EXCEPT ![loc[p].id] = NoObj]
    BY <1>7 DEF RemoveDelete
  <2>2. CASE Goto(p, "end") /\ UNCHANGED torrents
    <3>1. UNCHANGED <<engineVars, libVars, guardVars, diskVars, saveVars, mainVars, tk, hooks>>
      BY <2>1, <2>2 DEF engineVars
    <3>2. QED
      BY <1>2, <1>4, <1>5, <1>6, <2>2, <3>1, StepMoves
  <2>3. CASE Goto(p, "remove.drop") /\ torrents' = [torrents EXCEPT ![loc[p].id] = NoObj]
    <3>1. /\ torrents' \in [Ids -> Objs \cup {NoObj}] /\ torrents'[loc[p].id] = NoObj
          /\ \A i \in Ids : i # loc[p].id => torrents'[i] = torrents[i]
      BY <1>0, <1>2, <2>3 DEF EngineTypes
    <3>2. EngineTypes'
      BY <1>0, <2>1, <3>1 DEF EngineTypes
    <3>3. Typed /\ UNCHANGED <<save, nobj>>
      BY <1>6, <2>1, <3>2, SameTypes DEF Typed, saveVars
    <3>4. NoObj <= nobj
      BY <1>0, ObjFacts DEF EngineTypes, NoObj
    <3>5. StructsOK'
      BY <1>0, <2>1, <3>1, <3>4 DEF StructsOK
    <3>6. Kept(p)
      BY <1>0, <2>1, <3>5 DEF Kept, InstancesKept, MutexKept
    <3>7. OwnsOK(p, "remove.drop", loc[p])
      BY <1>4, <2>1, GoesOwns
    <3>8. QED
      BY <1>2, <1>4, <1>5, <2>3, <3>3, <3>6, <3>7, FrameMoves
  <2>4. QED
    BY <2>1, <2>2, <2>3
<1>8. CASE RemoveDrop(p)
  <2>1. /\ Drop(tr[loc[p].o].t) /\ Goto(p, "remove.files") /\ UNCHANGED diskVars
        /\ UNCHANGED <<engineVars, guardVars, saveVars, mainVars, tk, hooks>>
    BY <1>8 DEF RemoveDrop
  <2>2. LibTypes' /\ DiskTypes'
    BY <1>0, <1>2, <2>1, DropTypes, SameTypes
  <2>3. QED
    BY <1>2, <1>4, <1>5, <1>6, <2>1, <2>2, StepLib
<1>9. CASE RemoveFiles(p)
  <2>1. /\ Goto(p, "remove.meta") /\ UNCHANGED libVars /\ UNCHANGED <<session, metainfo>>
        /\ UNCHANGED <<engineVars, guardVars, saveVars, mainVars, tk, hooks>>
        /\ \/ DeleteData(loc[p].id, tr[loc[p].o].t, tr[loc[p].o].savePath)
           \/ UNCHANGED data
    BY <1>9 DEF RemoveFiles
  <2>2. DiskTypes'
    <3>1. CASE UNCHANGED data
      BY <1>0, <2>1, <3>1 DEF DiskTypes
    <3>2. CASE DeleteData(loc[p].id, tr[loc[p].o].t, tr[loc[p].o].savePath)
      BY <1>0, <1>2, <2>1, <3>2, DeleteTypes
    <3>3. QED
      BY <2>1, <3>1, <3>2
  <2>3. LibTypes'
    BY <2>1, SameTypes
  <2>4. QED
    BY <1>2, <1>4, <1>5, <1>6, <2>1, <2>2, <2>3, StepLib
<1>10. CASE RemoveMeta(p)
  <2>1. /\ Persist(p, "end") /\ UNCHANGED mainVars /\ UNCHANGED <<session, data>>
        /\ UNCHANGED <<engineVars, libVars, guardVars, saveMu, tk, hooks>>
        /\ metainfo' = IF StateDir THEN metainfo \ {loc[p].id} ELSE metainfo
    BY <1>10 DEF RemoveMeta
  <2>2. DiskTypes' /\ MainTypes'
    BY <1>0, <2>1, SameTypes DEF DiskTypes
  <2>3. SetLoc(p, loc[p])
    BY <1>0, <1>1 DEF SetLoc, ThreadTypes
  <2>4. QED
    BY <1>2, <1>3, <1>4, <1>6, <2>1, <2>2, <2>3, StepSave
<1>11. QED
  BY <1>7, <1>8, <1>9, <1>10 DEF RemoveStep
=============================================================================
