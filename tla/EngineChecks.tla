---------------------------- MODULE EngineChecks ----------------------------
(***************************************************************************)
(* For any torrents, clients, goroutines, faults and restarts: as long as  *)
(* nobody calls a recheck, a verification that runs can be called off, and *)
(* as long as nothing is removed either, no torrent is dropped while one   *)
(* of its pieces is being hashed.                                          *)
(*                                                                         *)
(* Both rest on checkWG: CheckInv (EngineControl) says that it counts the  *)
(* one verification a struct can have, and none while an operation that    *)
(* has waited for it is at work.  LiveInv adds whose each instance is: a   *)
(* purge or move drops only that of its own struct.                        *)
(*                                                                         *)
(* The second part is about the completion hook: in a process that found   *)
(* no session, and that removes nothing, FiredInv says that a torrent      *)
(* whose hook has run, or is about to, is marked as logged; so it runs     *)
(* once.                                                                   *)
(*                                                                         *)
(* The last part is about session.json: while nothing is moved and no file *)
(* fails, FreshInv says that it has what the engine has, or that somebody  *)
(* has still to save.                                                      *)
(***************************************************************************)
EXTENDS EngineDisk

-----------------------------------------------------------------------------
(* What a step must show.                                                  *)

CheckMarks == CountLabels \cup {"check.add", "check.begin"}

(* A thread comes to where nothing is asked of it, ...                     *)
Leaves(q) ==
  /\ loc'[q].op = "" /\ pc'[q] \notin CheckMarks
  /\ pc'[q] = "add.track" /\ LiveInv => InstOf(loc[q].t, loc[q].id)'

(* ... waits for opMu, ...                                                 *)
Enters(q) ==
  /\ q \in Clients /\ pc'[q] = "op.lock"
  /\ torrents'[loc'[q].id] = loc'[q].o
  /\ "remove" \notin Ops => loc'[q].op # "remove"

(* ... goes on with a structural operation, ...                            *)
Works(q) ==
  /\ q \in Clients /\ loc[q].op # ""
  /\ loc'[q].op = loc[q].op /\ loc'[q].o = loc[q].o /\ loc'[q].id = loc[q].id
  /\ pc'[q] \notin CountLabels \cup {"check.begin", "add.track"}
  /\ AtWork(q)' => AtWork(q) \/ checkWG[loc[q].o] = 0
  /\ pc'[q] \in NeedsFresh /\ LiveInv =>
       InstOf(loc[q].ft, loc[q].id)' /\ lib'[loc'[q].ft].live
  /\ KeepsAll(pc[q], loc[q]) => KeepsAll(pc'[q], loc'[q])

(* ... or with a verification.                                             *)
Verifies(q) ==
  /\ q \in Checkers /\ pc[q] \in CountLabels /\ pc'[q] \in CountLabels
  /\ loc'[q].o = loc[q].o
  /\ pc'[q] \in VerifyLabels => pc[q] \in VerifyLabels
  /\ pc'[q] \in {"check.loop", "check.hash"} /\ LiveInv => loc'[q].t = tr[loc[q].o].t

Proceeds(q) == Stays(q) \/ Leaves(q) \/ Enters(q) \/ Works(q) \/ Verifies(q)

CheckKept ==
  /\ UNCHANGED checkWG
  /\ \A k \in Checkers : canceled[k] => canceled'[k]
  /\ \A o \in Objs : o <= nobj => tr'[o].cancelCheck = tr[o].cancelCheck

TrLive == \A o \in Objs : o <= nobj => tr'[o].t = tr[o].t

LibLive ==
  /\ ninst <= ninst'
  /\ \A t \in Insts : t <= ninst => lib'[t].id = lib[t].id /\ (lib[t].live => lib'[t].live)
  /\ ClientLive'

Extends == \A i \in Ids : torrents[i] # NoObj => torrents'[i] = torrents[i]

(* What is to be shown of every step.                                      *)
Progress == CheckInv' /\ ("remove" \notin Ops /\ LiveInv => LiveInv')

LEMMA CheckFacts ==
  ASSUME Inv, NEW q \in Threads
  PROVE  /\ loc[q] \in Locals /\ loc[q].id \in Ids
         /\ loc[q].op # "" => q \in Clients /\ loc[q].o # NoObj
         /\ loc[q].op # "" => Where(q) \in StructLabels \cup {"check.add", "check.begin", "end"}
         /\ loc[q].op = "" => Where(q) \notin StructLabels
         /\ loc[q].o # NoObj => loc[q].o \in Objs /\ loc[q].o <= nobj
         /\ pc[q] \in CheckMarks => loc[q].o # NoObj
<1>1. LocalOK(q, pc[q], loc[q], save[q].k, nobj) /\ loc[q] \in Locals
  BY ThreadFacts
<1>2. pc[q] \in CheckMarks => loc[q].o # NoObj
  <2>1. ASSUME pc[q] \in CheckMarks PROVE Where(q) \in NeedsObj
    BY <2>1 DEF CheckMarks, CountLabels, Where, WhereOf, FlowLabels, SaveLabels, NeedsObj
  <2>2. QED
    BY <1>1, <2>1 DEF LocalOK, PointersOK, Where
<1>3. QED
  BY <1>1, <1>2, ObjOf DEF LocalOK, OperationOK, PointersOK, Where, Locals

(* The same after the step.                                                *)
LEMMA NextFacts ==
  ASSUME Inv', NEW q \in Threads
  PROVE  /\ loc'[q].op # "" => q \in Clients
         /\ loc'[q].op = "" => Where(q)' \notin StructLabels
<1>1. LocalOK(q, pc[q], loc[q], save[q].k, nobj)'
  BY DEF Inv, NoNilPointer
<1>2. QED
  BY <1>1 DEF LocalOK, OperationOK, Where

LEMMA StructWhere ==
  \A c \in StructLabels : \A l, k : WhereOf(c, l, k) = c
BY PlaceApart DEF WhereOf

(* What checkWG counts goes with the threads' steps.                       *)
LEMMA CountFrame ==
  ASSUME Inv, Inv', CheckInv, UNCHANGED checkWG, CheckCanBeStopped',
         \A q \in Threads : Proceeds(q)
  PROVE  CheckInv'
<1>1. ASSUME NEW q \in Threads
      PROVE  /\ pc'[q] \in {"check.add", "check.begin"} => loc'[q].op # ""
             /\ pc'[q] \in CountLabels => q \in Checkers
  <2>1. /\ pc[q] \in {"check.add", "check.begin"} => loc[q].op # ""
        /\ pc[q] \in CountLabels => q \in Checkers
    BY DEF CheckInv
  <2>2. CASE Verifies(q)
    BY <2>2 DEF Verifies, CountLabels
  <2>3. CASE Enters(q)
    BY <2>3 DEF Enters, CountLabels
  <2>4. CASE Stays(q) \/ Leaves(q) \/ Works(q)
    BY <2>1, <2>4 DEF Stays, Leaves, Works, CheckMarks
  <2>5. QED
    BY <2>2, <2>3, <2>4 DEF Proceeds
<1>2. ASSUME NEW q \in Threads, NEW o \in Objs, Counted(q, o)' PROVE Counted(q, o)
  <2>1. pc'[q] \in CheckMarks /\ pc'[q] \in CountLabels \cup {"check.begin"}
    BY <1>2 DEF Counted, CheckMarks
  <2>2. CASE Stays(q)
    BY <1>2, <2>2 DEF Counted, Stays
  <2>3. CASE Verifies(q)
    BY <1>2, <2>3 DEF Counted, Verifies
  <2>4. ~Enters(q)
    BY <2>1 DEF Enters, CountLabels
  <2>5. QED
    BY <2>1, <2>2, <2>3, <2>4 DEF Proceeds, Leaves, Works
<1>3. ASSUME NEW q \in Threads, NEW o \in Objs, Quieted(q, o)' PROVE checkWG[o] = 0
  <2>0. Quieted(q, o) => checkWG[o] = 0
    BY DEF CheckInv
  <2>1. CASE Stays(q)
    BY <1>3, <2>0, <2>1 DEF Quieted, AtWork, Where, WhereOf, Stays
  <2>2. CASE Leaves(q)
    <3>1. Where(q)' \notin StructLabels
      BY <2>2, NextFacts DEF Leaves
    <3>2. QED
      BY <1>3, <2>2, <3>1 DEF Quieted, AtWork, QuietLabels, Leaves, CheckMarks
  <2>3. CASE Enters(q)
    <3>1. Where(q)' = "op.lock"
      BY <2>3, StructWhere DEF Enters, Where, StructLabels
    <3>2. QED
      BY <1>3, <2>3, <3>1 DEF Quieted, AtWork, QuietLabels, OpLabels, Enters
  <2>4. CASE Works(q)
    BY <1>3, <2>0, <2>4 DEF Quieted, Works
  <2>5. CASE Verifies(q)
    BY <1>3, <2>5, ThreadsAssumption DEF Quieted, Verifies
  <2>6. QED
    BY <2>1, <2>2, <2>3, <2>4, <2>5 DEF Proceeds
<1>4. \A q \in Threads, o \in Objs :
        /\ Counted(q, o)'  => checkWG'[o] = 1
        /\ Quieted(q, o)' => checkWG'[o] = 0
  BY <1>2, <1>3 DEF CheckInv
<1>5. \A q, r \in Threads, o \in Objs : Counted(q, o)' /\ Counted(r, o)' => q = r
  BY <1>2 DEF CheckInv
<1>6. QED
  BY <1>1, <1>4, <1>5 DEF CheckInv

LEMMA CheckFrame ==
  ASSUME Inv, Inv', CheckInv, CheckKept, \A q \in Threads : Proceeds(q)
  PROVE  CheckInv'
<1>1. ASSUME NEW k \in Checkers, Verifying(k)', ~canceled'[k]
      PROVE  tr'[loc'[k].o].cancelCheck = k
  <2>1. k \in Threads /\ pc'[k] \in VerifyLabels /\ VerifyLabels \subseteq CountLabels
    BY <1>1 DEF Threads, Verifying, VerifyLabels, CountLabels
  <2>2. pc[k] \in VerifyLabels /\ loc'[k].o = loc[k].o
    BY <2>1 DEF Proceeds, Stays, Leaves, Enters, Works, Verifies, CheckMarks, CountLabels
  <2>3. tr[loc[k].o].cancelCheck = k
    BY <1>1, <2>2 DEF CheckInv, CheckCanBeStopped, Verifying, VerifyLabels, CheckKept
  <2>4. loc[k].o \in Objs /\ loc[k].o <= nobj
    BY <2>1, <2>2, CheckFacts DEF CheckMarks
  <2>5. QED
    BY <2>2, <2>3, <2>4 DEF CheckKept
<1>2. QED
  BY <1>1, CountFrame DEF CheckCanBeStopped, CheckKept

(* An instance goes on being of its infohash.                              *)
LEMMA InstKept ==
  ASSUME Inv, Inv', LibLive, NEW t, NEW i, InstOf(t, i)
  PROVE  InstOf(t, i)' /\ (lib[t].live => lib'[t].live)
<1>1. t \in Int /\ ninst \in Int
  BY LibFacts DEF InstOf
<1>2. ninst' \in Int
  BY DEF Inv, TypeOK, LibTypes
<1>3. t <= ninst'
  BY <1>1, <1>2 DEF InstOf, LibLive
<1>4. QED
  BY <1>3 DEF InstOf, LibLive

LEMMA LiveFrame ==
  ASSUME Inv, Inv', LiveInv, OwnInst', LibLive, TrLive, Extends,
         \A q \in Threads : Stays(q) \/ LiveOK(q)'
  PROVE  LiveInv'
<1> SUFFICES ASSUME NEW q \in Threads, Stays(q) PROVE LiveOK(q)'
  BY DEF LiveInv, LibLive
<1>1. pc'[q] = pc[q] /\ loc'[q] = loc[q] /\ LiveOK(q)
  BY DEF Stays, LiveInv
<1>2. loc[q].op # "" => torrents'[loc[q].id] = loc[q].o
  BY <1>1, CheckFacts DEF LiveOK, Extends
<1>3. pc[q] = "add.track" => InstOf(loc[q].t, loc[q].id)'
  <2>1. ASSUME InstOf(loc[q].t, loc[q].id) PROVE InstOf(loc[q].t, loc[q].id)'
    <3> DEFINE t == loc[q].t
               i == loc[q].id
    <3>1. t' = t /\ i' = i
      BY <1>1
    <3>2. InstOf(t, i)
      BY <2>1
    <3> HIDE DEF t, i
    <3>3. t' \in Insts /\ t' <= ninst' /\ lib'[t'].id = i'
      BY <3>1, <3>2, InstKept DEF InstOf
    <3>4. QED
      BY <3>3 DEF InstOf, t, i
  <2>2. QED
    BY <1>1, <2>1 DEF LiveOK
<1>4. pc[q] \in NeedsFresh => InstOf(loc[q].ft, loc[q].id)' /\ lib'[loc'[q].ft].live
  <2>1. ASSUME InstOf(loc[q].ft, loc[q].id), lib[loc[q].ft].live
        PROVE  InstOf(loc[q].ft, loc[q].id)' /\ lib'[loc'[q].ft].live
    <3> DEFINE t == loc[q].ft
               i == loc[q].id
    <3>1. t' = t /\ i' = i
      BY <1>1
    <3>2. InstOf(t, i) /\ lib[t].live
      BY <2>1
    <3> HIDE DEF t, i
    <3>3. t' \in Insts /\ t' <= ninst' /\ lib'[t'].id = i' /\ lib'[t'].live
      BY <3>1, <3>2, InstKept DEF InstOf
    <3>4. QED
      BY <3>3 DEF InstOf, t, i
  <2>2. QED
    BY <1>1, <2>1 DEF LiveOK
<1>5. pc[q] \in CheckMarks => tr'[loc[q].o].t = tr[loc[q].o].t /\ \E i \in Ids : InstOf(tr[loc[q].o].t, i)
  BY CheckFacts DEF TrLive, LiveInv, OwnInst
<1>6. pc[q] \in VerifyLabels \cup {"check.add", "check.begin"} => lib'[tr'[loc[q].o].t].live
  <2>1. VerifyLabels \cup {"check.add", "check.begin"} \subseteq CheckMarks
    BY DEF VerifyLabels, CheckMarks, CountLabels
  <2>2. QED
    BY <1>1, <1>5, <2>1, InstKept DEF LiveOK
<1>7. pc[q] \in {"check.loop", "check.hash"} => loc[q].t = tr'[loc[q].o].t
  BY <1>1, <1>5 DEF LiveOK, CheckMarks, CountLabels
<1>8. KeepsAll(pc'[q], loc'[q])
  BY <1>1 DEF LiveOK
<1>9. QED
  BY <1>1, <1>2, <1>3, <1>4, <1>6, <1>7, <1>8 DEF LiveOK

(* A thread that has no operation.                                         *)
LEMMA LeavesLive ==
  ASSUME Inv', LiveInv, NEW q \in Threads, Leaves(q)
  PROVE  LiveOK(q)'
<1>1. loc'[q].op = "" /\ pc'[q] \notin StructLabels
  <2>1. loc'[q].op = "" /\ Where(q)' \notin StructLabels
    BY NextFacts DEF Leaves
  <2>2. pc'[q] \in StructLabels => Where(q)' = pc'[q]
    BY PlaceApart DEF Where, WhereOf
  <2>3. QED
    BY <2>1, <2>2
<1>2. /\ NeedsFresh \subseteq StructLabels /\ RemoveLabels \subseteq StructLabels
      /\ OpLabels \subseteq StructLabels
      /\ VerifyLabels \cup {"check.add", "check.begin"} \subseteq CheckMarks
      /\ {"check.loop", "check.hash"} \subseteq CheckMarks
  BY SMTT(30) DEF NeedsFresh, StructLabels, RemoveLabels, OpLabels, VerifyLabels, CheckMarks, CountLabels
<1>3. KeepsAll(pc'[q], loc'[q])
  BY <1>1, <1>2 DEF KeepsAll
<1>4. QED
  BY <1>1, <1>2, <1>3 DEF LiveOK, Leaves

LEMMA ProceedsLive ==
  ASSUME Inv, Inv', LiveInv, "remove" \notin Ops, LibLive, TrLive, Extends,
         NEW q \in Threads, Proceeds(q), ~Stays(q), pc'[q] # "check.add"
  PROVE  LiveOK(q)'
<1>1. LiveOK(q)
  BY DEF LiveInv
<1>2. CASE Leaves(q)
  BY <1>2, LeavesLive
<1>3. CASE Enters(q)
  <2>1. pc'[q] = "op.lock" /\ torrents'[loc'[q].id] = loc'[q].o /\ loc'[q].op # "remove"
    BY <1>3 DEF Enters
  <2>2. QED
    BY <2>1, SMTT(30) DEF LiveOK, KeepsAll, RemoveLabels, NeedsFresh, VerifyLabels
<1>4. CASE Works(q)
  <2>1. torrents'[loc'[q].id] = loc'[q].o
    BY <1>1, <1>4, CheckFacts DEF Works, LiveOK, Extends
  <2>2. KeepsAll(pc'[q], loc'[q])
    BY <1>1, <1>4 DEF Works, LiveOK
  <2>3. pc'[q] \notin CheckMarks \cup {"add.track"}
    BY <1>4 DEF Works, CheckMarks
  <2>4. QED
    BY <1>4, <2>1, <2>2, <2>3 DEF LiveOK, Works, CheckMarks, VerifyLabels, CountLabels
<1>5. CASE Verifies(q)
  <2>1. loc'[q].op = ""
    BY <1>5, NextFacts, ThreadsAssumption DEF Verifies
  <2>2. pc'[q] \in CountLabels /\ pc[q] \in CountLabels /\ loc'[q].o = loc[q].o
    BY <1>5 DEF Verifies
  <2>3. KeepsAll(pc'[q], loc'[q]) /\ pc'[q] \notin NeedsFresh
    BY <2>2, SMTT(30) DEF KeepsAll, RemoveLabels, OpLabels, CountLabels, NeedsFresh
  <2>4. tr'[loc[q].o].t = tr[loc[q].o].t /\ \E i \in Ids : InstOf(tr[loc[q].o].t, i)
    BY <2>2, CheckFacts DEF TrLive, LiveInv, OwnInst, CheckMarks
  <2>5. pc'[q] \in VerifyLabels => lib'[tr'[loc[q].o].t].live
    BY <1>1, <1>5, <2>4, InstKept DEF Verifies, LiveOK
  <2>6. QED
    BY <1>5, <2>1, <2>2, <2>3, <2>4, <2>5 DEF LiveOK, Verifies, CountLabels
<1>6. QED
  BY <1>2, <1>3, <1>4, <1>5 DEF Proceeds

(* No struct is given another instance, or another verification.           *)
TrKeeps == \A o \in Objs : tr'[o].t = tr[o].t /\ tr'[o].cancelCheck = tr[o].cancelCheck

LEMMA OwnKept ==
  ASSUME Inv, Inv', LiveInv, UNCHANGED <<torrents, nobj>>, TrLive, LibLive
  PROVE  OwnInst'
<1> SUFFICES ASSUME NEW o \in Objs, o <= nobj
             PROVE  \E i \in Ids : torrents'[i] = o /\ InstOf(tr[o].t, i)'
  BY DEF OwnInst
<1>1. PICK i \in Ids : torrents[i] = o /\ InstOf(tr[o].t, i)
  BY DEF LiveInv, OwnInst
<1> DEFINE t == tr[o].t
<1>2. t' = t
  BY DEF TrLive
<1>3. InstOf(t, i)
  BY <1>1
<1> HIDE DEF t
<1>4. t' \in Insts /\ t' <= ninst' /\ lib'[t'].id = i
  BY <1>2, <1>3, InstKept DEF InstOf
<1>5. QED
  BY <1>1, <1>4 DEF InstOf, t

LEMMA SteadyFrame ==
  ASSUME Inv, Inv', CheckInv, UNCHANGED <<torrents, nobj, checkWG>>, TrKeeps,
         \A k \in Checkers : canceled[k] => canceled'[k],
         LiveInv => LibLive,
         \A q \in Threads : Stays(q) \/ (Proceeds(q) /\ pc'[q] # "check.add")
  PROVE  Progress
<1>1. CheckKept /\ TrLive /\ Extends
  BY DEF CheckKept, TrKeeps, TrLive, Extends
<1>2. \A q \in Threads : Proceeds(q)
  BY DEF Proceeds
<1>3. CheckInv'
  BY <1>1, <1>2, CheckFrame
<1>4. ASSUME "remove" \notin Ops, LiveInv PROVE LiveInv'
  <2>1. OwnInst'
    BY <1>1, <1>4, OwnKept
  <2>2. \A q \in Threads : Stays(q) \/ LiveOK(q)'
    BY <1>1, <1>2, <1>4, ProceedsLive
  <2>3. QED
    BY <1>1, <1>4, <2>1, <2>2, LiveFrame
<1>5. QED
  BY <1>3, <1>4 DEF Progress

(* One thread's step.                                                      *)
LEMMA SteadyStep ==
  ASSUME Inv, Inv', CheckInv, NEW p \in Threads, Walks(p), Proceeds(p), pc'[p] # "check.add",
         UNCHANGED <<torrents, nobj, checkWG>>, TrKeeps,
         \A k \in Checkers : canceled[k] => canceled'[k],
         LiveInv => LibLive
  PROVE  Progress
<1>1. \A q \in Threads : q # p => Stays(q)
  BY WalksStays
<1>2. QED
  BY <1>1, SteadyFrame

-----------------------------------------------------------------------------
(* The library.                                                            *)

LEMMA LiveSame ==
  ASSUME Inv, UNCHANGED libVars
  PROVE  LiveInv => LibLive
<1> SUFFICES ASSUME LiveInv PROVE LibLive
  OBVIOUS
<1>1. UNCHANGED <<lib, ninst, client>>
  BY DEF libVars
<1>2. \A i \in Ids : client[i] # NoInst => InstOf(client[i], i) /\ lib[client[i]].live
  BY DEF LiveInv, ClientLive
<1>3. ClientLive'
  BY <1>1, <1>2 DEF ClientLive, InstOf
<1>4. ninst <= ninst'
  BY <1>1, LibFacts
<1>5. QED
  BY <1>1, <1>3, <1>4 DEF LibLive

LEMMA LiveSet ==
  ASSUME Inv, NEW t, NEW y, SetLib(t, y), UNCHANGED <<ninst, client>>,
         t \in Insts => y.id = lib[t].id /\ (lib[t].live => y.live)
  PROVE  LiveInv => LibLive
<1> SUFFICES ASSUME LiveInv PROVE LibLive
  OBVIOUS
<1>1. \A u \in Insts : lib'[u] = IF u = t THEN y ELSE lib[u]
  BY LibFacts DEF SetLib
<1>2. \A u \in Insts : lib'[u].id = lib[u].id /\ (lib[u].live => lib'[u].live)
  BY <1>1
<1>3. \A i \in Ids : client[i] # NoInst => InstOf(client[i], i) /\ lib[client[i]].live
  BY DEF LiveInv, ClientLive
<1>4. ClientLive'
  BY <1>2, <1>3 DEF ClientLive, InstOf
<1>5. ninst <= ninst'
  BY LibFacts
<1>6. QED
  BY <1>2, <1>4, <1>5 DEF LibLive

(* The fields of an instance that say nothing of whose it is.              *)
LEMMA LibField ==
  ASSUME NEW y \in Instance, NEW a
  PROVE  /\ [y EXCEPT !.prio = a].id = y.id /\ [y EXCEPT !.prio = a].live = y.live
         /\ [y EXCEPT !.down = a].id = y.id /\ [y EXCEPT !.down = a].live = y.live
         /\ [y EXCEPT !.up = a].id = y.id /\ [y EXCEPT !.up = a].live = y.live
         /\ [y EXCEPT !.info = a].id = y.id /\ [y EXCEPT !.info = a].live = y.live
         /\ [y EXCEPT !.have = a].id = y.id /\ [y EXCEPT !.have = a].live = y.live
         /\ [y EXCEPT !.bytes = a].id = y.id /\ [y EXCEPT !.bytes = a].live = y.live
BY DEF Instance

LEMMA LivePrio ==
  ASSUME Inv, NEW t, NEW q, SetPrio(t, q), UNCHANGED <<ninst, client>>
  PROVE  LiveInv => LibLive
<1> DEFINE y == [lib[t] EXCEPT !.prio = q]
<1>1. t \in Insts => y.id = lib[t].id /\ y.live = lib[t].live
  BY LibField, LibFacts
<1>2. SetLib(t, y)
  BY DEF SetPrio
<1> HIDE DEF y
<1>3. QED
  BY <1>1, <1>2, LiveSet

(* An added instance is live, and of its infohash.                         *)
LEMMA LiveAdd ==
  ASSUME Inv, LiveInv, NEW i \in Ids, NEW d, NEW b \in BOOLEAN, AddTorrentSpec(i, d, b)
  PROVE  /\ LibLive
         /\ AddedInst(i) \in Insts /\ AddedInst(i) <= ninst'
         /\ lib'[AddedInst(i)].id = i /\ lib'[AddedInst(i)].live
<1>0. \A j \in Ids : client[j] # NoInst => InstOf(client[j], j) /\ lib[client[j]].live
  BY DEF LiveInv, ClientLive
<1>1. CASE client[i] # NoInst
  <2> DEFINE t == client[i]
  <2>1. AddedInst(i) = t /\ t \in Insts /\ ninst' = ninst
    BY <1>1, LibFacts DEF AddTorrentSpec, AddedInst
  <2>2. client' = client
    BY <2>1, LibFacts DEF AddTorrentSpec
  <2>3. SetLib(t, [lib[t] EXCEPT !.info = @ \/ b])
    BY <1>1, <2>1 DEF AddTorrentSpec
  <2>4. lib[t] \in Instance
    BY <2>1, LibFacts
  <2>5. InstOf(t, i) /\ lib[t].live
    BY <1>0, <1>1
  <2> HIDE DEF t
  <2> DEFINE y == [lib[t] EXCEPT !.info = @ \/ b]
  <2>6. y.id = lib[t].id /\ y.live = lib[t].live
    BY <2>4 DEF Instance
  <2>7. SetLib(t, y)
    BY <2>3
  <2> HIDE DEF y
  <2>8. LibLive
    BY <2>1, <2>2, <2>6, <2>7, LiveSet
  <2>9. t <= ninst' /\ lib'[t].id = i /\ lib'[t].live
    BY <2>1, <2>5, <2>8 DEF LibLive, InstOf
  <2>10. QED
    BY <2>1, <2>8, <2>9
<1>2. CASE client[i] = NoInst
  <2> DEFINE t == ninst + 1
             y == [id |-> i, dir |-> d, live |-> TRUE, info |-> b,
                   have |-> d \in data[i], down |-> TRUE, up |-> TRUE,
                   bytes |-> 0, prio |-> [f \in Files |-> "None"]]
  <2>1. AddedInst(i) = t /\ t \in Insts /\ ninst' = t
    BY <1>2 DEF AddTorrentSpec, AddedInst
  <2>2. client' = [client EXCEPT ![i] = t]
    BY <2>1 DEF AddTorrentSpec
  <2>3. SetLib(t, y)
    BY <1>2, <2>1 DEF AddTorrentSpec
  <2>4. y.id = i /\ y.live
    OBVIOUS
  <2>5. ninst <= ninst' /\ ~(t <= ninst) /\ t <= ninst'
    BY <2>1, LibFacts
  <2> HIDE DEF t, y
  <2>6. \A u \in Insts : lib'[u] = IF u = t THEN y ELSE lib[u]
    BY <2>3, LibFacts DEF SetLib
  <2>7. \A u \in Insts : u <= ninst => lib'[u] = lib[u] /\ u <= ninst'
    BY <2>1, <2>5, <2>6, LibFacts
  <2>8. \A j \in Ids : client'[j] = IF j = i THEN t ELSE client[j]
    BY <2>2, LibFacts
  <2>9. ASSUME NEW j \in Ids, client'[j] # NoInst
         PROVE  client'[j] \in Insts /\ client'[j] <= ninst' /\ lib'[client'[j]].id = j
                /\ lib'[client'[j]].live
    <3>1. CASE j = i
      BY <2>1, <2>4, <2>5, <2>6, <2>8, <3>1
    <3>2. CASE j # i
      <4>1. client'[j] = client[j]
        BY <2>8, <3>2
      <4>2. InstOf(client[j], j) /\ lib[client[j]].live
        BY <1>0, <2>9, <4>1
      <4>3. QED
        BY <2>7, <4>1, <4>2 DEF InstOf
    <3>3. QED
      BY <3>1, <3>2
  <2>10. ClientLive'
    BY <2>9 DEF ClientLive, InstOf
  <2>11. LibLive
    BY <2>5, <2>7, <2>10 DEF LibLive
  <2>12. QED
    BY <2>1, <2>4, <2>5, <2>6, <2>11
<1>3. QED
  BY <1>1, <1>2

-----------------------------------------------------------------------------
(* The tracked structs.                                                    *)

LEMMA TrField2 ==
  ASSUME NEW x \in Tracked, NEW a, NEW b
  PROVE  /\ [x EXCEPT !.paused = a].cancelCheck = x.cancelCheck
         /\ [x EXCEPT !.chosenFiles = a].cancelCheck = x.cancelCheck
         /\ [x EXCEPT !.seedLimit = a].cancelCheck = x.cancelCheck
         /\ [x EXCEPT !.label = a].cancelCheck = x.cancelCheck
         /\ [x EXCEPT !.base = a].cancelCheck = x.cancelCheck
         /\ [x EXCEPT !.savePath = a].cancelCheck = x.cancelCheck
         /\ [x EXCEPT !.upLimit = a, !.downLimit = b].cancelCheck = x.cancelCheck
         /\ [x EXCEPT !.holdData = a, !.paused = b].cancelCheck = x.cancelCheck
         /\ [x EXCEPT !.lastErr = a, !.holdData = b].cancelCheck = x.cancelCheck
BY DEF Tracked

LEMMA TrSame2 ==
  ASSUME UNCHANGED tr
  PROVE  TrKeeps
BY DEF TrKeeps

LEMMA TrSet2 ==
  ASSUME Inv, NEW o, NEW x, SetTr(o, x),
         o \in Objs => x.t = tr[o].t /\ x.cancelCheck = tr[o].cancelCheck
  PROVE  TrKeeps
<1>1. \A b \in Objs : tr'[b] = IF b = o THEN x ELSE tr[b]
  BY TrTyped DEF SetTr
<1>2. QED
  BY <1>1 DEF TrKeeps

-----------------------------------------------------------------------------
(* Where a thread may go.                                                  *)

(* A thread that is no client's, or whose operation is not structural.     *)
LEMMA LeavesTo ==
  ASSUME Inv, Inv', NEW q \in Threads, pc'[q] \notin CheckMarks \cup {"add.track"},
         \/ q \notin Clients
         \/ loc'[q].op = ""
         \/ /\ pc[q] \in OtherLabels \ {"check.add", "check.begin", "end"}
            /\ loc'[q].op = loc[q].op
  PROVE  Proceeds(q) /\ pc'[q] # "check.add"
<1>1. loc'[q].op = ""
  BY NextFacts, PlainAt
<1>2. QED
  BY <1>1 DEF Proceeds, Leaves, CheckMarks

(* Labels anyone may go to with what it has.                               *)
Risky == CheckMarks \cup NeedsFresh \cup RemoveLabels \cup OpLabels \cup {"add.track"}

LEMMA WorksTo ==
  ASSUME Inv, NEW q \in Threads, pc'[q] \notin Risky, loc[q].op # "",
         loc'[q].op = loc[q].op, loc'[q].o = loc[q].o, loc'[q].id = loc[q].id,
         AtWork(q) \/ Where(q)' = Where(q)
  PROVE  Proceeds(q) /\ pc'[q] # "check.add"
<1>1. q \in Clients
  BY CheckFacts
<1>2. AtWork(q)' => AtWork(q)
  BY DEF AtWork, Risky, CheckMarks
<1>3. KeepsAll(pc'[q], loc'[q])
  BY DEF KeepsAll, Risky
<1>4. QED
  BY <1>1, <1>2, <1>3 DEF Proceeds, Works, Risky, CheckMarks

(* Through applyFlow and persist a thread keeps what it has.               *)
LEMMA SameTo ==
  ASSUME Inv, Inv', NEW q \in Threads, pc'[q] \notin Risky, loc'[q] = loc[q],
         Where(q)' = Where(q)
  PROVE  Proceeds(q) /\ pc'[q] # "check.add"
BY LeavesTo, WorksTo DEF Risky

LEMMA RiskyApart ==
  /\ FlowNext \cap Risky = {} /\ SaveNext \cap Risky = {} /\ RetNext \cap Risky = {}
  /\ FlowLabels \cap Risky = {} /\ SaveLabels \cap Risky = {}
BY SMTT(30) DEF FlowNext, SaveNext, RetNext, FlowLabels, SaveLabels, Risky, CheckMarks, CountLabels,
                NeedsFresh, RemoveLabels, OpLabels

-----------------------------------------------------------------------------
(* Operations that are not structural.                                     *)

(* A thread goes to where nothing is asked of it.                          *)
Quits(p) ==
  /\ pc'[p] \notin CheckMarks \cup {"add.track"}
  /\ \/ p \notin Clients
     \/ loc'[p].op = ""
     \/ /\ pc[p] \in OtherLabels \ {"check.add", "check.begin", "end"}
        /\ loc'[p].op = loc[p].op

LEMMA QuitStep ==
  ASSUME Inv, Inv', CheckInv, NEW p \in Threads, Walks(p), Quits(p),
         UNCHANGED <<torrents, nobj, checkWG>>, TrKeeps,
         \A k \in Checkers : canceled[k] => canceled'[k],
         LiveInv => LibLive
  PROVE  Progress
BY SteadyStep, LeavesTo DEF Quits

LEMMA QuitSame ==
  ASSUME Inv, Inv', CheckInv, NEW p \in Threads, Walks(p), Quits(p),
         UNCHANGED <<torrents, tr, nobj, checkWG, canceled>>, UNCHANGED libVars
  PROVE  Progress
BY QuitStep, TrSame2, LiveSame

LEMMA ApplyFlowChecks ==
  ASSUME Inv, Inv', CheckInv, NEW p \in Threads, ApplyFlowDown(p) \/ ApplyFlowUp(p)
  PROVE  Progress
<1>1. /\ pc[p] \in FlowLabels
      /\ Goto(p, "flow.up") \/ Goto(p, loc[p].fk)
      /\ UNCHANGED loc /\ UNCHANGED save
      /\ UNCHANGED <<torrents, tr, nobj, checkWG, canceled, ninst, client>>
  BY DEF ApplyFlowDown, ApplyFlowUp, At, FlowLabels, engineVars, saveVars
<1>2. loc[p].fk \in FlowNext /\ loc[p].ft \in Insts
  BY <1>1, ThreadFacts DEF LocalOK, ReturnsOK
<1>3. Where(p)' = Where(p)
  BY <1>1, <1>2, NextApart, Lands DEF Where, WhereOf, FlowLabels
<1>4. Walks(p)
  BY <1>1 DEF Walks
<1>5. pc'[p] \notin Risky
  BY <1>1, <1>2, RiskyApart, Lands DEF FlowLabels
<1>6. Proceeds(p) /\ pc'[p] # "check.add"
  BY <1>1, <1>3, <1>5, SameTo
<1>7. LiveInv => LibLive
  <2>1. lib[loc[p].ft] \in Instance
    BY <1>2, LibFacts
  <2>2. CASE ApplyFlowDown(p)
    <3> DEFINE y == [lib[loc[p].ft] EXCEPT !.down = loc[p].down]
    <3>1. SetLib(loc[p].ft, y)
      BY <2>2 DEF ApplyFlowDown
    <3>2. y.id = lib[loc[p].ft].id /\ y.live = lib[loc[p].ft].live
      BY <2>1, LibField
    <3> HIDE DEF y
    <3>3. QED
      BY <1>1, <3>1, <3>2, LiveSet
  <2>3. CASE ApplyFlowUp(p)
    <3> DEFINE y == [lib[loc[p].ft] EXCEPT !.up = loc[p].up]
    <3>1. SetLib(loc[p].ft, y)
      BY <2>3 DEF ApplyFlowUp
    <3>2. y.id = lib[loc[p].ft].id /\ y.live = lib[loc[p].ft].live
      BY <2>1, LibField
    <3> HIDE DEF y
    <3>3. QED
      BY <1>1, <3>1, <3>2, LiveSet
  <2>4. QED
    BY <2>2, <2>3
<1>8. QED
  BY <1>1, <1>4, <1>6, <1>7, TrSame2, SteadyStep

LEMMA PersistChecks ==
  ASSUME Inv, Inv', CheckInv, NEW p \in Threads, PersistStep(p)
  PROVE  Progress
<1> USE DEF PersistCheck, SaveGather, SaveMetaCollect, SaveMetaWrite, SaveWrite, SaveDirFails
<1>1. /\ pc[p] \in SaveLabels /\ UNCHANGED loc
      /\ UNCHANGED <<torrents, tr, nobj, checkWG, canceled>> /\ UNCHANGED libVars
      /\ save' = save \/ \E s : SetSave(p, s)
      /\ UNCHANGED pc \/ \E c : Goto(p, c)
  BY DEF PersistStep, At, SaveLabels, engineVars
<1>2. save[p].k \in SaveNext /\ save[p] \in Saving
  BY <1>1, ThreadFacts DEF LocalOK, ReturnsOK
<1>3. Walks(p)
  BY <1>1 DEF Walks
<1>4. \/ pc'[p] \in SaveLabels /\ save'[p].k = save[p].k
      \/ pc'[p] = save[p].k
  <2>1. ASSUME NEW d \in [Ids -> Record \cup {NoRec}] PROVE [save[p] EXCEPT !.draft = d].k = save[p].k
    BY <1>2 DEF Saving
  <2>2. ASSUME NEW d PROVE [save[p] EXCEPT !.todo = d].k = save[p].k
    BY <1>2 DEF Saving
  <2>3. CASE PersistCheck(p) \/ SaveWrite(p) \/ SaveDirFails(p)
    BY <2>3, Lands DEF SaveLabels
  <2>4. CASE SaveGather(p)
    <3>1. Records \in [Ids -> Record \cup {NoRec}]
      BY RecordTypes
    <3>2. QED
      BY <2>1, <2>4, <3>1, Lands DEF SaveLabels
  <2>5. CASE SaveMetaCollect(p)
    BY <2>2, <2>5, Lands DEF SaveLabels
  <2>6. CASE SaveMetaWrite(p)
    <3>1. UNCHANGED pc /\ \E d : SetSave(p, [save[p] EXCEPT !.todo = d])
      BY <2>6
    <3>2. QED
      BY <1>1, <2>2, <3>1, Lands
  <2>7. QED
    BY <2>3, <2>4, <2>5, <2>6 DEF PersistStep
<1>5. Where(p)' = Where(p)
  BY <1>1, <1>2, <1>4, NextApart DEF Where, WhereOf
<1>6. pc'[p] \notin Risky
  BY <1>2, <1>4, RiskyApart
<1>7. Proceeds(p) /\ pc'[p] # "check.add"
  BY <1>1, <1>5, <1>6, SameTo
<1>8. QED
  BY <1>1, <1>3, <1>7, TrSame2, LiveSame, SteadyStep

LEMMA EndOpChecks ==
  ASSUME Inv, Inv', CheckInv, NEW p \in Threads, EndOp(p)
  PROVE  Progress
<1>1. /\ pc[p] = "end" /\ Goto(p, loc[p].ret) /\ UNCHANGED save
      /\ SetLoc(p, IF loc[p].ret = "idle" THEN Loc0 ELSE loc[p])
      /\ UNCHANGED <<torrents, tr, nobj, checkWG, canceled>> /\ UNCHANGED libVars
  BY DEF EndOp, Return, At, saveVars
<1>2. loc[p].op # "" => loc[p].ret = "idle"
  <2>1. pc[p] \notin FlowLabels /\ pc[p] \notin SaveLabels
    BY <1>1 DEF FlowLabels, SaveLabels
  <2>2. QED
    BY <2>1, AtFacts
<1>3. loc'[p].op = ""
  BY <1>1, <1>2, Lands, NullTypes
<1>4. pc'[p] \notin Risky
  <2>1. loc[p].ret \in RetNext
    BY Lands DEF Locals
  <2>2. QED
    BY <1>1, <2>1, RiskyApart, Lands
<1>5. Walks(p) /\ Quits(p)
  BY <1>1, <1>3, <1>4 DEF Walks, Quits, Risky
<1>6. QED
  BY <1>1, <1>5, QuitSame

LEMMA AddSpecChecks ==
  ASSUME Inv, Inv', CheckInv, NEW p \in Threads, AddSpec(p)
  PROVE  Progress
<1> DEFINE i == loc[p].id
           l == [loc[p] EXCEPT !.t = AddedInst(i)]
           b == ~loc[p].magnet
<1>1. /\ AddTorrentSpec(i, loc[p].dir, b) /\ SetLoc(p, l)
      /\ Goto(p, "add.track") /\ pc[p] = "add.spec" /\ UNCHANGED save
      /\ UNCHANGED <<torrents, tr, nobj, checkWG, canceled>>
  BY DEF AddSpec, At, engineVars, saveVars
<1>2. loc[p].op = "" /\ loc[p] \in Locals
  BY <1>1, PlainAt DEF OtherLabels
<1>3. i \in Ids /\ b \in BOOLEAN /\ l.op = "" /\ l.t = AddedInst(i) /\ l.id = i
  BY <1>2 DEF Locals
<1> HIDE DEF i, l, b
<1>4. loc'[p] = l /\ pc'[p] = "add.track"
  BY <1>1, Lands
<1>5. LiveInv => LibLive /\ InstOf(loc[p].t, loc[p].id)'
  <2> SUFFICES ASSUME LiveInv PROVE LibLive /\ InstOf(loc[p].t, loc[p].id)'
    OBVIOUS
  <2>1. /\ LibLive
        /\ AddedInst(i) \in Insts /\ AddedInst(i) <= ninst'
        /\ lib'[AddedInst(i)].id = i /\ lib'[AddedInst(i)].live
    BY <1>1, <1>3, LiveAdd
  <2>2. loc'[p].t \in Insts /\ loc'[p].t <= ninst' /\ lib'[loc'[p].t].id = loc'[p].id
    BY <1>3, <1>4, <2>1
  <2>3. QED
    BY <2>1, <2>2 DEF InstOf
<1>6. Leaves(p)
  BY <1>3, <1>4, <1>5 DEF Leaves, CheckMarks, CountLabels
<1>7. Walks(p)
  BY <1>1 DEF Walks
<1>8. QED
  BY <1>1, <1>4, <1>5, <1>6, <1>7, TrSame2, SteadyStep DEF Proceeds

LEMMA AddSpawnChecks ==
  ASSUME Inv, Inv', CheckInv, NEW p \in Threads, AddSpawn(p)
  PROVE  Progress
<1> DEFINE w == CHOOSE x \in Waiters : At(x, "off")
<1>1. /\ w \in Waiters /\ SetLoc(w, [loc[p] EXCEPT !.ret = "off"])
      /\ \E c \in {"save.check", "end"} : pc' = [pc EXCEPT ![p] = c, ![w] = "wait.info"]
      /\ save' = save \/ \E s : SetSave(p, s)
      /\ UNCHANGED <<torrents, tr, nobj, checkWG, canceled>> /\ UNCHANGED libVars
      /\ pc[p] = "add.spawn" /\ pc[w] = "off"
  BY DEF AddSpawn, At, engineVars
<1> HIDE DEF w
<1>2. w # p /\ w \in Threads /\ w \notin Clients
  BY <1>1, ThreadsAssumption DEF Threads
<1>3. ThreadTypes /\ SaveTypes
  BY ThreadFacts
<1>4. ASSUME NEW q \in Threads, q # p, q # w PROVE Stays(q)
  <2>1. pc'[q] = pc[q]
    BY <1>1, <1>2, <1>3, <1>4 DEF ThreadTypes
  <2>2. loc'[q] = loc[q] /\ save'[q] = save[q]
    BY <1>1, <1>3, <1>4 DEF ThreadTypes, SaveTypes, SetLoc, SetSave
  <2>3. QED
    BY <2>1, <2>2 DEF Stays
<1>5. /\ pc'[w] = "wait.info" /\ pc'[p] \in {"save.check", "end"}
      /\ loc'[p] = loc[p]
  <2>1. loc'[p] = loc[p]
    BY <1>1, <1>2, <1>3 DEF ThreadTypes, SetLoc
  <2>2. QED
    BY <1>1, <1>2, <1>3, <2>1 DEF ThreadTypes
<1>6. Proceeds(p) /\ pc'[p] # "check.add"
  BY <1>1, <1>5, LeavesTo DEF CheckMarks, CountLabels, OtherLabels
<1>7. Proceeds(w) /\ pc'[w] # "check.add"
  BY <1>2, <1>5, LeavesTo DEF CheckMarks, CountLabels
<1>8. QED
  BY <1>1, <1>4, <1>6, <1>7, TrSame2, LiveSame, SteadyFrame

(* cancelCheckLocked cancels, and takes no cancel back.                    *)
LEMMA CancelMore ==
  ASSUME Inv, NEW x, canceled' = Cancel(x)
  PROVE  \A k \in Checkers : canceled[k] => canceled'[k]
BY DEF Cancel

LEMMA PauseChecks ==
  ASSUME Inv, Inv', CheckInv, NEW p \in Threads, PauseStep(p)
  PROVE  Progress
<1>1. /\ loc[p].op = "" /\ loc[p] \in Locals
      /\ pc[p] \in OtherLabels \ {"check.add", "check.begin", "end"}
  <2>1. pc[p] \in OtherLabels \ {"check.add", "check.begin", "end"}
    BY DEF PauseStep, SetPaused, SetPausedChosen, SetPausedMark, SetPausedSave, At, OtherLabels
  <2>2. QED
    BY <2>1, PlainAt
<1>2. CASE SetPaused(p)
  <2> DEFINE o == loc[p].o
             x == [tr[o] EXCEPT !.paused = loc[p].flag]
             k == IF loc[p].flag THEN "pause.save" ELSE "pause.chosen"
  <2>1. /\ SetTr(o, x) /\ SetLoc(p, Decide(loc[p], x, k))
        /\ Goto(p, "flow.down") /\ UNCHANGED save /\ pc[p] = "pause.set"
        /\ canceled' = Cancel(x) \/ UNCHANGED canceled
        /\ UNCHANGED <<torrents, nobj, checkWG>> /\ UNCHANGED libVars
    BY <1>2, Zenon DEF SetPaused, At, saveVars
  <2>2. o \in Objs /\ tr[o] \in Tracked
    <3>1. /\ pc[p] \notin FlowLabels /\ pc[p] \notin SaveLabels /\ pc[p] \in NeedsObj
      BY <2>1 DEF FlowLabels, SaveLabels, NeedsObj
    <3>2. QED
      BY <3>1, AtFacts, ObjOf
  <2>3. x.t = tr[o].t /\ x.cancelCheck = tr[o].cancelCheck
    BY <2>2, TrField, TrField2
  <2>4. loc'[p].op = "" /\ pc'[p] = "flow.down"
    <3>1. ASSUME NEW y, NEW z PROVE Decide(loc[p], y, z).op = loc[p].op
      BY <1>1 DEF Decide, Locals
    <3> HIDE DEF x, k
    <3>2. QED
      BY <1>1, <2>1, <3>1, Lands
  <2> HIDE DEF o, x, k
  <2>5. Walks(p) /\ Quits(p)
    BY <2>1, <2>4 DEF Walks, Quits, CheckMarks, CountLabels
  <2>6. TrKeeps
    BY <2>1, <2>3, TrSet2
  <2>7. QED
    BY <2>1, <2>5, <2>6, CancelMore, LiveSame, QuitStep
<1>3. CASE SetPausedChosen(p)
  <2>1. /\ \E s : SetLoc(p, [loc[p] EXCEPT !.chosen = s]) /\ Goto(p, "pause.mark")
        /\ UNCHANGED <<torrents, tr, nobj, checkWG, canceled>> /\ UNCHANGED libVars
        /\ UNCHANGED save
    BY <1>3 DEF SetPausedChosen, engineVars, saveVars
  <2>2. loc'[p].op = "" /\ pc'[p] = "pause.mark"
    <3>1. PICK s : SetLoc(p, [loc[p] EXCEPT !.chosen = s])
      BY <2>1
    <3>2. [loc[p] EXCEPT !.chosen = s].op = loc[p].op
      BY <1>1, OpOne
    <3>3. QED
      BY <1>1, <2>1, <3>1, <3>2, Lands
  <2>3. Walks(p) /\ Quits(p)
    BY <2>1, <2>2 DEF Walks, Quits, CheckMarks, CountLabels
  <2>4. QED
    BY <2>1, <2>3, QuitSame
<1>4. CASE SetPausedMark(p) \/ SetPausedSave(p)
  <2>1. /\ (\E c \in {"pause.save", "end", "save.check"} : Goto(p, c))
        /\ (save' = save \/ \E s : SetSave(p, s)) /\ UNCHANGED loc
        /\ UNCHANGED <<torrents, tr, nobj, checkWG, canceled>>
    BY <1>4 DEF SetPausedMark, SetPausedSave, Persist, engineVars, saveVars
  <2>2. LiveInv => LibLive
    <3>1. CASE SetPausedMark(p)
      <4>1. /\ UNCHANGED lib \/ \E t, q : SetPrio(t, q)
            /\ UNCHANGED <<ninst, client>>
        BY <3>1 DEF SetPausedMark, MarkWanted
      <4>2. QED
        BY <4>1, LivePrio, LiveSame DEF libVars
    <3>2. CASE SetPausedSave(p)
      BY <3>2, LiveSame DEF SetPausedSave
    <3>3. QED
      BY <1>4, <3>1, <3>2
  <2>3. pc'[p] \in {"pause.save", "end", "save.check"}
    BY <2>1, Lands
  <2>4. Walks(p) /\ Quits(p)
    BY <1>1, <2>1, <2>3 DEF Walks, Quits, CheckMarks, CountLabels
  <2>5. QED
    BY <2>1, <2>2, <2>4, TrSame2, QuitStep
<1>5. QED
  BY <1>1, <1>2, <1>3, <1>4 DEF PauseStep

LEMMA FieldChecks ==
  ASSUME Inv, Inv', CheckInv, NEW p \in Threads, FieldStep(p)
  PROVE  Progress
<1>0. /\ pc[p] \in {"prio.set", "prio.chosen", "rate", "seed", "label"}
      /\ UNCHANGED loc /\ UNCHANGED <<torrents, nobj, checkWG, canceled>>
  BY DEF FieldStep, SetFilePriority, SetFilePriorityChosen, SetTorrentRateLimit,
         SetSeedLimit, SetLabel, At, engineVars
<1>1. loc[p].op = ""
  <2>1. pc[p] \in OtherLabels \ {"check.add", "check.begin", "end"}
    BY <1>0 DEF OtherLabels
  <2>2. QED
    BY <2>1, PlainAt
<1>2. loc[p].o \in Objs /\ tr[loc[p].o] \in Tracked
  <2>1. /\ pc[p] \notin FlowLabels /\ pc[p] \notin SaveLabels /\ pc[p] \in NeedsObj
    BY <1>0 DEF FlowLabels, SaveLabels, NeedsObj
  <2>2. QED
    BY <2>1, AtFacts, ObjOf
<1>3. /\ \E c \in {"prio.chosen", "end", "save.check"} : Goto(p, c)
      /\ save' = save \/ \E s : SetSave(p, s)
  BY DEF FieldStep, SetFilePriority, SetFilePriorityChosen, SetTorrentRateLimit,
         SetSeedLimit, SetLabel, Persist, saveVars
<1>4. pc'[p] \in {"prio.chosen", "end", "save.check"}
  BY <1>3, Lands
<1>5. Walks(p) /\ Quits(p)
  BY <1>0, <1>1, <1>3, <1>4 DEF Walks, Quits, CheckMarks, CountLabels
<1>6. LiveInv => LibLive
  <2>1. CASE SetFilePriority(p)
    <3>1. /\ UNCHANGED lib \/ \E t, q : SetPrio(t, q)
          /\ UNCHANGED <<ninst, client>>
      BY <2>1 DEF SetFilePriority
    <3>2. QED
      BY <3>1, LivePrio, LiveSame DEF libVars
  <2>2. CASE UNCHANGED libVars
    BY <2>2, LiveSame
  <2>3. QED
    BY <2>1, <2>2 DEF FieldStep, SetFilePriorityChosen, SetTorrentRateLimit, SetSeedLimit, SetLabel
<1>7. TrKeeps
  <2>1. CASE SetFilePriority(p)
    BY <2>1, TrSame2 DEF SetFilePriority, engineVars
  <2>2. CASE SetFilePriorityChosen(p)
    <3>1. \E a : SetTr(loc[p].o, [tr[loc[p].o] EXCEPT !.chosenFiles = a])
      BY <2>2 DEF SetFilePriorityChosen
    <3>2. QED
      BY <1>2, <3>1, TrField, TrField2, TrSet2
  <2>3. CASE SetTorrentRateLimit(p)
    <3>1. PICK up \in {-1, 0, 1}, down \in {-1, 0, 1} :
            SetTr(loc[p].o, [tr[loc[p].o] EXCEPT !.upLimit = IF up >= 0 THEN up ELSE @,
                                                 !.downLimit = IF down >= 0 THEN down ELSE @])
      BY <2>3 DEF SetTorrentRateLimit
    <3>2. ASSUME NEW x \in Tracked
          PROVE  LET z == [x EXCEPT !.upLimit = IF up >= 0 THEN up ELSE @,
                                    !.downLimit = IF down >= 0 THEN down ELSE @]
                 IN z.t = x.t /\ z.cancelCheck = x.cancelCheck
      BY DEF Tracked
    <3>3. QED
      BY <1>2, <3>1, <3>2, TrSet2
  <2>4. CASE SetSeedLimit(p)
    <3>1. \E a : SetTr(loc[p].o, [tr[loc[p].o] EXCEPT !.seedLimit = a])
      BY <2>4 DEF SetSeedLimit
    <3>2. QED
      BY <1>2, <3>1, TrField, TrField2, TrSet2
  <2>5. CASE SetLabel(p)
    <3>1. \E a : SetTr(loc[p].o, [tr[loc[p].o] EXCEPT !.label = a])
      BY <2>5 DEF SetLabel
    <3>2. QED
      BY <1>2, <3>1, TrField, TrField2, TrSet2
  <2>6. QED
    BY <2>1, <2>2, <2>3, <2>4, <2>5 DEF FieldStep
<1>8. QED
  BY <1>0, <1>5, <1>6, <1>7, QuitStep

LEMMA StreamChecks ==
  ASSUME Inv, Inv', CheckInv, NEW p \in Threads, StreamStep(p)
  PROVE  Progress
<1>1. /\ loc[p].op = "" /\ loc[p] \in Locals
      /\ pc[p] \in OtherLabels \ {"check.add", "check.begin", "end"}
  <2>1. pc[p] \in OtherLabels \ {"check.add", "check.begin", "end"}
    BY DEF StreamStep, PrepareStreamPaused, PrepareStreamResume, PrepareStreamPrio, At, OtherLabels
  <2>2. QED
    BY <2>1, PlainAt
<1>2. /\ UNCHANGED save /\ UNCHANGED libVars
      /\ UNCHANGED <<torrents, tr, nobj, checkWG, canceled>>
  BY DEF StreamStep, PrepareStreamPaused, PrepareStreamResume, PrepareStreamPrio,
         engineVars, saveVars
<1>3. /\ \E c \in {"stream.resume", "stream.prio", "end", "pause.set", "prio.set"} : Goto(p, c)
      /\ \/ UNCHANGED loc
         \/ \E o : SetLoc(p, [loc[p] EXCEPT !.o = o, !.flag = FALSE, !.ret = "stream.prio"])
         \/ \E o : SetLoc(p, [loc[p] EXCEPT !.o = o, !.prio = "high", !.ret = "idle"])
         \/ SetLoc(p, [loc[p] EXCEPT !.ret = "idle"])
  BY DEF StreamStep, PrepareStreamPaused, PrepareStreamResume, PrepareStreamPrio
<1>4. pc'[p] \in {"stream.resume", "stream.prio", "end", "pause.set", "prio.set"}
  BY <1>3, Lands
<1>5. loc'[p].op = ""
  <2>1. ASSUME NEW l \in Locals, NEW o
        PROVE  /\ [l EXCEPT !.o = o, !.flag = FALSE, !.ret = "stream.prio"].op = l.op
               /\ [l EXCEPT !.o = o, !.prio = "high", !.ret = "idle"].op = l.op
               /\ [l EXCEPT !.ret = "idle"].op = l.op
    BY DEF Locals
  <2>2. ASSUME NEW l, SetLoc(p, l), l.op = loc[p].op PROVE loc'[p].op = ""
    BY <1>1, <2>2, Lands
  <2>3. CASE \E o : SetLoc(p, [loc[p] EXCEPT !.o = o, !.flag = FALSE, !.ret = "stream.prio"])
    <3>1. PICK o : SetLoc(p, [loc[p] EXCEPT !.o = o, !.flag = FALSE, !.ret = "stream.prio"])
      BY <2>3
    <3>2. [loc[p] EXCEPT !.o = o, !.flag = FALSE, !.ret = "stream.prio"].op = loc[p].op
      BY <1>1, <2>1
    <3>3. QED
      BY <2>2, <3>1, <3>2
  <2>4. CASE \E o : SetLoc(p, [loc[p] EXCEPT !.o = o, !.prio = "high", !.ret = "idle"])
    <3>1. PICK o : SetLoc(p, [loc[p] EXCEPT !.o = o, !.prio = "high", !.ret = "idle"])
      BY <2>4
    <3>2. [loc[p] EXCEPT !.o = o, !.prio = "high", !.ret = "idle"].op = loc[p].op
      BY <1>1, <2>1
    <3>3. QED
      BY <2>2, <3>1, <3>2
  <2>5. CASE UNCHANGED loc \/ SetLoc(p, [loc[p] EXCEPT !.ret = "idle"])
    BY <1>1, <2>1, <2>2, <2>5
  <2>6. QED
    BY <1>3, <2>3, <2>4, <2>5
<1>6. Walks(p) /\ Quits(p)
  BY <1>2, <1>3, <1>4, <1>5 DEF Walks, Quits, CheckMarks, CountLabels
<1>7. QED
  BY <1>2, <1>6, QuitSame

LEMMA WaiterChecks ==
  ASSUME Inv, Inv', CheckInv, NEW p \in Waiters \cup Checkers, WaiterStep(p)
  PROVE  Progress
<1> DEFINE W == {"off", "wait.mark", "wait.select", "wait.chosen", "wait.save", "save.check"}
<1>1. p \in Threads /\ p \notin Clients
  BY ThreadsAssumption DEF Threads
<1>2. /\ \E c \in W : Goto(p, c)
      /\ UNCHANGED loc \/ \E l : SetLoc(p, l)
      /\ save' = save \/ \E s : SetSave(p, s)
  BY DEF WaiterStep, WaitInfo, WaitMark, WaitSelect, WaitChosen, WaitSave, Persist, saveVars
<1>3. pc'[p] \in W
  BY <1>1, <1>2, Lands
<1>4. Walks(p) /\ Quits(p)
  BY <1>1, <1>2, <1>3 DEF Walks, Quits, CheckMarks, CountLabels
<1>5. UNCHANGED <<torrents, nobj, checkWG, canceled>>
  BY DEF WaiterStep, WaitInfo, WaitMark, WaitSelect, WaitChosen, WaitSave, engineVars
<1>6. TrKeeps
  <2>1. CASE WaitChosen(p)
    <3>1. \/ UNCHANGED tr
          \/ /\ torrents[loc[p].id] # NoObj
             /\ SetTr(torrents[loc[p].id],
                      [tr[torrents[loc[p].id]] EXCEPT !.chosenFiles = Files])
      BY <2>1 DEF WaitChosen
    <3> DEFINE o == torrents[loc[p].id]
               x == [tr[o] EXCEPT !.chosenFiles = Files]
    <3>2. o # NoObj => x.t = tr[o].t /\ x.cancelCheck = tr[o].cancelCheck
      <4>1. loc[p].id \in Ids
        BY <1>1, Lands DEF Locals
      <4>2. o # NoObj => tr[o] \in Tracked
        BY <4>1, ObjFor
      <4>3. QED
        BY <4>2, TrField, TrField2
    <3>3. UNCHANGED tr \/ (o # NoObj /\ SetTr(o, x))
      BY <3>1
    <3> HIDE DEF o, x
    <3>4. QED
      BY <3>2, <3>3, TrSet2, TrSame2
  <2>2. CASE WaitInfo(p) \/ WaitMark(p) \/ WaitSelect(p) \/ WaitSave(p)
    BY <2>2, TrSame2 DEF WaitInfo, WaitMark, WaitSelect, WaitSave, engineVars
  <2>3. QED
    BY <2>1, <2>2 DEF WaiterStep
<1>7. LiveInv => LibLive
  <2>1. CASE WaitMark(p) \/ WaitSelect(p)
    <3>1. (\E t, q : SetPrio(t, q)) /\ UNCHANGED <<ninst, client>>
      BY <2>1 DEF WaitMark, WaitSelect, MarkWanted
    <3>2. QED
      BY <3>1, LivePrio
  <2>2. CASE WaitInfo(p) \/ WaitChosen(p) \/ WaitSave(p)
    BY <2>2, LiveSame DEF WaitInfo, WaitChosen, WaitSave
  <2>3. QED
    BY <2>1, <2>2 DEF WaiterStep
<1>8. QED
  BY <1>1, <1>4, <1>5, <1>6, <1>7, QuitStep

-----------------------------------------------------------------------------
(* The tick, the main goroutine, and the network.                          *)

(* A tick's decisions give no struct another instance or verification.     *)
LEMMA TickKeeps ==
  ASSUME Inv, TickDecide
  PROVE  TrKeeps
<1>1. PICK down \in [TrackedIds -> Rates], up \in [TrackedIds -> Rates] :
       LET rated(i) == [tr[torrents[i]] EXCEPT !.lastDownBPS = down[i], !.lastUpBPS = up[i]]
           finished == {i \in TrackedIds : Complete(tr[torrents[i]].t)}
           ticked(i) == [rated(i) EXCEPT !.completeLogged = @ \/ i \in finished,
                                         !.completedAt = @ \/ i \in finished]
       IN tr' = [o \in Objs |->
                   IF \E i \in TrackedIds : torrents[i] = o
                   THEN ticked(CHOOSE i \in TrackedIds : torrents[i] = o)
                   ELSE tr[o]]
  BY DEF TickDecide
<1> DEFINE rated(i) == [tr[torrents[i]] EXCEPT !.lastDownBPS = down[i], !.lastUpBPS = up[i]]
           finished == {i \in TrackedIds : Complete(tr[torrents[i]].t)}
           ticked(i) == [rated(i) EXCEPT !.completeLogged = @ \/ i \in finished,
                                         !.completedAt = @ \/ i \in finished]
<1>2. tr' = [o \in Objs |->
               IF \E i \in TrackedIds : torrents[i] = o
               THEN ticked(CHOOSE i \in TrackedIds : torrents[i] = o)
               ELSE tr[o]]
  BY <1>1, Zenon
<1>3. ASSUME NEW i \in TrackedIds
      PROVE  ticked(i).t = tr[torrents[i]].t /\ ticked(i).cancelCheck = tr[torrents[i]].cancelCheck
  <2>1. tr[torrents[i]] \in Tracked
    BY ObjFor DEF TrackedIds
  <2>2. /\ rated(i) \in Tracked /\ rated(i).t = tr[torrents[i]].t
        /\ rated(i).cancelCheck = tr[torrents[i]].cancelCheck
    <3>1. ASSUME NEW y \in Tracked, NEW a \in Rates, NEW b \in Rates
          PROVE  [y EXCEPT !.lastDownBPS = a, !.lastUpBPS = b] \in Tracked
      BY DEF Tracked
    <3>2. down[i] \in Rates /\ up[i] \in Rates
      OBVIOUS
    <3>3. rated(i) \in Tracked
      BY <2>1, <3>1, <3>2
    <3>4. rated(i).t = tr[torrents[i]].t /\ rated(i).cancelCheck = tr[torrents[i]].cancelCheck
      BY <2>1 DEF Tracked
    <3>5. QED
      BY <3>3, <3>4
  <2> HIDE DEF rated, finished
  <2>3. ASSUME NEW y \in Tracked, NEW b
        PROVE  LET z == [y EXCEPT !.completeLogged = @ \/ b, !.completedAt = @ \/ b]
               IN z.t = y.t /\ z.cancelCheck = y.cancelCheck
    BY DEF Tracked
  <2>4. QED
    BY <2>2, <2>3
<1> HIDE DEF rated, finished, ticked
<1>4. QED
  BY <1>2, <1>3 DEF TrKeeps

LEMMA TickChecks ==
  ASSUME Inv, Inv', CheckInv, TickStep
  PROVE  Progress
<1> DEFINE W == {"tick", "tick.disk", "tick.decide", "tick.apply", "tick.stop", "tick.hook",
                 "flow.down", "pause.set", "save.check"}
<1>1. Tick \in Threads /\ Tick \notin Clients
  BY ThreadsAssumption, MainThreads
<1>2. /\ \/ \E c \in W : Goto(Tick, c)
         \/ UNCHANGED pc /\ pc[Tick] \in W
      /\ UNCHANGED loc \/ \E l : SetLoc(Tick, l)
      /\ save' = save \/ \E s : SetSave(Tick, s)
  BY DEF TickStep, TickStart, TickDisk, TickDecide, TickApply, TickStop, TickHook, Persist,
         At, saveVars
<1>3. pc'[Tick] \in W
  BY <1>1, <1>2, Lands
<1>4. Walks(Tick) /\ Quits(Tick)
  BY <1>1, <1>2, <1>3 DEF Walks, Quits, CheckMarks, CountLabels
<1>5. UNCHANGED <<torrents, nobj, checkWG, canceled>> /\ UNCHANGED libVars
  BY DEF TickStep, TickStart, TickDisk, TickDecide, TickApply, TickStop, TickHook, engineVars
<1>6. TrKeeps
  <2>1. TickDecide \/ UNCHANGED tr
    BY DEF TickStep, TickStart, TickDisk, TickApply, TickStop, TickHook, engineVars
  <2>2. QED
    BY <2>1, TickKeeps, TrSame2
<1>7. QED
  BY <1>1, <1>4, <1>5, <1>6, LiveSame, QuitStep

LEMMA NewChecks ==
  ASSUME Inv, Inv', CheckInv, New
  PROVE  Progress
<1>1. /\ pc' = [pc EXCEPT ![Main] = "restore.read", ![Tick] = "tick"]
      /\ UNCHANGED loc /\ UNCHANGED save /\ UNCHANGED libVars
      /\ UNCHANGED <<torrents, tr, nobj, checkWG, canceled>>
  BY DEF New, engineVars, saveVars
<1>2. /\ \A q \in Threads \ {Main, Tick} : Stays(q)
      /\ pc'[Main] = "restore.read" /\ pc'[Tick] = "tick"
  <2>1. ThreadTypes
    BY MainThreads, ThreadFacts
  <2>2. QED
    BY <1>1, <2>1, MainThreads DEF ThreadTypes, Stays
<1>3. \A q \in {Main, Tick} : Proceeds(q) /\ pc'[q] # "check.add"
  <2>1. \A q \in {Main, Tick} : q \in Threads /\ q \notin Clients
    BY MainThreads, ThreadsAssumption
  <2>2. \A q \in {Main, Tick} : pc'[q] \notin CheckMarks \cup {"add.track"}
    BY <1>2 DEF CheckMarks, CountLabels
  <2>3. QED
    BY <2>1, <2>2, LeavesTo
<1>4. QED
  BY <1>1, <1>2, <1>3, TrSame2, LiveSame, SteadyFrame

LEMMA RestoreKeeps ==
  ASSUME Inv, RestoreStep
  PROVE  TrKeeps
<1> DEFINE o == torrents[loc[Main].id]
<1>1. o \in Objs => tr[o] \in Tracked
  BY TrTyped
<1>2. CASE RestoreLimits
  <2>1. \/ UNCHANGED tr
        \/ \E a, b : SetTr(o, [tr[o] EXCEPT !.upLimit = a, !.downLimit = b])
    BY <1>2 DEF RestoreLimits
  <2> HIDE DEF o
  <2>2. ASSUME NEW a, NEW b, SetTr(o, [tr[o] EXCEPT !.upLimit = a, !.downLimit = b])
        PROVE  TrKeeps
    <3> DEFINE x == [tr[o] EXCEPT !.upLimit = a, !.downLimit = b]
    <3>1. o \in Objs => x.t = tr[o].t /\ x.cancelCheck = tr[o].cancelCheck
      BY <1>1, TrField, TrField2
    <3>2. SetTr(o, x)
      BY <2>2
    <3> HIDE DEF x
    <3>3. QED
      BY <3>1, <3>2, TrSet2
  <2>3. QED
    BY <2>1, <2>2, TrSame2
<1>3. CASE RestoreFinal
  <2> DEFINE r == rs[loc[Main].id]
             x == [tr[o] EXCEPT !.base = r.downloaded, !.seedLimit = r.seedLimit,
                                !.completedAt = r.completedAt, !.label = r.label,
                                !.completeLogged = r.completedAt]
  <2>1. SetTr(o, x)
    BY <1>3, Zenon DEF RestoreFinal
  <2>2. o \in Objs => x.t = tr[o].t /\ x.cancelCheck = tr[o].cancelCheck
    BY <1>1 DEF Tracked
  <2> HIDE DEF o, r, x
  <2>3. QED
    BY <2>1, <2>2, TrSet2
<1>4. CASE RestoreRead \/ RestoreNext \/ RestorePrios \/ RestoreDone
  BY <1>4, TrSame2 DEF RestoreRead, RestoreNext, RestorePrios, RestoreDone, engineVars
<1>5. QED
  BY <1>2, <1>3, <1>4 DEF RestoreStep

LEMMA MainChecks ==
  ASSUME Inv, Inv', CheckInv, RestoreStep \/ CloseCancel \/ Close
  PROVE  Progress
<1> DEFINE W == {"restore.next", "restore.prios", "restore.final", "up", "add.spec", "prio.set",
                 "close.cancel", "close.wait", "save.check"}
<1> USE DEF RestoreRead, RestoreNext, RestoreLimits, RestorePrios, RestoreFinal, RestoreDone
<1>1. Main \in Threads /\ Main \notin Clients
  BY ThreadsAssumption, MainThreads
<1>2. /\ \/ \E c \in W : Goto(Main, c)
         \/ UNCHANGED pc /\ pc[Main] \in W
      /\ UNCHANGED loc \/ \E l : SetLoc(Main, l)
      /\ save' = save \/ \E s : SetSave(Main, s)
  <2>1. CASE RestoreStep
    BY <2>1 DEF RestoreStep, Persist, At, saveVars
  <2>2. CASE CloseCancel \/ Close
    BY <2>2 DEF CloseCancel, Close, Persist, saveVars
  <2>3. QED
    BY <2>1, <2>2
<1>3. pc'[Main] \in W
  BY <1>1, <1>2, Lands
<1>4. Walks(Main) /\ Quits(Main)
  BY <1>1, <1>2, <1>3 DEF Walks, Quits, CheckMarks, CountLabels
<1>5. UNCHANGED <<torrents, nobj, checkWG>> /\ UNCHANGED libVars
  BY DEF RestoreStep, CloseCancel, Close, engineVars
<1>6. \A k \in Checkers : canceled[k] => canceled'[k]
  <2>1. CASE CloseCancel
    BY <2>1 DEF CloseCancel
  <2>2. CASE RestoreStep \/ Close
    BY <2>2 DEF RestoreStep, Close, engineVars
  <2>3. QED
    BY <2>1, <2>2
<1>7. TrKeeps
  BY RestoreKeeps, TrSame2 DEF CloseCancel, Close, engineVars
<1>8. QED
  BY <1>1, <1>4, <1>5, <1>6, <1>7, LiveSame, QuitStep

LEMMA NetworkChecks ==
  ASSUME Inv, Inv', CheckInv, Network
  PROVE  Progress
<1>1. PICK t \in Insts :
        /\ \/ (GotInfo(t) \/ Transfer(t)) /\ UNCHANGED data
           \/ Finish(t) /\ UNCHANGED budget
        /\ UNCHANGED <<engineVars, ninst, client, guardVars, session, metainfo,
                       saveVars, mainVars, pc, loc, tk, hooks>>
  BY DEF Network
<1>2. LiveInv => LibLive
  <2>1. lib[t] \in Instance
    BY LibFacts
  <2>2. CASE GotInfo(t)
    <3>1. SetLib(t, [lib[t] EXCEPT !.info = TRUE])
      BY <2>2 DEF GotInfo
    <3>2. QED
      BY <1>1, <2>1, <3>1, LibField, LiveSet
  <2>3. CASE Transfer(t)
    <3>1. SetLib(t, [lib[t] EXCEPT !.bytes = @ + 1])
      BY <2>3 DEF Transfer
    <3>2. [lib[t] EXCEPT !.bytes = @ + 1] = [lib[t] EXCEPT !.bytes = lib[t].bytes + 1]
      BY <2>1 DEF Instance
    <3>3. QED
      BY <1>1, <2>1, <3>1, <3>2, LibField, LiveSet
  <2>4. CASE Finish(t)
    <3>1. SetLib(t, [lib[t] EXCEPT !.have = TRUE])
      BY <2>4 DEF Finish
    <3>2. QED
      BY <1>1, <2>1, <3>1, LibField, LiveSet
  <2>5. QED
    BY <1>1, <2>2, <2>3, <2>4
<1>3. UNCHANGED <<torrents, tr, nobj, checkWG, canceled, pc, loc, save>>
  BY <1>1 DEF engineVars, saveVars
<1>4. \A q \in Threads : Stays(q)
  BY <1>3 DEF Stays
<1>5. QED
  BY <1>2, <1>3, <1>4, TrSame2, SteadyFrame

LEMMA StillChecks ==
  ASSUME Inv, Inv', CheckInv, UNCHANGED vars
  PROVE  Progress
<1>1. UNCHANGED <<torrents, tr, nobj, checkWG, canceled, pc, loc, save>> /\ UNCHANGED libVars
  BY DEF vars, engineVars, saveVars
<1>2. \A q \in Threads : Stays(q)
  BY <1>1 DEF Stays
<1>3. QED
  BY <1>1, <1>2, TrSame2, LiveSame, SteadyFrame

-----------------------------------------------------------------------------
(* The calls clients make.                                                 *)

LEMMA CallChecks ==
  ASSUME Inv, Inv', CheckInv, NEW p \in Clients, NEW op, NEW c, NEW l, Call(p, op, c, l),
         l.op = "", c \notin CheckMarks \cup {"add.track"}
  PROVE  Progress
<1>1. p \in Threads
  BY DEF Threads, Callers
<1>2. /\ Goto(p, c) /\ SetLoc(p, l) /\ UNCHANGED save
      /\ UNCHANGED <<torrents, tr, nobj, checkWG, canceled>> /\ UNCHANGED libVars
  BY DEF Call, engineVars, saveVars
<1>3. pc'[p] = c /\ loc'[p] = l
  BY <1>1, <1>2, Lands
<1>4. Walks(p) /\ Quits(p)
  BY <1>2, <1>3 DEF Walks, Quits
<1>5. QED
  BY <1>1, <1>2, <1>4, QuitSame

LEMMA CallStructChecks ==
  ASSUME Inv, Inv', CheckInv, NEW p \in Clients, CallStruct(p)
  PROVE  Progress
<1>1. p \in Threads
  BY DEF Threads, Callers
<1>2. PICK i \in Ids, op \in {"remove", "purge", "move"}, d \in Dirs, flag \in BOOLEAN :
        /\ torrents[i] # NoObj
        /\ Call(p, op, "op.lock", [Found(i) EXCEPT !.op = op, !.dir = d, !.flag = flag])
  BY DEF CallStruct
<1> DEFINE l == [Found(i) EXCEPT !.op = op, !.dir = d, !.flag = flag]
<1>3. l.op = op /\ l.id = i /\ l.o = torrents[i]
  <2>1. Found(i) \in Locals /\ Found(i).o = torrents[i] /\ Found(i).id = i
    <3>1. Found(i) \in Locals /\ Found(i).o = torrents[i]
      BY <1>2, FoundFacts
    <3>2. \A a, b : [Loc0 EXCEPT !.id = a, !.o = b].id = a
      BY NullTypes DEF Locals
    <3>3. Found(i).id = i
      BY <3>2, Zenon DEF Found
    <3>4. QED
      BY <3>1, <3>3
  <2>2. ASSUME NEW m \in Locals, NEW a, NEW b, NEW c
        PROVE  LET n == [m EXCEPT !.op = a, !.dir = b, !.flag = c]
               IN  n.op = a /\ n.id = m.id /\ n.o = m.o
    BY DEF Locals
  <2>3. QED
    BY <2>1, <2>2
<1>4. Call(p, op, "op.lock", l)
  BY <1>2
<1> HIDE DEF l
<1>5. /\ Goto(p, "op.lock") /\ SetLoc(p, l) /\ UNCHANGED save /\ op \in Ops
      /\ UNCHANGED <<torrents, tr, nobj, checkWG, canceled>> /\ UNCHANGED libVars
  BY <1>4 DEF Call, engineVars, saveVars
<1>6. pc'[p] = "op.lock" /\ loc'[p] = l
  BY <1>1, <1>5, Lands
<1>7. Walks(p) /\ Enters(p)
  BY <1>3, <1>5, <1>6 DEF Walks, Enters
<1>8. QED
  BY <1>1, <1>5, <1>6, <1>7, TrSame2, LiveSame, SteadyStep DEF Proceeds

LEMMA ClientCallsChecks ==
  ASSUME Inv, Inv', CheckInv, "recheck" \notin Ops, NEW p \in Clients, ClientCalls(p)
  PROVE  Progress
<1>0. \A c \in {"add.spec", "pause.set", "prio.set", "rate", "seed", "label", "stream.paused"} :
        c \notin CheckMarks \cup {"add.track"}
  BY DEF CheckMarks, CountLabels
<1>1. CASE CallAdd(p)
  <2>1. PICK i \in Ids, opts \in AddOpts :
          Call(p, "add", "add.spec",
               [Loc0 EXCEPT !.id = i, !.dir = opts.dir, !.magnet = opts.magnet,
                            !.flag = opts.paused, !.pick = opts.pick, !.sel = opts.sel])
    BY <1>1 DEF CallAdd
  <2> DEFINE n == [Loc0 EXCEPT !.id = i, !.dir = opts.dir, !.magnet = opts.magnet,
                         !.flag = opts.paused, !.pick = opts.pick, !.sel = opts.sel]
  <2>2. n.op = ""
    BY NullTypes DEF Locals
  <2> HIDE DEF n
  <2>3. Call(p, "add", "add.spec", n)
    BY <2>1 DEF n
  <2>4. QED
    BY <1>0, <2>2, <2>3, CallChecks
<1>2. CASE CallSetPaused(p)
  <2>1. PICK i \in Ids, b \in BOOLEAN :
          torrents[i] # NoObj /\ Call(p, "pause", "pause.set", [Found(i) EXCEPT !.flag = b])
    BY <1>2 DEF CallSetPaused
  <2>2. [Found(i) EXCEPT !.flag = b].op = ""
    BY <2>1, FoundFacts, OpOne
  <2>3. QED
    BY <1>0, <2>1, <2>2, CallChecks
<1>3. CASE CallSetFilePriority(p)
  <2>1. PICK i \in Ids, f \in Files, q \in SetPrios :
          /\ torrents[i] # NoObj
          /\ Call(p, "prio", "prio.set", [Found(i) EXCEPT !.file = f, !.prio = q])
    BY <1>3 DEF CallSetFilePriority
  <2>2. [Found(i) EXCEPT !.file = f, !.prio = q].op = ""
    <3>1. Found(i) \in Locals /\ Found(i).op = ""
      BY <2>1, FoundFacts
    <3>2. ASSUME NEW l \in Locals PROVE [l EXCEPT !.file = f, !.prio = q].op = l.op
      BY DEF Locals
    <3>3. QED
      BY <3>1, <3>2
  <2>3. QED
    BY <1>0, <2>1, <2>2, CallChecks
<1>4. CASE CallSetter(p)
  <2>1. PICK i \in Ids, op \in {"rate", "seed", "label"} :
          torrents[i] # NoObj /\ Call(p, op, op, Found(i))
    BY <1>4 DEF CallSetter
  <2>2. QED
    BY <1>0, <2>1, CallChecks, FoundFacts
<1>5. CASE CallPrepareStream(p)
  <2>1. PICK i \in Ids, f \in Files :
          /\ torrents[i] # NoObj
          /\ Call(p, "stream", "stream.paused",
                  [Found(i) EXCEPT !.file = f, !.t = tr[torrents[i]].t])
    BY <1>5 DEF CallPrepareStream
  <2>2. [Found(i) EXCEPT !.file = f, !.t = tr[torrents[i]].t].op = ""
    <3>1. Found(i) \in Locals /\ Found(i).op = ""
      BY <2>1, FoundFacts
    <3>2. ASSUME NEW l \in Locals PROVE [l EXCEPT !.file = f, !.t = tr[torrents[i]].t].op = l.op
      BY DEF Locals
    <3>3. QED
      BY <3>1, <3>2
  <2>3. QED
    BY <1>0, <2>1, <2>2, CallChecks
<1>6. ~CallForceRecheck(p)
  BY DEF CallForceRecheck, Call
<1>7. CASE CallStruct(p)
  BY <1>7, CallStructChecks
<1>8. QED
  BY <1>1, <1>2, <1>3, <1>4, <1>5, <1>6, <1>7 DEF ClientCalls

-----------------------------------------------------------------------------
(* Structural operations.                                                  *)

(* A thread at work on a structural operation.                             *)
LEMMA WorkAt ==
  ASSUME Inv, NEW p \in Threads, pc[p] \in QuietLabels
  PROVE  /\ pc[p] \in StructLabels /\ AtWork(p) /\ p \in Clients
         /\ loc[p] \in Locals /\ loc[p].op # ""
         /\ loc[p].o \in Objs /\ loc[p].o <= nobj /\ tr[loc[p].o] \in Tracked
         /\ loc[p].id \in Ids
<1>1. pc[p] \in StructLabels
  BY DEF QuietLabels
<1>2. Where(p) = pc[p]
  BY <1>1, StructWhere DEF Where
<1>3. QED
  BY <1>1, <1>2, StructAt DEF AtWork

LEMMA WorkStep ==
  ASSUME Inv, Inv', CheckInv, NEW p \in Threads, pc[p] \in QuietLabels, Walks(p),
         pc'[p] \notin Risky,
         loc'[p].op = loc[p].op, loc'[p].o = loc[p].o, loc'[p].id = loc[p].id,
         UNCHANGED <<torrents, nobj, checkWG, canceled>>, TrKeeps,
         LiveInv => LibLive
  PROVE  Progress
<1>1. Proceeds(p) /\ pc'[p] # "check.add"
  BY WorkAt, WorksTo
<1>2. QED
  BY <1>1, SteadyStep

LEMMA LockChecks ==
  ASSUME Inv, Inv', CheckInv, NEW p \in Threads, LockOp(p) \/ QuiesceCancel(p) \/ QuiesceWait(p)
  PROVE  Progress
<1>1. /\ pc[p] \in OpLabels
      /\ Goto(p, "op.cancel") \/ Goto(p, "op.wait")
           \/ (Goto(p, loc[p].op) /\ checkWG[loc[p].o] = 0)
      /\ UNCHANGED loc /\ UNCHANGED save /\ UNCHANGED <<torrents, tr, nobj, checkWG>>
      /\ UNCHANGED libVars
      /\ canceled' = Cancel(tr[loc[p].o]) \/ UNCHANGED canceled
  BY DEF LockOp, QuiesceCancel, QuiesceWait, At, OpLabels, engineVars, saveVars
<1>2. pc[p] \in StructLabels
  BY <1>1 DEF OpLabels, StructLabels
<1>3. loc[p].op \in {"remove", "purge", "move"} /\ p \in Clients
  BY <1>2, StructAt DEF Locals
<1>4. \/ pc'[p] \in {"op.cancel", "op.wait"}
      \/ pc'[p] = loc[p].op /\ checkWG[loc[p].o] = 0
  BY <1>1, Lands
<1>5. loc'[p] = loc[p]
  BY <1>1
<1>6. pc'[p] \in {"op.cancel", "op.wait", "remove", "purge", "move"}
  BY <1>3, <1>4
<1>7. pc'[p] \notin CountLabels \cup {"check.begin", "check.add", "add.track"} \cup NeedsFresh
  BY <1>6, SMTT(30) DEF CountLabels, NeedsFresh
<1>8. AtWork(p)' => checkWG[loc[p].o] = 0
  <2>1. ASSUME pc'[p] \in {"op.cancel", "op.wait"} PROVE ~AtWork(p)'
    <3>1. Where(p)' = pc'[p]
      BY <2>1 DEF Where, WhereOf, FlowLabels, SaveLabels
    <3>2. QED
      BY <2>1, <3>1 DEF AtWork, QuietLabels, OpLabels
  <2>2. QED
    BY <1>4, <2>1
<1>9. KeepsAll(pc[p], loc[p]) => KeepsAll(pc'[p], loc'[p])
  BY <1>1, <1>4, <1>5, <1>6 DEF KeepsAll, RemoveLabels, OpLabels
<1>10. Works(p)
  BY <1>3, <1>5, <1>7, <1>8, <1>9 DEF Works
<1>11. Walks(p)
  BY <1>1 DEF Walks
<1>12. QED
  BY <1>1, <1>7, <1>10, <1>11, CancelMore, TrSame2, LiveSame, SteadyStep DEF Proceeds

LEMMA RemoveChecks ==
  ASSUME Inv, Inv', CheckInv, NEW p \in Threads, RemoveStep(p)
  PROVE  Progress
<1> USE DEF RemoveDelete, RemoveDrop, RemoveFiles, RemoveMeta
<1>1. /\ pc[p] \in RemoveLabels /\ UNCHANGED loc
      /\ \E c \in {"end", "remove.drop", "remove.files", "remove.meta", "save.check"} : Goto(p, c)
      /\ save' = save \/ \E s : SetSave(p, s)
      /\ UNCHANGED <<tr, nobj, checkWG, canceled>>
  BY DEF RemoveStep, At, RemoveLabels, Persist, engineVars, saveVars
<1>2. pc[p] \in QuietLabels
  BY <1>1 DEF RemoveLabels, QuietLabels, StructLabels, OpLabels
<1>3. AtWork(p) /\ p \in Clients /\ loc[p].op # ""
  BY <1>2, WorkAt
<1>4. loc'[p] = loc[p] /\ pc'[p] \in {"end", "remove.drop", "remove.files", "remove.meta", "save.check"}
  BY <1>1, Lands
<1>5. ~KeepsAll(pc[p], loc[p])
  BY <1>1 DEF KeepsAll
<1>6. pc'[p] \notin CountLabels \cup {"check.begin", "add.track"} \cup NeedsFresh
  BY <1>4, SMTT(30) DEF CountLabels, NeedsFresh
<1>7. Works(p)
  BY <1>3, <1>4, <1>5, <1>6 DEF Works
<1>8. \A q \in Threads : Proceeds(q)
  <2>1. Walks(p)
    BY <1>1 DEF Walks
  <2>2. QED
    BY <1>7, <2>1, WalksStays DEF Proceeds
<1>9. CheckInv'
  BY <1>1, <1>8, CheckFrame DEF CheckKept
<1>10. ~LiveInv
  BY <1>5 DEF LiveInv, LiveOK
<1>11. QED
  BY <1>9, <1>10 DEF Progress

(* What the steps of a purge or move leave of the operation's locals.      *)
LEMMA WorkFields ==
  ASSUME NEW l \in Locals, NEW a, NEW b
  PROVE  /\ LET m == [l EXCEPT !.t = a] IN m.op = l.op /\ m.o = l.o /\ m.id = l.id
         /\ LET m == [l EXCEPT !.ft = a] IN m.op = l.op /\ m.o = l.o /\ m.id = l.id /\ m.ft = a
         /\ LET m == [l EXCEPT !.prios = a] IN m.op = l.op /\ m.o = l.o /\ m.id = l.id
         /\ LET m == [l EXCEPT !.t = a, !.old = b] IN m.op = l.op /\ m.o = l.o /\ m.id = l.id
BY DEF Locals

(* Labels that are safe to go to.                                          *)
LEMMA SafeLabels ==
  \A c \in {"end", "save.check", "flow.down", "purge.hold", "purge.drop", "purge.readd",
            "purge.failed", "purge.delete", "move.mkdir", "move.hold", "move.files",
            "move.fold", "move.failed", "move.drop", "move.lost", "move.readd"} : c \notin Risky
BY SMTT(30) DEF Risky, CheckMarks, CountLabels, NeedsFresh, RemoveLabels, OpLabels

LEMMA ReadChecks ==
  ASSUME Inv, Inv', CheckInv, NEW p \in Threads, pc[p] \in QuietLabels,
         NEW c, c \notin Risky, StructRead(p, c)
  PROVE  Progress
<1>1. /\ \/ Goto(p, c) /\ \E a, b : SetLoc(p, [loc[p] EXCEPT !.t = a, !.old = b])
         \/ Goto(p, "end") /\ UNCHANGED loc
      /\ UNCHANGED save /\ UNCHANGED <<torrents, tr, nobj, checkWG, canceled>>
      /\ UNCHANGED libVars
  BY DEF StructRead, engineVars, saveVars
<1>2. loc'[p].op = loc[p].op /\ loc'[p].o = loc[p].o /\ loc'[p].id = loc[p].id
  <2>1. ASSUME NEW a, NEW b, SetLoc(p, [loc[p] EXCEPT !.t = a, !.old = b])
        PROVE  loc'[p].op = loc[p].op /\ loc'[p].o = loc[p].o /\ loc'[p].id = loc[p].id
    <3> DEFINE l == [loc[p] EXCEPT !.t = a, !.old = b]
    <3>1. l.op = loc[p].op /\ l.o = loc[p].o /\ l.id = loc[p].id
      BY Lands, WorkFields
    <3>2. SetLoc(p, l)
      BY <2>1
    <3> HIDE DEF l
    <3>3. QED
      BY <3>1, <3>2, Lands
  <2>2. QED
    BY <1>1, <2>1
<1>3. pc'[p] \notin Risky
  BY <1>1, Lands, SafeLabels
<1>4. Walks(p)
  BY <1>1 DEF Walks
<1>5. QED
  BY <1>1, <1>2, <1>3, <1>4, TrSame2, LiveSame, WorkStep

LEMMA PutChecks ==
  ASSUME Inv, Inv', CheckInv, NEW p \in Threads, pc[p] \in QuietLabels,
         NEW b \in BOOLEAN, NEW k \in FlowNext, StructHold(p, b, k)
  PROVE  Progress
<1> DEFINE o == loc[p].o
           x == [tr[o] EXCEPT !.holdData = TRUE, !.paused = @ \/ b]
           l == Decide(loc[p], x, k)
<1>1. /\ SetTr(o, x) /\ SetLoc(p, l) /\ Goto(p, "flow.down")
      /\ UNCHANGED save /\ UNCHANGED <<torrents, nobj, checkWG, canceled>>
      /\ UNCHANGED libVars
  BY Zenon DEF StructHold, saveVars
<1>2. loc[p] \in Locals /\ tr[o] \in Tracked
  BY WorkAt
<1>3. x = [tr[o] EXCEPT !.holdData = TRUE, !.paused = tr[o].paused \/ b]
  BY <1>2 DEF Tracked
<1>4. x.t = tr[o].t /\ x.cancelCheck = tr[o].cancelCheck
  BY <1>2, <1>3, TrField, TrField2
<1>5. l.op = loc[p].op /\ l.o = loc[p].o /\ l.id = loc[p].id
  BY <1>2 DEF Decide, Locals
<1> HIDE DEF o, x, l
<1>6. loc'[p] = l /\ pc'[p] = "flow.down"
  BY <1>1, Lands
<1>7. pc'[p] \notin Risky
  BY <1>6, SafeLabels
<1>8. TrKeeps
  BY <1>1, <1>4, TrSet2
<1>9. Walks(p)
  BY <1>1 DEF Walks
<1>10. QED
  BY <1>1, <1>5, <1>6, <1>7, <1>8, <1>9, LiveSame, WorkStep

LEMMA FoldChecks ==
  ASSUME Inv, Inv', CheckInv, NEW p \in Threads, pc[p] \in QuietLabels,
         NEW c, c \notin Risky, FoldCounters(p, c)
  PROVE  Progress
<1> DEFINE o == loc[p].o
           x == [tr[o] EXCEPT !.base = @ + lib[loc[p].t].bytes]
<1>1. /\ SetTr(o, x) /\ Goto(p, c) /\ UNCHANGED loc
      /\ UNCHANGED save /\ UNCHANGED <<torrents, nobj, checkWG, canceled>>
      /\ UNCHANGED libVars
  BY DEF FoldCounters, saveVars
<1>2. tr[o] \in Tracked
  BY WorkAt
<1>3. x.t = tr[o].t /\ x.cancelCheck = tr[o].cancelCheck
  BY <1>2 DEF Tracked
<1> HIDE DEF o, x
<1>4. loc'[p] = loc[p] /\ pc'[p] \notin Risky
  BY <1>1, Lands
<1>5. TrKeeps
  BY <1>1, <1>3, TrSet2
<1>6. Walks(p)
  BY <1>1 DEF Walks
<1>7. QED
  BY <1>1, <1>4, <1>5, <1>6, LiveSame, WorkStep

(* A step that leaves the engine and the library alone.                    *)
LEMMA WorkSame ==
  ASSUME Inv, Inv', CheckInv, NEW p \in Threads, pc[p] \in QuietLabels, Walks(p),
         pc'[p] \notin Risky,
         loc'[p].op = loc[p].op, loc'[p].o = loc[p].o, loc'[p].id = loc[p].id,
         UNCHANGED <<torrents, tr, nobj, checkWG, canceled>>, UNCHANGED libVars
  PROVE  Progress
BY TrSame2, LiveSame, WorkStep

(* The torrent is added again: the fresh instance is live, and its own.    *)
LEMMA ReaddChecks ==
  ASSUME Inv, Inv', CheckInv, NEW p \in Threads, pc[p] \in QuietLabels,
         NEW d, NEW c \in NeedsFresh, AddTorrentSpec(loc[p].id, d, TRUE),
         SetLoc(p, [loc[p] EXCEPT !.ft = AddedInst(loc[p].id)]), Goto(p, c),
         UNCHANGED save, UNCHANGED <<torrents, tr, nobj, checkWG, canceled>>
  PROVE  Progress
<1> DEFINE i == loc[p].id
           l == [loc[p] EXCEPT !.ft = AddedInst(i)]
<1>1. /\ AtWork(p) /\ p \in Clients /\ loc[p] \in Locals /\ loc[p].op # "" /\ i \in Ids
  BY WorkAt
<1>2. l.op = loc[p].op /\ l.o = loc[p].o /\ l.id = i /\ l.ft = AddedInst(i)
  BY <1>1, WorkFields
<1>3. AddTorrentSpec(i, d, TRUE) /\ SetLoc(p, l)
  OBVIOUS
<1> HIDE DEF l
<1>4. loc'[p] = l /\ pc'[p] = c
  BY <1>3, Lands
<1>5. LiveInv => LibLive /\ InstOf(loc[p].ft, loc[p].id)' /\ lib'[loc'[p].ft].live
  <2> SUFFICES ASSUME LiveInv
               PROVE  LibLive /\ InstOf(loc[p].ft, loc[p].id)' /\ lib'[loc'[p].ft].live
    OBVIOUS
  <2> HIDE DEF i
  <2>1. /\ LibLive
        /\ AddedInst(i) \in Insts /\ AddedInst(i) <= ninst'
        /\ lib'[AddedInst(i)].id = i /\ lib'[AddedInst(i)].live
    BY <1>1, <1>3, LiveAdd
  <2>2. /\ loc'[p].ft \in Insts /\ loc'[p].ft <= ninst' /\ lib'[loc'[p].ft].id = loc'[p].id
        /\ lib'[loc'[p].ft].live
    BY <1>2, <1>4, <2>1
  <2>3. QED
    BY <2>1, <2>2 DEF InstOf
<1>6. /\ c \notin CountLabels \cup {"check.begin", "check.add", "add.track"}
      /\ KeepsAll(c, l)
  BY SMTT(30) DEF NeedsFresh, CountLabels, KeepsAll, RemoveLabels, OpLabels
<1>7. Works(p)
  BY <1>1, <1>2, <1>4, <1>5, <1>6 DEF Works
<1>8. Walks(p)
  BY <1>3 DEF Walks
<1>9. QED
  BY <1>4, <1>5, <1>6, <1>7, <1>8, TrSame2, SteadyStep DEF Proceeds

-----------------------------------------------------------------------------
(* One operation, one verification: who cannot be at it too.               *)

LEMMA BeginMu ==
  ASSUME Inv, CheckInv, NEW q \in Threads, pc[q] \in {"check.add", "check.begin"}
  PROVE  /\ q \in Clients /\ loc[q].op # "" /\ opMu[loc[q].o] = q
         /\ loc[q].o \in Objs /\ loc[q].o <= nobj /\ loc[q].id \in Ids
<1>1. loc[q].op # ""
  BY DEF CheckInv
<1>2. HoldsOpMu(q)
  BY <1>1 DEF HoldsOpMu
<1>3. QED
  BY <1>1, <1>2, CheckFacts DEF Inv, OpMuHeld

LEMMA WorkMu ==
  ASSUME Inv, CheckInv, NEW q \in Threads, q \in Clients, AtWork(q)
  PROVE  /\ loc[q].op # "" /\ opMu[loc[q].o] = q /\ loc[q].o \in Objs /\ loc[q].o <= nobj
         /\ checkWG[loc[q].o] = 0
<1>1. loc[q].op # "" /\ pc[q] # "op.lock"
  <2>1. CASE pc[q] = "check.add"
    BY <2>1, BeginMu
  <2>2. CASE Where(q) \in QuietLabels
    <3>1. loc[q].op # ""
      BY <2>2, CheckFacts DEF QuietLabels
    <3>2. pc[q] # "op.lock"
      <4>1. WhereOf("op.lock", loc[q], save[q].k) = "op.lock"
        BY DEF WhereOf, FlowLabels, SaveLabels
      <4>2. QED
        BY <2>2, <4>1 DEF Where, QuietLabels, OpLabels
    <3>3. QED
      BY <3>1, <3>2
  <2>3. QED
    BY <2>1, <2>2 DEF AtWork
<1>2. opMu[loc[q].o] = q
  BY <1>1 DEF HoldsOpMu, Inv, OpMuHeld
<1>3. loc[q].o \in Objs /\ loc[q].o <= nobj
  BY <1>1, CheckFacts
<1>4. checkWG[loc[q].o] = 0
  BY <1>3 DEF CheckInv, Quieted
<1>5. QED
  BY <1>1, <1>2, <1>3, <1>4

(* While a purge or move works on a struct, nobody else verifies it.       *)
LEMMA Alone ==
  ASSUME Inv, CheckInv, NEW p \in Threads, p \in Clients, AtWork(p),
         NEW q \in Threads, q # p, pc[q] \in CheckMarks
  PROVE  loc[q].o # loc[p].o
<1>1. opMu[loc[p].o] = p /\ checkWG[loc[p].o] = 0 /\ loc[p].o \in Objs
  BY WorkMu
<1>2. CASE pc[q] \in {"check.add", "check.begin"}
  BY <1>1, <1>2, BeginMu
<1>3. CASE pc[q] \in CountLabels
  <2>1. Counted(q, loc[q].o) /\ loc[q].o \in Objs
    BY <1>3, CheckFacts DEF Counted, CheckInv
  <2>2. checkWG[loc[q].o] = 1
    BY <2>1 DEF CheckInv
  <2>3. QED
    BY <1>1, <2>2
<1>4. QED
  BY <1>2, <1>3 DEF CheckMarks

(* ... nor is it put to work on by another.                                *)
LEMMA AloneAtWork ==
  ASSUME Inv, CheckInv, NEW p \in Threads, p \in Clients, AtWork(p),
         NEW q \in Threads, q # p, q \in Clients, AtWork(q)
  PROVE  loc[q].o # loc[p].o
BY WorkMu

LEMMA OneCheck ==
  ASSUME Inv, CheckInv, NEW p \in Threads, NEW q \in Threads, q # p,
         NEW o \in Objs, Counted(p, o), pc[q] \in CountLabels \cup {"check.begin"}
  PROVE  loc[q].o # o
<1>1. Counted(q, loc[q].o)
  BY BeginMu DEF Counted, CheckInv
<1>2. QED
  BY <1>1 DEF CheckInv

-----------------------------------------------------------------------------
(* The add.                                                                *)

LEMMA AddTrackChecks ==
  ASSUME Inv, Inv', CheckInv, NEW p \in Threads, AddTrack(p)
  PROVE  Progress
<1> DEFINE i == loc[p].id
           o == IF torrents[i] # NoObj THEN torrents[i] ELSE nobj + 1
           x == IF torrents[i] # NoObj
                THEN [tr[o] EXCEPT !.paused = @ \/ loc[p].flag]
                ELSE NewTracked(loc[p].t, loc[p].dir, loc[p].magnet, loc[p].flag)
           l == Decide(loc[p], x, "add.spawn")
<1>1. /\ pc[p] = "add.track" /\ o \in Objs
      /\ torrents' = [torrents EXCEPT ![i] = o] /\ SetTr(o, x)
      /\ nobj' = IF torrents[i] # NoObj THEN nobj ELSE nobj + 1
      /\ SetLoc(p, l) /\ Goto(p, "flow.down")
      /\ UNCHANGED save /\ UNCHANGED <<checkWG, canceled>> /\ UNCHANGED libVars
  BY Zenon DEF AddTrack, At, saveVars
<1>2. loc[p].op = "" /\ loc[p] \in Locals /\ i \in Ids
  <2>1. loc[p].op = "" /\ loc[p] \in Locals
    BY <1>1, PlainAt DEF OtherLabels
  <2>2. QED
    BY <2>1 DEF Locals
<1>3. l.op = ""
  BY <1>2 DEF Decide, Locals
<1>4. /\ torrents[i] # NoObj => o = torrents[i] /\ o <= nobj /\ x.t = tr[o].t
                                /\ x.cancelCheck = tr[o].cancelCheck
      /\ torrents[i] = NoObj => o = nobj + 1 /\ x.t = loc[p].t
  <2>1. CASE torrents[i] # NoObj
    <3>1. o = torrents[i] /\ o <= nobj /\ tr[o] \in Tracked
      BY <1>2, <2>1, ObjFor
    <3>2. x = [tr[o] EXCEPT !.paused = tr[o].paused \/ loc[p].flag]
      BY <2>1, <3>1 DEF Tracked
    <3> HIDE DEF o, x
    <3>3. QED
      BY <2>1, <3>1, <3>2, TrField, TrField2
  <2>2. CASE torrents[i] = NoObj
    BY <2>2 DEF NewTracked
  <2>3. QED
    BY <2>1, <2>2
<1> HIDE DEF o, x, l, i
<1>5. nobj \in Int /\ \A b \in Objs : b \in Int
  BY BoundsAssumption DEF Inv, TypeOK, EngineTypes, Objs
<1>6. /\ \A b \in Objs : tr'[b] = IF b = o THEN x ELSE tr[b]
      /\ \A j \in Ids : torrents'[j] = IF j = i THEN o ELSE torrents[j]
      /\ loc'[p] = l /\ pc'[p] = "flow.down"
  <2>1. \A b \in Objs : tr'[b] = IF b = o THEN x ELSE tr[b]
    BY <1>1, TrTyped DEF SetTr
  <2>2. \A j \in Ids : torrents'[j] = IF j = i THEN o ELSE torrents[j]
    BY <1>1 DEF Inv, TypeOK, EngineTypes
  <2>3. QED
    BY <1>1, <2>1, <2>2, Lands
<1>7. CheckKept /\ TrLive /\ Extends
  BY <1>1, <1>4, <1>5, <1>6 DEF CheckKept, TrLive, Extends
<1>8. Proceeds(p) /\ pc'[p] # "check.add"
  BY <1>3, <1>6, LeavesTo DEF CheckMarks, CountLabels
<1>9. \A q \in Threads : q # p => Stays(q)
  BY <1>1, WalksStays DEF Walks
<1>10. CheckInv'
  BY <1>7, <1>8, <1>9, CheckFrame DEF Proceeds
<1>11. ASSUME "remove" \notin Ops, LiveInv PROVE LiveInv'
  <2>1. LibLive
    BY <1>1, <1>11, LiveSame
  <2>2. OwnInst'
    <3> SUFFICES ASSUME NEW b \in Objs, b <= nobj'
                 PROVE  \E j \in Ids : torrents'[j] = b /\ InstOf(tr[b].t, j)'
      BY DEF OwnInst
    <3>1. CASE b <= nobj
      <4>1. PICK j \in Ids : torrents[j] = b /\ InstOf(tr[b].t, j)
        BY <1>11, <3>1 DEF LiveInv, OwnInst
      <4>2. torrents'[j] = b
        BY <1>7, <4>1 DEF Extends, Objs, NoObj
      <4>3. tr'[b].t = tr[b].t
        BY <1>7, <3>1 DEF TrLive
      <4> DEFINE t == tr[b].t
      <4>4. InstOf(t, j) /\ t' = t
        BY <4>1, <4>3
      <4> HIDE DEF t
      <4>5. t' \in Insts /\ t' <= ninst' /\ lib'[t'].id = j
        BY <1>11, <2>1, <4>4, InstKept DEF InstOf
      <4>6. QED
        BY <4>2, <4>5 DEF InstOf, t
    <3>2. CASE ~(b <= nobj)
      <4>1. b = o /\ torrents[i] = NoObj /\ tr'[b].t = loc[p].t /\ torrents'[i] = b
        <5>1. torrents[i] = NoObj /\ nobj' = nobj + 1
          BY <1>1, <3>2
        <5>2. o = nobj + 1 /\ b = o
          BY <1>4, <1>5, <3>2, <5>1
        <5>3. QED
          BY <1>2, <1>4, <1>6, <5>1, <5>2
      <4>2. InstOf(loc[p].t, i)
        BY <1>1, <1>11 DEF LiveInv, LiveOK, i
      <4>3. tr'[b].t \in Insts /\ tr'[b].t <= ninst' /\ lib'[tr'[b].t].id = i
        BY <1>1, <4>1, <4>2 DEF InstOf, libVars
      <4>4. QED
        BY <1>2, <4>1, <4>3 DEF InstOf
    <3>3. QED
      BY <3>1, <3>2
  <2>3. \A q \in Threads : Stays(q) \/ LiveOK(q)'
    <3>1. Stays(p) \/ LiveOK(p)'
      BY <1>7, <1>8, <1>11, <2>1, ProceedsLive
    <3>2. QED
      BY <1>9, <3>1
  <2>4. QED
    BY <1>7, <1>11, <2>1, <2>2, <2>3, LiveFrame
<1>12. QED
  BY <1>10, <1>11 DEF Progress

-----------------------------------------------------------------------------
(* Purge and move take their torrent's instance away and give it another.  *)

(* An instance is of one struct.                                           *)
LEMMA OneOwner ==
  ASSUME OwnInst, NEW a \in Objs, NEW b \in Objs, a <= nobj, b <= nobj, tr[a].t = tr[b].t
  PROVE  a = b
BY DEF OwnInst, InstOf

(* A fresh instance of a purge or move is of the struct it works on.       *)
LEMMA FreshOwner ==
  ASSUME Inv, LiveInv, NEW q \in Threads, pc[q] \in NeedsFresh,
         NEW a \in Objs, a <= nobj, tr[a].t = loc[q].ft
  PROVE  a = loc[q].o /\ q \in Clients /\ AtWork(q)
<1>1. pc[q] \in QuietLabels
  BY SMTT(30) DEF NeedsFresh, QuietLabels, StructLabels, OpLabels
<1>2. AtWork(q) /\ q \in Clients /\ loc[q].op # ""
  BY <1>1, WorkAt
<1>3. torrents[loc[q].id] = loc[q].o /\ InstOf(loc[q].ft, loc[q].id)
  BY <1>2 DEF LiveInv, LiveOK
<1>4. PICK i \in Ids : torrents[i] = a /\ InstOf(tr[a].t, i)
  BY DEF LiveInv, OwnInst
<1>5. i = loc[q].id
  BY <1>3, <1>4 DEF InstOf
<1>6. QED
  BY <1>2, <1>3, <1>4, <1>5

LEMMA DropLive ==
  ASSUME Inv, CheckInv, LiveInv, NEW p \in Threads, pc[p] \in QuietLabels,
         NEW o, o = loc[p].o, NEW t, t = tr[o].t, Drop(t),
         UNCHANGED <<torrents, tr, nobj>>,
         loc'[p] = loc[p], pc'[p] \notin Risky,
         \A q \in Threads : q # p => Stays(q)
  PROVE  LiveInv'
<1>1. /\ AtWork(p) /\ p \in Clients /\ o \in Objs /\ o <= nobj
  BY WorkAt
<1>2. /\ \A u \in Insts : lib'[u].id = lib[u].id /\ (u # t => lib'[u].live = lib[u].live)
      /\ ninst' = ninst
      /\ \A j \in Ids : client'[j] = IF j = lib[t].id /\ client[j] = t THEN NoInst ELSE client[j]
  <2>1. lib' = [lib EXCEPT ![t] = [lib[t] EXCEPT !.live = FALSE]]
    BY DEF Drop, SetLib
  <2>2. \A u \in Insts : lib'[u].id = lib[u].id /\ (u # t => lib'[u].live = lib[u].live)
    <3> DEFINE y == [lib[t] EXCEPT !.live = FALSE]
    <3>1. t \in Insts => y.id = lib[t].id
      BY LibFacts DEF Instance
    <3>2. lib' = [lib EXCEPT ![t] = y]
      BY <2>1
    <3> HIDE DEF y
    <3>3. QED
      BY <3>1, <3>2, LibFacts
  <2>3. QED
    BY <2>2, LibFacts DEF Drop
<1>3. OwnInst'
  <2> SUFFICES ASSUME NEW b \in Objs, b <= nobj
               PROVE  \E j \in Ids : torrents[j] = b /\ InstOf(tr[b].t, j)'
    BY DEF OwnInst
  <2>1. PICK j \in Ids : torrents[j] = b /\ InstOf(tr[b].t, j)
    BY DEF LiveInv, OwnInst
  <2>2. QED
    BY <1>2, <2>1 DEF InstOf
<1>4. ClientLive'
  <2> SUFFICES ASSUME NEW j \in Ids, client'[j] # NoInst
               PROVE  InstOf(client[j], j)' /\ lib'[client'[j]].live
    BY DEF ClientLive
  <2>1. client'[j] = client[j] /\ InstOf(client[j], j) /\ lib[client[j]].live
    BY <1>2 DEF LiveInv, ClientLive
  <2>2. client[j] # t
    BY <1>2, <2>1 DEF InstOf
  <2>3. QED
    BY <1>2, <2>1, <2>2 DEF InstOf
<1>5. ASSUME NEW q \in Threads, q # p PROVE LiveOK(q)'
  <2>1. pc'[q] = pc[q] /\ loc'[q] = loc[q] /\ LiveOK(q)
    BY <1>5 DEF Stays, LiveInv
  <2>2. ASSUME pc[q] \in NeedsFresh, InstOf(loc[q].ft, loc[q].id), lib[loc[q].ft].live
        PROVE  InstOf(loc[q].ft, loc[q].id)' /\ lib'[loc'[q].ft].live
    <3>1. loc[q].ft # t
      BY <1>1, <1>5, <2>2, FreshOwner, AloneAtWork
    <3>2. QED
      BY <1>2, <2>1, <2>2, <3>1 DEF InstOf
  <2>3. ASSUME pc[q] \in CheckMarks, lib[tr[loc[q].o].t].live
        PROVE  lib'[tr[loc[q].o].t].live
    <3>1. loc[q].o \in Objs /\ loc[q].o <= nobj
      BY <2>3, CheckFacts
    <3>2. tr[loc[q].o].t # t
      BY <1>1, <1>5, <2>3, <3>1, OneOwner, Alone DEF LiveInv
    <3>3. tr[loc[q].o].t \in Insts
      BY <3>1 DEF LiveInv, OwnInst, InstOf
    <3>4. QED
      BY <1>2, <2>3, <3>2, <3>3
  <2>4. VerifyLabels \cup {"check.add", "check.begin"} \subseteq CheckMarks
    BY DEF VerifyLabels, CheckMarks, CountLabels
  <2>5. pc[q] = "add.track" => InstOf(loc[q].t, loc[q].id)'
    BY <1>2, <2>1 DEF LiveOK, InstOf
  <2>6. QED
    BY <2>1, <2>2, <2>3, <2>4, <2>5 DEF LiveOK
<1>6. LiveOK(p)'
  <2>1. loc[p].op # "" => torrents'[loc'[p].id] = loc'[p].o
    BY DEF LiveInv, LiveOK
  <2>2. KeepsAll(pc'[p], loc'[p])
    BY DEF KeepsAll, Risky
  <2>3. QED
    BY <2>1, <2>2 DEF LiveOK, Risky, CheckMarks, CountLabels, VerifyLabels
<1>7. QED
  BY <1>3, <1>4, <1>5, <1>6 DEF LiveInv

LEMMA DropChecks ==
  ASSUME Inv, Inv', HoldInv, CheckInv, NEW p \in Threads, pc[p] \in {"purge.drop", "move.drop"},
         NEW c, c \notin Risky, DropOld(p, c)
  PROVE  Progress
<1>1. /\ Drop(loc[p].t) /\ Goto(p, c) /\ UNCHANGED loc
      /\ UNCHANGED save /\ UNCHANGED <<torrents, tr, nobj, checkWG, canceled>>
  BY DEF DropOld, engineVars, saveVars
<1>2. pc[p] \in QuietLabels
  BY DEF QuietLabels, StructLabels, OpLabels
<1>3. AtWork(p) /\ p \in Clients /\ pc[p] \in StructLabels /\ loc[p].op # ""
  BY <1>2, WorkAt
<1>4. loc[p].op \in {"purge", "move"}
  BY <1>3, NamedAt DEF OpOK
<1>5. loc[p].t # NoInst
  BY <1>3, AtFacts, PlaceApart DEF NeedsInst
<1>6. loc[p].t = tr[loc[p].o].t
  BY <1>3, <1>4, <1>5 DEF Inv, StableInstance
<1>7. pc'[p] \notin Risky /\ loc'[p] = loc[p]
  BY <1>1, Lands
<1>8. Walks(p)
  BY <1>1 DEF Walks
<1>9. \A q \in Threads : q # p => Stays(q)
  BY <1>8, WalksStays
<1>10. Proceeds(p)
  BY <1>3, <1>7, WorksTo
<1>11. CheckInv'
  BY <1>1, <1>9, <1>10, CheckFrame DEF CheckKept, Proceeds
<1>12. LiveInv => LiveInv'
  BY <1>1, <1>2, <1>6, <1>7, <1>9, DropLive
<1>13. QED
  BY <1>11, <1>12 DEF Progress

LEMMA SwapLive ==
  ASSUME Inv, CheckInv, LiveInv, NEW p \in Threads, pc[p] \in NeedsFresh,
         NEW x, x.t = loc[p].ft, SetTr(loc[p].o, x),
         UNCHANGED <<torrents, nobj>>, UNCHANGED libVars,
         loc'[p].op = loc[p].op, loc'[p].o = loc[p].o, loc'[p].id = loc[p].id,
         pc'[p] \notin Risky \/ pc'[p] = "check.add",
         \A q \in Threads : q # p => Stays(q)
  PROVE  LiveInv'
<1> DEFINE o == loc[p].o
           i == loc[p].id
<1>0. UNCHANGED <<lib, ninst, client>>
  BY DEF libVars
<1>1. AtWork(p) /\ p \in Clients /\ o \in Objs /\ o <= nobj /\ loc[p].op # "" /\ i \in Ids
  <2>1. pc[p] \in QuietLabels
    BY SMTT(30) DEF NeedsFresh, QuietLabels, StructLabels, OpLabels
  <2>2. QED
    BY <2>1, WorkAt
<1>2. torrents[i] = o /\ InstOf(loc[p].ft, i) /\ lib[loc[p].ft].live
  BY <1>1 DEF LiveInv, LiveOK
<1> HIDE DEF o, i
<1>3. \A b \in Objs : tr'[b] = IF b = o THEN x ELSE tr[b]
  BY TrTyped DEF SetTr, o
<1>4. OwnInst'
  <2> SUFFICES ASSUME NEW b \in Objs, b <= nobj
               PROVE  \E j \in Ids : torrents[j] = b /\ InstOf(tr[b].t, j)'
    BY DEF OwnInst
  <2>1. CASE b = o
    <3>1. tr'[b].t = loc[p].ft
      BY <1>3, <2>1
    <3>2. tr'[b].t \in Insts /\ tr'[b].t <= ninst' /\ lib'[tr'[b].t].id = i
      BY <1>0, <1>2, <3>1 DEF InstOf
    <3>3. QED
      BY <1>1, <1>2, <2>1, <3>2 DEF InstOf
  <2>2. CASE b # o
    <3>1. tr'[b] = tr[b]
      BY <1>3, <2>2
    <3>2. PICK j \in Ids : torrents[j] = b /\ InstOf(tr[b].t, j)
      BY DEF LiveInv, OwnInst
    <3>3. QED
      BY <1>0, <3>1, <3>2 DEF InstOf
  <2>3. QED
    BY <2>1, <2>2
<1>5. ClientLive'
  BY <1>0 DEF LiveInv, ClientLive, InstOf
<1>6. ASSUME NEW q \in Threads, q # p PROVE LiveOK(q)'
  <2>1. pc'[q] = pc[q] /\ loc'[q] = loc[q] /\ LiveOK(q)
    BY <1>6 DEF Stays, LiveInv
  <2>2. pc[q] \in CheckMarks => tr'[loc[q].o].t = tr[loc[q].o].t
    BY <1>1, <1>3, <1>6, Alone, CheckFacts DEF o
  <2>3. /\ VerifyLabels \cup {"check.add", "check.begin"} \subseteq CheckMarks
        /\ {"check.loop", "check.hash"} \subseteq CheckMarks
    BY DEF VerifyLabels, CheckMarks, CountLabels
  <2>4. /\ pc[q] = "add.track" => InstOf(loc[q].t, loc[q].id)'
        /\ pc[q] \in NeedsFresh => InstOf(loc[q].ft, loc[q].id)' /\ lib'[loc'[q].ft].live
    BY <1>0, <2>1 DEF LiveOK, InstOf
  <2>5. QED
    BY <1>0, <2>1, <2>2, <2>3, <2>4 DEF LiveOK
<1>7. LiveOK(p)'
  <2>1. torrents'[loc'[p].id] = loc'[p].o
    BY <1>2 DEF o, i
  <2>2. KeepsAll(pc'[p], loc'[p])
    BY SMTT(30) DEF KeepsAll, Risky, RemoveLabels, OpLabels
  <2>3. lib'[tr'[loc'[p].o].t].live
    BY <1>0, <1>1, <1>2, <1>3 DEF o
  <2>4. pc'[p] \notin NeedsFresh \cup {"add.track", "check.loop", "check.hash"}
    BY SMTT(30) DEF Risky, CheckMarks, CountLabels, NeedsFresh
  <2>5. QED
    BY <2>1, <2>2, <2>3, <2>4 DEF LiveOK
<1>8. QED
  BY <1>4, <1>5, <1>6, <1>7 DEF LiveInv

LEMMA SwapChecks ==
  ASSUME Inv, Inv', CheckInv, NEW p \in Threads, PurgeSwap(p) \/ MoveSwap(p)
  PROVE  Progress
<1> DEFINE o == loc[p].o
<1>1. pc[p] \in NeedsFresh
  BY DEF PurgeSwap, MoveSwap, At, NeedsFresh
<1>2. pc[p] \in QuietLabels
  BY <1>1, SMTT(30) DEF NeedsFresh, QuietLabels, StructLabels, OpLabels
<1>3. /\ AtWork(p) /\ p \in Clients /\ loc[p] \in Locals /\ loc[p].op # ""
      /\ o \in Objs /\ tr[o] \in Tracked
  BY <1>2, WorkAt
<1> HIDE DEF o
<1>4. \E x : SetTr(o, x) /\ x.t = loc[p].ft /\ x.cancelCheck = tr[o].cancelCheck
  <2>1. CASE PurgeSwap(p)
    <3> DEFINE x == [tr[o] EXCEPT !.t = loc[p].ft, !.holdData = FALSE]
    <3>1. SetTr(o, x)
      BY <2>1, Zenon DEF PurgeSwap, o
    <3>2. x.t = loc[p].ft /\ x.cancelCheck = tr[o].cancelCheck
      BY <1>3 DEF Tracked
    <3> HIDE DEF x
    <3>3. QED
      BY <3>1, <3>2
  <2>2. CASE MoveSwap(p)
    <3> DEFINE x == [tr[o] EXCEPT !.t = loc[p].ft, !.savePath = loc[p].dir]
    <3>1. SetTr(o, x)
      BY <2>2, Zenon DEF MoveSwap, o
    <3>2. x.t = loc[p].ft /\ x.cancelCheck = tr[o].cancelCheck
      BY <1>3 DEF Tracked
    <3> HIDE DEF x
    <3>3. QED
      BY <3>1, <3>2
  <2>3. QED
    BY <2>1, <2>2
<1>5. PICK x : SetTr(o, x) /\ x.t = loc[p].ft /\ x.cancelCheck = tr[o].cancelCheck
  BY <1>4
<1>6. \E l : SetLoc(p, l) /\ l.op = loc[p].op /\ l.o = o /\ l.id = loc[p].id
  <2>1. CASE PurgeSwap(p)
    <3> DEFINE y == [tr[o] EXCEPT !.t = loc[p].ft, !.holdData = FALSE]
               l == Decide([loc[p] EXCEPT !.t = NoInst], y, "purge.save")
    <3>1. SetLoc(p, l)
      BY <2>1, Zenon DEF PurgeSwap, o
    <3>2. l.op = loc[p].op /\ l.o = o /\ l.id = loc[p].id
      BY <1>3 DEF Decide, Locals, o
    <3> HIDE DEF l
    <3>3. QED
      BY <3>1, <3>2
  <2>2. CASE MoveSwap(p)
    <3> DEFINE l == [loc[p] EXCEPT !.t = NoInst]
    <3>1. SetLoc(p, l)
      BY <2>2 DEF MoveSwap
    <3>2. l.op = loc[p].op /\ l.o = o /\ l.id = loc[p].id
      BY <1>3, WorkFields DEF o
    <3> HIDE DEF l
    <3>3. QED
      BY <3>1, <3>2
  <2>3. QED
    BY <2>1, <2>2
<1>7. PICK l : SetLoc(p, l) /\ l.op = loc[p].op /\ l.o = o /\ l.id = loc[p].id
  BY <1>6
<1>8. /\ Goto(p, "flow.down") \/ Goto(p, "check.add")
      /\ UNCHANGED save /\ UNCHANGED <<torrents, nobj, checkWG, canceled>> /\ UNCHANGED libVars
  BY Zenon DEF PurgeSwap, MoveSwap, saveVars
<1>9. /\ pc'[p] = "flow.down" \/ pc'[p] = "check.add"
      /\ loc'[p].op = loc[p].op /\ loc'[p].o = loc[p].o /\ loc'[p].id = loc[p].id
  BY <1>7, <1>8, Lands DEF o
<1>10. pc'[p] \notin Risky \/ pc'[p] = "check.add"
  BY <1>9, SafeLabels
<1>11. \A q \in Threads : q # p => Stays(q)
  <2>1. Walks(p)
    BY <1>7, <1>8 DEF Walks
  <2>2. QED
    BY <2>1, WalksStays
<1>12. Works(p)
  <2>1. pc'[p] \notin CountLabels \cup {"check.begin", "add.track"} \cup NeedsFresh
    BY <1>9, SMTT(30) DEF CountLabels, NeedsFresh
  <2>2. KeepsAll(pc'[p], loc'[p])
    BY <1>9, SMTT(30) DEF KeepsAll, RemoveLabels, OpLabels
  <2>3. QED
    BY <1>3, <1>9, <2>1, <2>2 DEF Works
<1>13. CheckInv'
  <2>1. \A b \in Objs : tr'[b] = IF b = o THEN x ELSE tr[b]
    BY <1>5, TrTyped DEF SetTr
  <2>2. CheckKept
    BY <1>5, <1>8, <2>1 DEF CheckKept
  <2>3. QED
    BY <1>11, <1>12, <2>2, CheckFrame DEF Proceeds
<1>14. LiveInv => LiveInv'
  BY <1>1, <1>5, <1>8, <1>9, <1>10, <1>11, SwapLive DEF o
<1>15. QED
  BY <1>13, <1>14 DEF Progress

-----------------------------------------------------------------------------
(* Purge and move, step by step.                                           *)

LEMMA PersistGoes ==
  ASSUME Inv, NEW p \in Threads, NEW k, Persist(p, k)
  PROVE  /\ pc'[p] \in {k, "save.check"}
         /\ \E c : Goto(p, c)
         /\ save' = save \/ \E s : SetSave(p, s)
BY Lands DEF Persist

(* moveFailed, purgeFailed, and the move that has lost its instance.       *)
LEMMA MarkChecks ==
  ASSUME Inv, Inv', CheckInv, NEW p \in Threads, pc[p] \in QuietLabels, Walks(p),
         pc'[p] \notin Risky,
         loc'[p].op = loc[p].op, loc'[p].o = loc[p].o, loc'[p].id = loc[p].id,
         NEW x, SetTr(loc[p].o, x), x.t = tr[loc[p].o].t,
         x.cancelCheck = tr[loc[p].o].cancelCheck,
         UNCHANGED <<torrents, nobj, checkWG, canceled>>, UNCHANGED libVars
  PROVE  Progress
BY TrSet2, LiveSame, WorkStep

LEMMA FailedFields ==
  ASSUME NEW x \in Tracked
  PROVE  Failed(x).t = x.t /\ Failed(x).cancelCheck = x.cancelCheck
BY DEF Failed, Tracked

LEMMA PurgeQuiet ==
  ASSUME NEW p \in Threads, PurgeStep(p) \/ MoveStep(p)
  PROVE  pc[p] \in QuietLabels
<1>1. CASE PurgeStep(p)
  <2>1. pc[p] \in {"purge", "purge.hold", "purge.fold", "purge.drop", "purge.delete",
                   "purge.readd", "purge.swap", "purge.save", "purge.failed"}
    BY <1>1 DEF PurgeStep, PurgeRead, PurgeHold, PurgeFold, PurgeDrop, PurgeDelete,
                PurgeReadd, PurgeSwap, PurgeSave, PurgeFailed, At
  <2>2. QED
    BY <2>1, SMTT(30) DEF QuietLabels, StructLabels, OpLabels
<1>2. CASE MoveStep(p)
  <2>1. pc[p] \in {"move", "move.mkdir", "move.hold", "move.prios", "move.files",
                   "move.fold", "move.drop", "move.readd", "move.lost", "move.failed",
                   "move.reprio", "move.swap"}
    BY <1>2 DEF MoveStep, MoveRead, MoveMkdir, MoveHold, MovePrios, MoveFiles, MoveFold,
                MoveDrop, MoveReadd, MoveLost, MoveFailed, MoveReprio, MoveSwap, At
  <2>2. QED
    BY <2>1, SMTT(30) DEF QuietLabels, StructLabels, OpLabels
<1>3. QED
  BY <1>1, <1>2

LEMMA PurgeChecks ==
  ASSUME Inv, Inv', HoldInv, CheckInv, NEW p \in Threads, PurgeStep(p)
  PROVE  Progress
<1>1. pc[p] \in QuietLabels
  BY PurgeQuiet
<1>2. loc[p] \in Locals /\ tr[loc[p].o] \in Tracked
  BY <1>1, WorkAt
<1>3. CASE PurgeRead(p)
  BY <1>1, <1>3, ReadChecks, SafeLabels DEF PurgeRead
<1>4. CASE PurgeHold(p)
  <2>1. "purge.fold" \in FlowNext
    BY DEF FlowNext
  <2>2. QED
    BY <1>1, <1>4, <2>1, PutChecks DEF PurgeHold
<1>5. CASE PurgeFold(p)
  BY <1>1, <1>5, FoldChecks, SafeLabels DEF PurgeFold
<1>6. CASE PurgeDrop(p)
  BY <1>6, DropChecks, SafeLabels DEF PurgeDrop, At
<1>7. CASE PurgeDelete(p)
  <2>1. /\ Goto(p, "purge.readd") /\ UNCHANGED loc /\ UNCHANGED save
        /\ UNCHANGED <<torrents, tr, nobj, checkWG, canceled>> /\ UNCHANGED libVars
    BY <1>7 DEF PurgeDelete, engineVars, saveVars
  <2>2. pc'[p] \notin Risky /\ Walks(p)
    BY <2>1, Lands, SafeLabels DEF Walks
  <2>3. QED
    BY <1>1, <2>1, <2>2, WorkSame
<1>8. CASE PurgeReadd(p)
  <2>1. UNCHANGED save /\ UNCHANGED <<torrents, tr, nobj, checkWG, canceled>>
    BY <1>8 DEF PurgeReadd, engineVars, saveVars
  <2>2. CASE AddTorrentSpec(loc[p].id, loc[p].old, TRUE)
             /\ SetLoc(p, [loc[p] EXCEPT !.ft = AddedInst(loc[p].id)]) /\ Goto(p, "purge.swap")
    <3>1. "purge.swap" \in NeedsFresh
      BY DEF NeedsFresh
    <3>2. QED
      BY <1>1, <2>1, <2>2, <3>1, ReaddChecks
  <2>3. CASE Goto(p, "purge.failed") /\ UNCHANGED <<libVars, loc>>
    <3>1. pc'[p] \notin Risky /\ Walks(p)
      BY <2>1, <2>3, Lands, SafeLabels DEF Walks
    <3>2. QED
      BY <1>1, <2>1, <2>3, <3>1, WorkSame
  <2>4. QED
    BY <1>8, <2>2, <2>3 DEF PurgeReadd
<1>9. CASE PurgeSwap(p)
  BY <1>9, SwapChecks
<1>10. CASE PurgeSave(p)
  <2>1. /\ Persist(p, "end") /\ UNCHANGED loc
        /\ UNCHANGED <<torrents, tr, nobj, checkWG, canceled>> /\ UNCHANGED libVars
    BY <1>10 DEF PurgeSave, engineVars
  <2>2. pc'[p] \notin Risky /\ Walks(p)
    BY <2>1, PersistGoes, SafeLabels DEF Walks
  <2>3. QED
    BY <1>1, <2>1, <2>2, WorkSame
<1>11. CASE PurgeFailed(p)
  <2> DEFINE l == [loc[p] EXCEPT !.t = NoInst]
             x == Failed(tr[loc[p].o])
  <2>1. /\ Persist(p, "end") /\ SetLoc(p, l) /\ SetTr(loc[p].o, x)
        /\ UNCHANGED <<torrents, nobj, checkWG, canceled>> /\ UNCHANGED libVars
    BY <1>11 DEF PurgeFailed
  <2>2. l.op = loc[p].op /\ l.o = loc[p].o /\ l.id = loc[p].id
    BY <1>2, WorkFields
  <2>3. x.t = tr[loc[p].o].t /\ x.cancelCheck = tr[loc[p].o].cancelCheck
    BY <1>2, FailedFields
  <2> HIDE DEF l, x
  <2>4. loc'[p] = l
    BY <2>1, Lands
  <2>5. pc'[p] \notin Risky /\ Walks(p)
    BY <2>1, PersistGoes, SafeLabels DEF Walks
  <2>6. QED
    BY <1>1, <2>1, <2>2, <2>3, <2>4, <2>5, MarkChecks
<1>12. QED
  BY <1>3, <1>4, <1>5, <1>6, <1>7, <1>8, <1>9, <1>10, <1>11 DEF PurgeStep

LEMMA ReprioChecks ==
  ASSUME Inv, Inv', CheckInv, NEW p \in Threads, MoveReprio(p)
  PROVE  Progress
<1>1. /\ pc[p] = "move.reprio" /\ Goto(p, "move.swap") /\ UNCHANGED loc /\ UNCHANGED save
      /\ UNCHANGED <<torrents, tr, nobj, checkWG, canceled, ninst, client>>
      /\ SetPrio(loc[p].ft, [f \in Files |-> toLibPriority(loc[p].prios[f])])
  BY DEF MoveReprio, At, engineVars, saveVars
<1>2. pc[p] \in QuietLabels /\ pc[p] \in NeedsFresh
  BY <1>1 DEF QuietLabels, StructLabels, OpLabels, NeedsFresh
<1>3. AtWork(p) /\ p \in Clients /\ loc[p].op # ""
  BY <1>2, WorkAt
<1>4. LiveInv => LibLive
  BY <1>1, LivePrio
<1>5. ASSUME LiveInv PROVE InstOf(loc[p].ft, loc[p].id)' /\ lib'[loc'[p].ft].live
  <2> DEFINE t == loc[p].ft
             i == loc[p].id
  <2>1. t' = t /\ i' = i
    BY <1>1
  <2>2. InstOf(t, i) /\ lib[t].live
    BY <1>2, <1>5 DEF LiveInv, LiveOK
  <2> HIDE DEF t, i
  <2>3. t' \in Insts /\ t' <= ninst' /\ lib'[t'].id = i' /\ lib'[t'].live
    BY <1>4, <1>5, <2>1, <2>2, InstKept DEF InstOf
  <2>4. QED
    BY <2>3 DEF InstOf, t, i
<1>6. pc'[p] = "move.swap"
  BY <1>1, Lands
<1>7. /\ pc'[p] \notin CountLabels \cup {"check.begin", "check.add", "add.track"}
      /\ KeepsAll(pc'[p], loc'[p])
  BY <1>6, SMTT(30) DEF CountLabels, KeepsAll, RemoveLabels, OpLabels
<1>8. Works(p)
  BY <1>1, <1>3, <1>5, <1>7 DEF Works
<1>9. Walks(p)
  BY <1>1 DEF Walks
<1>10. QED
  BY <1>1, <1>4, <1>7, <1>8, <1>9, TrSame2, SteadyStep DEF Proceeds

LEMMA MoveChecks ==
  ASSUME Inv, Inv', HoldInv, CheckInv, NEW p \in Threads, MoveStep(p)
  PROVE  Progress
<1>1. pc[p] \in QuietLabels
  BY PurgeQuiet
<1>2. loc[p] \in Locals /\ tr[loc[p].o] \in Tracked
  BY <1>1, WorkAt
<1>3. CASE MoveRead(p)
  BY <1>1, <1>3, ReadChecks, SafeLabels DEF MoveRead
<1>4. CASE MoveMkdir(p)
  <2> DEFINE l == [loc[p] EXCEPT !.t = NoInst]
  <2>1. /\ \/ Goto(p, "move.hold") /\ UNCHANGED loc
           \/ Goto(p, "end") /\ SetLoc(p, l)
        /\ UNCHANGED save /\ UNCHANGED <<torrents, tr, nobj, checkWG, canceled>>
        /\ UNCHANGED libVars
    BY <1>4 DEF MoveMkdir, engineVars, saveVars
  <2>2. l.op = loc[p].op /\ l.o = loc[p].o /\ l.id = loc[p].id
    BY <1>2, WorkFields
  <2> HIDE DEF l
  <2>3. loc'[p] = loc[p] \/ loc'[p] = l
    BY <2>1, Lands
  <2>4. pc'[p] \notin Risky /\ Walks(p)
    BY <2>1, Lands, SafeLabels DEF Walks
  <2>5. QED
    BY <1>1, <2>1, <2>2, <2>3, <2>4, WorkSame
<1>5. CASE MoveHold(p)
  <2>1. "move.prios" \in FlowNext
    BY DEF FlowNext
  <2>2. QED
    BY <1>1, <1>5, <2>1, PutChecks DEF MoveHold
<1>6. CASE MovePrios(p)
  <2> DEFINE a == [f \in Files |-> fromLibPriority(lib[loc[p].t].prio[f])]
             l == [loc[p] EXCEPT !.prios = a]
  <2>1. /\ Goto(p, "move.files") /\ SetLoc(p, l)
        /\ UNCHANGED save /\ UNCHANGED <<torrents, tr, nobj, checkWG, canceled>>
        /\ UNCHANGED libVars
    BY <1>6, Zenon DEF MovePrios, engineVars, saveVars
  <2> HIDE DEF a
  <2>2. l.op = loc[p].op /\ l.o = loc[p].o /\ l.id = loc[p].id
    BY <1>2, WorkFields
  <2> HIDE DEF l
  <2>3. loc'[p] = l
    BY <2>1, Lands
  <2>4. pc'[p] \notin Risky /\ Walks(p)
    BY <2>1, Lands, SafeLabels DEF Walks
  <2>5. QED
    BY <1>1, <2>1, <2>2, <2>3, <2>4, WorkSame
<1>7. CASE MoveFiles(p)
  <2>1. /\ Goto(p, "move.fold") \/ Goto(p, "move.failed")
        /\ UNCHANGED loc /\ UNCHANGED save
        /\ UNCHANGED <<torrents, tr, nobj, checkWG, canceled>> /\ UNCHANGED libVars
    BY <1>7, Zenon DEF MoveFiles, engineVars, saveVars
  <2>2. pc'[p] \notin Risky /\ Walks(p)
    BY <2>1, Lands, SafeLabels DEF Walks
  <2>3. QED
    BY <1>1, <2>1, <2>2, WorkSame
<1>8. CASE MoveFold(p)
  BY <1>1, <1>8, FoldChecks, SafeLabels DEF MoveFold
<1>9. CASE MoveDrop(p)
  BY <1>9, DropChecks, SafeLabels DEF MoveDrop, At
<1>10. CASE MoveReadd(p)
  <2>1. UNCHANGED save /\ UNCHANGED <<torrents, tr, nobj, checkWG, canceled>>
    BY <1>10 DEF MoveReadd, engineVars, saveVars
  <2>2. CASE AddTorrentSpec(loc[p].id, loc[p].dir, TRUE)
             /\ SetLoc(p, [loc[p] EXCEPT !.ft = AddedInst(loc[p].id)]) /\ Goto(p, "move.reprio")
    <3>1. "move.reprio" \in NeedsFresh
      BY DEF NeedsFresh
    <3>2. QED
      BY <1>1, <2>1, <2>2, <3>1, ReaddChecks
  <2>3. CASE Goto(p, "move.lost") /\ UNCHANGED <<libVars, loc>>
    <3>1. pc'[p] \notin Risky /\ Walks(p)
      BY <2>1, <2>3, Lands, SafeLabels DEF Walks
    <3>2. QED
      BY <1>1, <2>1, <2>3, <3>1, WorkSame
  <2>4. QED
    BY <1>10, <2>2, <2>3 DEF MoveReadd
<1>11. CASE MoveLost(p)
  <2> DEFINE l == [loc[p] EXCEPT !.t = NoInst]
             x == [tr[loc[p].o] EXCEPT !.savePath = loc[p].dir]
  <2>1. /\ Persist(p, "move.failed") /\ SetLoc(p, l) /\ SetTr(loc[p].o, x)
        /\ UNCHANGED <<torrents, nobj, checkWG, canceled>> /\ UNCHANGED libVars
    BY <1>11 DEF MoveLost
  <2>2. l.op = loc[p].op /\ l.o = loc[p].o /\ l.id = loc[p].id
    BY <1>2, WorkFields
  <2>3. x.t = tr[loc[p].o].t /\ x.cancelCheck = tr[loc[p].o].cancelCheck
    BY <1>2, TrField, TrField2
  <2> HIDE DEF l, x
  <2>4. loc'[p] = l
    BY <2>1, Lands
  <2>5. pc'[p] \notin Risky /\ Walks(p)
    BY <2>1, PersistGoes, SafeLabels DEF Walks
  <2>6. QED
    BY <1>1, <2>1, <2>2, <2>3, <2>4, <2>5, MarkChecks
<1>12. CASE MoveFailed(p)
  <2> DEFINE x == Failed(tr[loc[p].o])
             l == Decide([loc[p] EXCEPT !.t = NoInst], x, "end")
  <2>1. /\ Goto(p, "flow.down") /\ SetLoc(p, l) /\ SetTr(loc[p].o, x)
        /\ UNCHANGED save /\ UNCHANGED <<torrents, nobj, checkWG, canceled>>
        /\ UNCHANGED libVars
    BY <1>12, Zenon DEF MoveFailed, saveVars
  <2>2. l.op = loc[p].op /\ l.o = loc[p].o /\ l.id = loc[p].id
    BY <1>2 DEF Decide, Locals
  <2>3. x.t = tr[loc[p].o].t /\ x.cancelCheck = tr[loc[p].o].cancelCheck
    BY <1>2, FailedFields
  <2> HIDE DEF l, x
  <2>4. loc'[p] = l
    BY <2>1, Lands
  <2>5. pc'[p] \notin Risky /\ Walks(p)
    BY <2>1, Lands, SafeLabels DEF Walks
  <2>6. QED
    BY <1>1, <2>1, <2>2, <2>3, <2>4, <2>5, MarkChecks
<1>13. CASE MoveReprio(p)
  BY <1>13, ReprioChecks
<1>14. CASE MoveSwap(p)
  BY <1>14, SwapChecks
<1>15. QED
  BY <1>3, <1>4, <1>5, <1>6, <1>7, <1>8, <1>9, <1>10, <1>11, <1>12, <1>13, <1>14 DEF MoveStep

-----------------------------------------------------------------------------
(* The verification.                                                       *)

LEMMA VerifyApart ==
  VerifyLabels \subseteq CountLabels /\ CountLabels \subseteq CheckMarks
BY DEF VerifyLabels, CountLabels, CheckMarks

LEMMA CheckFields ==
  ASSUME NEW l \in Locals, NEW a
  PROVE  /\ LET m == [l EXCEPT !.t = a] IN m.o = l.o /\ m.t = a
         /\ LET m == [l EXCEPT !.err = a] IN m.o = l.o
         /\ LET m == [l EXCEPT !.done = a] IN m.o = l.o /\ m.t = l.t
BY DEF Locals

LEMMA VerifyChecks ==
  ASSUME Inv, Inv', CheckInv, NEW p \in Threads, VerifyRead(p) \/ VerifyLoop(p) \/ VerifyPiece(p)
  PROVE  Progress
<1>1. UNCHANGED save /\ UNCHANGED <<torrents, tr, nobj, checkWG, canceled>> /\ UNCHANGED libVars
  BY DEF VerifyRead, VerifyLoop, VerifyPiece, engineVars, saveVars
<1>2. \/ /\ pc[p] = "check.read" /\ Goto(p, "check.loop")
         /\ SetLoc(p, [loc[p] EXCEPT !.t = tr[loc[p].o].t])
      \/ /\ pc[p] = "check.loop" /\ Goto(p, "check.hash") /\ UNCHANGED loc
      \/ /\ pc[p] = "check.hash" /\ Goto(p, "check.loop")
         /\ \E a : SetLoc(p, [loc[p] EXCEPT !.done = a])
      \/ /\ pc[p] \in {"check.loop", "check.hash"} /\ Goto(p, "check.clear")
         /\ \E a : SetLoc(p, [loc[p] EXCEPT !.err = a])
  <2>1. ASSUME VerifyLoop(p)
        PROVE  \/ /\ pc[p] = "check.loop" /\ Goto(p, "check.hash") /\ UNCHANGED loc
               \/ /\ pc[p] = "check.loop" /\ Goto(p, "check.clear")
                  /\ \E a : SetLoc(p, [loc[p] EXCEPT !.err = a])
    BY <2>1 DEF VerifyLoop, At
  <2>2. ASSUME VerifyPiece(p)
        PROVE  \/ /\ pc[p] = "check.hash" /\ Goto(p, "check.loop")
                  /\ \E a : SetLoc(p, [loc[p] EXCEPT !.done = a])
               \/ /\ pc[p] = "check.hash" /\ Goto(p, "check.clear")
                  /\ \E a : SetLoc(p, [loc[p] EXCEPT !.err = a])
    <3>1. \E a : [loc[p] EXCEPT !.done = @ + 1] = [loc[p] EXCEPT !.done = a]
      OBVIOUS
    <3>2. QED
      BY <2>2, <3>1 DEF VerifyPiece, At
  <2>3. VerifyRead(p) => pc[p] = "check.read" /\ Goto(p, "check.loop")
                           /\ SetLoc(p, [loc[p] EXCEPT !.t = tr[loc[p].o].t])
    BY DEF VerifyRead, At
  <2>4. QED
    BY <2>1, <2>2, <2>3
<1>3. pc[p] \in VerifyLabels /\ pc'[p] \in CountLabels
  BY <1>2, Lands DEF VerifyLabels, CountLabels
<1>4. p \in Checkers /\ pc[p] \in CountLabels
  BY <1>3, VerifyApart DEF CheckInv
<1>5. /\ loc'[p].o = loc[p].o
      /\ \/ pc'[p] = "check.clear"
         \/ loc'[p].t = tr[loc[p].o].t
         \/ pc[p] \in {"check.loop", "check.hash"} /\ loc'[p].t = loc[p].t
  <2>1. CASE /\ pc[p] = "check.read" /\ Goto(p, "check.loop")
             /\ SetLoc(p, [loc[p] EXCEPT !.t = tr[loc[p].o].t])
    <3> DEFINE a == tr[loc[p].o].t
               l == [loc[p] EXCEPT !.t = a]
    <3>1. l.o = loc[p].o /\ l.t = a
      BY Lands, CheckFields
    <3>2. SetLoc(p, l)
      BY <2>1
    <3> HIDE DEF l
    <3>3. QED
      BY <3>1, <3>2, Lands
  <2>2. CASE pc[p] = "check.loop" /\ Goto(p, "check.hash") /\ UNCHANGED loc
    BY <2>2
  <2>3. CASE /\ pc[p] = "check.hash" /\ Goto(p, "check.loop")
             /\ \E a : SetLoc(p, [loc[p] EXCEPT !.done = a])
    <3>1. PICK a : SetLoc(p, [loc[p] EXCEPT !.done = a])
      BY <2>3
    <3> DEFINE l == [loc[p] EXCEPT !.done = a]
    <3>2. l.o = loc[p].o /\ l.t = loc[p].t
      BY Lands, CheckFields
    <3>3. SetLoc(p, l)
      BY <3>1
    <3> HIDE DEF l
    <3>4. QED
      BY <2>3, <3>2, <3>3, Lands
  <2>4. CASE /\ pc[p] \in {"check.loop", "check.hash"} /\ Goto(p, "check.clear")
             /\ \E a : SetLoc(p, [loc[p] EXCEPT !.err = a])
    <3>1. PICK a : SetLoc(p, [loc[p] EXCEPT !.err = a])
      BY <2>4
    <3> DEFINE l == [loc[p] EXCEPT !.err = a]
    <3>2. l.o = loc[p].o
      BY Lands, CheckFields
    <3>3. SetLoc(p, l)
      BY <3>1
    <3> HIDE DEF l
    <3>4. QED
      BY <2>4, <3>2, <3>3, Lands
  <2>5. QED
    BY <1>2, <2>1, <2>2, <2>3, <2>4
<1>6. pc'[p] \in {"check.loop", "check.hash"} /\ LiveInv => loc'[p].t = tr[loc[p].o].t
  BY <1>5 DEF LiveInv, LiveOK
<1>7. Verifies(p)
  BY <1>3, <1>4, <1>5, <1>6 DEF Verifies
<1>8. Walks(p)
  BY <1>1, <1>2 DEF Walks
<1>9. pc'[p] # "check.add"
  BY <1>3 DEF CountLabels
<1>10. QED
  BY <1>1, <1>7, <1>8, <1>9, TrSame2, LiveSame, SteadyStep DEF Proceeds

LEMMA ClearChecks ==
  ASSUME Inv, Inv', CheckInv, NEW p \in Threads, CheckClear(p)
  PROVE  Progress
<1> DEFINE o == loc[p].o
           x == [tr[o] EXCEPT !.cancelCheck = NoThread, !.checking = FALSE]
<1>1. /\ pc[p] = "check.clear" /\ Goto(p, "check.done") /\ UNCHANGED loc /\ UNCHANGED save
      /\ SetTr(o, x) /\ canceled' = [canceled EXCEPT ![p] = TRUE]
      /\ UNCHANGED <<torrents, nobj, checkWG>> /\ UNCHANGED libVars
  BY DEF CheckClear, At, saveVars
<1>2. p \in Checkers /\ o \in Objs /\ Counted(p, o) /\ pc[p] \in CountLabels
  <2>1. pc[p] \in CountLabels
    BY <1>1 DEF CountLabels
  <2>2. p \in Checkers /\ o \in Objs
    BY <2>1, CheckFacts, VerifyApart DEF CheckInv
  <2>3. QED
    BY <2>1, <2>2 DEF Counted
<1>3. x.t = tr[o].t
  BY <1>2, TrTyped DEF Tracked
<1> HIDE DEF o, x
<1>4. \A b \in Objs : tr'[b] = IF b = o THEN x ELSE tr[b]
  BY <1>1, TrTyped DEF SetTr
<1>5. TrLive
  BY <1>3, <1>4 DEF TrLive
<1>6. pc'[p] = "check.done" /\ loc'[p] = loc[p]
  BY <1>1, Lands
<1>7. Verifies(p)
  BY <1>2, <1>6 DEF Verifies, CountLabels, VerifyLabels
<1>8. \A q \in Threads : q # p => Stays(q)
  <2>1. Walks(p)
    BY <1>1 DEF Walks
  <2>2. QED
    BY <2>1, WalksStays
<1>9. CheckCanBeStopped'
  <2> SUFFICES ASSUME NEW k \in Checkers, Verifying(k)', ~canceled'[k]
               PROVE  tr'[loc'[k].o].cancelCheck = k
    BY DEF CheckCanBeStopped
  <2>1. k # p /\ k \in Threads
    BY <1>6 DEF Verifying, Threads
  <2>2. pc'[k] = pc[k] /\ loc'[k] = loc[k]
    BY <1>8, <2>1 DEF Stays
  <2>3. Verifying(k) /\ pc[k] \in CountLabels
    BY <2>2 DEF Verifying, CountLabels
  <2>4. ~canceled[k]
    BY <1>1, <2>1 DEF Inv, TypeOK, EngineTypes
  <2>5. tr[loc[k].o].cancelCheck = k
    BY <2>3, <2>4 DEF CheckInv, CheckCanBeStopped
  <2>6. loc[k].o # o /\ loc[k].o \in Objs
    BY <1>2, <2>1, <2>3, OneCheck, CheckFacts, VerifyApart
  <2>7. QED
    BY <1>4, <2>2, <2>5, <2>6
<1>10. CheckInv'
  BY <1>1, <1>7, <1>8, <1>9, CountFrame DEF Proceeds
<1>11. ASSUME "remove" \notin Ops, LiveInv PROVE LiveInv'
  <2>1. LibLive /\ Extends
    BY <1>1, <1>11, LiveSame DEF Extends
  <2>2. OwnInst'
    BY <1>1, <1>5, <1>11, <2>1, OwnKept
  <2>3. Stays(p) \/ LiveOK(p)'
    BY <1>5, <1>6, <1>7, <1>11, <2>1, ProceedsLive DEF Proceeds
  <2>4. QED
    BY <1>5, <1>8, <1>11, <2>1, <2>2, <2>3, LiveFrame
<1>12. QED
  BY <1>10, <1>11 DEF Progress

(* What checkWG must say once a step has changed it.                       *)
LEMMA CountSet ==
  ASSUME CheckInv, CheckCanBeStopped', NEW p \in Threads, NEW o \in Objs, NEW n \in {0, 1},
         \A b \in Objs : checkWG'[b] = IF b = o THEN n ELSE checkWG[b],
         \A q \in Threads : q # p => Stays(q),
         pc'[p] \in {"check.add", "check.begin"} => loc'[p].op # "",
         pc'[p] \in CountLabels => p \in Checkers,
         \A b \in Objs : ~Quieted(p, b)',
         \A b \in Objs : Counted(p, b)' => b = o /\ n = 1,
         \A q \in Threads : q # p => ~Counted(q, o) /\ ~Quieted(q, o)
  PROVE  CheckInv'
<1>1. ASSUME NEW q \in Threads, q # p, NEW b \in Objs
      PROVE  (Counted(q, b)' => Counted(q, b)) /\ (Quieted(q, b)' => Quieted(q, b))
  BY <1>1 DEF Stays, Counted, Quieted, AtWork, Where, WhereOf
<1>2. \A q \in Threads :
        /\ pc'[q] \in {"check.add", "check.begin"} => loc'[q].op # ""
        /\ pc'[q] \in CountLabels => q \in Checkers
  BY DEF Stays, CheckInv
<1>3. ASSUME NEW q \in Threads, NEW b \in Objs
      PROVE  (Counted(q, b)' => checkWG'[b] = 1) /\ (Quieted(q, b)' => checkWG'[b] = 0)
  <2>1. CASE q = p
    BY <2>1
  <2>2. CASE q # p
    <3>1. (Counted(q, b) => checkWG[b] = 1) /\ (Quieted(q, b) => checkWG[b] = 0)
      BY DEF CheckInv
    <3>2. QED
      BY <1>1, <2>2, <3>1
  <2>3. QED
    BY <2>1, <2>2
<1>4. ASSUME NEW q \in Threads, NEW r \in Threads, NEW b \in Objs, Counted(q, b)', Counted(r, b)'
      PROVE  q = r
  <2>1. Counted(q, b) /\ Counted(r, b) => q = r
    BY DEF CheckInv
  <2>2. QED
    BY <1>1, <1>4, <2>1
<1>5. QED
  BY <1>2, <1>3, <1>4 DEF CheckInv

LEMMA DoneChecks ==
  ASSUME Inv, Inv', CheckInv, NEW p \in Threads, CheckDone(p)
  PROVE  Progress
<1> DEFINE o == loc[p].o
<1>1. /\ pc[p] = "check.done" /\ Goto(p, "check.end") /\ UNCHANGED loc /\ UNCHANGED save
      /\ checkWG' = [checkWG EXCEPT ![o] = @ - 1]
      /\ UNCHANGED <<torrents, tr, nobj, canceled>> /\ UNCHANGED libVars
  BY DEF CheckDone, At, saveVars
<1>2. p \in Checkers /\ p \notin Clients /\ o \in Objs /\ Counted(p, o) /\ loc[p].op = ""
  <2>1. pc[p] \in CountLabels
    BY <1>1 DEF CountLabels
  <2>2. p \in Checkers /\ p \notin Clients /\ o \in Objs
    BY <2>1, CheckFacts, VerifyApart, ThreadsAssumption DEF CheckInv
  <2>3. QED
    BY <2>1, <2>2, CheckFacts DEF Counted
<1> HIDE DEF o
<1>3. checkWG[o] = 1
  BY <1>2 DEF CheckInv
<1>4. \A b \in Objs : checkWG'[b] = IF b = o THEN 0 ELSE checkWG[b]
  <2>1. checkWG \in [Objs -> Int]
    BY DEF Inv, TypeOK, EngineTypes
  <2>2. checkWG' = [checkWG EXCEPT ![o] = 0]
    BY <1>1, <1>3
  <2>3. QED
    BY <1>2, <2>1, <2>2
<1>5. pc'[p] = "check.end" /\ loc'[p] = loc[p]
  BY <1>1, Lands
<1>6. \A q \in Threads : q # p => Stays(q)
  <2>1. Walks(p)
    BY <1>1 DEF Walks
  <2>2. QED
    BY <2>1, WalksStays
<1>7. CheckCanBeStopped'
  <2> SUFFICES ASSUME NEW k \in Checkers, Verifying(k)', ~canceled'[k]
               PROVE  tr'[loc'[k].o].cancelCheck = k
    BY DEF CheckCanBeStopped
  <2>1. k # p /\ k \in Threads
    BY <1>5 DEF Verifying, Threads
  <2>2. QED
    BY <1>1, <1>6, <2>1 DEF Stays, Verifying, CheckInv, CheckCanBeStopped
<1>8. CheckInv'
  <2>1. \A b \in Objs : ~Quieted(p, b)' /\ ~Counted(p, b)'
    BY <1>2, <1>5 DEF Quieted, Counted, CountLabels
  <2>2. ASSUME NEW q \in Threads, q # p PROVE ~Counted(q, o) /\ ~Quieted(q, o)
    <3>1. Counted(q, o) => q = p
      BY <1>2 DEF CheckInv
    <3>2. Quieted(q, o) => checkWG[o] = 0
      BY <1>2 DEF CheckInv
    <3>3. QED
      BY <1>3, <2>2, <3>1, <3>2
  <2>3. pc'[p] \notin CountLabels \cup {"check.add", "check.begin"}
    BY <1>5 DEF CountLabels
  <2>4. QED
    BY <1>2, <1>4, <1>6, <1>7, <2>1, <2>2, <2>3, CountSet
<1>9. ASSUME "remove" \notin Ops, LiveInv PROVE LiveInv'
  <2>1. LibLive /\ Extends /\ TrLive
    BY <1>1, <1>9, LiveSame DEF Extends, TrLive
  <2>2. OwnInst'
    BY <1>1, <1>9, <2>1, OwnKept
  <2>3. LiveOK(p)'
    BY <1>2, <1>5, <1>9, LeavesLive DEF Leaves, CheckMarks, CountLabels
  <2>4. QED
    BY <1>6, <1>9, <2>1, <2>2, <2>3, LiveFrame
<1>10. QED
  BY <1>8, <1>9 DEF Progress

LEMMA CheckerChecks ==
  ASSUME Inv, Inv', CheckInv, NEW p \in Waiters \cup Checkers, CheckerStep(p)
  PROVE  Progress
<1>0. p \in Threads /\ p \notin Clients
  BY ThreadsAssumption DEF Threads
<1>1. CASE VerifyRead(p) \/ VerifyLoop(p) \/ VerifyPiece(p)
  BY <1>0, <1>1, VerifyChecks
<1>2. CASE CheckClear(p)
  BY <1>0, <1>2, ClearChecks
<1>3. CASE CheckDone(p)
  BY <1>0, <1>3, DoneChecks
<1>4. CASE CheckEnd(p)
  <2> DEFINE o == loc[p].o
             x == [tr[o] EXCEPT !.lastErr = @ \/ loc[p].err = "failed",
                                !.holdData = @ /\ ~loc[p].flag]
  <2>1. /\ pc[p] = "check.end" /\ SetTr(o, x) /\ UNCHANGED save
        /\ \E l : SetLoc(p, l)
        /\ Goto(p, "flow.down") \/ Goto(p, "off")
        /\ UNCHANGED <<torrents, nobj, checkWG, canceled>> /\ UNCHANGED libVars
    BY <1>4 DEF CheckEnd, At, saveVars
  <2>2. o \in Objs => x.t = tr[o].t /\ x.cancelCheck = tr[o].cancelCheck
    <3> SUFFICES ASSUME o \in Objs PROVE x.t = tr[o].t /\ x.cancelCheck = tr[o].cancelCheck
      OBVIOUS
    <3>1. tr[o] \in Tracked
      BY TrTyped
    <3>2. QED
      BY <3>1 DEF Tracked
  <2> HIDE DEF o, x
  <2>3. TrKeeps
    BY <2>1, <2>2, TrSet2
  <2>4. Walks(p)
    BY <2>1 DEF Walks
  <2>5. Quits(p)
    <3>1. pc'[p] = "flow.down" \/ pc'[p] = "off"
      BY <1>0, <2>1, Lands
    <3>2. QED
      BY <1>0, <3>1 DEF Quits, CheckMarks, CountLabels
  <2>6. QED
    BY <1>0, <2>1, <2>3, <2>4, <2>5, LiveSame, QuitStep
<1>5. CASE CheckOff(p)
  <2>1. /\ UNCHANGED save /\ SetLoc(p, Loc0) /\ Goto(p, "off")
        /\ UNCHANGED <<torrents, tr, nobj, checkWG, canceled>> /\ UNCHANGED libVars
    BY <1>5 DEF CheckOff, saveVars, engineVars
  <2>2. Walks(p) /\ Quits(p)
    BY <1>0, <2>1, Lands DEF Walks, Quits, CheckMarks, CountLabels
  <2>3. QED
    BY <1>0, <2>1, <2>2, QuitSame
<1>6. QED
  BY <1>1, <1>2, <1>3, <1>4, <1>5 DEF CheckerStep

-----------------------------------------------------------------------------
(* beginCheck.                                                             *)

LEMMA BeginAddChecks ==
  ASSUME Inv, Inv', CheckInv, NEW p \in Threads, BeginCheckAdd(p)
  PROVE  Progress
<1> DEFINE o == loc[p].o
<1>1. /\ pc[p] = "check.add" /\ Goto(p, "check.begin") /\ UNCHANGED loc /\ UNCHANGED save
      /\ checkWG' = [checkWG EXCEPT ![o] = @ + 1]
      /\ UNCHANGED <<torrents, tr, nobj, canceled>> /\ UNCHANGED libVars
  BY DEF BeginCheckAdd, At, saveVars
<1>0. p \in Clients /\ AtWork(p)
  BY <1>1, BeginMu DEF AtWork
<1>2. loc[p].op # "" /\ o \in Objs
  BY <1>0, WorkMu
<1>a. checkWG[o] = 0
  BY <1>0, WorkMu
<1> HIDE DEF o
<1>3. \A b \in Objs : checkWG'[b] = IF b = o THEN 1 ELSE checkWG[b]
  <2>1. checkWG \in [Objs -> Int]
    BY DEF Inv, TypeOK, EngineTypes
  <2>2. checkWG' = [checkWG EXCEPT ![o] = 1]
    BY <1>1, <1>a
  <2>3. QED
    BY <1>2, <2>1, <2>2
<1>4. pc'[p] = "check.begin" /\ loc'[p] = loc[p]
  BY <1>1, Lands
<1>5. \A q \in Threads : q # p => Stays(q)
  <2>1. Walks(p)
    BY <1>1 DEF Walks
  <2>2. QED
    BY <2>1, WalksStays
<1>6. CheckCanBeStopped'
  <2> SUFFICES ASSUME NEW k \in Checkers, Verifying(k)', ~canceled'[k]
               PROVE  tr'[loc'[k].o].cancelCheck = k
    BY DEF CheckCanBeStopped
  <2>1. k # p /\ k \in Threads
    BY <1>4 DEF Verifying, Threads
  <2>2. QED
    BY <1>1, <1>5, <2>1 DEF Stays, Verifying, CheckInv, CheckCanBeStopped
<1>7. CheckInv'
  <2>1. \A b \in Objs : ~Quieted(p, b)'
    <3>1. Where(p)' = "check.begin"
      BY <1>4 DEF Where, WhereOf, FlowLabels, SaveLabels
    <3>2. "check.begin" \notin QuietLabels
      BY SMTT(30) DEF QuietLabels, StructLabels
    <3>3. QED
      BY <1>4, <3>1, <3>2 DEF Quieted, AtWork
  <2>2. \A b \in Objs : Counted(p, b)' => b = o
    BY <1>4 DEF Counted, o
  <2>3. ASSUME NEW q \in Threads, q # p PROVE ~Counted(q, o) /\ ~Quieted(q, o)
    <3>1. Counted(q, o) => checkWG[o] = 1
      BY <1>2 DEF CheckInv
    <3>2. ~Quieted(q, o)
      BY <1>0, <2>3, AloneAtWork DEF Quieted, o
    <3>3. QED
      BY <1>a, <3>1, <3>2
  <2>4. pc'[p] \notin CountLabels /\ loc'[p].op # ""
    BY <1>2, <1>4 DEF CountLabels
  <2>5. QED
    BY <1>2, <1>3, <1>5, <1>6, <2>1, <2>2, <2>3, <2>4, CountSet
<1>8. ASSUME "remove" \notin Ops, LiveInv PROVE LiveInv'
  <2>1. LibLive /\ Extends /\ TrLive
    BY <1>1, <1>8, LiveSame DEF Extends, TrLive
  <2>2. OwnInst'
    BY <1>1, <1>8, <2>1, OwnKept
  <2>3. LiveOK(p)'
    <3>1. torrents[loc[p].id] = loc[p].o /\ lib[tr[loc[p].o].t].live
      BY <1>1, <1>2, <1>8 DEF LiveInv, LiveOK
    <3>2. lib' = lib
      BY <1>1 DEF libVars
    <3>3. KeepsAll("check.begin", loc[p]) /\ "check.begin" \notin NeedsFresh
      BY SMTT(30) DEF KeepsAll, RemoveLabels, OpLabels, NeedsFresh
    <3>4. QED
      BY <1>1, <1>4, <3>1, <3>2, <3>3 DEF LiveOK
  <2>4. QED
    BY <1>5, <1>8, <2>1, <2>2, <2>3, LiveFrame
<1>9. QED
  BY <1>7, <1>8 DEF Progress

LEMMA BeginChecks ==
  ASSUME Inv, Inv', CheckInv, NEW p \in Threads, BeginCheck(p)
  PROVE  Progress
<1>k. PICK k : k = CHOOSE y \in Checkers : At(y, "off")
  OBVIOUS
<1> DEFINE o == loc[p].o
           x == [tr[o] EXCEPT !.cancelCheck = k, !.checking = TRUE]
           m == [Loc0 EXCEPT !.id = loc[p].id, !.o = o, !.flag = loc[p].op = "move"]
<1>1. /\ k \in Checkers /\ pc[k] = "off" /\ pc[p] = "check.begin"
      /\ SetTr(o, x) /\ SetLoc(k, m)
      /\ pc' = [pc EXCEPT ![k] = "check.read", ![p] = "end"]
      /\ canceled' = [Cancel(tr[o]) EXCEPT ![k] = FALSE]
      /\ UNCHANGED save /\ UNCHANGED <<torrents, nobj, checkWG>> /\ UNCHANGED libVars
  BY <1>k DEF BeginCheck, At, saveVars
<1>2. /\ p \in Clients /\ loc[p].op # "" /\ o \in Objs /\ o <= nobj /\ Counted(p, o)
      /\ tr[o] \in Tracked
  BY <1>1, BeginMu, TrTyped DEF Counted
<1>3. m.o = o /\ m.op = "" /\ x.t = tr[o].t /\ x.cancelCheck = k
  BY <1>2 DEF Loc0, Tracked
<1> HIDE DEF o, x, m
<1>4. ThreadTypes /\ k \in Threads /\ k # p /\ k \notin Clients
  BY <1>1, ThreadFacts, ThreadsAssumption DEF Threads
<1>5. /\ pc'[k] = "check.read" /\ pc'[p] = "end" /\ loc'[k] = m /\ loc'[p] = loc[p]
      /\ \A q \in Threads : q # p /\ q # k => Stays(q)
  BY <1>1, <1>4 DEF ThreadTypes, SetLoc, Stays
<1>6. \A b \in Objs : tr'[b] = IF b = o THEN x ELSE tr[b]
  BY <1>1, TrTyped DEF SetTr
<1>7. ASSUME NEW q \in Threads, q # p, q # k, NEW b \in Objs
      PROVE  (Counted(q, b)' => Counted(q, b) /\ b # o) /\ (Quieted(q, b)' => Quieted(q, b))
  <2>1. Stays(q)
    BY <1>5, <1>7
  <2>2. Counted(q, b)' => Counted(q, b)
    BY <2>1 DEF Stays, Counted
  <2>3. Quieted(q, b)' => Quieted(q, b)
    BY <2>1 DEF Stays, Quieted, AtWork, Where, WhereOf
  <2>4. Counted(q, o) => q = p
    BY <1>2 DEF CheckInv
  <2>5. QED
    BY <1>7, <2>2, <2>3, <2>4
<1>8. ASSUME NEW b \in Objs
      PROVE  /\ ~Counted(p, b)' /\ ~Quieted(p, b)' /\ ~Quieted(k, b)'
             /\ Counted(k, b)' => b = o
  <2>1. Where(p)' = "end" /\ "end" \notin QuietLabels
    BY <1>5, SMTT(30) DEF Where, WhereOf, FlowLabels, SaveLabels, QuietLabels, StructLabels
  <2>2. QED
    BY <1>2, <1>3, <1>4, <1>5, <2>1 DEF Counted, Quieted, AtWork, CountLabels
<1>9. CheckCanBeStopped'
  <2> SUFFICES ASSUME NEW j \in Checkers, Verifying(j)', ~canceled'[j]
               PROVE  tr'[loc'[j].o].cancelCheck = j
    BY DEF CheckCanBeStopped
  <2>1. CASE j = k
    BY <1>2, <1>3, <1>5, <1>6, <2>1
  <2>2. CASE j # k
    <3>1. j # p /\ j \in Threads
      BY <1>5 DEF Verifying, Threads
    <3>2. pc'[j] = pc[j] /\ loc'[j] = loc[j]
      BY <1>5, <2>2, <3>1 DEF Stays
    <3>3. Verifying(j) /\ pc[j] \in CountLabels
      BY <3>2 DEF Verifying, CountLabels
    <3>4. ~canceled[j]
      BY <1>1, <2>2 DEF Cancel
    <3>5. tr[loc[j].o].cancelCheck = j
      BY <3>3, <3>4 DEF CheckInv, CheckCanBeStopped
    <3>6. loc[j].o # o /\ loc[j].o \in Objs
      BY <1>2, <3>1, <3>3, OneCheck, CheckFacts, VerifyApart
    <3>7. QED
      BY <1>6, <3>2, <3>5, <3>6
  <2>3. QED
    BY <2>1, <2>2
<1>10. CheckInv'
  <2>1. ASSUME NEW q \in Threads
        PROVE  /\ pc'[q] \in {"check.add", "check.begin"} => loc'[q].op # ""
               /\ pc'[q] \in CountLabels => q \in Checkers
    <3>1. CASE q = p
      BY <1>5, <3>1 DEF CountLabels
    <3>2. CASE q = k
      BY <1>1, <1>5, <3>2
    <3>3. CASE q # p /\ q # k
      BY <1>5, <3>3 DEF Stays, CheckInv
    <3>4. QED
      BY <3>1, <3>2, <3>3
  <2>2. ASSUME NEW q \in Threads, NEW b \in Objs
        PROVE  (Counted(q, b)' => checkWG'[b] = 1) /\ (Quieted(q, b)' => checkWG'[b] = 0)
    <3>1. checkWG' = checkWG /\ (Counted(q, b) => checkWG[b] = 1)
          /\ (Quieted(q, b) => checkWG[b] = 0) /\ checkWG[o] = 1
      BY <1>1, <1>2 DEF CheckInv
    <3>2. QED
      BY <1>7, <1>8, <3>1
  <2>3. ASSUME NEW q \in Threads, NEW r \in Threads, NEW b \in Objs,
               Counted(q, b)', Counted(r, b)'
        PROVE  q = r
    <3>1. Counted(q, b) /\ Counted(r, b) => q = r
      BY DEF CheckInv
    <3>2. QED
      BY <1>7, <1>8, <2>3, <3>1
  <2>4. QED
    BY <1>9, <2>1, <2>2, <2>3 DEF CheckInv
<1>11. ASSUME "remove" \notin Ops, LiveInv PROVE LiveInv'
  <2>1. LibLive /\ Extends /\ TrLive
    BY <1>1, <1>3, <1>6, <1>11, LiveSame DEF Extends, TrLive
  <2>2. OwnInst'
    BY <1>1, <1>11, <2>1, OwnKept
  <2>3. lib' = lib /\ torrents' = torrents
    BY <1>1 DEF libVars
  <2>4. torrents[loc[p].id] = loc[p].o /\ lib[tr[o].t].live
    BY <1>1, <1>2, <1>11 DEF LiveInv, LiveOK, o
  <2>5. /\ \A l : KeepsAll("end", l) /\ KeepsAll("check.read", l)
        /\ "end" \notin NeedsFresh /\ "check.read" \notin NeedsFresh
        /\ "end" \notin VerifyLabels
    BY SMTT(30) DEF KeepsAll, RemoveLabels, OpLabels, NeedsFresh, VerifyLabels
  <2>6. LiveOK(p)'
    BY <1>5, <2>3, <2>4, <2>5 DEF LiveOK
  <2>7. LiveOK(k)'
    <3>1. loc'[k].op = "" /\ loc'[k].o = o
      BY <1>3, <1>5
    <3>2. lib'[tr'[o].t].live
      BY <1>2, <1>3, <1>6, <2>3, <2>4
    <3>3. QED
      BY <1>5, <2>5, <3>1, <3>2 DEF LiveOK
  <2>8. \A q \in Threads : Stays(q) \/ LiveOK(q)'
    BY <1>5, <2>6, <2>7
  <2>9. QED
    BY <1>11, <2>1, <2>2, <2>8, LiveFrame
<1>12. QED
  BY <1>10, <1>11 DEF Progress

-----------------------------------------------------------------------------
(* A new process.                                                          *)

LEMMA FreshChecks ==
  ASSUME NEW q \in Threads, NEW k
  PROVE  /\ Fresh(q) \in {"new", "idle", "off"} /\ Fresh(q) \notin NeedsFresh
         /\ KeepsAll(Fresh(q), Loc0) /\ WhereOf(Fresh(q), Loc0, k) \notin QuietLabels
         /\ Loc0.op = ""
<1>1. Fresh(q) \in {"new", "idle", "off"}
  BY DEF Fresh
<1>2. \A c \in {"new", "idle", "off"} :
        /\ c \notin NeedsFresh /\ c \notin RemoveLabels /\ c \notin OpLabels
        /\ c \notin QuietLabels /\ c \notin FlowLabels /\ c \notin SaveLabels
  BY SMTT(30) DEF NeedsFresh, RemoveLabels, OpLabels, QuietLabels, StructLabels,
                  FlowLabels, SaveLabels
<1>3. QED
  BY <1>1, <1>2 DEF KeepsAll, WhereOf, Loc0

LEMMA BlankChecks ==
  ASSUME nobj = 0, \A i \in Ids : client[i] = NoInst,
         \A q \in Threads : pc[q] = Fresh(q) /\ loc[q] = Loc0
  PROVE  CheckInv /\ LiveInv
<1>1. \A q \in Threads : pc[q] \in {"new", "idle", "off"} /\ Where(q) \notin QuietLabels
  BY FreshChecks DEF Where
<1>2. \A q \in Threads, o \in Objs : ~Counted(q, o) /\ ~Quieted(q, o)
  BY <1>1 DEF Counted, Quieted, AtWork, CountLabels
<1>3. CheckCanBeStopped
  BY <1>1 DEF CheckCanBeStopped, Verifying, Threads
<1>4. CheckInv
  BY <1>1, <1>2, <1>3 DEF CheckInv, CountLabels
<1>5. OwnInst /\ ClientLive
  BY BoundsAssumption DEF OwnInst, ClientLive, Objs
<1>6. \A q \in Threads : LiveOK(q)
  BY <1>1, FreshChecks DEF LiveOK, VerifyLabels
<1>7. QED
  BY <1>4, <1>5, <1>6 DEF LiveInv

LEMMA InitChecks == Init => CheckInv /\ LiveInv
<1> SUFFICES ASSUME Init PROVE CheckInv /\ LiveInv
  OBVIOUS
<1>1. /\ nobj = 0 /\ \A i \in Ids : client[i] = NoInst
      /\ \A q \in Threads : pc[q] = Fresh(q) /\ loc[q] = Loc0
  BY DEF Init
<1>2. QED
  BY <1>1, BlankChecks

LEMMA ProcessEndsChecks == ProcessEnds => CheckInv' /\ LiveInv'
<1> SUFFICES ASSUME ProcessEnds PROVE CheckInv' /\ LiveInv'
  OBVIOUS
<1>0. /\ nobj' = 0 /\ \A i \in Ids : client'[i] = NoInst
      /\ \A q \in Threads : pc'[q] = Fresh(q) /\ loc'[q] = Loc0
  BY DEF ProcessEnds
<1>1. \A q \in Threads : pc'[q] \in {"new", "idle", "off"} /\ Where(q)' \notin QuietLabels
  BY <1>0, FreshChecks DEF Where
<1>2. \A q \in Threads, o \in Objs : ~Counted(q, o)' /\ ~Quieted(q, o)'
  BY <1>1 DEF Counted, Quieted, AtWork, CountLabels
<1>3. CheckCanBeStopped'
  BY <1>1 DEF CheckCanBeStopped, Verifying, Threads
<1>4. CheckInv'
  BY <1>1, <1>2, <1>3 DEF CheckInv, CountLabels
<1>5. OwnInst' /\ ClientLive'
  BY <1>0, BoundsAssumption DEF OwnInst, ClientLive, Objs
<1>6. \A q \in Threads : LiveOK(q)'
  BY <1>0, <1>1, FreshChecks DEF LiveOK, VerifyLabels
<1>7. QED
  BY <1>4, <1>5, <1>6 DEF LiveInv

-----------------------------------------------------------------------------
(* The step, and the theorems.                                             *)

LEMMA OpChecks ==
  ASSUME Inv, Inv', HoldInv, CheckInv, NEW p \in Threads, OpStep(p)
  PROVE  Progress
<1>1. CASE AddStep(p)
  BY <1>1, AddSpecChecks, AddTrackChecks, AddSpawnChecks DEF AddStep
<1>2. CASE StructStep(p)
  BY <1>2, BeginAddChecks, BeginChecks, LockChecks, RemoveChecks, PurgeChecks, MoveChecks
     DEF StructStep
<1>3. QED
  BY <1>1, <1>2, ApplyFlowChecks, EndOpChecks, PersistChecks, PauseChecks, FieldChecks,
     StreamChecks DEF OpStep

LEMMA ThreadChecks ==
  ASSUME Inv, Inv', HoldInv, CheckInv, NEW p \in Threads, ThreadStep(p)
  PROVE  Progress
<1>1. CASE p \in Waiters \cup Checkers /\ GoroutineStep(p)
  BY <1>1, ApplyFlowChecks, PersistChecks, WaiterChecks, CheckerChecks DEF GoroutineStep
<1>2. CASE MainStep
  BY <1>2, NewChecks, MainChecks, ProcessEndsChecks DEF MainStep, CloseWait, Progress
<1>3. QED
  BY <1>1, <1>2, OpChecks, TickChecks DEF ThreadStep

LEMMA NextChecks ==
  ASSUME "recheck" \notin Ops
  PROVE  Inv /\ Inv' /\ HoldInv /\ CheckInv /\ [Next]_vars => Progress
<1> SUFFICES ASSUME Inv, Inv', HoldInv, CheckInv, [Next]_vars PROVE Progress
  OBVIOUS
<1>1. CASE Crash
  BY <1>1, ProcessEndsChecks DEF Crash, Progress
<1>2. CASE Idle \/ UNCHANGED vars
  BY <1>2, StillChecks DEF Idle
<1>3. QED
  BY <1>1, <1>2, ClientCallsChecks, ThreadChecks, MainChecks, NetworkChecks DEF Next

LEMMA ChecksInvariance ==
  ASSUME "recheck" \notin Ops
  PROVE  Spec => []CheckInv
<1>1. Inv /\ Inv' /\ HoldInv /\ CheckInv /\ [Next]_vars => CheckInv'
  BY NextChecks DEF Progress
<1>2. QED
  BY <1>1, Invariance, HoldsInvariance, InitChecks, PTL DEF Spec

(* As long as nobody calls a recheck, a verification that runs and has not *)
(* been told to stop can be told to: the cancel function its struct holds  *)
(* is its own, whatever calls, removes and crashes come in between.        *)
THEOREM ChecksStop ==
  ASSUME "recheck" \notin Ops
  PROVE  Spec => []CheckCanBeStopped
<1>1. CheckInv => CheckCanBeStopped
  BY DEF CheckInv
<1>2. QED
  BY <1>1, ChecksInvariance, PTL

(* As long as nobody removes either, no torrent is dropped from the client *)
(* while one of its pieces is being hashed: a purge or move drops its own  *)
(* instance only, and has waited for the verification of that one.         *)
THEOREM HashedStayLive ==
  ASSUME "recheck" \notin Ops, "remove" \notin Ops
  PROVE  Spec => []HashingIsLive
<1>1. Inv /\ Inv' /\ HoldInv /\ CheckInv /\ LiveInv /\ [Next]_vars => LiveInv'
  BY NextChecks DEF Progress
<1>2. LiveInv => HashingIsLive
  BY DEF LiveInv, LiveOK, HashingIsLive, At, VerifyLabels, Threads
<1>3. QED
  BY <1>1, <1>2, Invariance, HoldsInvariance, ChecksInvariance, InitChecks, PTL DEF Spec

-----------------------------------------------------------------------------
(* The completion hook.                                                    *)

(* What a step other than the tick's own two leaves alone.                 *)
Logs == \A i \in Ids : Logged(i) => Logged(i)'

MainStays == pc'[Main] = pc[Main] /\ save'[Main] = save[Main]

Beside ==
  /\ UNCHANGED <<hooks, rs>> /\ tk'.done \subseteq tk.done
  /\ budget'.restarts = budget.restarts

(* No call on the budget but a restart's is one on the restarts.           *)
LEMMA RestartsKept ==
  ASSUME Inv
  PROVE  /\ [budget EXCEPT !.ops = @ - 1].restarts = budget.restarts
         /\ [budget EXCEPT !.ticks = @ - TickCost].restarts = budget.restarts
         /\ [budget EXCEPT !.bytes = @ - 1].restarts = budget.restarts
         /\ [budget EXCEPT !.faults = @ - 1].restarts = budget.restarts
BY DEF Inv, TypeOK, TallyTypes, Budget

LEMMA MainFunctions ==
  ASSUME Inv
  PROVE  /\ pc \in [Threads -> Places] /\ save \in [Threads -> Saving] /\ Main \in Threads
         /\ tk \in Ticking
BY MainThreads DEF Inv, TypeOK, ThreadTypes, SaveTypes, TallyTypes

LEMMA OpBeside ==
  ASSUME Inv, NEW p, OpStep(p)
  PROVE  Beside
<1>1. CASE ApplyFlowDown(p) \/ ApplyFlowUp(p) \/ EndOp(p) \/ AddStep(p)
  BY <1>1 DEF Beside, ApplyFlowDown, ApplyFlowUp, EndOp, AddStep, AddSpec, AddTrack, AddSpawn,
              mainVars
<1>2. CASE PauseStep(p) \/ FieldStep(p) \/ StreamStep(p)
  BY <1>2 DEF Beside, PauseStep, SetPaused, SetPausedChosen, SetPausedMark, SetPausedSave,
              FieldStep, SetFilePriority, SetFilePriorityChosen, SetTorrentRateLimit,
              SetSeedLimit, SetLabel, StreamStep, PrepareStreamPaused, PrepareStreamResume,
              PrepareStreamPrio, mainVars
<1>3. CASE PersistStep(p)
  BY <1>3, RestartsKept
     DEF Beside, PersistStep, PersistCheck, SaveGather, SaveMetaCollect, SaveMetaWrite, SaveWrite,
         SaveDirFails, mainVars
<1>4. CASE StructStep(p)
  <2>1. CASE BeginCheckAdd(p) \/ BeginCheck(p) \/ LockOp(p) \/ QuiesceCancel(p) \/ QuiesceWait(p)
    BY <2>1 DEF Beside, BeginCheckAdd, BeginCheck, LockOp, QuiesceCancel, QuiesceWait, mainVars
  <2>2. CASE RemoveStep(p)
    BY <2>2 DEF Beside, RemoveStep, RemoveDelete, RemoveDrop, RemoveFiles, RemoveMeta, mainVars
  <2>3. CASE PurgeStep(p)
    BY <2>3, RestartsKept
       DEF Beside, PurgeStep, PurgeRead, PurgeHold, PurgeFold, PurgeDrop, PurgeDelete, PurgeReadd,
           PurgeSwap, PurgeSave, PurgeFailed, StructRead, StructHold, FoldCounters, DropOld,
           Fault, mainVars
  <2>4. CASE MoveStep(p)
    BY <2>4, RestartsKept
       DEF Beside, MoveStep, MoveRead, MoveMkdir, MoveHold, MovePrios, MoveFiles, MoveFold,
           MoveDrop, MoveReadd, MoveLost, MoveFailed, MoveReprio, MoveSwap, StructRead,
           StructHold, FoldCounters, DropOld, Fault, mainVars
  <2>5. QED
    BY <1>4, <2>1, <2>2, <2>3, <2>4 DEF StructStep
<1>5. QED
  BY <1>1, <1>2, <1>3, <1>4 DEF OpStep

LEMMA GoroutineBeside ==
  ASSUME Inv, NEW p, GoroutineStep(p)
  PROVE  Beside
<1>1. CASE WaiterStep(p)
  BY <1>1 DEF Beside, WaiterStep, WaitInfo, WaitMark, WaitSelect, WaitChosen, WaitSave, mainVars
<1>2. CASE CheckerStep(p)
  BY <1>2, RestartsKept
     DEF Beside, CheckerStep, VerifyRead, VerifyLoop, VerifyPiece, CheckClear, CheckDone, CheckEnd,
         CheckOff, Fault, mainVars
<1>3. QED
  BY <1>1, <1>2, OpBeside DEF GoroutineStep, OpStep

LEMMA TickBeside ==
  ASSUME Inv, TickStep
  PROVE  /\ UNCHANGED rs /\ budget'.restarts = budget.restarts
         /\ Beside \/ TickDecide \/ TickHook
<1>1. tk \in Ticking
  BY MainFunctions
<1>2. ASSUME NEW a
      PROVE  [tk EXCEPT !.flows = a].done = tk.done /\ [tk EXCEPT !.stop = a].done = tk.done
  BY <1>1 DEF Ticking
<1>3. CASE TickStart \/ TickDisk \/ TickApply \/ TickStop
  BY <1>2, <1>3, RestartsKept DEF Beside, TickStart, TickDisk, TickApply, TickStop, mainVars
<1>4. CASE TickDecide \/ TickHook
  BY <1>4 DEF TickDecide, TickHook, mainVars
<1>5. QED
  BY <1>3, <1>4 DEF TickStep, Beside

LEMMA MainStaysGoto ==
  ASSUME Inv, NEW p, p # Main, NEW c, Goto(p, c), UNCHANGED save \/ \E s : SetSave(p, s)
  PROVE  MainStays
BY MainFunctions DEF Goto, SetSave, MainStays

LEMMA MainStaysPersist ==
  ASSUME Inv, NEW p, p # Main, NEW k, Persist(p, k)
  PROVE  MainStays
BY MainStaysGoto DEF Persist

LEMMA OpStays ==
  ASSUME Inv, NEW p, p # Main, OpStep(p)
  PROVE  MainStays
<1>1. CASE ApplyFlowDown(p) \/ ApplyFlowUp(p) \/ EndOp(p) \/ AddStep(p)
  <2>1. CASE AddSpawn(p)
    <3> DEFINE w == CHOOSE x \in Waiters : At(x, "off")
    <3>1. /\ w \in Waiters
          /\ \/ /\ pc' = [pc EXCEPT ![p] = "save.check", ![w] = "wait.info"]
                /\ \E s : SetSave(p, s)
             \/ /\ pc' = [pc EXCEPT ![p] = "end", ![w] = "wait.info"]
                /\ UNCHANGED save
      BY <2>1 DEF AddSpawn
    <3> HIDE DEF w
    <3>2. w # Main
      BY <3>1, ThreadsAssumption
    <3>3. QED
      BY <3>1, <3>2, MainFunctions DEF SetSave, MainStays
  <2>2. CASE ApplyFlowDown(p) \/ ApplyFlowUp(p) \/ EndOp(p) \/ AddSpec(p) \/ AddTrack(p)
    BY <2>2, MainStaysGoto
       DEF ApplyFlowDown, ApplyFlowUp, EndOp, Return, AddSpec, AddTrack, saveVars
  <2>3. QED
    BY <1>1, <2>1, <2>2 DEF AddStep
<1>2. CASE PauseStep(p) \/ FieldStep(p) \/ StreamStep(p)
  BY <1>2, MainStaysGoto, MainStaysPersist
     DEF PauseStep, SetPaused, SetPausedChosen, SetPausedMark, SetPausedSave, FieldStep,
         SetFilePriority, SetFilePriorityChosen, SetTorrentRateLimit, SetSeedLimit, SetLabel,
         StreamStep, PrepareStreamPaused, PrepareStreamResume, PrepareStreamPrio, saveVars
<1>3. CASE PersistStep(p)
  <2>1. CASE SaveMetaWrite(p)
    BY <2>1, MainFunctions DEF SaveMetaWrite, SetSave, MainStays
  <2>2. CASE PersistCheck(p) \/ SaveGather(p) \/ SaveMetaCollect(p) \/ SaveWrite(p) \/ SaveDirFails(p)
    BY <2>2, MainStaysGoto DEF PersistCheck, SaveGather, SaveMetaCollect, SaveWrite, SaveDirFails
  <2>3. QED
    BY <1>3, <2>1, <2>2 DEF PersistStep
<1>4. CASE StructStep(p)
  <2>1. CASE BeginCheckAdd(p) \/ LockOp(p) \/ QuiesceCancel(p) \/ QuiesceWait(p)
    BY <2>1, MainStaysGoto DEF BeginCheckAdd, LockOp, QuiesceCancel, QuiesceWait, saveVars
  <2>2. CASE BeginCheck(p)
    <3> DEFINE k == CHOOSE x \in Checkers : At(x, "off")
    <3>1. k \in Checkers /\ pc' = [pc EXCEPT ![k] = "check.read", ![p] = "end"] /\ UNCHANGED save
      BY <2>2 DEF BeginCheck, saveVars
    <3> HIDE DEF k
    <3>2. k # Main
      BY <3>1, ThreadsAssumption
    <3>3. QED
      BY <3>1, <3>2, MainFunctions DEF MainStays
  <2>3. CASE RemoveStep(p)
    BY <2>3, MainStaysGoto, MainStaysPersist
       DEF RemoveStep, RemoveDelete, RemoveDrop, RemoveFiles, RemoveMeta, saveVars
  <2>4. CASE PurgeStep(p)
    BY <2>4, MainStaysGoto, MainStaysPersist
       DEF PurgeStep, PurgeRead, PurgeHold, PurgeFold, PurgeDrop, PurgeDelete, PurgeReadd,
           PurgeSwap, PurgeSave, PurgeFailed, StructRead, StructHold, FoldCounters, DropOld,
           saveVars
  <2>5. CASE MoveStep(p)
    BY <2>5, MainStaysGoto, MainStaysPersist
       DEF MoveStep, MoveRead, MoveMkdir, MoveHold, MovePrios, MoveFiles, MoveFold, MoveDrop,
           MoveReadd, MoveLost, MoveFailed, MoveReprio, MoveSwap, StructRead, StructHold,
           FoldCounters, DropOld, saveVars
  <2>6. QED
    BY <1>4, <2>1, <2>2, <2>3, <2>4, <2>5 DEF StructStep
<1>5. QED
  BY <1>1, <1>2, <1>3, <1>4 DEF OpStep

LEMMA ThreadStays ==
  ASSUME Inv, NEW p \in Threads, p # Main, ThreadStep(p)
  PROVE  MainStays
<1>1. CASE WaiterStep(p)
  BY <1>1, MainStaysGoto, MainStaysPersist
     DEF WaiterStep, WaitInfo, WaitMark, WaitSelect, WaitChosen, WaitSave, saveVars
<1>2. CASE CheckerStep(p)
  BY <1>2, MainStaysGoto
     DEF CheckerStep, VerifyRead, VerifyLoop, VerifyPiece, CheckClear, CheckDone, CheckEnd,
         CheckOff, saveVars
<1>3. CASE p = Tick /\ TickStep
  <2>1. CASE TickStop
    BY <1>3, <2>1, MainStaysGoto DEF TickStop, saveVars, MainStays
  <2>2. CASE TickStart \/ TickDisk \/ TickApply \/ TickHook
    BY <1>3, <2>2, MainStaysGoto DEF TickStart, TickDisk, TickApply, TickHook, saveVars
  <2>3. CASE TickDecide
    BY <1>3, <2>3, MainStaysGoto, MainStaysPersist DEF TickDecide
  <2>4. QED
    BY <1>3, <2>1, <2>2, <2>3 DEF TickStep
<1>4. QED
  BY <1>1, <1>2, <1>3, OpStays DEF ThreadStep, GoroutineStep, OpStep

-----------------------------------------------------------------------------
(* A torrent once logged stays so.                                         *)

LEMMA LogsSame ==
  ASSUME UNCHANGED <<torrents, tr>>
  PROVE  Logs
BY DEF Logs, Logged

LEMMA LogsSet ==
  ASSUME Inv, UNCHANGED torrents, NEW o, NEW x, SetTr(o, x),
         o \in Objs => (tr[o].completeLogged => x.completeLogged)
  PROVE  Logs
<1>1. \A b \in Objs : tr'[b] = IF b = o THEN x ELSE tr[b]
  BY TrTyped DEF SetTr
<1>2. QED
  BY <1>1, ObjFor DEF Logs, Logged

(* The fields of a struct that say nothing of its completion.              *)
LEMMA LogField ==
  ASSUME Inv, NEW o \in Objs, NEW a
  PROVE  LET x == tr[o]  logged == x.completeLogged IN
         /\ [x EXCEPT !.paused = a].completeLogged = logged
         /\ [x EXCEPT !.chosenFiles = a].completeLogged = logged
         /\ [x EXCEPT !.seedLimit = a].completeLogged = logged
         /\ [x EXCEPT !.label = a].completeLogged = logged
         /\ [x EXCEPT !.base = a].completeLogged = logged
         /\ [x EXCEPT !.savePath = a].completeLogged = logged
<1>1. tr[o] \in Tracked
  BY TrTyped
<1>2. QED
  BY <1>1 DEF Tracked

LEMMA PairLogs ==
  ASSUME Inv, UNCHANGED torrents, NEW o, NEW a, NEW b,
         \/ SetTr(o, [tr[o] EXCEPT !.upLimit = a, !.downLimit = b])
         \/ SetTr(o, [tr[o] EXCEPT !.holdData = a, !.paused = b])
         \/ SetTr(o, [tr[o] EXCEPT !.cancelCheck = a, !.checking = b])
         \/ SetTr(o, [tr[o] EXCEPT !.lastErr = a, !.holdData = b])
         \/ SetTr(o, [tr[o] EXCEPT !.t = a, !.holdData = b])
         \/ SetTr(o, [tr[o] EXCEPT !.t = a, !.savePath = b])
  PROVE  Logs
<1>1. CASE SetTr(o, [tr[o] EXCEPT !.upLimit = a, !.downLimit = b])
  <2> DEFINE x == [tr[o] EXCEPT !.upLimit = a, !.downLimit = b]
  <2>1. o \in Objs => x.completeLogged = tr[o].completeLogged
    BY TrTyped DEF Tracked
  <2> HIDE DEF x
  <2>2. SetTr(o, x)
    BY <1>1 DEF x
  <2>3. QED
    BY <2>1, <2>2, LogsSet
<1>2. CASE SetTr(o, [tr[o] EXCEPT !.holdData = a, !.paused = b])
  <2> DEFINE x == [tr[o] EXCEPT !.holdData = a, !.paused = b]
  <2>1. o \in Objs => x.completeLogged = tr[o].completeLogged
    BY TrTyped DEF Tracked
  <2> HIDE DEF x
  <2>2. SetTr(o, x)
    BY <1>2 DEF x
  <2>3. QED
    BY <2>1, <2>2, LogsSet
<1>3. CASE SetTr(o, [tr[o] EXCEPT !.cancelCheck = a, !.checking = b])
  <2> DEFINE x == [tr[o] EXCEPT !.cancelCheck = a, !.checking = b]
  <2>1. o \in Objs => x.completeLogged = tr[o].completeLogged
    BY TrTyped DEF Tracked
  <2> HIDE DEF x
  <2>2. SetTr(o, x)
    BY <1>3 DEF x
  <2>3. QED
    BY <2>1, <2>2, LogsSet
<1>4. CASE SetTr(o, [tr[o] EXCEPT !.lastErr = a, !.holdData = b])
  <2> DEFINE x == [tr[o] EXCEPT !.lastErr = a, !.holdData = b]
  <2>1. o \in Objs => x.completeLogged = tr[o].completeLogged
    BY TrTyped DEF Tracked
  <2> HIDE DEF x
  <2>2. SetTr(o, x)
    BY <1>4 DEF x
  <2>3. QED
    BY <2>1, <2>2, LogsSet
<1>5. CASE SetTr(o, [tr[o] EXCEPT !.t = a, !.holdData = b])
  <2> DEFINE x == [tr[o] EXCEPT !.t = a, !.holdData = b]
  <2>1. o \in Objs => x.completeLogged = tr[o].completeLogged
    BY TrTyped DEF Tracked
  <2> HIDE DEF x
  <2>2. SetTr(o, x)
    BY <1>5 DEF x
  <2>3. QED
    BY <2>1, <2>2, LogsSet
<1>6. CASE SetTr(o, [tr[o] EXCEPT !.t = a, !.savePath = b])
  <2> DEFINE x == [tr[o] EXCEPT !.t = a, !.savePath = b]
  <2>1. o \in Objs => x.completeLogged = tr[o].completeLogged
    BY TrTyped DEF Tracked
  <2> HIDE DEF x
  <2>2. SetTr(o, x)
    BY <1>6 DEF x
  <2>3. QED
    BY <2>1, <2>2, LogsSet
<1>7. QED
  BY <1>1, <1>2, <1>3, <1>4, <1>5, <1>6

LEMMA AddTrackLogs ==
  ASSUME Inv, NEW p \in Threads, AddTrack(p)
  PROVE  Logs
<1> DEFINE i == loc[p].id
           o == IF torrents[i] # NoObj THEN torrents[i] ELSE nobj + 1
           x == IF torrents[i] # NoObj
                THEN [tr[o] EXCEPT !.paused = @ \/ loc[p].flag]
                ELSE NewTracked(loc[p].t, loc[p].dir, loc[p].magnet, loc[p].flag)
<1>1. o \in Objs /\ SetTr(o, x) /\ torrents' = [torrents EXCEPT ![i] = o]
  BY Zenon DEF AddTrack
<1>2. i \in Ids /\ torrents \in [Ids -> Objs \cup {NoObj}] /\ nobj \in Int
  BY Lands, ThreadFacts DEF Locals, EngineTypes
<1>3. /\ torrents[i] # NoObj =>
            o = torrents[i] /\ x.completeLogged = tr[torrents[i]].completeLogged
      /\ torrents[i] = NoObj => \A j \in Ids : torrents[j] # o
  <2>1. torrents[i] # NoObj => x = [tr[o] EXCEPT !.paused = tr[o].paused \/ loc[p].flag] /\ o = torrents[i]
    OBVIOUS
  <2>2. torrents[i] = NoObj => o = nobj + 1
    OBVIOUS
  <2> HIDE DEF x, o, i
  <2>3. ASSUME torrents[i] # NoObj
        PROVE  x.completeLogged = tr[torrents[i]].completeLogged
    <3>1. ASSUME NEW y \in Tracked
          PROVE  [y EXCEPT !.paused = y.paused \/ loc[p].flag].completeLogged = y.completeLogged
      BY DEF Tracked
    <3>2. QED
      BY <1>1, <2>1, <2>3, <3>1, TrTyped
  <2>4. ASSUME torrents[i] = NoObj, NEW j \in Ids, torrents[j] = o
        PROVE  FALSE
    <3>1. torrents[j] <= nobj /\ torrents[j] = nobj + 1
      BY <2>2, <2>4, ObjFor
    <3>2. QED
      BY <1>2, <3>1
  <2>5. QED
    BY <2>1, <2>3, <2>4
<1> HIDE DEF o, x, i
<1>4. \A b \in Objs : tr'[b] = IF b = o THEN x ELSE tr[b]
  BY <1>1, TrTyped DEF SetTr
<1>5. \A j \in Ids : torrents'[j] = IF j = i THEN o ELSE torrents[j]
  BY <1>1, <1>2
<1>6. ASSUME NEW j \in Ids, Logged(j)
      PROVE  Logged(j)'
  <2>1. torrents[j] # NoObj /\ tr[torrents[j]].completeLogged /\ torrents[j] \in Objs
    BY <1>6, ObjFor DEF Logged
  <2>2. torrents'[j] = torrents[j]
    BY <1>3, <1>5, <2>1
  <2>3. tr'[torrents[j]].completeLogged
    BY <1>3, <1>4, <2>1
  <2>4. QED
    BY <2>1, <2>2, <2>3 DEF Logged
<1>7. QED
  BY <1>6 DEF Logs

LEMMA OpLogs ==
  ASSUME Inv, DiskInv, NEW p \in Threads, OpStep(p)
  PROVE  Logs
<1>1. CASE ApplyFlowDown(p) \/ ApplyFlowUp(p) \/ EndOp(p) \/ AddStep(p)
  BY <1>1, LogsSame, AddTrackLogs
     DEF ApplyFlowDown, ApplyFlowUp, EndOp, AddStep, AddSpec, AddSpawn, engineVars
<1>2. CASE PauseStep(p) \/ StreamStep(p)
  <2>1. CASE SetPaused(p)
    BY <2>1, LogsSet, LogField DEF SetPaused
  <2>2. QED
    BY <1>2, <2>1, LogsSame
       DEF PauseStep, SetPausedChosen, SetPausedMark, SetPausedSave, StreamStep,
           PrepareStreamPaused, PrepareStreamResume, PrepareStreamPrio, engineVars
<1>3. CASE FieldStep(p)
  <2>1. CASE SetFilePriority(p)
    BY <2>1, LogsSame DEF SetFilePriority, engineVars
  <2>2. CASE SetFilePriorityChosen(p)
    BY <2>2, LogsSet, LogField DEF SetFilePriorityChosen
  <2>3. CASE SetTorrentRateLimit(p)
    BY <2>3, PairLogs DEF SetTorrentRateLimit
  <2>4. CASE SetSeedLimit(p) \/ SetLabel(p)
    BY <2>4, LogsSet, LogField DEF SetSeedLimit, SetLabel
  <2>5. QED
    BY <1>3, <2>1, <2>2, <2>3, <2>4 DEF FieldStep
<1>4. CASE PersistStep(p)
  BY <1>4, LogsSame
     DEF PersistStep, PersistCheck, SaveGather, SaveMetaCollect, SaveMetaWrite, SaveWrite,
         SaveDirFails, engineVars
<1>5. CASE StructStep(p)
  <2>1. CASE BeginCheck(p)
    BY <2>1, PairLogs DEF BeginCheck
  <2>2. CASE BeginCheckAdd(p) \/ LockOp(p) \/ QuiesceCancel(p) \/ QuiesceWait(p)
    BY <2>2, LogsSame DEF BeginCheckAdd, LockOp, QuiesceCancel, QuiesceWait, engineVars
  <2>3. ASSUME NEW l, StructRead(p, l) \/ DropOld(p, l)
        PROVE  Logs
    BY <2>3, LogsSame DEF StructRead, DropOld, engineVars
  <2>4. ASSUME NEW l, NEW b, StructHold(p, b, l)
        PROVE  Logs
    BY <2>4, PairLogs DEF StructHold
  <2>5. ASSUME NEW l, FoldCounters(p, l)
        PROVE  Logs
    BY <2>5, LogsSet, LogField DEF FoldCounters
  <2>6. CASE PurgeStep(p)
    <3>1. CASE PurgeSwap(p) \/ PurgeFailed(p)
      BY <3>1, PairLogs DEF PurgeSwap, PurgeFailed, Failed
    <3>2. CASE PurgeDelete(p) \/ PurgeReadd(p) \/ PurgeSave(p)
      BY <3>2, LogsSame DEF PurgeDelete, PurgeReadd, PurgeSave, engineVars
    <3>3. QED
      BY <2>3, <2>4, <2>5, <2>6, <3>1, <3>2
         DEF PurgeStep, PurgeRead, PurgeHold, PurgeFold, PurgeDrop
  <2>7. CASE MoveStep(p)
    <3>1. CASE MoveSwap(p) \/ MoveLost(p) \/ MoveFailed(p)
      BY <3>1, PairLogs, LogsSet, LogField DEF MoveSwap, MoveLost, MoveFailed, Failed
    <3>2. CASE MoveMkdir(p) \/ MovePrios(p) \/ MoveFiles(p) \/ MoveReadd(p) \/ MoveReprio(p)
      BY <3>2, LogsSame DEF MoveMkdir, MovePrios, MoveFiles, MoveReadd, MoveReprio, engineVars
    <3>3. QED
      BY <2>3, <2>4, <2>5, <2>7, <3>1, <3>2
         DEF MoveStep, MoveRead, MoveHold, MoveFold, MoveDrop
  <2>8. QED
    BY <1>5, <2>1, <2>2, <2>6, <2>7, RemoveDisk DEF StructStep
<1>6. QED
  BY <1>1, <1>2, <1>3, <1>4, <1>5 DEF OpStep

LEMMA GoroutineLogs ==
  ASSUME Inv, DiskInv, NEW p \in Threads, GoroutineStep(p)
  PROVE  Logs
<1>1. CASE WaiterStep(p)
  <2>1. CASE WaitChosen(p)
    BY <2>1, LogsSet, LogsSame, LogField DEF WaitChosen
  <2>2. QED
    BY <1>1, <2>1, LogsSame DEF WaiterStep, WaitInfo, WaitMark, WaitSelect, WaitSave, engineVars
<1>2. CASE CheckerStep(p)
  <2>1. CASE CheckClear(p)
    BY <2>1, PairLogs DEF CheckClear
  <2>2. CASE CheckEnd(p)
    BY <2>2, PairLogs DEF CheckEnd
  <2>3. QED
    BY <1>2, <2>1, <2>2, LogsSame
       DEF CheckerStep, VerifyRead, VerifyLoop, VerifyPiece, CheckDone, CheckOff, engineVars
<1>3. QED
  BY <1>1, <1>2, OpLogs DEF GoroutineStep, OpStep

(* The tick logs the torrents it hands to the hook, and those only.        *)
LEMMA TickLogs ==
  ASSUME Inv, TickDecide
  PROVE  /\ Logs /\ UNCHANGED hooks
         /\ \A i \in tk'.done : i \in Ids /\ ~Logged(i) /\ Logged(i)'
<1>1. UNCHANGED torrents /\ UNCHANGED hooks
  BY DEF TickDecide
<1>2. StructKeeps
  BY TickStructKeeps
<1>3. Logs
  BY <1>1, <1>2 DEF StructKeeps, KeepsStruct, Keeps, Logs, Logged
<1>4. \A i \in tk'.done : i \in Ids /\ ~Logged(i) /\ Logged(i)'
  <2>1. PICK down \in [TrackedIds -> Rates], up \in [TrackedIds -> Rates],
             stop \in SUBSET {i \in TrackedIds : MayReachLimit(tr[torrents[i]])} :
         LET rated(i) == [tr[torrents[i]] EXCEPT !.lastDownBPS = down[i], !.lastUpBPS = up[i]]
             finished == {i \in TrackedIds : Complete(tr[torrents[i]].t)}
             started  == {i \in finished : ~tr[torrents[i]].completedAt}
             ticked(i) == [rated(i) EXCEPT !.completeLogged = @ \/ i \in finished,
                                           !.completedAt = @ \/ i \in finished]
         IN /\ tr' = [o \in Objs |->
                        IF \E i \in TrackedIds : torrents[i] = o
                        THEN ticked(CHOOSE i \in TrackedIds : torrents[i] = o)
                        ELSE tr[o]]
            /\ tk' = [flows |-> {[ft |-> rated(i).t, down |-> DownFlow(rated(i), Guarded),
                                  up |-> UpFlow(rated(i), Guarded)] : i \in TrackedIds},
                      stop  |-> stop,
                      done  |-> {i \in finished : ~tr[torrents[i]].completeLogged}]
            /\ IF started # {}
               THEN Persist(Tick, "tick.apply")
               ELSE Goto(Tick, "tick.apply") /\ UNCHANGED save
    BY DEF TickDecide
  <2> DEFINE rated(i) == [tr[torrents[i]] EXCEPT !.lastDownBPS = down[i], !.lastUpBPS = up[i]]
             finished == {i \in TrackedIds : Complete(tr[torrents[i]].t)}
             ticked(i) == [rated(i) EXCEPT !.completeLogged = @ \/ i \in finished,
                                           !.completedAt = @ \/ i \in finished]
  <2>2. /\ tr' = [o \in Objs |->
                    IF \E i \in TrackedIds : torrents[i] = o
                    THEN ticked(CHOOSE i \in TrackedIds : torrents[i] = o)
                    ELSE tr[o]]
        /\ tk' = [flows |-> {[ft |-> rated(i).t, down |-> DownFlow(rated(i), Guarded),
                              up |-> UpFlow(rated(i), Guarded)] : i \in TrackedIds},
                  stop  |-> stop,
                  done  |-> {i \in finished : ~tr[torrents[i]].completeLogged}]
    BY <2>1, Zenon
  <2>3. ASSUME NEW i \in finished
        PROVE  ticked(i).completeLogged
    <3>1. tr[torrents[i]] \in Tracked /\ down[i] \in Rates /\ up[i] \in Rates
      BY ObjFor DEF TrackedIds
    <3>2. rated(i) \in Tracked
      BY <3>1 DEF Tracked
    <3> HIDE DEF rated, finished
    <3>3. ASSUME NEW y \in Tracked, NEW b
          PROVE  [y EXCEPT !.completeLogged = @ \/ b, !.completedAt = @ \/ b].completeLogged
                   <=> y.completeLogged \/ b
      BY DEF Tracked
    <3>4. QED
      BY <3>2, <3>3, <2>3
  <2>4. \A i \in finished : i \in TrackedIds /\ Complete(tr[torrents[i]].t)
    OBVIOUS
  <2>5. \A i \in TrackedIds : Complete(tr[torrents[i]].t) => i \in finished
    OBVIOUS
  <2> HIDE DEF ticked, rated, finished
  <2>6. SUFFICES ASSUME NEW i \in tk'.done
                 PROVE  i \in Ids /\ ~Logged(i) /\ Logged(i)'
    OBVIOUS
  <2>11. tk'.done = {k \in finished : ~tr[torrents[k]].completeLogged}
    BY <2>2
  <2>7. /\ i \in finished /\ i \in TrackedIds /\ i \in Ids /\ torrents[i] # NoObj
        /\ ~tr[torrents[i]].completeLogged /\ torrents[i] \in Objs
    BY <2>4, <2>11, ObjFor DEF TrackedIds
  <2>8. PICK j \in TrackedIds : torrents[j] = torrents[i] /\ tr'[torrents[i]] = ticked(j)
    BY <2>2, <2>7
  <2>9. j \in finished
    BY <2>4, <2>5, <2>7, <2>8
  <2>10. QED
    BY <1>1, <2>3, <2>7, <2>8, <2>9 DEF Logged
<1>5. QED
  BY <1>1, <1>3, <1>4

(* The hook runs for those, and for none twice.                            *)
LEMMA HookFires ==
  ASSUME Inv, FiredOnce, TickHook
  PROVE  FiredOnce'
<1>1. /\ UNCHANGED <<torrents, tr>> /\ tk' = Tk0
      /\ hooks' = [i \in Ids |-> IF i \in tk.done THEN hooks[i] + 1 ELSE hooks[i]]
  BY DEF TickHook, engineVars
<1>2. tk'.done = {}
  BY <1>1 DEF Tk0
<1>3. ASSUME NEW i \in Ids
      PROVE  hooks'[i] \in {0, 1} /\ (hooks'[i] = 1 => Logged(i)')
  <2>1. hooks[i] \in {0, 1} /\ (hooks[i] = 1 => Logged(i)) /\ (i \in tk.done => hooks[i] = 0 /\ Logged(i))
    BY DEF FiredOnce
  <2>2. hooks'[i] = IF i \in tk.done THEN hooks[i] + 1 ELSE hooks[i]
    BY <1>1
  <2>3. Logged(i)' <=> Logged(i)
    BY <1>1 DEF Logged
  <2>4. QED
    BY <2>1, <2>2, <2>3
<1>4. QED
  BY <1>2, <1>3 DEF FiredOnce

LEMMA FiredKept ==
  ASSUME FiredOnce, Logs, Beside
  PROVE  FiredOnce'
BY DEF FiredOnce, Logs, Beside

LEMMA TickFires ==
  ASSUME Inv, FiredOnce, TickDecide
  PROVE  FiredOnce'
<1>1. ASSUME NEW i \in Ids
      PROVE  /\ hooks'[i] \in {0, 1} /\ (hooks'[i] = 1 => Logged(i)')
             /\ i \in tk'.done => hooks'[i] = 0 /\ Logged(i)'
  BY TickLogs DEF FiredOnce, Logs
<1>2. QED
  BY <1>1 DEF FiredOnce

-----------------------------------------------------------------------------
(* The main goroutine has nothing to restore.                              *)

LEMMA IdleApart ==
  /\ IdleMain \cap (FlowLabels \cup SaveLabels) = {}
  /\ IdleMain \cap (AddLabels \cup DoneLabels \cup NextLabels \cup StructLabels) = {}
  /\ "tick.apply" \notin IdleMain
BY SMTT(30) DEF IdleMain, FlowLabels, SaveLabels, AddLabels, DoneLabels, NextLabels, StructLabels

(* Where it is.                                                            *)
LEMMA MainIdle ==
  ASSUME Inv, NothingSaved
  PROVE  \/ pc[Main] \in IdleMain
         \/ pc[Main] \in SaveLabels /\ save[Main].k \in {"up"}
<1>1. ReturnsOK(pc[Main], loc[Main], save[Main].k)
  BY MainThreads, ThreadFacts DEF LocalOK
<1>2. FlowNext \cap IdleMain = {} /\ SaveNext \cap IdleMain = {"up"}
  BY SMTT(30) DEF FlowNext, SaveNext, IdleMain
<1>3. QED
  BY <1>1, <1>2 DEF NothingSaved, Where, WhereOf, ReturnsOK

(* From there it runs no operation, but its saves.                         *)
LEMMA MainSaves ==
  ASSUME NEW p, pc[p] \in IdleMain \cup SaveLabels, OpStep(p)
  PROVE  PersistStep(p)
<1>1. ASSUME NEW c \in FlowLabels \cup AddLabels \cup DoneLabels \cup StructLabels, At(p, c)
      PROVE  FALSE
  BY <1>1, SMTT(60) DEF At, IdleMain, FlowLabels, SaveLabels, AddLabels, DoneLabels, StructLabels
<1>2. ASSUME NEW c \in {"pause.set", "pause.chosen", "pause.mark", "pause.save", "rate", "seed",
                        "label", "stream.paused", "stream.resume", "stream.prio", "check.add",
                        "check.begin"}, At(p, c)
      PROVE  FALSE
  BY <1>2, SMTT(30) DEF At, IdleMain, SaveLabels
<1>3. ~ApplyFlowDown(p) /\ ~ApplyFlowUp(p) /\ ~EndOp(p) /\ ~AddStep(p)
  BY <1>1 DEF ApplyFlowDown, ApplyFlowUp, EndOp, AddStep, AddSpec, AddTrack, AddSpawn,
              FlowLabels, AddLabels, DoneLabels
<1>4. ~PauseStep(p) /\ ~StreamStep(p)
  BY <1>2 DEF PauseStep, SetPaused, SetPausedChosen, SetPausedMark, SetPausedSave, StreamStep,
              PrepareStreamPaused, PrepareStreamResume, PrepareStreamPrio
<1>5. ~FieldStep(p)
  BY <1>1, <1>2 DEF FieldStep, SetFilePriority, SetFilePriorityChosen, SetTorrentRateLimit,
                    SetSeedLimit, SetLabel, DoneLabels
<1>6. ~StructStep(p)
  <2>1. ~BeginCheckAdd(p) /\ ~BeginCheck(p)
    BY <1>2 DEF BeginCheckAdd, BeginCheck
  <2>2. ~LockOp(p) /\ ~QuiesceCancel(p) /\ ~QuiesceWait(p) /\ ~RemoveStep(p)
    BY <1>1 DEF LockOp, QuiesceCancel, QuiesceWait, RemoveStep, RemoveDelete, RemoveDrop,
                RemoveFiles, RemoveMeta, StructLabels
  <2>3. ~PurgeStep(p)
    BY <1>1 DEF PurgeStep, PurgeRead, PurgeHold, PurgeFold, PurgeDrop, PurgeDelete, PurgeReadd,
                PurgeSwap, PurgeSave, PurgeFailed, StructLabels
  <2>4. ~MoveStep(p)
    BY <1>1 DEF MoveStep, MoveRead, MoveMkdir, MoveHold, MovePrios, MoveFiles, MoveFold, MoveDrop,
                MoveReadd, MoveLost, MoveFailed, MoveReprio, MoveSwap, StructLabels
  <2>5. QED
    BY <2>1, <2>2, <2>3, <2>4 DEF StructStep
<1>7. QED
  BY <1>3, <1>4, <1>5, <1>6 DEF OpStep

(* What a step of its own must show.                                       *)
LEMMA MainFrame ==
  ASSUME Inv, NothingSaved, \A i \in Ids : rs'[i] = NoRec,
         \/ pc'[Main] \in {"restore.next", "up"}
         \/ pc'[Main] \in SaveLabels /\ save'[Main].k = "up"
  PROVE  NothingSaved'
<1>1. ~Early'
  BY SMTT(30) DEF Early, EarlyLabels, SaveLabels
<1>2. Where(Main)' \in IdleMain
  BY SMTT(30) DEF Where, WhereOf, FlowLabels, SaveLabels, IdleMain
<1>3. QED
  BY <1>1, <1>2 DEF NothingSaved

LEMMA MainPersist ==
  ASSUME Inv, Persist(Main, "up")
  PROVE  pc'[Main] = "up" \/ (pc'[Main] = "save.check" /\ save'[Main].k = "up")
<1>1. save[Main] \in Saving
  BY MainFunctions
<1>2. [save[Main] EXCEPT !.k = "up"].k = "up"
  BY <1>1 DEF Saving
<1>3. QED
  BY <1>2, MainFunctions DEF Persist, Goto, SetSave

LEMMA PersistIdle ==
  ASSUME Inv, NothingSaved, PersistStep(Main)
  PROVE  NothingSaved'
<1>1. pc[Main] \in SaveLabels
  BY DEF PersistStep, PersistCheck, SaveGather, SaveMetaCollect, SaveMetaWrite, SaveWrite,
         SaveDirFails, At, SaveLabels
<1>2. save[Main].k = "up" /\ save[Main] \in Saving
  <2>1. SaveLabels \cap IdleMain = {}
    BY IdleApart
  <2>2. QED
    BY <1>1, <2>1, MainIdle, MainFunctions
<1>3. ASSUME NEW d
      PROVE  [save[Main] EXCEPT !.draft = d].k = "up" /\ [save[Main] EXCEPT !.todo = d].k = "up"
  BY <1>2 DEF Saving
<1>4. UNCHANGED rs
  BY OpBeside DEF OpStep, Beside
<1>5. \/ pc'[Main] = "up"
      \/ pc'[Main] \in SaveLabels /\ save'[Main].k = "up"
  <2>1. CASE PersistCheck(Main)
    BY <1>2, <2>1, MainFunctions DEF PersistCheck, Goto, SaveLabels
  <2>2. CASE SaveGather(Main) \/ SaveMetaCollect(Main)
    <3>1. /\ Goto(Main, "save.meta") \/ Goto(Main, "save.write")
          /\ \E d : \/ SetSave(Main, [save[Main] EXCEPT !.draft = d])
                   \/ SetSave(Main, [save[Main] EXCEPT !.todo = d])
      BY <2>2 DEF SaveGather, SaveMetaCollect
    <3>2. pc'[Main] \in SaveLabels
      BY <3>1, MainFunctions DEF Goto, SaveLabels
    <3>3. save'[Main].k = "up"
      <4>1. PICK y : SetSave(Main, y) /\ y.k = "up"
        BY <1>3, <3>1
      <4>2. QED
        BY <4>1, MainFunctions DEF SetSave
    <3>4. QED
      BY <3>2, <3>3
  <2>3. CASE SaveMetaWrite(Main)
    <3>1. UNCHANGED pc /\ \E d : SetSave(Main, [save[Main] EXCEPT !.todo = d])
      BY <2>3 DEF SaveMetaWrite
    <3>2. QED
      BY <1>1, <1>3, <3>1, MainFunctions DEF SetSave
  <2>4. CASE SaveWrite(Main) \/ SaveDirFails(Main)
    BY <1>2, <2>4, MainFunctions DEF SaveWrite, SaveDirFails, Goto
  <2>5. QED
    BY <2>1, <2>2, <2>3, <2>4 DEF PersistStep
<1>6. QED
  BY <1>4, <1>5, MainFrame DEF NothingSaved

LEMMA MainStepIdle ==
  ASSUME Inv, NothingSaved, MainStep
  PROVE  /\ NothingSaved' /\ UNCHANGED <<torrents, tr, hooks, tk>>
         /\ budget'.restarts = budget.restarts
<1>1. pc[Main] \in IdleMain
  <2> DEFINE steps == EarlyLabels \cup NextLabels \cup {"restore.next", "close.cancel", "close.wait"}
  <2>1. pc[Main] \in steps
    BY DEF MainStep, RestoreStep, New, RestoreRead, RestoreNext, RestoreLimits, RestorePrios,
           RestoreFinal, RestoreDone, CloseCancel, CloseWait, At, EarlyLabels, NextLabels
  <2>3. steps \cap SaveLabels = {}
    BY SMTT(30) DEF EarlyLabels, NextLabels, SaveLabels
  <2>2. QED
    BY <2>1, <2>3, MainIdle
<1>2. ~RestoreLimits /\ ~RestorePrios /\ ~RestoreFinal /\ ~CloseCancel /\ ~CloseWait
  BY <1>1 DEF RestoreLimits, RestorePrios, RestoreFinal, CloseCancel, CloseWait, At, IdleMain
<1>3. \A i \in Ids : rs[i] = NoRec
  BY DEF NothingSaved
<1>4. ~RestoreNext
  BY <1>3 DEF RestoreNext
<1>5. CASE New
  <2>1. pc[Main] = "new" /\ pc'[Main] = "restore.read" /\ UNCHANGED <<rs, session>>
    BY <1>5, MainFunctions, MainThreads DEF New, At, diskVars, mainVars
  <2>2. Early
    BY <2>1 DEF Early, EarlyLabels
  <2>3. Where(Main)' = "restore.read"
    BY <2>1 DEF Where, WhereOf, FlowLabels, SaveLabels
  <2>4. NothingSaved'
    BY <2>1, <2>2, <2>3 DEF NothingSaved, IdleMain
  <2>5. QED
    BY <1>5, <2>4 DEF New, engineVars
<1>6. CASE RestoreRead
  <2>1. pc[Main] = "restore.read" /\ (rs' = session \/ UNCHANGED rs)
        /\ pc'[Main] \in {"restore.next", "up"}
    BY <1>6, MainFunctions DEF RestoreRead, At, Goto
  <2>2. \A i \in Ids : session[i] = NoRec
    BY <2>1 DEF NothingSaved, Early, EarlyLabels
  <2>3. NothingSaved'
    BY <1>3, <2>1, <2>2, MainFrame
  <2>4. QED
    BY <1>6, <2>3, RestartsKept DEF RestoreRead, engineVars
<1>7. CASE RestoreDone
  <2>1. Persist(Main, "up") /\ UNCHANGED <<rs, torrents, tr, hooks, tk, budget>>
    BY <1>7 DEF RestoreDone, engineVars
  <2>2. \/ pc'[Main] \in {"restore.next", "up"}
        \/ pc'[Main] \in SaveLabels /\ save'[Main].k = "up"
    BY <2>1, MainPersist DEF SaveLabels
  <2>3. QED
    BY <1>3, <2>1, <2>2, MainFrame
<1>8. QED
  BY <1>2, <1>4, <1>5, <1>6, <1>7 DEF MainStep, RestoreStep

(* Nor does another's step change that: before the restore nobody saves.   *)
LEMMA OtherIdle ==
  ASSUME Inv, DiskInv, NothingSaved, MainStays, UNCHANGED rs,
         UNCHANGED session \/ \E p \in Threads : p # Main /\ PersistStep(p)
  PROVE  NothingSaved'
<1>1. pc[Main] \notin FlowLabels
  <2>1. FlowLabels \cap (IdleMain \cup SaveLabels) = {}
    BY SMTT(30) DEF FlowLabels, IdleMain, SaveLabels
  <2>2. QED
    BY <2>1, MainIdle
<1>2. Where(Main)' = Where(Main) /\ (Early' <=> Early)
  BY <1>1 DEF MainStays, Where, WhereOf, Early
<1>3. Early => UNCHANGED session
  <2>1. ASSUME Early, NEW p \in Threads, p # Main, PersistStep(p)
        PROVE  FALSE
    <3>1. pc[p] \in RestLabels
      BY <2>1 DEF DiskInv, EarlyInv
    <3>2. pc[p] \in SaveLabels
      BY <2>1 DEF PersistStep, PersistCheck, SaveGather, SaveMetaCollect, SaveMetaWrite, SaveWrite,
                  SaveDirFails, At, SaveLabels
    <3>3. QED
      BY <3>1, <3>2, RestoreApart
  <2>2. QED
    BY <2>1
<1>4. QED
  BY <1>2, <1>3 DEF NothingSaved

-----------------------------------------------------------------------------
(* Every step.                                                             *)

LEMMA ThreadFired ==
  ASSUME Inv, DiskInv, FiredInv, NEW p \in Threads, ThreadStep(p)
  PROVE  FiredInv'
<1>1. NothingSaved /\ FiredOnce /\ budget.restarts = 0
  BY DEF FiredInv
<1>2. CASE p = Main
  <2>1. p \notin Waiters \cup Checkers /\ p # Tick
    BY <1>2, ThreadsAssumption
  <2>2. CASE OpStep(Main)
    <3>1. pc[Main] \in IdleMain \cup SaveLabels
      BY <1>1, MainIdle
    <3>2. PersistStep(Main)
      BY <2>2, <3>1, MainSaves
    <3>3. NothingSaved'
      BY <1>1, <3>2, PersistIdle
    <3>4. FiredOnce' /\ budget'.restarts = budget.restarts
      BY <1>1, <2>2, MainThreads, OpBeside, OpLogs, FiredKept DEF Beside
    <3>5. QED
      BY <1>1, <3>3, <3>4 DEF FiredInv
  <2>3. CASE MainStep
    <3>1. NothingSaved' /\ UNCHANGED <<torrents, tr, hooks, tk>> /\ budget'.restarts = budget.restarts
      BY <1>1, <2>3, MainStepIdle
    <3>2. FiredOnce'
      BY <1>1, <3>1 DEF FiredOnce, Logged
    <3>3. QED
      BY <1>1, <3>1, <3>2 DEF FiredInv
  <2>4. QED
    BY <1>2, <2>1, <2>2, <2>3 DEF ThreadStep
<1>3. CASE p # Main
  <2>1. MainStays /\ (UNCHANGED session \/ PersistStep(p))
    BY <1>3, ThreadStays, ThreadSaves
  <2>2. CASE OpStep(p) \/ GoroutineStep(p)
    <3>1. Beside /\ Logs
      BY <2>2, OpBeside, OpLogs, GoroutineBeside, GoroutineLogs
    <3>2. NothingSaved'
      BY <1>1, <1>3, <2>1, <3>1, OtherIdle DEF Beside
    <3>3. FiredOnce'
      BY <1>1, <3>1, FiredKept
    <3>4. QED
      BY <1>1, <3>1, <3>2, <3>3 DEF FiredInv, Beside
  <2>3. CASE TickStep
    <3>1. UNCHANGED rs /\ budget'.restarts = budget.restarts
      BY <2>3, TickBeside
    <3>2. NothingSaved'
      BY <1>1, <1>3, <2>1, <3>1, OtherIdle
    <3>3. ASSUME Beside, ~TickDecide
          PROVE  FiredOnce'
      <4>1. UNCHANGED <<torrents, tr>>
        BY <2>3, <3>3 DEF TickStep, TickStart, TickDisk, TickApply, TickStop, TickHook, engineVars
      <4>2. QED
        BY <1>1, <3>3, <4>1, LogsSame, FiredKept
    <3>4. FiredOnce'
      BY <1>1, <2>3, <3>3, TickBeside, TickFires, HookFires
    <3>5. QED
      BY <1>1, <3>1, <3>2, <3>4 DEF FiredInv
  <2>4. QED
    BY <1>3, <2>2, <2>3 DEF ThreadStep
<1>4. QED
  BY <1>2, <1>3

(* A call, and what the network does.                                      *)
LEMMA OthersFired ==
  ASSUME Inv, DiskInv, FiredInv, Beside, UNCHANGED <<torrents, tr, session>>, MainStays
  PROVE  FiredInv'
<1>1. NothingSaved'
  BY OtherIdle DEF FiredInv, Beside
<1>2. FiredOnce'
  BY LogsSame, FiredKept DEF FiredInv
<1>3. QED
  BY <1>1, <1>2 DEF FiredInv, Beside

LEMMA CallFired ==
  ASSUME Inv, DiskInv, FiredInv, NEW p \in Clients, NEW op, NEW c, NEW l, Call(p, op, c, l)
  PROVE  FiredInv'
<1>1. p # Main
  BY ThreadsAssumption
<1>2. Goto(p, c) /\ UNCHANGED save
  BY DEF Call, saveVars
<1>3. MainStays
  BY <1>1, <1>2, MainStaysGoto
<1>4. Beside /\ UNCHANGED <<torrents, tr, session>>
  BY RestartsKept DEF Call, Beside, engineVars, diskVars, mainVars
<1>5. QED
  BY <1>3, <1>4, OthersFired

LEMMA NextFired ==
  Inv /\ DiskInv /\ FiredInv /\ [Next]_vars => FiredInv'
<1> SUFFICES ASSUME Inv, DiskInv, FiredInv, [Next]_vars PROVE FiredInv'
  OBVIOUS
<1>1. ASSUME NEW p \in Clients, ClientCalls(p)
      PROVE  FiredInv'
  <2>1. CASE CallAdd(p) \/ CallSetPaused(p) \/ CallSetFilePriority(p) \/ CallSetter(p)
    BY <2>1, CallFired DEF CallAdd, CallSetPaused, CallSetFilePriority, CallSetter
  <2>2. CASE CallPrepareStream(p) \/ CallForceRecheck(p) \/ CallStruct(p)
    BY <2>2, CallFired DEF CallPrepareStream, CallForceRecheck, CallStruct
  <2>3. QED
    BY <1>1, <2>1, <2>2 DEF ClientCalls
<1>2. ~Close /\ ~Crash
  BY DEF FiredInv, Close, Crash
<1>3. CASE Network
  <2>1. UNCHANGED <<torrents, tr, session, hooks, rs, tk, pc, save>>
    BY <1>3 DEF Network, engineVars, saveVars, mainVars
  <2>2. budget'.restarts = budget.restarts
    BY <1>3, RestartsKept DEF Network, GotInfo, Transfer, Finish
  <2>3. QED
    BY <2>1, <2>2, OthersFired DEF Beside, MainStays
<1>4. CASE Idle \/ UNCHANGED vars
  <2>1. UNCHANGED <<torrents, tr, session, hooks, rs, tk, pc, save, budget>>
    BY <1>4 DEF Idle, vars, engineVars, saveVars, diskVars, mainVars
  <2>2. QED
    BY <2>1, OthersFired DEF Beside, MainStays
<1>5. QED
  BY <1>1, <1>2, <1>3, <1>4, ThreadFired DEF Next

LEMMA InitFired ==
  ASSUME MaxRestarts = 0, \A i \in Ids : Session0[i] = NoRec
  PROVE  Init => FiredInv
<1> SUFFICES ASSUME Init PROVE FiredInv
  OBVIOUS
<1>1. budget.restarts = 0
  BY DEF Init
<1>2. pc[Main] = "new"
  BY MainThreads DEF Init, Fresh
<1>3. Where(Main) \in IdleMain
  BY <1>2 DEF Where, WhereOf, FlowLabels, SaveLabels, IdleMain
<1>4. NothingSaved
  BY <1>3 DEF Init, NothingSaved
<1>5. FiredOnce
  BY DEF Init, FiredOnce, Tk0
<1>6. QED
  BY <1>1, <1>4, <1>5 DEF FiredInv

(* The completion hook runs at most once for each torrent, however often   *)
(* it finishes: after a purge that starts it over, a move or a recheck the *)
(* struct still says that it was logged, and only the tick, which calls    *)
(* the hook, ever looks (of a process that found no session to restore, no *)
(* removes among the calls).                                               *)
THEOREM HookedOnce ==
  ASSUME "remove" \notin Ops, MaxRestarts = 0, \A i \in Ids : Session0[i] = NoRec
  PROVE  Spec => []HookOnce
<1>1. SessionSound
  BY DEF SessionSound
<1>2. FiredInv => HookOnce
  BY DEF FiredInv, FiredOnce, HookOnce
<1>3. QED
  BY <1>1, <1>2, Invariance, DiskInvariance, InitFired, NextFired, PTL DEF Spec

-----------------------------------------------------------------------------
(* The session file: what a step must show.                                *)

(* What session.json would say of a struct, and what it does not say.      *)
AsRecorded(x, y) ==
  /\ y.t = x.t /\ y.magnet = x.magnet /\ y.savePath = x.savePath /\ y.paused = x.paused
  /\ y.downLimit = x.downLimit /\ y.upLimit = x.upLimit /\ y.seedLimit = x.seedLimit
  /\ y.completedAt = x.completedAt /\ y.label = x.label

SameFiles(t) == lib'[t].info = lib[t].info /\ lib'[t].prio = lib[t].prio

RecordsKept ==
  /\ UNCHANGED torrents
  /\ \A i \in Ids : torrents[i] # NoObj =>
       /\ AsRecorded(tr[torrents[i]], tr'[torrents[i]])
       /\ SameFiles(tr[torrents[i]].t)

(* A step of p leaves the session as up to date as it was, or p owes it a  *)
(* save.                                                                   *)
Settles(p) ==
  \/ ~StateDir \/ restoring' \/ closing' \/ WillSave(p)'
  \/ ~WillSave(p) /\ RecordsKept /\ UNCHANGED metainfo

MadeOK(q) == loc[q].t <= ninst /\ (At(q, "purge.swap") => lib[loc[q].ft].info)

Made == LibGood /\ ninst <= ninst' /\ \A o \in Objs : tr'[o].t <= ninst'

LEMMA InstsKept ==
  ASSUME Inv, Inv', InstsMade, Made, \A q \in Threads : Stays(q) \/ MadeOK(q)'
  PROVE  InstsMade'
<1>1. ASSUME NEW q \in Threads PROVE MadeOK(q)'
  <2>1. CASE Stays(q)
    <3>1. loc[q].t \in Int /\ loc[q].t <= ninst
      BY ThreadFacts, LocalsFacts, LibFacts DEF InstsMade
    <3>2. loc'[q].t <= ninst'
      <4>1. ninst' \in Int
        BY BoundsAssumption DEF Inv, TypeOK, LibTypes
      <4>2. QED
        BY <2>1, <3>1, <4>1, LibFacts DEF Made, Stays
    <3>3. At(q, "purge.swap") => loc[q].ft \in Insts
      <4>1. loc[q] \in Locals /\ LocalOK(q, pc[q], loc[q], save[q].k, nobj)
        BY ThreadFacts
      <4>2. QED
        BY <4>1, LocalsFacts DEF LocalOK, PointersOK, NeedsFresh, At
    <3>4. QED
      BY <2>1, <3>2, <3>3 DEF Stays, MadeOK, InstsMade, Made, LibGood, At
  <2>2. QED
    BY <2>1
<1>2. QED
  BY <1>1 DEF InstsMade, MadeOK, Made, LibGood

WaitsNext(p, t) ==
  loc'[p].t = t /\ (Where(p)' = "add.spawn" \/ (p \in Waiters /\ pc'[p] = "wait.info"))

(* A thread that stays goes on owing its save, and waiting.                *)
LEMMA StaysOwing ==
  ASSUME Inv, LibGood, NEW q \in Threads, Stays(q)
  PROVE  /\ WillSave(q) => WillSave(q)'
         /\ \A t : WaitsFor(q, t) => WaitsNext(q, t)
<1>1. Where(q)' = Where(q)
  BY DEF Stays, Where, WhereOf
<1>2. pc[q] = "wait.info" => loc[q].t \in Insts
  <2>1. loc[q] \in Locals /\ LocalOK(q, pc[q], loc[q], save[q].k, nobj)
    BY ThreadFacts
  <2>2. pc[q] = "wait.info" => WhereOf(pc[q], loc[q], save[q].k) \in NeedsInst
    BY DEF WhereOf, FlowLabels, SaveLabels, NeedsInst
  <2>3. QED
    BY <2>1, <2>2, LocalsFacts DEF LocalOK, PointersOK
<1>3. WillSave(q) => WillSave(q)'
  BY <1>1, <1>2 DEF WillSave, Stays, LibGood
<1>4. QED
  BY <1>1, <1>3 DEF Stays, WaitsFor, WaitsNext, At

(* The waiting goes on: of what is tracked afterwards, what was before     *)
(* keeps its instance, and what is new has metadata or someone waits for it.*)
AwaitedAlso(i) ==
  LET t == tr'[torrents'[i]].t IN
  \/ lib'[t].info
  \/ torrents[i] # NoObj /\ tr[torrents[i]].t = t
  \/ \E q \in Threads : WaitsNext(q, t)

LEMMA AwaitedKept ==
  ASSUME Inv, Awaited, LibGood, closing' = closing,
         \A i \in Ids : torrents'[i] # NoObj => AwaitedAlso(i),
         \A q \in Threads : Stays(q) \/ \A t \in Insts : WaitsFor(q, t) =>
                              lib'[t].info \/ \E r \in Threads : WaitsNext(r, t)
  PROVE  Awaited'
<1> SUFFICES ASSUME ~closing, NEW i \in Ids, torrents'[i] # NoObj
             PROVE  \/ lib'[tr'[torrents'[i]].t].info
                    \/ \E q \in Threads : WaitsNext(q, tr'[torrents'[i]].t)
  BY DEF Awaited, TrackedIds, WaitsFor, WaitsNext, At
<1> DEFINE t == tr'[torrents'[i]].t
<1>1. ASSUME torrents[i] # NoObj, tr[torrents[i]].t = t
      PROVE  lib'[t].info \/ \E q \in Threads : WaitsNext(q, t)
  <2>1. t \in Insts
    BY <1>1, ObjFor
  <2>2. lib[t].info \/ \E q \in Threads : WaitsFor(q, t)
    BY <1>1 DEF Awaited, TrackedIds
  <2> HIDE DEF t
  <2>3. CASE lib[t].info
    BY <2>1, <2>3 DEF LibGood
  <2>4. ASSUME NEW q \in Threads, WaitsFor(q, t)
        PROVE  lib'[t].info \/ \E r \in Threads : WaitsNext(r, t)
    <3>1. CASE Stays(q)
      <4>1. WaitsNext(q, t)
        BY <2>4, <3>1, StaysOwing
      <4>2. QED
        BY <4>1
    <3>2. CASE ~Stays(q)
      BY <2>1, <2>4, <3>2
    <3>3. QED
      BY <3>1, <3>2
  <2>5. QED
    BY <2>2, <2>3, <2>4
<1>2. AwaitedAlso(i)
  OBVIOUS
<1> HIDE DEF t
<1>3. \/ lib'[t].info
      \/ torrents[i] # NoObj /\ tr[torrents[i]].t = t
      \/ \E q \in Threads : WaitsNext(q, t)
  BY <1>2 DEF AwaitedAlso, t
<1>4. QED
  BY <1>1, <1>3 DEF t

LEMMA OneSaveKept ==
  ASSUME Inv, OneSave, UNCHANGED saveMu,
         \A q \in Threads : Stays(q) \/ (~Saver(q) /\ ~Saver(q)')
  PROVE  OneSave'
<1>1. saveMu \in Threads \cup {NoThread}
  BY DEF Inv, TypeOK, SaveTypes
<1>2. \A q \in Threads : Saver(q)' <=> Saver(q)
  BY DEF Stays, Saver
<1>3. QED
  BY <1>1, <1>2 DEF OneSave

-----------------------------------------------------------------------------
(* What is up to date stays so.                                            *)

(* Records that differ in their byte totals at most.                       *)
LEMMA BareEqual ==
  ASSUME NEW r \in Record, NEW s \in Record, s.magnet = r.magnet, s.savePath = r.savePath,
         s.paused = r.paused, s.downLimit = r.downLimit, s.upLimit = r.upLimit,
         s.seedLimit = r.seedLimit, s.completedAt = r.completedAt, s.label = r.label,
         s.prio = r.prio
  PROVE  [s EXCEPT !.downloaded = 0] = [r EXCEPT !.downloaded = 0]
<1>1. s.saved = r.saved
  BY DEF Record
<1>2. QED
  BY <1>1 DEF Record

LEMMA BareRecord ==
  ASSUME NEW o \in Objs, RecordOf(o) \in Record, RecordOf(o)' \in Record,
         AsRecorded(tr[o], tr'[o]), SameFiles(tr[o].t)
  PROVE  [RecordOf(o) EXCEPT !.downloaded = 0]' = [RecordOf(o) EXCEPT !.downloaded = 0]
<1>1. RecordOf(o)'.prio = RecordOf(o).prio
  BY DEF RecordOf, AsRecorded, SameFiles
<1>2. /\ RecordOf(o)'.magnet = RecordOf(o).magnet /\ RecordOf(o)'.savePath = RecordOf(o).savePath
      /\ RecordOf(o)'.paused = RecordOf(o).paused /\ RecordOf(o)'.label = RecordOf(o).label
      /\ RecordOf(o)'.downLimit = RecordOf(o).downLimit
      /\ RecordOf(o)'.upLimit = RecordOf(o).upLimit
      /\ RecordOf(o)'.seedLimit = RecordOf(o).seedLimit
      /\ RecordOf(o)'.completedAt = RecordOf(o).completedAt
  BY DEF RecordOf, AsRecorded
<1>3. QED
  BY <1>1, <1>2, BareEqual

AllRecorded == \A i \in Ids : torrents[i] # NoObj => Records[i] \in Record

LEMMA Recorded == Inv => AllRecorded
<1> SUFFICES ASSUME Inv, NEW i \in Ids, torrents[i] # NoObj PROVE Records[i] \in Record
  BY DEF AllRecorded
<1>1. Records[i] \in Record \cup {NoRec}
  BY RecordTypes
<1>2. QED
  BY <1>1, RecordsFacts

LEMMA SameSaved ==
  ASSUME Inv, Inv', RecordsKept, NEW i \in Ids, NEW r, SameRecord(r, Records[i])
  PROVE  SameRecord(r, Records[i]')
<1>1. CASE torrents[i] = NoObj
  BY <1>1 DEF Records, RecordsKept, SameRecord
<1>2. ASSUME torrents[i] # NoObj
      PROVE  SameRecord(r, Records[i]')
  <2>1. PICK o \in Objs : o = torrents[i]
    BY <1>2, ObjFor
  <2>2. Records[i] = RecordOf(o) /\ Records'[i] = RecordOf(o)'
    <3>1. /\ Records[i] = IF torrents[i] = NoObj THEN NoRec ELSE RecordOf(torrents[i])
          /\ Records'[i] = IF torrents'[i] = NoObj THEN NoRec ELSE RecordOf(torrents[i])'
      BY DEF Records
    <3>2. torrents' = torrents
      BY DEF RecordsKept
    <3>3. RecordOf(torrents[i])' = RecordOf(o)'
      BY <2>1, <3>2 DEF RecordOf
    <3>4. QED
      BY <1>2, <2>1, <3>1, <3>2, <3>3
  <2>3. [RecordOf(o) EXCEPT !.downloaded = 0]' = [RecordOf(o) EXCEPT !.downloaded = 0]
    <3>1. RecordOf(o) \in Record
      BY <1>2, <2>2, Recorded DEF AllRecorded
    <3>2. Inv' => AllRecorded'
      BY Recorded, PTL
    <3>3. RecordOf(o)' \in Record
      BY <1>2, <2>2, <3>2 DEF RecordsKept, AllRecorded
    <3>4. QED
      BY <1>2, <2>1, <3>1, <3>3, BareRecord DEF RecordsKept
  <2>4. RecordOf(o) # NoRec /\ RecordOf(o)' # NoRec
    <3>1. RecordOf(o).saved = TRUE /\ RecordOf(o)'.saved = TRUE /\ NoRec.saved = FALSE
      BY DEF RecordOf, NoRec
    <3>2. QED
      BY <3>1
  <2>5. QED
    BY <2>2, <2>3, <2>4 DEF SameRecord
<1>3. QED
  BY <1>1, <1>2

LEMMA SavedKept ==
  ASSUME Inv, Inv', RecordsKept
  PROVE  /\ \A s : SavedAs(s) => \A i \in Ids : SameRecord(s[i], Records[i]')
         /\ \A m : ListedIn(m) <=> \A i \in TrackedIds' : (lib[tr[torrents[i]].t].info)' => i \in m
<1>1. ASSUME NEW s, SavedAs(s), NEW i \in Ids
      PROVE  SameRecord(s[i], Records[i]')
  <2>1. SameRecord(s[i], Records[i])
    BY <1>1 DEF SavedAs
  <2>2. QED
    BY <2>1, SameSaved
<1>2. TrackedIds' = TrackedIds /\ \A i \in TrackedIds : (lib[tr[torrents[i]].t].info)' = lib[tr[torrents[i]].t].info
  BY DEF TrackedIds, RecordsKept, AsRecorded, SameFiles
<1>3. QED
  BY <1>1, <1>2 DEF ListedIn

LEMMA UpToDateKept ==
  ASSUME Inv, Inv', OneSave, UpToDate, RecordsKept, UNCHANGED <<session, metainfo, saveMu>>,
         Owed => Owed', saveMu # NoThread => Stays(saveMu)
  PROVE  UpToDate'
<1> SUFFICES ASSUME StateDir, ~Owed' PROVE UpToDate'
  BY DEF UpToDate
<1>1. ~Owed
  OBVIOUS
<1>2. CASE saveMu = NoThread
  <2>1. SavedAs(session) /\ ListedIn(metainfo)
    BY <1>1, <1>2 DEF UpToDate
  <2>2. SavedAs(session)' /\ ListedIn(metainfo)'
    BY <2>1, SavedKept DEF SavedAs, ListedIn
  <2>3. QED
    BY <1>2, <2>2 DEF UpToDate
<1>3. CASE saveMu # NoThread
  <2>1. /\ SavedAs(save[saveMu].draft)
        /\ At(saveMu, "save.write") => ListedIn(metainfo \cup save[saveMu].todo)
    BY <1>1, <1>3 DEF UpToDate
  <2>2. save'[saveMu] = save[saveMu] /\ pc'[saveMu] = pc[saveMu]
    BY <1>3 DEF Stays
  <2>3. SavedAs(save[saveMu].draft)'
    BY <2>1, <2>2, SavedKept DEF SavedAs
  <2>4. At(saveMu, "save.write")' => ListedIn(metainfo \cup save[saveMu].todo)'
    BY <2>1, <2>2, SavedKept DEF ListedIn, At
  <2>5. QED
    BY <1>3, <2>3, <2>4 DEF UpToDate
<1>4. QED
  BY <1>2, <1>3

(* A goroutine that the step starts.                                       *)
Joins(q) ==
  /\ pc[q] = "off" /\ q \notin {Main, Tick} /\ pc'[q] \in {"wait.info", "check.read"}
  /\ loc'[q].op # "move" /\ loc'[q].t <= ninst'

Others(p) == \A q \in Threads : q # p => Stays(q) \/ Joins(q)

(* What those who waited for metadata wait for is waited for on.           *)
WaitsOn(p) ==
  ~closing =>
    \A t \in Insts : WaitsFor(p, t) => lib'[t].info \/ \E r \in Threads : WaitsNext(r, t)

Freshens(p) ==
  /\ Others(p)
  /\ loc'[p].op # "move" /\ MadeOK(p)' /\ Made
  /\ \A i \in Ids : torrents'[i] # NoObj => AwaitedAlso(i)
  /\ WaitsOn(p)
  /\ UNCHANGED <<saveMu, session, restoring, closing>>
  /\ ~Saver(p) /\ ~Saver(p)'
  /\ Settles(p)

LEMMA JoinsIdle ==
  ASSUME NEW q, Joins(q)
  PROVE  ~WillSave(q) /\ ~Saver(q) /\ ~Saver(q)' /\ (\A t : ~WaitsFor(q, t)) /\ MadeOK(q)'
<1>1. Where(q) = "off"
  BY DEF Joins, Where, WhereOf, FlowLabels, SaveLabels
<1>2. ~WillSave(q)
  BY <1>1 DEF Joins, WillSave, OwesLabels
<1>3. QED
  BY <1>1, <1>2 DEF Joins, Saver, WaitsFor, At, MadeOK

LEMMA FreshStep ==
  ASSUME Inv, Inv', FreshInv, NEW p \in Threads, Freshens(p), budget'.faults = 0,
         pc[p] # "off", p = Main => ~Early /\ MainUp'
  PROVE  FreshInv'
<1>0. Main \in Threads /\ Tick \in Threads
  BY MainThreads
<1>1. \A q \in Threads : loc'[q].op # "move"
  BY DEF FreshInv, Freshens, Others, Stays, Joins
<1>2. MainUp'
  <2>1. CASE p # Main
    <3>1. Stays(Main)
      BY <1>0, <2>1 DEF Freshens, Others, Joins
    <3>2. Where(Main)' = Where(Main)
      BY <3>1 DEF Stays, Where, WhereOf
    <3>3. At(Main, "new")' => At(Tick, "off")'
      BY <1>0, <3>1 DEF FreshInv, Freshens, Others, Joins, MainUp, Stays, At
    <3>4. QED
      BY <3>1, <3>2, <3>3 DEF FreshInv, Freshens, MainUp, Stays, At
  <2>2. QED
    BY <2>1
<1>3. InstsMade'
  <2>1. \A q \in Threads : Stays(q) \/ MadeOK(q)'
    BY JoinsIdle DEF Freshens, Others
  <2>2. QED
    BY <2>1, InstsKept DEF FreshInv, Freshens
<1>4. Awaited'
  <2>0. CASE closing
    BY <2>0 DEF Awaited, Freshens
  <2>1. \A q \in Threads : Stays(q) \/ WaitsOn(q)
    <3>1. \A q \in Threads : Joins(q) => WaitsOn(q)
      BY JoinsIdle DEF WaitsOn
    <3>2. QED
      BY <3>1 DEF Freshens, Others
  <2>2. CASE ~closing
    BY <2>1, <2>2, AwaitedKept DEF FreshInv, Freshens, WaitsOn, Made
  <2>3. QED
    BY <2>0, <2>2
<1>5. OneSave'
  <2>1. \A q \in Threads : Stays(q) \/ (~Saver(q) /\ ~Saver(q)')
    BY JoinsIdle DEF Freshens, Others
  <2>2. QED
    BY <2>1, OneSaveKept DEF FreshInv, Freshens
<1>6. UpToDate'
  <2>1. CASE ~StateDir \/ Owed'
    BY <2>1 DEF UpToDate
  <2>2. CASE StateDir /\ ~Owed'
    <3>1. ~restoring' /\ ~closing' /\ ~WillSave(p)'
      BY <2>2 DEF Owed
    <3>2. ~WillSave(p) /\ RecordsKept /\ UNCHANGED metainfo
      BY <2>2, <3>1 DEF Freshens, Settles
    <3>3. ASSUME NEW q \in Threads, WillSave(q)
          PROVE  WillSave(q)'
      <4>1. Stays(q)
        BY <3>2, <3>3, JoinsIdle DEF Freshens, Others
      <4>2. QED
        BY <3>3, <4>1, StaysOwing DEF Freshens, Made
    <3>4. Early => Early'
      BY <1>0 DEF Early, Freshens, Others, Joins, Stays
    <3>5. Owed => Owed'
      BY <3>3, <3>4 DEF Owed, Freshens
    <3>6. saveMu # NoThread => Stays(saveMu)
      <4>1. saveMu # NoThread => saveMu \in Threads /\ Saver(saveMu)
        BY DEF Inv, TypeOK, SaveTypes, FreshInv, OneSave
      <4>2. QED
        BY <4>1, JoinsIdle DEF Freshens, Others
    <3>7. QED
      BY <3>2, <3>5, <3>6, UpToDateKept DEF FreshInv, Freshens
  <2>3. QED
    BY <2>1, <2>2
<1>7. QED
  BY <1>1, <1>2, <1>3, <1>4, <1>5, <1>6 DEF FreshInv

-----------------------------------------------------------------------------
(* The parts of it, for a step of one thread.                              *)

(* No torrent comes to be tracked, and each keeps its instance.            *)
TsKept ==
  /\ \A i \in Ids : torrents'[i] = torrents[i] \/ torrents'[i] = NoObj
  /\ \A o \in Objs : tr'[o].t = tr[o].t

LEMMA TsSame ==
  ASSUME UNCHANGED <<torrents, tr>>
  PROVE  TsKept
BY DEF TsKept

LEMMA TsSet ==
  ASSUME Inv, UNCHANGED torrents, NEW o, NEW x, SetTr(o, x), o \in Objs => x.t = tr[o].t
  PROVE  TsKept
<1>1. \A b \in Objs : tr'[b] = IF b = o THEN x ELSE tr[b]
  BY TrTyped DEF SetTr
<1>2. QED
  BY <1>1 DEF TsKept

InstsGood == LibGood /\ ninst \in Int /\ ninst' \in Int /\ ninst <= ninst'

LEMMA InstsSame ==
  ASSUME Inv, KnownLib, UNCHANGED libVars
  PROVE  InstsGood
BY KnownSame, LibFacts DEF InstsGood, libVars

LEMMA TsMade ==
  ASSUME Inv, InstsMade, InstsGood, TsKept
  PROVE  Made /\ \A i \in Ids : torrents'[i] # NoObj => AwaitedAlso(i)
<1>1. \A o \in Objs : tr[o].t <= ninst /\ tr[o].t \in Int
  <2>1. \A o \in Objs : tr[o].t \in Insts \cup {NoInst}
    BY TrTyped DEF Tracked
  <2>2. QED
    BY <2>1, LibFacts DEF InstsMade
<1>2. Made
  BY <1>1 DEF Made, InstsGood, TsKept
<1>3. ASSUME NEW i \in Ids, torrents'[i] # NoObj
      PROVE  AwaitedAlso(i)
  <2>1. torrents'[i] = torrents[i] /\ torrents[i] # NoObj
    BY <1>3 DEF TsKept
  <2>2. tr'[torrents[i]].t = tr[torrents[i]].t
    BY <2>1, ObjFor DEF TsKept
  <2>3. QED
    BY <2>1, <2>2 DEF AwaitedAlso
<1>4. QED
  BY <1>2, <1>3

(* The locals go on with the same operation and instance, or take others.  *)
LocGood(p) ==
  /\ loc'[p].op = loc[p].op \/ loc'[p].op # "move"
  /\ loc'[p].t = loc[p].t \/ loc'[p].t <= ninst'

SwapOK(p) == pc'[p] = "purge.swap" => lib'[loc'[p].ft].info

LEMMA LocMade ==
  ASSUME Inv, FreshInv, InstsGood, NEW p \in Threads, LocGood(p), SwapOK(p)
  PROVE  loc'[p].op # "move" /\ MadeOK(p)'
<1>1. loc[p].t \in Int /\ loc[p].t <= ninst /\ loc[p].op # "move"
  BY ThreadFacts, LocalsFacts DEF FreshInv, InstsMade
<1>2. loc'[p].t <= ninst'
  BY <1>1 DEF LocGood, InstsGood
<1>3. QED
  BY <1>1, <1>2 DEF LocGood, SwapOK, MadeOK, At

(* Where nobody waits for metadata, and nothing is owed.                   *)
LEMMA NotWaiting ==
  ASSUME NEW p, Where(p) # "add.spawn", pc[p] # "wait.info"
  PROVE  WaitsOn(p)
BY DEF WaitsOn, WaitsFor, At

LEMMA NotOwing ==
  ASSUME NEW p, pc[p] \in OtherLabels \cup StructLabels, pc[p] # "wait.info",
         pc[p] \notin OwesLabels
  PROVE  ~WillSave(p) /\ Where(p) = pc[p]
<1>1. pc[p] \notin FlowLabels /\ pc[p] \notin SaveLabels
  BY PlaceApart
<1>2. QED
  BY <1>1 DEF WillSave, Where, WhereOf, SaveLabels

LEMMA RecordsSame ==
  ASSUME UNCHANGED <<torrents, tr, lib>>
  PROVE  RecordsKept
BY DEF RecordsKept, AsRecorded, SameFiles

(* To a place from which a save follows.                                   *)
LEMMA OwesApart == \A c \in OwesLabels : c \notin FlowLabels /\ c \notin SaveLabels
BY SMTT(30) DEF OwesLabels, FlowLabels, SaveLabels

FlowsOwing(p, l, x, k) == Goto(p, "flow.down") /\ SetLoc(p, Decide(l, x, k))

Owes(p) ==
  \/ \E c \in OwesLabels : Goto(p, c)
  \/ \E k : Persist(p, k)
  \/ \E l \in Locals, k \in OwesLabels : \E x : FlowsOwing(p, l, x, k)

LEMMA OwesSettles ==
  ASSUME Inv, NEW p \in Threads, Owes(p)
  PROVE  Settles(p)
<1>1. ASSUME NEW c \in OwesLabels, Goto(p, c)
      PROVE  WillSave(p)'
  <2>1. pc'[p] = c
    BY <1>1, Lands
  <2>2. QED
    BY <2>1, OwesApart DEF WillSave, Where, WhereOf
<1>2. ASSUME NEW k, Persist(p, k), StateDir
      PROVE  WillSave(p)'
  BY <1>2, Lands DEF Persist, WillSave
<1>3. ASSUME NEW l \in Locals, NEW x, NEW k \in OwesLabels, Goto(p, "flow.down"),
             SetLoc(p, Decide(l, x, k))
      PROVE  WillSave(p)'
  <2>1. pc'[p] = "flow.down" /\ loc'[p].fk = k
    BY <1>3, Lands, DecideKeeps
  <2>2. QED
    BY <2>1 DEF WillSave, Where, WhereOf, FlowLabels
<1>4. QED
  BY <1>1, <1>2, <1>3 DEF Owes, FlowsOwing, Settles

(* One thread's step, in these parts.                                      *)
Aside == UNCHANGED <<saveMu, session, restoring, closing>> /\ (budget'.faults = budget.faults \/ Fault)

LEMMA NoFaults ==
  ASSUME Inv, FreshInv, budget'.faults = budget.faults \/ Fault
  PROVE  budget'.faults = 0
BY DEF FreshInv, Fault

Steps(p) ==
  /\ Walks(p) /\ pc'[p] \notin {"save.meta", "save.write"}
  /\ InstsGood /\ LocGood(p) /\ SwapOK(p) /\ Aside
  /\ Settles(p)

LEMMA StepsFresh ==
  ASSUME Inv, Inv', FreshInv, NEW p \in Threads, Steps(p), TsKept,
         ~Saver(p), WaitsOn(p), pc[p] # "off", p = Main => ~Early /\ MainUp'
  PROVE  FreshInv'
<1>1. Others(p)
  BY WalksStays DEF Steps, Others
<1>2. loc'[p].op # "move" /\ MadeOK(p)'
  BY LocMade DEF Steps
<1>3. Made /\ \A i \in Ids : torrents'[i] # NoObj => AwaitedAlso(i)
  BY TsMade DEF Steps, FreshInv
<1>4. Freshens(p)
  BY <1>1, <1>2, <1>3 DEF Freshens, Steps, Aside, Saver
<1>5. budget'.faults = 0
  BY NoFaults DEF Steps, Aside
<1>6. QED
  BY <1>4, <1>5, FreshStep

(* A thread that is not the main one.                                      *)
LEMMA AwayFromMain ==
  ASSUME FreshInv, NEW p, pc[p] \in (StructLabels \cup OtherLabels) \ (MainLabels \cup {"off"})
  PROVE  p # Main
<1>1. pc[p] \notin FlowLabels /\ pc[p] \notin SaveLabels
  BY PlaceApart
<1>2. QED
  BY <1>1 DEF FreshInv, MainUp, OnMain, Where, WhereOf

LEMMA AsideFresh ==
  ASSUME Inv, Inv', FreshInv, NEW p \in Threads, Steps(p), TsKept,
         pc[p] \in (StructLabels \cup OtherLabels) \ (MainLabels \cup {"off"}), pc[p] # "wait.info"
  PROVE  FreshInv'
<1>1. p # Main /\ pc[p] \notin FlowLabels /\ pc[p] \notin SaveLabels
  BY AwayFromMain, PlaceApart
<1>2. ~Saver(p) /\ Where(p) = pc[p]
  BY <1>1 DEF Saver, SaveLabels, Where, WhereOf
<1>3. WaitsOn(p)
  BY <1>2, NotWaiting DEF MainLabels, DoneLabels
<1>4. QED
  BY <1>1, <1>2, <1>3, StepsFresh

-----------------------------------------------------------------------------
(* Operations.                                                             *)

(* The locals other than the operation and its instance.                   *)
LEMMA LocFields ==
  ASSUME NEW l \in Locals, NEW x, NEW k, NEW a, NEW b, NEW c
  PROVE  /\ Decide(l, x, k).op = l.op /\ Decide(l, x, k).t = l.t
         /\ [l EXCEPT !.chosen = a].op = l.op /\ [l EXCEPT !.chosen = a].t = l.t
         /\ [l EXCEPT !.ret = a].op = l.op /\ [l EXCEPT !.ret = a].t = l.t
         /\ [l EXCEPT !.t = a, !.old = b].op = l.op /\ [l EXCEPT !.t = a, !.old = b].t = a
         /\ [l EXCEPT !.ft = a].op = l.op /\ [l EXCEPT !.ft = a].t = l.t
         /\ [l EXCEPT !.ft = a].ft = a
         /\ [l EXCEPT !.t = a].op = l.op /\ [l EXCEPT !.t = a].t = a
         /\ [l EXCEPT !.err = a].op = l.op /\ [l EXCEPT !.err = a].t = l.t
         /\ [l EXCEPT !.done = a].op = l.op /\ [l EXCEPT !.done = a].t = l.t
BY DEF Locals, Decide

LEMMA SetsLoc ==
  ASSUME Inv, NEW p \in Threads, NEW l, SetLoc(p, l), l.op = loc[p].op, l.t = loc[p].t
  PROVE  LocGood(p)
BY Lands DEF LocGood

(* Nothing changes but where the thread is.                                *)
Turns(p) ==
  /\ UNCHANGED <<torrents, tr, lib, ninst, client, metainfo, save>> /\ Aside
  /\ Walks(p) /\ LocGood(p)

LEMMA TurnsFresh ==
  ASSUME Inv, Inv', FreshInv, NEW p \in Threads, Turns(p),
         pc[p] \in (StructLabels \cup OtherLabels) \ (MainLabels \cup {"off"}), pc[p] # "wait.info",
         pc[p] \notin OwesLabels, pc'[p] \notin {"save.meta", "save.write", "purge.swap"}
  PROVE  FreshInv'
<1>1. Settles(p)
  BY NotOwing, RecordsSame DEF Turns, Settles
<1>2. InstsGood
  BY InstsSame DEF Turns, libVars, FreshInv, InstsMade
<1>3. TsKept /\ Steps(p)
  BY <1>1, <1>2, TsSame DEF Turns, Steps, SwapOK
<1>4. QED
  BY <1>3, AsideFresh

(* A change that the thread goes on to save.                               *)
LEMMA OwesFresh ==
  ASSUME Inv, Inv', FreshInv, NEW p \in Threads, Owes(p), InstsGood, LocGood(p), TsKept, Aside,
         UNCHANGED loc \/ \E l : SetLoc(p, l),
         UNCHANGED save \/ \E k : Persist(p, k), SwapOK(p),
         pc[p] \in (StructLabels \cup OtherLabels) \ (MainLabels \cup {"off"}), pc[p] # "wait.info",
         pc'[p] \notin {"save.meta", "save.write"}
  PROVE  FreshInv'
<1>1. Settles(p)
  BY OwesSettles
<1>2. Walks(p)
  BY DEF Walks, Owes, Persist, FlowsOwing
<1>3. Steps(p)
  BY <1>1, <1>2 DEF Steps
<1>4. QED
  BY <1>3, AsideFresh

LEMMA FlowOwes ==
  ASSUME NEW p, NEW l \in Locals, NEW x, NEW k \in OwesLabels, Goto(p, "flow.down"),
         SetLoc(p, Decide(l, x, k))
  PROVE  Owes(p)
BY DEF Owes, FlowsOwing

LEMMA PersistLands ==
  ASSUME Inv, NEW p \in Threads, NEW k, Persist(p, k)
  PROVE  pc'[p] \in {k, "save.check"}
BY Lands DEF Persist

LEMMA MarkGood ==
  ASSUME Inv, KnownLib, NEW t, NEW q, SetLib(t, [lib[t] EXCEPT !.prio = q]), UNCHANGED <<ninst, client>>
  PROVE  InstsGood
BY KnownPrio, LibFacts DEF InstsGood

LEMMA PauseFresh ==
  ASSUME Inv, Inv', FreshInv, NEW p \in Threads, PauseStep(p)
  PROVE  FreshInv'
<1>1. /\ pc[p] \in {"pause.set", "pause.chosen", "pause.mark", "pause.save"}
      /\ Aside /\ UNCHANGED torrents
      /\ UNCHANGED loc \/ \E l : SetLoc(p, l)
      /\ UNCHANGED save \/ \E k : Persist(p, k)
  BY DEF PauseStep, SetPaused, SetPausedChosen, SetPausedMark, SetPausedSave, At, Aside,
         engineVars, diskVars, saveVars, mainVars
<1>2. /\ pc[p] \in (StructLabels \cup OtherLabels) \ (MainLabels \cup {"off"}) /\ pc[p] # "wait.info"
  BY <1>1, SMTT(30) DEF StructLabels, OtherLabels, MainLabels, AddLabels, DoneLabels, NextLabels
<1>3. loc[p] \in Locals /\ KnownLib
  BY Lands DEF FreshInv, InstsMade
<1>4. CASE SetPaused(p)
  <2> DEFINE o == loc[p].o
             x == [tr[o] EXCEPT !.paused = loc[p].flag]
             k == IF loc[p].flag THEN "pause.save" ELSE "pause.chosen"
  <2>1. SetTr(o, x) /\ SetLoc(p, Decide(loc[p], x, k)) /\ Goto(p, "flow.down") /\ UNCHANGED libVars
    BY <1>4 DEF SetPaused
  <2>2. o \in Objs => x.t = tr[o].t
    BY TrTyped, TrField
  <2>3. k \in OwesLabels
    BY DEF OwesLabels
  <2> HIDE DEF o, x, k
  <2>7. TsKept
    BY <1>1, <2>1, <2>2, TsSet
  <2>4. TsKept /\ Owes(p)
    BY <1>3, <2>1, <2>3, <2>7, FlowOwes
  <2>5. InstsGood /\ LocGood(p) /\ pc'[p] = "flow.down"
    BY <1>3, <2>1, InstsSame, LocFields, SetsLoc, Lands
  <2>6. QED
    BY <1>1, <1>2, <2>4, <2>5, OwesFresh DEF SwapOK
<1>5. CASE SetPausedChosen(p)
  <2>1. /\ UNCHANGED <<torrents, tr>> /\ UNCHANGED libVars
        /\ \E a : SetLoc(p, [loc[p] EXCEPT !.chosen = a])
        /\ Goto(p, "pause.mark")
    BY <1>5 DEF SetPausedChosen, engineVars
  <2>2. TsKept /\ InstsGood
    BY <1>3, <2>1, TsSame, InstsSame
  <2>5. Owes(p) /\ pc'[p] = "pause.mark"
    BY <2>1, Lands DEF Owes, OwesLabels
  <2>3. LocGood(p)
    BY <1>3, <2>1, LocFields, SetsLoc
  <2>4. QED
    BY <1>1, <1>2, <2>2, <2>3, <2>5, OwesFresh DEF SwapOK
<1>6. CASE SetPausedMark(p)
  <2>1. /\ UNCHANGED <<torrents, tr>> /\ UNCHANGED loc /\ UNCHANGED <<ninst, client>>
        /\ Goto(p, "pause.save")
        /\ \/ UNCHANGED lib
           \/ \E t, q : SetLib(t, [lib[t] EXCEPT !.prio = q])
    BY <1>6 DEF SetPausedMark, MarkWanted, SetPrio, engineVars
  <2>2. TsKept /\ Owes(p)
    BY <1>3, <2>1, TsSame DEF Owes, OwesLabels
  <2>3. InstsGood
    BY <1>3, <2>1, InstsSame, MarkGood DEF libVars
  <2>4. LocGood(p) /\ pc'[p] = "pause.save"
    BY <2>1, Lands DEF LocGood
  <2>5. QED
    BY <1>1, <1>2, <2>2, <2>3, <2>4, OwesFresh DEF SwapOK
<1>7. CASE SetPausedSave(p)
  <2>1. UNCHANGED <<torrents, tr>> /\ UNCHANGED loc /\ UNCHANGED libVars /\ Persist(p, "end")
    BY <1>7 DEF SetPausedSave, engineVars
  <2>2. TsKept /\ Owes(p) /\ InstsGood /\ LocGood(p)
    BY <1>3, <2>1, TsSame, InstsSame DEF Owes, LocGood
  <2>3. pc'[p] \in {"end", "save.check"}
    BY <2>1, PersistLands
  <2>4. QED
    BY <1>1, <1>2, <2>1, <2>2, <2>3, OwesFresh DEF SwapOK
<1>8. QED
  BY <1>4, <1>5, <1>6, <1>7 DEF PauseStep

LEMMA StreamFresh ==
  ASSUME Inv, Inv', FreshInv, NEW p \in Threads, StreamStep(p)
  PROVE  FreshInv'
<1> DEFINE Fields ==
            \/ UNCHANGED loc
            \/ \E a, b : \/ SetLoc(p, [loc[p] EXCEPT !.o = a, !.flag = FALSE, !.ret = "stream.prio"])
                        \/ SetLoc(p, [loc[p] EXCEPT !.o = a, !.prio = "high", !.ret = b])
                        \/ SetLoc(p, [loc[p] EXCEPT !.ret = b])
          Target == {"stream.resume", "stream.prio", "pause.set", "prio.set", "end"}
          Rest1 == UNCHANGED <<torrents, tr, lib, ninst, client, metainfo, save>> /\ Aside
<1>9. ASSUME PrepareStreamPaused(p)
      PROVE  /\ pc[p] \in {"stream.paused", "stream.resume", "stream.prio"} /\ Rest1
             /\ \E c \in Target : Goto(p, c)
             /\ Fields
  BY <1>9 DEF PrepareStreamPaused, At, Aside, engineVars, libVars, diskVars, saveVars, mainVars
<1>10. ASSUME PrepareStreamResume(p)
      PROVE  /\ pc[p] \in {"stream.paused", "stream.resume", "stream.prio"} /\ Rest1
             /\ \E c \in Target : Goto(p, c)
             /\ Fields
  BY <1>10 DEF PrepareStreamResume, At, Aside, engineVars, libVars, diskVars, saveVars, mainVars
<1>11. ASSUME PrepareStreamPrio(p)
      PROVE  /\ pc[p] \in {"stream.paused", "stream.resume", "stream.prio"} /\ Rest1
             /\ \E c \in Target : Goto(p, c)
             /\ Fields
  BY <1>11 DEF PrepareStreamPrio, At, Aside, engineVars, libVars, diskVars, saveVars, mainVars
<1>1. /\ pc[p] \in {"stream.paused", "stream.resume", "stream.prio"} /\ Rest1
      /\ \E c \in Target : Goto(p, c)
      /\ Fields
  BY <1>9, <1>10, <1>11 DEF StreamStep
<1>12. pc[p] \in {"stream.paused", "stream.resume", "stream.prio"}
  BY <1>1
<1>2. /\ pc[p] \in (StructLabels \cup OtherLabels) \ (MainLabels \cup {"off"}) /\ pc[p] # "wait.info"
      /\ pc[p] \notin OwesLabels
  BY <1>12, SMTT(30)
     DEF StructLabels, OtherLabels, MainLabels, AddLabels, DoneLabels, NextLabels, OwesLabels
<1>3. pc'[p] \in {"stream.resume", "stream.prio", "pause.set", "prio.set", "end"}
  BY <1>1, Lands
<1>4. loc[p] \in Locals
  BY Lands
<1>5. LocGood(p)
  <2>1. ASSUME NEW a, NEW b, SetLoc(p, [loc[p] EXCEPT !.o = a, !.flag = FALSE, !.ret = "stream.prio"])
        PROVE  LocGood(p)
    <3> DEFINE l == [loc[p] EXCEPT !.o = a, !.flag = FALSE, !.ret = "stream.prio"]
    <3>1. l.op = loc[p].op /\ l.t = loc[p].t
      BY <1>4 DEF Locals
    <3>2. SetLoc(p, l)
      BY <2>1
    <3> HIDE DEF l
    <3>3. QED
      BY <3>1, <3>2, SetsLoc
  <2>2. ASSUME NEW a, NEW b, SetLoc(p, [loc[p] EXCEPT !.o = a, !.prio = "high", !.ret = b])
        PROVE  LocGood(p)
    <3> DEFINE l == [loc[p] EXCEPT !.o = a, !.prio = "high", !.ret = b]
    <3>1. l.op = loc[p].op /\ l.t = loc[p].t
      BY <1>4 DEF Locals
    <3>2. SetLoc(p, l)
      BY <2>2
    <3> HIDE DEF l
    <3>3. QED
      BY <3>1, <3>2, SetsLoc
  <2>3. ASSUME NEW b, SetLoc(p, [loc[p] EXCEPT !.ret = b])
        PROVE  LocGood(p)
    BY <1>4, <2>3, LocFields, SetsLoc
  <2>4. QED
    BY <1>1, <2>1, <2>2, <2>3 DEF LocGood
<1>6. Turns(p)
  BY <1>1, <1>5 DEF Turns, Walks
<1>7. QED
  BY <1>2, <1>3, <1>6, TurnsFresh

(* SetTorrentRateLimit, SetSeedLimit and SetLabel.                         *)
LEMMA FieldsFresh ==
  ASSUME Inv, Inv', FreshInv, NEW p \in Threads,
         SetTorrentRateLimit(p) \/ SetSeedLimit(p) \/ SetLabel(p)
  PROVE  FreshInv'
<1>1. /\ pc[p] \in {"rate", "seed", "label"} /\ UNCHANGED torrents /\ UNCHANGED loc
      /\ Aside /\ UNCHANGED libVars /\ Persist(p, "end")
  BY DEF SetTorrentRateLimit, SetSeedLimit, SetLabel, At, Aside, diskVars, saveVars, mainVars
<1>2. /\ pc[p] \in (StructLabels \cup OtherLabels) \ (MainLabels \cup {"off"}) /\ pc[p] # "wait.info"
  BY <1>1, SMTT(30) DEF StructLabels, OtherLabels, MainLabels, AddLabels, DoneLabels, NextLabels
<1>3. PICK o, a, b : \/ SetTr(o, [tr[o] EXCEPT !.upLimit = a, !.downLimit = b])
                     \/ SetTr(o, [tr[o] EXCEPT !.seedLimit = a])
                     \/ SetTr(o, [tr[o] EXCEPT !.label = a])
  BY DEF SetTorrentRateLimit, SetSeedLimit, SetLabel
<1>4. o \in Objs => /\ [tr[o] EXCEPT !.upLimit = a, !.downLimit = b].t = tr[o].t
                    /\ [tr[o] EXCEPT !.seedLimit = a].t = tr[o].t
                    /\ [tr[o] EXCEPT !.label = a].t = tr[o].t
  BY TrTyped, TrField
<1>5. TsKept
  BY <1>1, <1>3, <1>4, TsSet
<1>6. Owes(p) /\ InstsGood /\ LocGood(p)
  BY <1>1, InstsSame DEF Owes, LocGood, FreshInv, InstsMade
<1>7. pc'[p] \in {"end", "save.check"}
  BY <1>1, PersistLands
<1>8. QED
  BY <1>1, <1>2, <1>5, <1>6, <1>7, OwesFresh DEF SwapOK

-----------------------------------------------------------------------------
(* Steps that a restore makes too.                                         *)

LEMMA MainWalks ==
  ASSUME FreshInv, UNCHANGED <<restoring, closing>>, Where(Main) \in RestoringLabels,
         Where(Main)' \in RestoringLabels,
         Where(Main)' \in AddLabels \cup DoneLabels => loc'[Main].ret \in {"restore.limits", "restore.prios"}
  PROVE  restoring /\ ~Early /\ MainUp'
<1>1. RestoringLabels \subseteq MainLabels /\ "close.wait" \notin RestoringLabels
      /\ \A c \in EarlyLabels : c \notin FlowLabels /\ c \notin SaveLabels /\ c \notin RestoringLabels
  BY SMTT(30) DEF RestoringLabels, MainLabels, EarlyLabels, FlowLabels, SaveLabels, NextLabels,
                  AddLabels, DoneLabels
<1>2. restoring
  BY DEF FreshInv, MainUp
<1>3. ~Early
  BY <1>1 DEF Early, Where, WhereOf
<1>4. ~closing
  <2>1. "close.wait" \notin FlowLabels /\ "close.wait" \notin SaveLabels
    BY DEF FlowLabels, SaveLabels
  <2>2. QED
    BY <1>1, <2>1 DEF FreshInv, MainUp, At, Where, WhereOf
<1>5. ~At(Main, "new")'
  BY <1>1 DEF EarlyLabels, At, Where, WhereOf
<1>6. QED
  BY <1>1, <1>2, <1>3, <1>4, <1>5 DEF MainUp, OnMain

(* A step of whatever thread, that does not wait for metadata.             *)
LEMMA AnyFresh ==
  ASSUME Inv, Inv', FreshInv, NEW p \in Threads, Steps(p), TsKept, Where(p) # "add.spawn",
         pc[p] \notin {"wait.info", "save.meta", "save.write", "off"},
         p = Main =>
           /\ Where(Main) \in RestoringLabels /\ Where(Main)' \in RestoringLabels
           /\ Where(Main)' \in AddLabels \cup DoneLabels =>
                loc'[Main].ret \in {"restore.limits", "restore.prios"}
  PROVE  FreshInv'
<1>1. p = Main => ~Early /\ MainUp'
  BY MainWalks DEF Steps, Aside
<1>2. ~Saver(p) /\ WaitsOn(p)
  BY NotWaiting DEF Saver
<1>3. QED
  BY <1>1, <1>2, StepsFresh

LEMMA MainReturns ==
  ASSUME FreshInv, Where(Main) \in AddLabels \cup DoneLabels
  PROVE  Where(Main) \in RestoringLabels /\ loc[Main].ret \in {"restore.limits", "restore.prios"}
BY DEF FreshInv, MainUp, OnMain, RestoringLabels

LEMMA PrioFresh ==
  ASSUME Inv, Inv', FreshInv, NEW p \in Threads, SetFilePriority(p)
  PROVE  FreshInv'
<1>1. /\ pc[p] = "prio.set" /\ UNCHANGED <<torrents, tr, ninst, client, metainfo, loc, save>> /\ Aside
      /\ \/ Goto(p, "prio.chosen") /\ \E t, q : SetLib(t, [lib[t] EXCEPT !.prio = q])
         \/ Goto(p, "end") /\ UNCHANGED lib
  BY DEF SetFilePriority, SetPrio, At, Aside, engineVars, diskVars, saveVars, mainVars
<1>2. Where(p) = "prio.set" /\ ~WillSave(p)
  BY <1>1, NotOwing DEF OtherLabels, OwesLabels
<1>3. InstsGood
  BY <1>1, InstsSame, MarkGood DEF FreshInv, InstsMade, libVars
<1>4. pc'[p] \in {"prio.chosen", "end"}
  BY <1>1, Lands
<1>5. Settles(p)
  <2>1. CASE Goto(p, "prio.chosen")
    BY <2>1, OwesSettles DEF Owes, OwesLabels
  <2>2. CASE UNCHANGED lib
    BY <1>1, <1>2, <2>2, RecordsSame DEF Settles
  <2>3. QED
    BY <1>1, <2>1, <2>2
<1>6. Steps(p) /\ TsKept
  BY <1>1, <1>3, <1>4, <1>5, TsSame DEF Steps, Walks, LocGood, SwapOK
<1>7. Where(p)' \in {"prio.chosen", "end"}
  BY <1>4 DEF Where, WhereOf, FlowLabels, SaveLabels
<1>8. p = Main => /\ Where(Main) \in RestoringLabels /\ Where(Main)' \in RestoringLabels
                  /\ loc'[Main].ret \in {"restore.limits", "restore.prios"}
  BY <1>1, <1>2, <1>7, MainReturns DEF RestoringLabels, DoneLabels
<1>9. QED
  BY <1>1, <1>2, <1>6, <1>8, AnyFresh

LEMMA PrioChosenFresh ==
  ASSUME Inv, Inv', FreshInv, NEW p \in Threads, SetFilePriorityChosen(p)
  PROVE  FreshInv'
<1> DEFINE o == loc[p].o
           x == [tr[o] EXCEPT !.chosenFiles = @ \cup {loc[p].file}]
<1>1. /\ pc[p] = "prio.chosen" /\ UNCHANGED torrents /\ UNCHANGED loc /\ UNCHANGED libVars /\ Aside
      /\ SetTr(o, x) /\ Persist(p, "end")
  BY DEF SetFilePriorityChosen, At, Aside, diskVars, saveVars, mainVars
<1>2. o \in Objs => x.t = tr[o].t
  BY TrTyped, TrField
<1> HIDE DEF o, x
<1>3. TsKept
  BY <1>1, <1>2, TsSet
<1>4. Settles(p)
  BY <1>1, OwesSettles DEF Owes
<1>5. InstsGood
  BY <1>1, InstsSame DEF FreshInv, InstsMade
<1>6. pc'[p] \in {"end", "save.check"} /\ Walks(p) /\ Where(p)' = "end"
  <2>1. "end" \in SaveNext \ Watched
    BY SaveNextOpen DEF SaveNext
  <2>2. QED
    BY <1>1, <2>1, PersistOpen, PersistLands DEF Walks
<1>7. Steps(p)
  BY <1>1, <1>4, <1>5, <1>6 DEF Steps, LocGood, SwapOK
<1>8. Where(p) = "prio.chosen"
  BY <1>1 DEF Where, WhereOf, FlowLabels, SaveLabels
<1>9. p = Main => /\ Where(Main) \in RestoringLabels /\ Where(Main)' \in RestoringLabels
                  /\ loc'[Main].ret \in {"restore.limits", "restore.prios"}
  BY <1>1, <1>6, <1>8, MainReturns DEF RestoringLabels, DoneLabels
<1>10. QED
  BY <1>1, <1>3, <1>7, <1>8, <1>9, AnyFresh

(* A switch says nothing of a record.                                      *)
LEMMA RecordsSwitch ==
  ASSUME Inv, UNCHANGED <<torrents, tr>>, \A t \in Insts : SameFiles(t)
  PROVE  RecordsKept
BY ObjFor DEF RecordsKept, AsRecorded

LEMMA ApplyFlowFresh ==
  ASSUME Inv, Inv', FreshInv, NEW p \in Threads, ApplyFlowDown(p) \/ ApplyFlowUp(p)
  PROVE  FreshInv'
<1>1. /\ pc[p] \in FlowLabels
      /\ Goto(p, "flow.up") \/ Goto(p, loc[p].fk)
      /\ UNCHANGED loc /\ UNCHANGED save /\ UNCHANGED <<torrents, tr>> /\ Aside
      /\ UNCHANGED <<metainfo, ninst, client>>
  BY DEF ApplyFlowDown, ApplyFlowUp, At, Aside, FlowLabels, engineVars, saveVars, diskVars, mainVars
<1>2. loc[p].fk \in FlowNext
  BY <1>1, ThreadFacts DEF LocalOK, ReturnsOK
<1>3. LibGood /\ \A u \in Insts : SameFiles(u)
  <2> DEFINE t == loc[p].ft
  <2>1. \E a : \/ SetLib(t, [lib[t] EXCEPT !.down = a])
               \/ SetLib(t, [lib[t] EXCEPT !.up = a])
    BY DEF ApplyFlowDown, ApplyFlowUp
  <2> HIDE DEF t
  <2>2. PICK a : \/ SetLib(t, [lib[t] EXCEPT !.down = a])
                 \/ SetLib(t, [lib[t] EXCEPT !.up = a])
    BY <2>1
  <2>3. ASSUME NEW y \in Instance
        PROVE  /\ [y EXCEPT !.down = a].info = y.info /\ [y EXCEPT !.down = a].live = y.live
               /\ [y EXCEPT !.up = a].info = y.info /\ [y EXCEPT !.up = a].live = y.live
               /\ [y EXCEPT !.down = a].prio = y.prio /\ [y EXCEPT !.up = a].prio = y.prio
    BY DEF Instance
  <2>4. LibKeeps(t, [lib[t] EXCEPT !.down = a]) /\ LibKeeps(t, [lib[t] EXCEPT !.up = a])
    BY <2>3, LibFacts DEF LibKeeps
  <2>5. LibGood
    BY <1>1, <2>2, <2>4, KnownSet DEF FreshInv, InstsMade
  <2>6. ASSUME NEW u \in Insts PROVE SameFiles(u)
    <3>1. lib'[u] = lib[u] \/ (u = t /\ lib'[u] \in {[lib[t] EXCEPT !.down = a], [lib[t] EXCEPT !.up = a]})
      BY <2>2, LibFacts DEF SetLib
    <3>2. QED
      BY <2>3, <3>1, LibFacts DEF SameFiles
  <2>7. QED
    BY <2>5, <2>6
<1>4. Walks(p) /\ Where(p)' = Where(p) /\ Where(p) = loc[p].fk
      /\ pc'[p] \in FlowNext \cup {"flow.up"}
  <2>1. Walks(p)
    BY <1>1 DEF Walks
  <2>2. Where(p)' = Where(p) /\ Where(p) = loc[p].fk
    BY <1>1, <1>2, NextApart, Lands DEF Where, WhereOf, FlowLabels
  <2>3. QED
    BY <1>1, <1>2, <2>1, <2>2, Lands
<1>5. pc'[p] \notin SaveLabels /\ pc'[p] # "purge.swap" /\ pc[p] # "wait.info" /\ pc'[p] # "wait.info"
      /\ pc[p] \notin {"save.meta", "save.write", "save.check", "save.gather"}
  BY <1>1, <1>4 DEF FlowNext, SaveLabels, FlowLabels
<1>6. Settles(p)
  <2>1. WillSave(p)' <=> WillSave(p)
    BY <1>4, <1>5 DEF WillSave, SaveLabels
  <2>2. RecordsKept
    BY <1>1, <1>3, RecordsSwitch
  <2>3. QED
    BY <1>1, <2>1, <2>2 DEF Settles
<1>7. InstsGood
  BY <1>1, <1>3, LibFacts DEF InstsGood
<1>8. Steps(p) /\ TsKept
  BY <1>1, <1>4, <1>5, <1>6, <1>7, TsSame DEF Steps, LocGood, SwapOK, SaveLabels
<1>9. WaitsOn(p)
  <2>1. \A t \in Insts : WaitsFor(p, t) => WaitsNext(p, t)
    BY <1>1, <1>4, <1>5 DEF WaitsFor, WaitsNext, At
  <2>2. QED
    BY <2>1 DEF WaitsOn
<1>10. p = Main => ~Early /\ MainUp'
  <2> SUFFICES ASSUME p = Main PROVE ~Early /\ MainUp'
    OBVIOUS
  <2>1. ~Early /\ ~At(Main, "close.wait")
    BY <1>1 DEF Early, EarlyLabels, FlowLabels, At
  <2>3. ~At(Main, "new")'
    BY <1>4 DEF FlowNext, At
  <2>2. QED
    BY <1>1, <1>4, <2>1, <2>3 DEF FreshInv, MainUp, Aside
<1>11. ~Saver(p) /\ pc[p] # "off"
  BY <1>1, <1>5 DEF Saver, FlowLabels
<1>12. QED
  BY <1>8, <1>9, <1>10, <1>11, StepsFresh

LEMMA RetNextApart ==
  RetNext \cap (OwesLabels \cup FlowLabels \cup SaveLabels \cup {"wait.info", "purge.swap"}) = {}
BY SMTT(30) DEF RetNext, OwesLabels, FlowLabels, SaveLabels

LEMMA EndOpFresh ==
  ASSUME Inv, Inv', FreshInv, NEW p \in Threads, EndOp(p)
  PROVE  FreshInv'
<1>1. /\ pc[p] = "end" /\ Goto(p, loc[p].ret)
      /\ SetLoc(p, IF loc[p].ret = "idle" THEN Loc0 ELSE loc[p])
      /\ UNCHANGED <<torrents, tr, lib, ninst, client, metainfo, save>> /\ Aside
  BY DEF EndOp, Return, At, Aside, libVars, saveVars, diskVars, mainVars
<1>2. loc[p].ret \in RetNext
  BY Lands DEF Locals
<1>3. Where(p) = "end" /\ ~WillSave(p)
  BY <1>1, NotOwing DEF OtherLabels, OwesLabels
<1>4. Settles(p)
  BY <1>1, <1>3, RecordsSame DEF Settles
<1>5. InstsGood
  BY <1>1, InstsSame DEF FreshInv, InstsMade, libVars
<1>6. pc'[p] = loc[p].ret /\ loc'[p] \in {Loc0, loc[p]}
      /\ (loc[p].ret # "idle" => loc'[p] = loc[p])
  BY <1>1, Lands
<1>7. LocGood(p)
  <2>1. Loc0.op # "move" /\ Loc0.t = 0
    BY DEF Loc0, NoInst
  <2>2. 0 <= ninst'
    BY <1>5, LibFacts DEF InstsGood
  <2>3. QED
    BY <1>6, <2>1, <2>2 DEF LocGood
<1>8. Steps(p) /\ TsKept
  BY <1>1, <1>2, <1>4, <1>5, <1>6, <1>7, TsSame, RetNextApart DEF Steps, Walks, SwapOK, SaveLabels
<1>9. p = Main => /\ Where(Main) \in RestoringLabels /\ Where(Main)' \in RestoringLabels
                  /\ loc'[Main].ret \in {"restore.limits", "restore.prios"}
  <2> SUFFICES ASSUME p = Main
               PROVE  /\ Where(Main) \in RestoringLabels /\ Where(Main)' \in RestoringLabels
                      /\ loc'[Main].ret \in {"restore.limits", "restore.prios"}
    OBVIOUS
  <2>1. Where(Main) \in RestoringLabels /\ loc[Main].ret \in {"restore.limits", "restore.prios"}
    BY <1>3, MainReturns DEF DoneLabels
  <2>2. Where(Main)' \in RestoringLabels /\ loc'[Main] = loc[Main]
    BY <1>6, <2>1 DEF Where, WhereOf, FlowLabels, SaveLabels, RestoringLabels, NextLabels
  <2>3. QED
    BY <2>1, <2>2
<1>10. QED
  BY <1>1, <1>3, <1>8, <1>9, AnyFresh

-----------------------------------------------------------------------------
(* Adding.                                                                 *)

(* The instance the library answers with.                                  *)
LEMMA AddGood ==
  ASSUME Inv, KnownLib, NEW i \in Ids, NEW d, NEW b \in BOOLEAN, AddTorrentSpec(i, d, b)
  PROVE  InstsGood /\ AddedInst(i) <= ninst'
<1>1. LibGood
  BY KnownAdd
<1>2. ninst' \in Int /\ ninst <= ninst'
  BY LibFacts DEF AddTorrentSpec
<1>3. AddedInst(i) <= ninst'
  BY LibFacts DEF AddTorrentSpec, AddedInst, KnownLib
<1>4. QED
  BY <1>1, <1>2, <1>3, LibFacts DEF InstsGood

LEMMA AddSpecFresh ==
  ASSUME Inv, Inv', FreshInv, NEW p \in Threads, AddSpec(p)
  PROVE  FreshInv'
<1> DEFINE l == [loc[p] EXCEPT !.t = AddedInst(loc[p].id)]
<1>1. /\ pc[p] = "add.spec" /\ Goto(p, "add.track") /\ SetLoc(p, l)
      /\ UNCHANGED save /\ UNCHANGED <<torrents, tr>> /\ Aside
      /\ AddTorrentSpec(loc[p].id, loc[p].dir, ~loc[p].magnet)
  BY DEF AddSpec, At, Aside, saveVars, diskVars, mainVars, engineVars
<1>2. /\ loc[p] \in Locals /\ loc[p].id \in Ids /\ loc[p].magnet \in BOOLEAN
  BY Lands DEF Locals
<1>3. InstsGood /\ AddedInst(loc[p].id) <= ninst'
  BY <1>1, <1>2, AddGood DEF FreshInv, InstsMade
<1>4. l.t = AddedInst(loc[p].id) /\ l.op = loc[p].op /\ l.ret = loc[p].ret
  BY <1>2 DEF Locals
<1> HIDE DEF l
<1>5. pc'[p] = "add.track" /\ loc'[p] = l
  BY <1>1, Lands
<1>6. Settles(p)
  BY <1>1, OwesSettles DEF Owes, OwesLabels
<1>7. Steps(p) /\ TsKept
  BY <1>1, <1>3, <1>4, <1>5, <1>6, TsSame DEF Steps, Walks, LocGood, SwapOK
<1>8. Where(p) = "add.spec" /\ Where(p)' = "add.track"
  BY <1>1, <1>5 DEF Where, WhereOf, FlowLabels, SaveLabels
<1>9. p = Main => /\ Where(Main) \in RestoringLabels /\ Where(Main)' \in RestoringLabels
                  /\ loc'[Main].ret \in {"restore.limits", "restore.prios"}
  BY <1>4, <1>5, <1>8, MainReturns DEF RestoringLabels, AddLabels
<1>10. QED
  BY <1>1, <1>7, <1>8, <1>9, AnyFresh

(* The struct that an add makes or tightens.                               *)
LEMMA TrackMade ==
  ASSUME Inv, FreshInv, InstsGood, NEW p \in Threads, AddTrack(p), WaitsNext(p, loc[p].t)
  PROVE  Made /\ \A j \in Ids : torrents'[j] # NoObj => AwaitedAlso(j)
<1> DEFINE i == loc[p].id
           o == IF torrents[i] # NoObj THEN torrents[i] ELSE nobj + 1
           x == IF torrents[i] # NoObj
                THEN [tr[o] EXCEPT !.paused = @ \/ loc[p].flag]
                ELSE NewTracked(loc[p].t, loc[p].dir, loc[p].magnet, loc[p].flag)
<1>1. /\ o \in Objs /\ SetTr(o, x) /\ torrents' = [torrents EXCEPT ![i] = o]
  BY Zenon DEF AddTrack
<1>2. i \in Ids /\ loc[p].t \in Int
  <2>1. loc[p] \in Locals
    BY Lands
  <2>2. loc[p].id \in Ids /\ loc[p].t \in Insts \cup {NoInst}
    BY <2>1 DEF Locals
  <2>3. QED
    BY <2>2, LibFacts
<1>3. /\ torrents \in [Ids -> Objs \cup {NoObj}] /\ tr \in [Objs -> Tracked]
      /\ nobj \in Int
  BY ThreadFacts DEF EngineTypes
<1>4. /\ torrents[i] # NoObj => o = torrents[i] /\ x.t = tr[o].t
      /\ torrents[i] = NoObj => o = nobj + 1 /\ x.t = loc[p].t
  <2>1. CASE torrents[i] # NoObj
    <3>1. o = torrents[i] /\ tr[o] \in Tracked
      BY <1>2, <2>1, ObjFor
    <3>2. x = [tr[o] EXCEPT !.paused = @ \/ loc[p].flag]
      BY <2>1
    <3> HIDE DEF x, o
    <3>3. ASSUME NEW y \in Tracked
          PROVE  [y EXCEPT !.paused = @ \/ loc[p].flag].t = y.t
      BY DEF Tracked
    <3>4. QED
      BY <2>1, <3>1, <3>2, <3>3
  <2>2. CASE torrents[i] = NoObj
    BY <2>2 DEF NewTracked
  <2>3. QED
    BY <2>1, <2>2
<1>5. torrents[i] = NoObj => \A j \in Ids : torrents[j] # o
  BY <1>3, <1>4, ObjFor
<1> HIDE DEF o, x
<1>6. \A b \in Objs : tr'[b] = IF b = o THEN x ELSE tr[b]
  BY <1>1, <1>3 DEF SetTr
<1>7. \A j \in Ids : torrents'[j] = IF j = i THEN o ELSE torrents[j]
  BY <1>1, <1>3
<1>8. \A b \in Objs : tr[b].t <= ninst /\ tr[b].t \in Int
  <2>1. \A b \in Objs : tr[b].t \in Insts \cup {NoInst}
    BY TrTyped DEF Tracked
  <2>2. QED
    BY <2>1, LibFacts DEF FreshInv, InstsMade
<1>9. Made
  <2>1. loc[p].t <= ninst
    BY DEF FreshInv, InstsMade
  <2>2. ASSUME NEW b \in Objs PROVE tr'[b].t <= ninst'
    <3>1. tr'[b].t \in {tr[b].t, loc[p].t}
      BY <1>4, <1>6
    <3>2. QED
      BY <1>2, <1>8, <2>1, <3>1 DEF InstsGood
  <2>3. QED
    BY <2>2 DEF Made, InstsGood
<1>10. ASSUME NEW j \in Ids, torrents'[j] # NoObj PROVE AwaitedAlso(j)
  <2>1. CASE torrents[j] # NoObj
    <3>1. torrents'[j] = torrents[j] /\ torrents[j] \in Objs
      BY <1>3, <1>4, <1>7, <2>1
    <3>2. tr'[torrents[j]].t = tr[torrents[j]].t
      BY <1>4, <1>5, <1>6, <2>1, <3>1
    <3>3. QED
      BY <2>1, <3>1, <3>2 DEF AwaitedAlso
  <2>2. CASE torrents[j] = NoObj
    <3>1. j = i /\ torrents'[j] = o
      BY <1>7, <1>10, <2>2
    <3>2. tr'[torrents'[j]].t = loc[p].t
      BY <1>1, <1>4, <1>6, <2>2, <3>1
    <3>3. QED
      BY <3>2 DEF AwaitedAlso
  <2>3. QED
    BY <2>1, <2>2
<1>11. QED
  BY <1>9, <1>10

LEMMA AddTrackFresh ==
  ASSUME Inv, Inv', FreshInv, NEW p \in Threads, AddTrack(p)
  PROVE  FreshInv'
<1>1. /\ pc[p] = "add.track"
      /\ \E x : FlowsOwing(p, loc[p], x, "add.spawn")
      /\ UNCHANGED save /\ UNCHANGED libVars /\ Aside
  BY DEF AddTrack, FlowsOwing, At, Aside, saveVars, diskVars, mainVars
<1>2. InstsGood
  BY <1>1, InstsSame DEF FreshInv, InstsMade
<1>3. loc[p] \in Locals
  BY Lands
<1>4. /\ pc'[p] = "flow.down" /\ loc'[p].ret = loc[p].ret /\ loc'[p].fk = "add.spawn"
      /\ loc'[p].op = loc[p].op /\ loc'[p].t = loc[p].t
  BY <1>1, <1>3, DecideKeeps, LocFields, Lands DEF FlowsOwing
<1>5. Where(p) = "add.track" /\ Where(p)' = "add.spawn"
  BY <1>1, <1>4 DEF Where, WhereOf, FlowLabels, SaveLabels
<1>6. Made /\ \A j \in Ids : torrents'[j] # NoObj => AwaitedAlso(j)
  BY <1>2, <1>4, <1>5, TrackMade DEF WaitsNext
<1>7. Settles(p)
  BY <1>1, <1>3, OwesSettles DEF Owes, OwesLabels
<1>8. Walks(p)
  BY <1>1 DEF Walks, FlowsOwing
<1>9. LocGood(p) /\ SwapOK(p)
  BY <1>4 DEF LocGood, SwapOK
<1>10. loc'[p].op # "move" /\ MadeOK(p)'
  BY <1>2, <1>9, LocMade
<1>11. ~Saver(p) /\ ~Saver(p)' /\ WaitsOn(p)
  BY <1>1, <1>4, <1>5, NotWaiting DEF Saver
<1>12. Freshens(p)
  BY <1>1, <1>6, <1>7, <1>8, <1>10, <1>11, WalksStays DEF Freshens, Others, Aside
<1>13. p = Main => ~Early /\ MainUp'
  <2>1. p = Main => /\ Where(Main) \in RestoringLabels /\ Where(Main)' \in RestoringLabels
                    /\ loc'[Main].ret \in {"restore.limits", "restore.prios"}
    BY <1>4, <1>5, MainReturns DEF RestoringLabels, AddLabels, DoneLabels
  <2>2. QED
    BY <1>1, <2>1, MainWalks DEF Aside
<1>14. QED
  BY <1>1, <1>12, <1>13, NoFaults, FreshStep DEF Aside

LEMMA AddSpawnFresh ==
  ASSUME Inv, Inv', FreshInv, NEW p \in Threads, AddSpawn(p)
  PROVE  FreshInv'
<1> DEFINE w == CHOOSE x \in Waiters : At(x, "off")
<1>1. /\ w \in Waiters /\ SetLoc(w, [loc[p] EXCEPT !.ret = "off"])
      /\ \/ /\ StateDir /\ pc' = [pc EXCEPT ![p] = "save.check", ![w] = "wait.info"]
            /\ SetSave(p, [save[p] EXCEPT !.k = "end"])
         \/ /\ ~StateDir /\ pc' = [pc EXCEPT ![p] = "end", ![w] = "wait.info"]
            /\ UNCHANGED save
      /\ UNCHANGED <<torrents, tr>> /\ pc[p] = "add.spawn" /\ pc[w] = "off"
      /\ UNCHANGED libVars /\ Aside
  BY DEF AddSpawn, At, Aside, engineVars, diskVars, mainVars
<1> HIDE DEF w
<1>2. w # p /\ w \notin {Main, Tick} /\ w \in Threads
  BY <1>1, ThreadsAssumption DEF Threads
<1>3. ThreadTypes /\ SaveTypes
  BY ThreadFacts
<1>4. InstsGood /\ TsKept
  BY <1>1, InstsSame, TsSame DEF FreshInv, InstsMade
<1>5. ASSUME NEW q \in Threads, q # p, q # w PROVE Stays(q)
  <2>1. pc'[q] = pc[q]
    BY <1>1, <1>2, <1>3, <1>5 DEF ThreadTypes
  <2>2. loc'[q] = loc[q] /\ save'[q] = save[q]
    BY <1>1, <1>3, <1>5 DEF ThreadTypes, SaveTypes, SetLoc, SetSave
  <2>3. QED
    BY <2>1, <2>2 DEF Stays
<1>6. /\ pc'[w] = "wait.info" /\ loc'[p] = loc[p] /\ loc'[w] = [loc[p] EXCEPT !.ret = "off"]
      /\ \/ StateDir /\ pc'[p] = "save.check" /\ save'[p].k = "end"
         \/ ~StateDir /\ pc'[p] = "end"
  <2>1. [save[p] EXCEPT !.k = "end"].k = "end"
    BY ThreadFacts DEF Saving
  <2>2. loc'[p] = loc[p] /\ loc'[w] = [loc[p] EXCEPT !.ret = "off"]
    BY <1>1, <1>2, <1>3 DEF ThreadTypes, SetLoc
  <2>3. SetSave(p, [save[p] EXCEPT !.k = "end"]) => save'[p] = [save[p] EXCEPT !.k = "end"]
    BY Lands
  <2>4. QED
    BY <1>1, <1>2, <1>3, <2>1, <2>2, <2>3 DEF ThreadTypes
<1>7. loc'[w].op = loc[p].op /\ loc'[w].t = loc[p].t
  BY <1>6, Lands, LocFields
<1>8. Where(p) = "add.spawn" /\ Where(p)' = "end"
  BY <1>1, <1>6 DEF Where, WhereOf, FlowLabels, SaveLabels
<1>9. LocGood(p) /\ SwapOK(p)
  BY <1>6 DEF LocGood, SwapOK
<1>10. loc'[p].op # "move" /\ MadeOK(p)'
  BY <1>4, <1>9, LocMade
<1>11. Joins(w)
  <2>1. MadeOK(p)' => loc'[p].t <= ninst'
    BY DEF MadeOK
  <2>2. QED
    BY <1>1, <1>2, <1>6, <1>7, <1>10, <2>1 DEF Joins
<1>12. Others(p)
  BY <1>5, <1>11 DEF Others
<1>13. Made /\ \A i \in Ids : torrents'[i] # NoObj => AwaitedAlso(i)
  BY <1>4, TsMade DEF FreshInv
<1>14. WaitsOn(p)
  <2>1. \A t \in Insts : WaitsFor(p, t) => WaitsNext(w, t)
    BY <1>1, <1>6, <1>7 DEF WaitsFor, WaitsNext
  <2>2. QED
    BY <1>2, <2>1 DEF WaitsOn
<1>15. Settles(p)
  BY <1>6 DEF Settles, WillSave
<1>16. ~Saver(p) /\ ~Saver(p)'
  BY <1>1, <1>6 DEF Saver
<1>17. Freshens(p)
  BY <1>1, <1>10, <1>12, <1>13, <1>14, <1>15, <1>16 DEF Freshens, Aside
<1>18. p = Main => ~Early /\ MainUp'
  <2>1. p = Main => /\ Where(Main) \in RestoringLabels /\ Where(Main)' \in RestoringLabels
                    /\ loc'[Main].ret \in {"restore.limits", "restore.prios"}
    BY <1>6, <1>8, MainReturns DEF RestoringLabels, DoneLabels
  <2>2. QED
    BY <1>1, <2>1, MainWalks DEF Aside
<1>19. QED
  BY <1>1, <1>17, <1>18, NoFaults, FreshStep DEF Aside

-----------------------------------------------------------------------------
(* Verifications, and the operations that hold opMu.                       *)

(* Away from the main goroutine, with nothing owed.                        *)
FreeLabels == (StructLabels \cup OtherLabels) \ (MainLabels \cup OwesLabels \cup {"wait.info", "off"})

LEMMA FreeApart ==
  {"check.add", "check.begin", "check.read", "check.loop", "check.hash", "check.clear",
   "check.done", "check.end", "check.off", "op.lock", "op.cancel", "op.wait", "remove",
   "purge", "purge.hold", "tick", "tick.disk", "tick.decide", "tick.apply", "tick.stop",
   "tick.hook", "idle"} \subseteq FreeLabels
BY SMTT(30) DEF FreeLabels, StructLabels, OtherLabels, MainLabels, OwesLabels, AddLabels,
                DoneLabels, NextLabels

LEMMA OweApart ==
  {"remove.drop", "remove.files", "remove.meta", "purge.fold", "purge.drop", "purge.delete",
   "purge.readd", "purge.swap", "purge.save", "purge.failed", "wait.mark", "wait.select",
   "wait.chosen", "wait.save"} \subseteq
     ((StructLabels \cup OtherLabels) \ (MainLabels \cup {"off"})) \cap OwesLabels
BY SMTT(30) DEF StructLabels, OtherLabels, MainLabels, OwesLabels, AddLabels, DoneLabels, NextLabels

(* The thread goes from one place to another.                              *)
LEMMA GoesFresh ==
  ASSUME Inv, Inv', FreshInv, NEW p \in Threads, pc[p] \in FreeLabels, NEW c, Goto(p, c),
         c \notin {"save.meta", "save.write", "purge.swap"},
         UNCHANGED loc \/ \E l : SetLoc(p, l), LocGood(p),
         UNCHANGED <<torrents, tr, lib, ninst, client, metainfo, save>>, Aside
  PROVE  FreshInv'
<1>1. pc'[p] = c
  BY Lands
<1>2. Turns(p)
  BY DEF Turns, Walks
<1>3. QED
  BY <1>1, <1>2, TurnsFresh DEF FreeLabels

LEMMA Loc0Good ==
  ASSUME Inv, Inv', NEW p \in Threads, SetLoc(p, Loc0)
  PROVE  LocGood(p)
<1>1. Loc0.op # "move" /\ Loc0.t = 0 /\ loc'[p] = Loc0
  BY Lands DEF Loc0, NoInst
<1>2. 0 <= ninst'
  BY BoundsAssumption DEF Inv, TypeOK, LibTypes
<1>3. QED
  BY <1>1, <1>2 DEF LocGood

LEMMA LockFresh ==
  ASSUME Inv, Inv', FreshInv, NEW p \in Threads,
         BeginCheckAdd(p) \/ LockOp(p) \/ QuiesceCancel(p) \/ QuiesceWait(p)
  PROVE  FreshInv'
<1>1. /\ pc[p] \in {"check.add", "op.lock", "op.cancel", "op.wait"}
      /\ UNCHANGED <<torrents, tr, lib, ninst, client, metainfo, save>> /\ UNCHANGED loc /\ Aside
      /\ \E c \in {"check.begin", "op.cancel", "op.wait", loc[p].op} : Goto(p, c)
  BY DEF BeginCheckAdd, LockOp, QuiesceCancel, QuiesceWait, At, Aside, engineVars, libVars,
         diskVars, saveVars, mainVars
<1>2. loc[p].op \in {"", "remove", "purge", "move"}
  <2>1. loc[p] \in Locals
    BY Lands
  <2>2. QED
    BY <2>1 DEF Locals
<1>3. PICK c \in {"check.begin", "op.cancel", "op.wait", loc[p].op} : Goto(p, c)
  BY <1>1
<1>4. c \notin {"save.meta", "save.write", "purge.swap"} /\ LocGood(p)
  BY <1>1, <1>2 DEF LocGood
<1>5. QED
  BY <1>1, <1>3, <1>4, FreeApart, GoesFresh

LEMMA VerifyFresh ==
  ASSUME Inv, Inv', FreshInv, NEW p \in Threads,
         VerifyRead(p) \/ VerifyLoop(p) \/ VerifyPiece(p) \/ CheckDone(p) \/ CheckOff(p)
  PROVE  FreshInv'
<1> DEFINE t == tr[loc[p].o].t
<1>1. /\ pc[p] \in {"check.read", "check.loop", "check.hash", "check.done", "check.off"}
      /\ UNCHANGED <<torrents, tr, lib, ninst, client, metainfo, save>> /\ Aside
      /\ \E c \in {"check.loop", "check.hash", "check.clear", "check.end", "off"} : Goto(p, c)
      /\ \/ UNCHANGED loc \/ SetLoc(p, Loc0)
         \/ \E a : \/ SetLoc(p, [loc[p] EXCEPT !.err = a])
                  \/ SetLoc(p, [loc[p] EXCEPT !.done = a])
         \/ pc[p] = "check.read" /\ SetLoc(p, [loc[p] EXCEPT !.t = t])
  <2>1. CASE VerifyRead(p)
    BY <2>1 DEF VerifyRead, At, Aside, engineVars, libVars, diskVars, saveVars, mainVars
  <2>2. CASE VerifyLoop(p)
    BY <2>2 DEF VerifyLoop, At, Aside, engineVars, libVars, diskVars, saveVars, mainVars
  <2>3. CASE VerifyPiece(p)
    BY <2>3 DEF VerifyPiece, At, Aside, engineVars, libVars, diskVars, saveVars, mainVars
  <2>4. CASE CheckDone(p) \/ CheckOff(p)
    BY <2>4 DEF CheckDone, CheckOff, At, Aside, engineVars, libVars, diskVars, saveVars, mainVars
  <2>5. QED
    BY <2>1, <2>2, <2>3, <2>4
<1>2. loc[p] \in Locals
  BY Lands
<1>3. pc[p] = "check.read" => t <= ninst /\ UNCHANGED ninst
  <2>1. pc[p] = "check.read" => Where(p) \in NeedsObj
    BY DEF Where, WhereOf, FlowLabels, SaveLabels, NeedsObj
  <2>2. pc[p] = "check.read" => loc[p].o # NoObj
    BY <2>1, ThreadFacts DEF LocalOK, PointersOK, Where
  <2>3. QED
    BY <1>1, <2>2, ObjOf DEF FreshInv, InstsMade
<1> HIDE DEF t
<1>4. LocGood(p)
  <2>1. CASE UNCHANGED loc
    BY <2>1 DEF LocGood
  <2>2. CASE SetLoc(p, Loc0)
    BY <2>2, Loc0Good
  <2>3. ASSUME NEW a, \/ SetLoc(p, [loc[p] EXCEPT !.err = a])
                      \/ SetLoc(p, [loc[p] EXCEPT !.done = a])
        PROVE  LocGood(p)
    BY <1>2, <2>3, LocFields, SetsLoc
  <2>4. CASE pc[p] = "check.read" /\ SetLoc(p, [loc[p] EXCEPT !.t = t])
    <3>1. [loc[p] EXCEPT !.t = t].op = loc[p].op /\ [loc[p] EXCEPT !.t = t].t = t
      BY <1>2, LocFields
    <3>2. loc'[p] = [loc[p] EXCEPT !.t = t]
      BY <2>4, Lands
    <3>3. QED
      BY <1>3, <2>4, <3>1, <3>2 DEF LocGood
  <2>5. QED
    BY <1>1, <2>1, <2>2, <2>3, <2>4
<1>5. PICK c \in {"check.loop", "check.hash", "check.clear", "check.end", "off"} : Goto(p, c)
  BY <1>1
<1>6. UNCHANGED loc \/ \E l : SetLoc(p, l)
  BY <1>1
<1>7. pc[p] \in FreeLabels
  BY <1>1, FreeApart
<1>8. QED
  BY <1>1, <1>4, <1>5, <1>6, <1>7, GoesFresh

(* What is not recorded.                                                   *)
LEMMA CheckRecords ==
  ASSUME NEW x \in Tracked, NEW a, NEW b
  PROVE  /\ AsRecorded(x, [x EXCEPT !.cancelCheck = a, !.checking = b])
         /\ AsRecorded(x, [x EXCEPT !.lastErr = a, !.holdData = b])
BY DEF AsRecorded, Tracked

LEMMA TrRecords ==
  ASSUME Inv, NEW o, NEW x, SetTr(o, x), UNCHANGED <<torrents, lib>>,
         o \in Objs => AsRecorded(tr[o], x)
  PROVE  RecordsKept /\ TsKept
<1>1. \A b \in Objs : tr'[b] = IF b = o THEN x ELSE tr[b]
  BY TrTyped DEF SetTr
<1>2. \A b \in Objs : AsRecorded(tr[b], tr'[b])
  BY <1>1 DEF AsRecorded
<1>3. \A b \in Objs : tr'[b].t = tr[b].t
  BY <1>2 DEF AsRecorded
<1>4. QED
  BY <1>2, <1>3, ObjFor DEF RecordsKept, TsKept, SameFiles

LEMMA CheckEndsFresh ==
  ASSUME Inv, Inv', FreshInv, NEW p \in Threads, CheckClear(p) \/ CheckEnd(p)
  PROVE  FreshInv'
<1> DEFINE o == loc[p].o
<1>1. /\ pc[p] \in {"check.clear", "check.end"}
      /\ UNCHANGED torrents /\ UNCHANGED <<lib, ninst, client>> /\ UNCHANGED metainfo
      /\ UNCHANGED save /\ Aside
      /\ \E c \in {"check.done", "flow.down", "off"} : Goto(p, c)
      /\ \/ UNCHANGED loc \/ SetLoc(p, Loc0)
         \/ \E x, k : SetLoc(p, Decide(loc[p], x, k))
      /\ \E a, b : \/ SetTr(o, [tr[o] EXCEPT !.cancelCheck = a, !.checking = b])
                  \/ SetTr(o, [tr[o] EXCEPT !.lastErr = a, !.holdData = b])
      /\ Goto(p, "flow.down") => \E x : SetLoc(p, Decide(loc[p], x, "check.off"))
  <2>1. CASE CheckClear(p)
    <3>1. ~Goto(p, "flow.down")
      <4>1. pc'[p] = "check.done"
        BY <2>1, Lands DEF CheckClear
      <4>2. QED
        BY <4>1, Lands
    <3>2. QED
      BY <2>1, <3>1 DEF CheckClear, At, Aside, libVars, diskVars, saveVars, mainVars
  <2>2. CASE CheckEnd(p)
    <3>1. Goto(p, "off") => ~Goto(p, "flow.down")
      <4>1. Goto(p, "off") => pc'[p] = "off"
        BY Lands
      <4>2. Goto(p, "flow.down") => pc'[p] = "flow.down"
        BY Lands
      <4>3. QED
        BY <4>1, <4>2
    <3>2. QED
      BY <2>2, <3>1 DEF CheckEnd, At, Aside, libVars, diskVars, saveVars, mainVars
  <2>3. QED
    BY <2>1, <2>2
<1>2. PICK a, b : \/ SetTr(o, [tr[o] EXCEPT !.cancelCheck = a, !.checking = b])
                  \/ SetTr(o, [tr[o] EXCEPT !.lastErr = a, !.holdData = b])
  BY <1>1
<1> HIDE DEF o
<1>3. RecordsKept /\ TsKept
  <2>1. o \in Objs => tr[o] \in Tracked
    BY TrTyped
  <2>2. o \in Objs => /\ AsRecorded(tr[o], [tr[o] EXCEPT !.cancelCheck = a, !.checking = b])
                      /\ AsRecorded(tr[o], [tr[o] EXCEPT !.lastErr = a, !.holdData = b])
    BY <2>1, CheckRecords
  <2>3. QED
    BY <1>1, <1>2, <2>2, TrRecords
<1>4. InstsGood
  BY <1>1, InstsSame DEF FreshInv, InstsMade, libVars
<1>5. loc[p] \in Locals
  BY Lands
<1>6. LocGood(p)
  BY <1>1, <1>5, LocFields, SetsLoc, Loc0Good DEF LocGood
<1>7. pc'[p] \in {"check.done", "flow.down", "off"}
  BY <1>1, Lands
<1>8. pc[p] \in FreeLabels
  BY <1>1, FreeApart
<1>9. Settles(p)
  <2>1. ~WillSave(p)
    BY <1>8, NotOwing DEF FreeLabels
  <2>2. QED
    BY <1>1, <1>3, <2>1 DEF Settles
<1>10. Walks(p)
  BY <1>1 DEF Walks
<1>11. Steps(p)
  BY <1>1, <1>4, <1>6, <1>7, <1>9, <1>10 DEF Steps, SwapOK
<1>12. QED
  BY <1>3, <1>8, <1>11, AsideFresh DEF FreeLabels

(* The verification runs in a goroutine of its own.                        *)
LEMMA BeginFresh ==
  ASSUME Inv, Inv', FreshInv, NEW p \in Threads, BeginCheck(p)
  PROVE  FreshInv'
<1> DEFINE k == CHOOSE x \in Checkers : At(x, "off")
           o == loc[p].o
<1>1. /\ k \in Checkers /\ pc[k] = "off" /\ pc[p] = "check.begin"
      /\ SetTr(o, [tr[o] EXCEPT !.cancelCheck = k, !.checking = TRUE])
      /\ \E a, b : SetLoc(k, [Loc0 EXCEPT !.id = a, !.o = o, !.flag = b])
      /\ pc' = [pc EXCEPT ![k] = "check.read", ![p] = "end"]
      /\ UNCHANGED torrents /\ UNCHANGED <<lib, ninst, client>> /\ UNCHANGED metainfo
      /\ UNCHANGED save /\ Aside
  BY DEF BeginCheck, At, Aside, libVars, diskVars, saveVars, mainVars
<1> HIDE DEF k, o
<1>2. k # p /\ k \notin {Main, Tick} /\ k \in Threads
  BY <1>1, ThreadsAssumption DEF Threads
<1>3. ThreadTypes
  BY ThreadFacts
<1>4. InstsGood
  BY <1>1, InstsSame DEF FreshInv, InstsMade, libVars
<1>5. RecordsKept /\ TsKept
  <2>1. o \in Objs => tr[o] \in Tracked
    BY TrTyped
  <2>2. o \in Objs => AsRecorded(tr[o], [tr[o] EXCEPT !.cancelCheck = k, !.checking = TRUE])
    BY <2>1, CheckRecords
  <2>3. QED
    BY <1>1, <2>2, TrRecords
<1>6. ASSUME NEW q \in Threads, q # p, q # k PROVE Stays(q)
  BY <1>1, <1>2, <1>3, <1>6 DEF Stays, ThreadTypes, SetLoc
<1>7. /\ pc'[k] = "check.read" /\ pc'[p] = "end" /\ loc'[p] = loc[p]
      /\ \E a, b : loc'[k] = [Loc0 EXCEPT !.id = a, !.o = o, !.flag = b]
  BY <1>1, <1>2, <1>3 DEF ThreadTypes, SetLoc
<1>8. loc'[k].op = "" /\ loc'[k].t = 0
  BY <1>7 DEF Loc0, NoInst
<1>9. Joins(k)
  <2>1. 0 <= ninst'
    BY <1>4, LibFacts DEF InstsGood
  <2>2. QED
    BY <1>1, <1>2, <1>7, <1>8, <2>1 DEF Joins
<1>10. Others(p)
  BY <1>6, <1>9 DEF Others
<1>11. LocGood(p) /\ SwapOK(p)
  BY <1>7 DEF LocGood, SwapOK
<1>12. loc'[p].op # "move" /\ MadeOK(p)'
  BY <1>4, <1>11, LocMade
<1>13. Made /\ \A i \in Ids : torrents'[i] # NoObj => AwaitedAlso(i)
  BY <1>4, <1>5, TsMade DEF FreshInv
<1>14. pc[p] \in FreeLabels
  BY <1>1, FreeApart
<1>15. ~WillSave(p) /\ Where(p) = pc[p]
  BY <1>14, NotOwing DEF FreeLabels
<1>16. WaitsOn(p) /\ ~Saver(p) /\ ~Saver(p)'
  BY <1>1, <1>7, <1>15, NotWaiting DEF Saver
<1>17. Settles(p)
  BY <1>1, <1>5, <1>15 DEF Settles
<1>18. Freshens(p)
  BY <1>1, <1>10, <1>12, <1>13, <1>16, <1>17 DEF Freshens, Aside
<1>19. p # Main
  BY <1>14, AwayFromMain DEF FreeLabels
<1>20. QED
  BY <1>1, <1>18, <1>19, NoFaults, FreshStep DEF Aside

(* RemoveTorrent.                                                          *)
LEMMA DropGood ==
  ASSUME Inv, KnownLib, NEW t, Drop(t)
  PROVE  InstsGood
<1>1. LibGood /\ ninst' = ninst
  BY KnownDrop DEF Drop
<1>2. QED
  BY <1>1, LibFacts DEF InstsGood

LEMMA RemoveFresh ==
  ASSUME Inv, Inv', FreshInv, NEW p \in Threads, RemoveStep(p)
  PROVE  FreshInv'
<1>1. /\ pc[p] \in {"remove", "remove.drop", "remove.files", "remove.meta"}
      /\ UNCHANGED loc /\ UNCHANGED tr /\ Aside
      /\ UNCHANGED save \/ \E k : Persist(p, k)
  <2>1. CASE RemoveDelete(p)
    BY <2>1 DEF RemoveDelete, At, Aside, diskVars, saveVars, mainVars
  <2>2. CASE RemoveDrop(p)
    BY <2>2 DEF RemoveDrop, At, Aside, engineVars, diskVars, saveVars, mainVars
  <2>3. CASE RemoveFiles(p)
    BY <2>3 DEF RemoveFiles, At, Aside, engineVars, saveVars, mainVars
  <2>4. CASE RemoveMeta(p)
    BY <2>4 DEF RemoveMeta, At, Aside, engineVars, mainVars
  <2>5. QED
    BY <2>1, <2>2, <2>3, <2>4 DEF RemoveStep
<1>2. KnownLib /\ LocGood(p)
  BY <1>1 DEF FreshInv, InstsMade, LocGood
<1>3. CASE RemoveDelete(p)
  <2>1. /\ UNCHANGED libVars /\ UNCHANGED save /\ UNCHANGED metainfo
        /\ \/ Goto(p, "end") /\ UNCHANGED torrents
           \/ Goto(p, "remove.drop") /\ torrents' = [torrents EXCEPT ![loc[p].id] = NoObj]
    BY <1>3 DEF RemoveDelete, diskVars, saveVars
  <2>2. CASE Goto(p, "end") /\ UNCHANGED torrents
    <3>1. pc[p] = "remove" /\ UNCHANGED <<lib, ninst, client>>
      BY <1>3, <2>1 DEF RemoveDelete, At, libVars
    <3>2. QED
      BY <1>1, <1>2, <2>1, <2>2, <3>1, FreeApart, GoesFresh
  <2>3. CASE Goto(p, "remove.drop") /\ torrents' = [torrents EXCEPT ![loc[p].id] = NoObj]
    <3>1. pc[p] = "remove" /\ InstsGood
      BY <1>2, <1>3, <2>1, InstsSame DEF RemoveDelete, At
    <3>2. TsKept
      <4>1. \A i \in Ids : torrents'[i] \in {torrents[i], NoObj}
        BY <2>3, ThreadFacts DEF EngineTypes
      <4>2. QED
        BY <1>1, <4>1 DEF TsKept
    <3>3. Owes(p) /\ pc'[p] = "remove.drop"
      BY <2>3, Lands DEF Owes, OwesLabels
    <3>4. pc[p] \in (StructLabels \cup OtherLabels) \ (MainLabels \cup {"off"})
      BY <3>1, FreeApart DEF FreeLabels
    <3>5. QED
      BY <1>1, <1>2, <2>1, <3>1, <3>2, <3>3, <3>4, OwesFresh DEF SwapOK
  <2>4. QED
    BY <2>1, <2>2, <2>3
<1>4. CASE RemoveDrop(p) \/ RemoveFiles(p) \/ RemoveMeta(p)
  <2>1. /\ pc[p] \in {"remove.drop", "remove.files", "remove.meta"}
        /\ UNCHANGED <<torrents, tr>>
        /\ \/ Goto(p, "remove.files") \/ Goto(p, "remove.meta")
           \/ Persist(p, "end")
        /\ UNCHANGED libVars \/ \E t : Drop(t)
    BY <1>4 DEF RemoveDrop, RemoveFiles, RemoveMeta, At, engineVars
  <2>2. InstsGood
    BY <1>2, <2>1, InstsSame, DropGood
  <2>3. Owes(p)
    BY <2>1 DEF Owes, OwesLabels
  <2>4. pc'[p] \in {"remove.files", "remove.meta", "end", "save.check"}
    BY <2>1, Lands, PersistLands
  <2>5. TsKept /\ pc[p] \in (StructLabels \cup OtherLabels) \ (MainLabels \cup {"off"})
    BY <2>1, TsSame, OweApart
  <2>6. QED
    BY <1>1, <1>2, <2>1, <2>2, <2>3, <2>4, <2>5, OwesFresh DEF SwapOK
<1>5. QED
  BY <1>3, <1>4 DEF RemoveStep

-----------------------------------------------------------------------------
(* PurgeData.                                                              *)

LEMMA PurgeReadFresh ==
  ASSUME Inv, Inv', HoldInv, FreshInv, NEW p \in Threads, PurgeRead(p)
  PROVE  FreshInv'
<1> DEFINE x == tr[loc[p].o]
<1>1. /\ pc[p] = "purge"
      /\ UNCHANGED <<torrents, tr, lib, ninst, client, metainfo, save>> /\ Aside
      /\ \/ Goto(p, "purge.hold") /\ SetLoc(p, [loc[p] EXCEPT !.t = x.t, !.old = x.savePath])
         \/ Goto(p, "end") /\ UNCHANGED loc
  BY DEF PurgeRead, StructRead, At, Aside, engineVars, libVars, diskVars, saveVars, mainVars
<1>2. loc[p] \in Locals /\ loc[p].o \in Objs
  BY <1>1, OpAt DEF PurgeAt
<1>3. x.t <= ninst'
  BY <1>1, <1>2 DEF FreshInv, InstsMade
<1>4. LocGood(p)
  <2>1. LET l == [loc[p] EXCEPT !.t = x.t, !.old = x.savePath]
        IN  l.op = loc[p].op /\ l.t = x.t
    BY <1>2, LocFields
  <2>2. QED
    BY <1>1, <1>3, <2>1, Lands DEF LocGood
<1> HIDE DEF x
<1>5. PICK c \in {"purge.hold", "end"} : Goto(p, c)
  BY <1>1
<1>6. UNCHANGED loc \/ \E l : SetLoc(p, l)
  BY <1>1
<1>7. QED
  BY <1>1, <1>4, <1>5, <1>6, FreeApart, GoesFresh

(* What a purge owes: its steps from the hold on.                          *)
LEMMA PurgeOwes ==
  ASSUME Inv, Inv', HoldInv, FreshInv, NEW p \in Threads, pc[p] \in PurgeAt, pc[p] # "purge",
         Owes(p), InstsGood, LocGood(p), TsKept, Aside,
         UNCHANGED loc \/ \E l : SetLoc(p, l),
         UNCHANGED save \/ \E k : Persist(p, k), SwapOK(p),
         pc'[p] \notin {"save.meta", "save.write"}
  PROVE  FreshInv'
<1>1. pc[p] \in (StructLabels \cup OtherLabels) \ (MainLabels \cup {"off"}) /\ pc[p] # "wait.info"
  <2>1. pc[p] = "purge.hold" \/ pc[p] \in {"purge.fold", "purge.drop", "purge.delete",
           "purge.readd", "purge.swap", "purge.save", "purge.failed"}
    BY DEF PurgeAt
  <2>2. QED
    BY <2>1, FreeApart, OweApart DEF FreeLabels
<1>2. QED
  BY <1>1, OwesFresh

LEMMA PurgeHoldFresh ==
  ASSUME Inv, Inv', HoldInv, FreshInv, NEW p \in Threads, PurgeHold(p)
  PROVE  FreshInv'
<1> DEFINE o == loc[p].o
           x == [tr[o] EXCEPT !.holdData = TRUE, !.paused = @ \/ TRUE]
<1>1. /\ pc[p] = "purge.hold" /\ SetTr(o, x) /\ SetLoc(p, Decide(loc[p], x, "purge.fold"))
      /\ Goto(p, "flow.down") /\ UNCHANGED torrents /\ UNCHANGED libVars /\ UNCHANGED save /\ Aside
  BY DEF PurgeHold, StructHold, At, Aside, diskVars, saveVars, mainVars
<1>2. loc[p] \in Locals
  BY Lands
<1>3. o \in Objs => x.t = tr[o].t
  <2>1. o \in Objs => tr[o] \in Tracked
    BY TrTyped
  <2>2. QED
    BY <2>1, TrField
<1> HIDE DEF o, x
<1>4. TsKept
  BY <1>1, <1>3, TsSet
<1>5. Owes(p)
  <2>1. "purge.fold" \in OwesLabels
    BY DEF OwesLabels
  <2>2. QED
    BY <1>1, <1>2, <2>1, FlowOwes
<1>6. InstsGood /\ LocGood(p) /\ pc'[p] = "flow.down"
  BY <1>1, <1>2, InstsSame, LocFields, SetsLoc, Lands DEF FreshInv, InstsMade
<1>7. QED
  BY <1>1, <1>4, <1>5, <1>6, PurgeOwes DEF SwapOK, PurgeAt

LEMMA PurgeDropFresh ==
  ASSUME Inv, Inv', HoldInv, FreshInv, NEW p \in Threads,
         PurgeFold(p) \/ PurgeDrop(p) \/ PurgeDelete(p) \/ PurgeSave(p)
  PROVE  FreshInv'
<1>1. /\ pc[p] \in {"purge.fold", "purge.drop", "purge.delete", "purge.save"}
      /\ UNCHANGED torrents /\ UNCHANGED loc /\ Aside
      /\ \/ Goto(p, "purge.drop") \/ Goto(p, "purge.delete") \/ Goto(p, "purge.readd")
         \/ Persist(p, "end")
      /\ UNCHANGED save \/ Persist(p, "end")
      /\ UNCHANGED libVars \/ \E t : Drop(t)
      /\ UNCHANGED tr \/ \E o, a : SetTr(o, [tr[o] EXCEPT !.base = a])
  BY DEF PurgeFold, FoldCounters, PurgeDrop, DropOld, PurgeDelete, PurgeSave, At, Aside,
         engineVars, diskVars, saveVars, mainVars
<1>2. TsKept
  <2>1. CASE UNCHANGED tr
    BY <1>1, <2>1, TsSame
  <2>2. ASSUME NEW o, NEW a, SetTr(o, [tr[o] EXCEPT !.base = a]) PROVE TsKept
    <3>1. o \in Objs => tr[o] \in Tracked
      BY TrTyped
    <3>2. o \in Objs => [tr[o] EXCEPT !.base = a].t = tr[o].t
      BY <3>1, TrField
    <3>3. QED
      BY <1>1, <2>2, <3>2, TsSet
  <2>3. QED
    BY <1>1, <2>1, <2>2
<1>3. InstsGood
  BY <1>1, InstsSame, DropGood DEF FreshInv, InstsMade
<1>4. Owes(p)
  BY <1>1 DEF Owes, OwesLabels
<1>5. pc'[p] \in {"purge.drop", "purge.delete", "purge.readd", "end", "save.check"}
  BY <1>1, Lands, PersistLands
<1>6. LocGood(p)
  BY <1>1 DEF LocGood
<1>7. QED
  BY <1>1, <1>2, <1>3, <1>4, <1>5, <1>6, PurgeOwes DEF SwapOK, PurgeAt

LEMMA PurgeReaddFresh ==
  ASSUME Inv, Inv', HoldInv, FreshInv, NEW p \in Threads, PurgeReadd(p)
  PROVE  FreshInv'
<1> DEFINE l == [loc[p] EXCEPT !.ft = AddedInst(loc[p].id)]
<1>1. ~Fault
  BY DEF Fault, FreshInv
<1>2. /\ pc[p] = "purge.readd" /\ AddTorrentSpec(loc[p].id, loc[p].old, TRUE)
      /\ SetLoc(p, l) /\ Goto(p, "purge.swap")
      /\ UNCHANGED <<torrents, tr>> /\ UNCHANGED save /\ Aside
  BY <1>1 DEF PurgeReadd, At, Aside, engineVars, diskVars, saveVars, mainVars
<1>3. loc[p] \in Locals /\ loc[p].id \in Ids
  BY Lands DEF Locals
<1>4. l.op = loc[p].op /\ l.t = loc[p].t /\ l.ft = AddedInst(loc[p].id)
  BY <1>3, LocFields
<1>5. InstsGood /\ lib'[AddedInst(loc[p].id)].info
  BY <1>2, <1>3, AddGood, KnownAdd DEF FreshInv, InstsMade
<1> HIDE DEF l
<1>6. loc'[p] = l /\ pc'[p] = "purge.swap"
  BY <1>2, Lands
<1>7. LocGood(p) /\ SwapOK(p)
  BY <1>4, <1>5, <1>6 DEF LocGood, SwapOK
<1>8. Owes(p) /\ TsKept
  BY <1>2, TsSame DEF Owes, OwesLabels
<1>9. QED
  BY <1>2, <1>5, <1>6, <1>7, <1>8, PurgeOwes DEF PurgeAt

LEMMA PurgeFailedFresh ==
  ASSUME Inv, Inv', HoldInv, FreshInv, NEW p \in Threads, PurgeFailed(p)
  PROVE  FreshInv'
<1> DEFINE o == loc[p].o
           x == Failed(tr[o])
           l == [loc[p] EXCEPT !.t = NoInst]
<1>1. /\ pc[p] = "purge.failed" /\ SetTr(o, x) /\ SetLoc(p, l) /\ Persist(p, "end")
      /\ UNCHANGED torrents /\ UNCHANGED libVars /\ Aside
  BY DEF PurgeFailed, At, Aside, diskVars, saveVars, mainVars
<1>2. loc[p] \in Locals
  BY Lands
<1>3. l.op = loc[p].op /\ l.t = 0
  BY <1>2, LocFields DEF NoInst
<1>4. o \in Objs => x.t = tr[o].t
  <2>1. o \in Objs => tr[o] \in Tracked
    BY TrTyped
  <2>2. QED
    BY <2>1, FailedFields
<1> HIDE DEF o, x, l
<1>5. TsKept
  BY <1>1, <1>4, TsSet
<1>6. InstsGood /\ Owes(p)
  BY <1>1, InstsSame DEF Owes, FreshInv, InstsMade
<1>7. LocGood(p)
  <2>1. 0 <= ninst'
    BY <1>6, LibFacts DEF InstsGood
  <2>2. QED
    BY <1>1, <1>3, <2>1, Lands DEF LocGood
<1>8. pc'[p] \in {"end", "save.check"}
  BY <1>1, PersistLands
<1>9. QED
  BY <1>1, <1>5, <1>6, <1>7, <1>8, PurgeOwes DEF SwapOK, PurgeAt

(* The new instance is put in place: it has its metadata.                  *)
LEMMA PurgeSwapFresh ==
  ASSUME Inv, Inv', HoldInv, FreshInv, NEW p \in Threads, PurgeSwap(p)
  PROVE  FreshInv'
<1> DEFINE o == loc[p].o
           x == [tr[o] EXCEPT !.t = loc[p].ft, !.holdData = FALSE]
           l == [loc[p] EXCEPT !.t = NoInst]
<1>1. /\ pc[p] = "purge.swap" /\ SetTr(o, x) /\ SetLoc(p, Decide(l, x, "purge.save"))
      /\ Goto(p, "flow.down") /\ UNCHANGED torrents /\ UNCHANGED libVars /\ UNCHANGED save /\ Aside
  BY DEF PurgeSwap, At, Aside, diskVars, saveVars, mainVars
<1>2. /\ loc[p] \in Locals /\ o \in Objs /\ tr[o] \in Tracked /\ loc[p].ft \in Insts
  BY <1>1, OpAt DEF PurgeAt, NeedsFresh
<1>3. x.t = loc[p].ft
  BY <1>2 DEF Tracked
<1>4. l \in Locals /\ l.op = loc[p].op /\ l.t = 0
  <2>1. l \in Locals
    BY <1>2, Locals_t
  <2>2. QED
    BY <1>2, <2>1, LocFields DEF NoInst
<1> HIDE DEF x, l, o
<1>5. InstsGood
  BY <1>1, InstsSame DEF FreshInv, InstsMade
<1>6. lib[loc[p].ft].info /\ loc[p].ft <= ninst
  BY <1>1, <1>2 DEF FreshInv, InstsMade, At, KnownLib
<1>7. \A b \in Objs : tr'[b] = IF b = o THEN x ELSE tr[b]
  BY <1>1, TrTyped DEF SetTr
<1>8. Made
  <2>1. UNCHANGED ninst
    BY <1>1 DEF libVars
  <2>2. \A b \in Objs : tr'[b].t <= ninst'
    BY <1>3, <1>6, <1>7, <2>1 DEF FreshInv, InstsMade
  <2>3. QED
    BY <1>5, <2>2 DEF Made, InstsGood
<1>9. ASSUME NEW i \in Ids, torrents'[i] # NoObj PROVE AwaitedAlso(i)
  <2>1. torrents' = torrents /\ torrents[i] \in Objs /\ lib' = lib
    BY <1>1, <1>9, ObjFor DEF libVars
  <2>2. tr'[torrents'[i]].t \in {loc[p].ft, tr[torrents[i]].t}
    BY <1>3, <1>7, <2>1
  <2>3. QED
    BY <1>6, <1>9, <2>1, <2>2 DEF AwaitedAlso
<1>10. /\ pc'[p] = "flow.down" /\ loc'[p].op = loc[p].op /\ loc'[p].t = 0
  BY <1>1, <1>4, LocFields, Lands
<1>11. LocGood(p) /\ SwapOK(p)
  <2>1. 0 <= ninst'
    BY <1>5, LibFacts DEF InstsGood
  <2>2. QED
    BY <1>10, <2>1 DEF LocGood, SwapOK
<1>12. loc'[p].op # "move" /\ MadeOK(p)'
  BY <1>5, <1>11, LocMade
<1>13. Settles(p)
  <2>1. "purge.save" \in OwesLabels
    BY DEF OwesLabels
  <2>2. QED
    BY <1>1, <1>4, <2>1, FlowOwes, OwesSettles
<1>14. Others(p)
  BY <1>1, WalksStays DEF Walks, Others
<1>15. pc[p] \in (StructLabels \cup OtherLabels) \ (MainLabels \cup {"off"})
  BY <1>1, OweApart
<1>16. p # Main /\ Where(p) = "purge.swap"
  BY <1>1, <1>15, AwayFromMain DEF Where, WhereOf, FlowLabels, SaveLabels
<1>17. WaitsOn(p) /\ ~Saver(p) /\ ~Saver(p)'
  BY <1>1, <1>10, <1>16, NotWaiting DEF Saver
<1>18. Freshens(p)
  BY <1>1, <1>8, <1>9, <1>12, <1>13, <1>14, <1>17 DEF Freshens, Aside
<1>19. QED
  BY <1>1, <1>16, <1>18, NoFaults, FreshStep DEF Aside

LEMMA PurgeFresh ==
  ASSUME Inv, Inv', HoldInv, FreshInv, NEW p \in Threads, PurgeStep(p)
  PROVE  FreshInv'
BY PurgeReadFresh, PurgeHoldFresh, PurgeDropFresh, PurgeReaddFresh, PurgeFailedFresh, PurgeSwapFresh
   DEF PurgeStep

(* Nobody moves.                                                           *)
LEMMA NoMove ==
  ASSUME Inv, HoldInv, FreshInv, NEW p \in Threads
  PROVE  ~MoveStep(p)
<1>1. MoveStep(p) => pc[p] \in MoveAt
  BY DEF MoveStep, MoveRead, MoveMkdir, MoveHold, MovePrios, MoveFiles, MoveFold, MoveDrop,
         MoveReadd, MoveLost, MoveFailed, MoveReprio, MoveSwap, At, MoveAt
<1>2. QED
  BY <1>1, OpAt DEF FreshInv

-----------------------------------------------------------------------------
(* The goroutines that wait for metadata.                                  *)

LEMMA WaitApart ==
  {"wait.info", "wait.mark", "wait.select", "wait.chosen", "wait.save"}
    \subseteq (StructLabels \cup OtherLabels) \ (MainLabels \cup {"off"})
BY SMTT(30) DEF StructLabels, OtherLabels, MainLabels, AddLabels, DoneLabels, NextLabels

LEMMA WaitInfoFresh ==
  ASSUME Inv, Inv', FreshInv, NEW p \in Threads, WaitInfo(p)
  PROVE  FreshInv'
<1>1. /\ pc[p] = "wait.info" /\ UNCHANGED save /\ UNCHANGED <<torrents, tr>>
      /\ UNCHANGED libVars /\ UNCHANGED metainfo /\ Aside
      /\ UNCHANGED loc \/ \E l : SetLoc(p, l)
      /\ \/ /\ lib[loc[p].t].info
            /\ \/ Goto(p, "wait.select") \/ Goto(p, "wait.save") \/ Goto(p, "wait.mark")
            /\ UNCHANGED loc \/ \E a : SetLoc(p, [loc[p] EXCEPT !.chosen = a])
         \/ closing /\ Goto(p, "off") /\ SetLoc(p, Loc0)
  BY DEF WaitInfo, At, Aside, engineVars, saveVars, diskVars, mainVars
<1>2. p # Main
  BY <1>1, WaitApart, AwayFromMain
<1>3. loc[p] \in Locals
  BY Lands
<1>4. InstsGood /\ TsKept
  BY <1>1, InstsSame, TsSame DEF FreshInv, InstsMade
<1>5. LocGood(p)
  <2>1. ASSUME NEW a, SetLoc(p, [loc[p] EXCEPT !.chosen = a]) PROVE LocGood(p)
    BY <1>3, <2>1, LocFields, SetsLoc
  <2>2. CASE SetLoc(p, Loc0)
    BY <2>2, Loc0Good
  <2>3. CASE UNCHANGED loc
    BY <2>3 DEF LocGood
  <2>4. QED
    BY <1>1, <2>1, <2>2, <2>3
<1>6. pc'[p] \in {"wait.select", "wait.save", "wait.mark", "off"}
  BY <1>1, Lands
<1>7. Settles(p)
  <2>1. CASE lib[loc[p].t].info /\ (Goto(p, "wait.select") \/ Goto(p, "wait.save") \/ Goto(p, "wait.mark"))
    BY <2>1, OwesSettles DEF Owes, OwesLabels
  <2>2. CASE closing
    BY <1>1, <2>2 DEF Settles, Aside
  <2>3. QED
    BY <1>1, <2>1, <2>2
<1>8. Where(p) = "wait.info"
  BY <1>1 DEF Where, WhereOf, FlowLabels, SaveLabels
<1>9. WaitsOn(p)
  <2>1. CASE closing
    BY <2>1 DEF WaitsOn
  <2>2. CASE lib[loc[p].t].info
    BY <1>1, <2>2 DEF WaitsOn, WaitsFor, libVars
  <2>3. QED
    BY <1>1, <2>1, <2>2
<1>10. Steps(p) /\ ~Saver(p)
  BY <1>1, <1>4, <1>5, <1>6, <1>7 DEF Steps, Walks, SwapOK, Saver
<1>11. QED
  BY <1>1, <1>2, <1>4, <1>9, <1>10, StepsFresh

LEMMA WaiterFresh ==
  ASSUME Inv, Inv', FreshInv, NEW p \in Threads, WaiterStep(p)
  PROVE  FreshInv'
<1>1. CASE WaitMark(p) \/ WaitSelect(p)
  <2>1. /\ pc[p] \in {"wait.mark", "wait.select"} /\ UNCHANGED loc /\ UNCHANGED save
        /\ UNCHANGED <<torrents, tr>> /\ UNCHANGED <<ninst, client>> /\ Aside
        /\ \E t, q : SetLib(t, [lib[t] EXCEPT !.prio = q])
        /\ \/ Goto(p, "wait.save") \/ Goto(p, "wait.chosen")
    BY <1>1 DEF WaitMark, WaitSelect, MarkWanted, SetPrio, At, Aside, engineVars, saveVars,
                diskVars, mainVars
  <2>2. InstsGood /\ TsKept
    BY <2>1, MarkGood, TsSame DEF FreshInv, InstsMade
  <2>3. Owes(p) /\ LocGood(p)
    BY <2>1 DEF Owes, OwesLabels, LocGood
  <2>4. pc'[p] \in {"wait.save", "wait.chosen"}
    BY <2>1, Lands
  <2>5. pc[p] \in (StructLabels \cup OtherLabels) \ (MainLabels \cup {"off"}) /\ pc[p] # "wait.info"
    BY <2>1, WaitApart
  <2>6. QED
    BY <2>1, <2>2, <2>3, <2>4, <2>5, OwesFresh DEF SwapOK
<1>2. CASE WaitChosen(p)
  <2> DEFINE o == torrents[loc[p].id]
             x == [tr[o] EXCEPT !.chosenFiles = Files]
  <2>1. /\ pc[p] = "wait.chosen" /\ UNCHANGED loc /\ UNCHANGED save
        /\ UNCHANGED torrents /\ UNCHANGED libVars /\ Aside /\ Goto(p, "wait.save")
        /\ UNCHANGED tr \/ SetTr(o, x)
    BY <1>2 DEF WaitChosen, At, Aside, saveVars, diskVars, mainVars
  <2>2. o \in Objs => x.t = tr[o].t
    <3>1. o \in Objs => tr[o] \in Tracked
      BY TrTyped
    <3>2. QED
      BY <3>1, TrField
  <2> HIDE DEF o, x
  <2>3. TsKept
    BY <2>1, <2>2, TsSet, TsSame
  <2>4. InstsGood /\ Owes(p) /\ LocGood(p)
    BY <2>1, InstsSame DEF Owes, OwesLabels, LocGood, FreshInv, InstsMade
  <2>5. pc'[p] = "wait.save"
    BY <2>1, Lands
  <2>6. pc[p] \in (StructLabels \cup OtherLabels) \ (MainLabels \cup {"off"}) /\ pc[p] # "wait.info"
    BY <2>1, WaitApart
  <2>7. QED
    BY <2>1, <2>3, <2>4, <2>5, <2>6, OwesFresh DEF SwapOK
<1>3. CASE WaitSave(p)
  <2>1. /\ pc[p] = "wait.save" /\ SetLoc(p, Loc0) /\ Persist(p, "off")
        /\ UNCHANGED <<torrents, tr>> /\ UNCHANGED libVars /\ Aside
    BY <1>3 DEF WaitSave, At, Aside, engineVars, diskVars, mainVars
  <2>2. TsKept /\ InstsGood /\ Owes(p) /\ LocGood(p)
    BY <2>1, TsSame, InstsSame, Loc0Good DEF Owes, FreshInv, InstsMade
  <2>3. pc'[p] \in {"off", "save.check"}
    BY <2>1, PersistLands
  <2>4. pc[p] \in (StructLabels \cup OtherLabels) \ (MainLabels \cup {"off"}) /\ pc[p] # "wait.info"
    BY <2>1, WaitApart
  <2>5. QED
    BY <2>1, <2>2, <2>3, <2>4, OwesFresh DEF SwapOK
<1>4. QED
  BY <1>1, <1>2, <1>3, WaitInfoFresh DEF WaiterStep

-----------------------------------------------------------------------------
(* The tick.                                                               *)

LEMMA TickGoesFresh ==
  ASSUME Inv, Inv', FreshInv, TickStart \/ TickDisk \/ TickApply \/ TickHook
  PROVE  FreshInv'
<1>0. Tick \in Threads
  BY MainThreads
<1>1. /\ pc[Tick] \in {"tick", "tick.disk", "tick.apply", "tick.hook"}
      /\ UNCHANGED <<torrents, tr, lib, ninst, client, metainfo, save>> /\ Aside
      /\ UNCHANGED loc \/ \E a, b, c : SetLoc(Tick, [loc[Tick] EXCEPT !.ft = a, !.down = b, !.up = c,
                                                                      !.fk = "tick.apply"])
      /\ \E c \in {"tick.disk", "tick.decide", "flow.down", "tick.stop", "tick"} : Goto(Tick, c)
  <2>1. CASE TickStart
    <3>1. budget'.faults = budget.faults
      <4>1. budget \in Budget
        BY DEF Inv, TypeOK, TallyTypes
      <4>2. QED
        BY <2>1, <4>1 DEF TickStart, Budget
    <3>2. QED
      BY <2>1, <3>1 DEF TickStart, At, Aside, engineVars, libVars, diskVars, saveVars, mainVars
  <2>2. CASE TickDisk
    BY <2>2 DEF TickDisk, At, Aside, engineVars, libVars, diskVars, saveVars, mainVars
  <2>3. CASE TickApply
    BY <2>3 DEF TickApply, At, Aside, engineVars, libVars, diskVars, saveVars, mainVars
  <2>4. CASE TickHook
    BY <2>4 DEF TickHook, At, Aside, engineVars, libVars, diskVars, saveVars, mainVars
  <2>5. QED
    BY <2>1, <2>2, <2>3, <2>4
<1>2. loc[Tick] \in Locals
  BY <1>0, Lands
<1>3. LocGood(Tick)
  <2>1. ASSUME NEW a, NEW b, NEW c,
               SetLoc(Tick, [loc[Tick] EXCEPT !.ft = a, !.down = b, !.up = c, !.fk = "tick.apply"])
        PROVE  LocGood(Tick)
    <3> DEFINE l == [loc[Tick] EXCEPT !.ft = a, !.down = b, !.up = c, !.fk = "tick.apply"]
    <3>1. l.op = loc[Tick].op /\ l.t = loc[Tick].t
      BY <1>2 DEF Locals
    <3>2. SetLoc(Tick, l)
      BY <2>1
    <3> HIDE DEF l
    <3>3. QED
      BY <1>0, <3>1, <3>2, SetsLoc
  <2>2. QED
    BY <1>1, <2>1 DEF LocGood
<1>4. PICK c \in {"tick.disk", "tick.decide", "flow.down", "tick.stop", "tick"} : Goto(Tick, c)
  BY <1>1
<1>5. UNCHANGED loc \/ \E l : SetLoc(Tick, l)
  BY <1>1
<1>6. QED
  BY <1>0, <1>1, <1>3, <1>4, <1>5, FreeApart, GoesFresh

LEMMA TickStopFresh ==
  ASSUME Inv, Inv', FreshInv, TickStop
  PROVE  FreshInv'
<1>0. Tick \in Threads
  BY MainThreads
<1>1. /\ pc[Tick] = "tick.stop"
      /\ UNCHANGED <<torrents, tr, lib, ninst, client, metainfo, save>> /\ Aside
      /\ \/ UNCHANGED <<pc, loc>>
         \/ Goto(Tick, "tick.hook") /\ SetLoc(Tick, Loc0)
         \/ /\ Goto(Tick, "pause.set")
            /\ \E i : SetLoc(Tick, [Found(i) EXCEPT !.flag = TRUE, !.ret = "tick.stop"])
  BY DEF TickStop, At, Aside, engineVars, libVars, diskVars, saveVars, mainVars
<1>2. LocGood(Tick)
  <2>1. ASSUME NEW i, SetLoc(Tick, [Found(i) EXCEPT !.flag = TRUE, !.ret = "tick.stop"])
        PROVE  LocGood(Tick)
    <3> DEFINE l == [Found(i) EXCEPT !.flag = TRUE, !.ret = "tick.stop"]
    <3>1. l.op = "" /\ l.t = 0
      BY DEF Found, Loc0, NoInst
    <3>2. SetLoc(Tick, l)
      BY <2>1
    <3> HIDE DEF l
    <3>3. loc'[Tick] = l
      BY <1>0, <3>2, Lands
    <3>4. 0 <= ninst'
      BY BoundsAssumption DEF Inv, TypeOK, LibTypes
    <3>5. QED
      BY <3>1, <3>3, <3>4 DEF LocGood
  <2>2. QED
    BY <1>0, <1>1, <2>1, Loc0Good DEF LocGood
<1>3. Walks(Tick)
  BY <1>1 DEF Walks
<1>4. pc'[Tick] \in {"tick.stop", "tick.hook", "pause.set"}
  BY <1>0, <1>1, Lands
<1>5. Turns(Tick)
  BY <1>1, <1>2, <1>3 DEF Turns
<1>6. QED
  BY <1>0, <1>1, <1>4, <1>5, FreeApart, TurnsFresh DEF FreeLabels

(* The tick records nothing but that torrents are complete, and then saves.*)
LEMMA TickRecords ==
  ASSUME Inv, TickDecide, ~\E k : Persist(Tick, k)
  PROVE  RecordsKept
<1>1. PICK down \in [TrackedIds -> Rates], up \in [TrackedIds -> Rates] :
       LET rated(i) == [tr[torrents[i]] EXCEPT !.lastDownBPS = down[i], !.lastUpBPS = up[i]]
           finished == {i \in TrackedIds : Complete(tr[torrents[i]].t)}
           started  == {i \in finished : ~tr[torrents[i]].completedAt}
           ticked(i) == [rated(i) EXCEPT !.completeLogged = @ \/ i \in finished,
                                         !.completedAt = @ \/ i \in finished]
       IN /\ tr' = [o \in Objs |->
                      IF \E i \in TrackedIds : torrents[i] = o
                      THEN ticked(CHOOSE i \in TrackedIds : torrents[i] = o)
                      ELSE tr[o]]
          /\ IF started # {}
             THEN Persist(Tick, "tick.apply")
             ELSE Goto(Tick, "tick.apply") /\ UNCHANGED save
  BY DEF TickDecide
<1> DEFINE rated(i) == [tr[torrents[i]] EXCEPT !.lastDownBPS = down[i], !.lastUpBPS = up[i]]
           finished == {i \in TrackedIds : Complete(tr[torrents[i]].t)}
           started  == {i \in finished : ~tr[torrents[i]].completedAt}
           ticked(i) == [rated(i) EXCEPT !.completeLogged = @ \/ i \in finished,
                                         !.completedAt = @ \/ i \in finished]
<1>2. /\ tr' = [o \in Objs |->
                  IF \E i \in TrackedIds : torrents[i] = o
                  THEN ticked(CHOOSE i \in TrackedIds : torrents[i] = o)
                  ELSE tr[o]]
      /\ IF started # {}
         THEN Persist(Tick, "tick.apply")
         ELSE Goto(Tick, "tick.apply") /\ UNCHANGED save
  BY <1>1, Zenon
<1>3. \A i \in finished : tr[torrents[i]].completedAt
  BY <1>2
<1>4. ASSUME NEW i \in TrackedIds
      PROVE  AsRecorded(tr[torrents[i]], ticked(i))
  <2>1. tr[torrents[i]] \in Tracked
    BY ObjFor DEF TrackedIds
  <2>2. down[i] \in Rates /\ up[i] \in Rates
    OBVIOUS
  <2>3. ASSUME NEW y \in Tracked, NEW a \in Rates, NEW b \in Rates
        PROVE  LET z == [y EXCEPT !.lastDownBPS = a, !.lastUpBPS = b]
               IN z \in Tracked /\ AsRecorded(y, z)
    BY DEF Tracked, AsRecorded
  <2>4. rated(i) \in Tracked /\ AsRecorded(tr[torrents[i]], rated(i))
    BY <2>1, <2>2, <2>3
  <2>5. i \in finished => rated(i).completedAt
    <3>1. i \in finished => tr[torrents[i]].completedAt
      BY <1>3
    <3> HIDE DEF rated, finished
    <3>2. QED
      BY <2>4, <3>1 DEF AsRecorded
  <2> HIDE DEF rated, finished
  <2>6. ASSUME NEW y \in Tracked, NEW b \in BOOLEAN, b => y.completedAt
        PROVE  AsRecorded(y, [y EXCEPT !.completeLogged = @ \/ b, !.completedAt = @ \/ b])
    <3>1. y.completedAt \in BOOLEAN
      BY DEF Tracked
    <3>2. (y.completedAt \/ b) = y.completedAt
      BY <2>6, <3>1
    <3>3. [y EXCEPT !.completeLogged = @ \/ b, !.completedAt = @ \/ b].completedAt = y.completedAt
      BY <3>2 DEF Tracked
    <3>4. QED
      BY <3>3 DEF Tracked, AsRecorded
  <2>7. AsRecorded(rated(i), ticked(i))
    BY <2>4, <2>5, <2>6
  <2> HIDE DEF ticked
  <2>8. QED
    BY <2>4, <2>7 DEF AsRecorded
<1> HIDE DEF ticked, started, finished, rated
<1>5. ASSUME NEW i \in Ids, torrents[i] # NoObj
      PROVE  AsRecorded(tr[torrents[i]], tr'[torrents[i]])
  <2> DEFINE j == CHOOSE j \in TrackedIds : torrents[j] = torrents[i]
  <2>1. i \in TrackedIds /\ torrents[i] \in Objs
    BY <1>5, ObjFor DEF TrackedIds
  <2>2. j \in TrackedIds /\ torrents[j] = torrents[i]
    BY <2>1
  <2>3. tr'[torrents[i]] = ticked(j)
    BY <1>2, <2>1, Zenon
  <2> HIDE DEF j
  <2>4. AsRecorded(tr[torrents[j]], ticked(j))
    BY <1>4, <2>2
  <2>5. QED
    BY <2>2, <2>3, <2>4
<1>6. UNCHANGED torrents /\ UNCHANGED lib
  BY DEF TickDecide, libVars
<1>7. QED
  BY <1>5, <1>6 DEF RecordsKept, SameFiles

LEMMA TickDecideFresh ==
  ASSUME Inv, Inv', FreshInv, TickDecide
  PROVE  FreshInv'
<1>0. Tick \in Threads
  BY MainThreads
<1>1. /\ pc[Tick] = "tick.decide" /\ UNCHANGED loc /\ UNCHANGED torrents
      /\ UNCHANGED libVars /\ UNCHANGED metainfo /\ Aside
  BY DEF TickDecide, At, Aside, diskVars, mainVars
<1>2. Persist(Tick, "tick.apply") \/ (Goto(Tick, "tick.apply") /\ UNCHANGED save)
  BY DEF TickDecide
<1>3. TsKept
  BY <1>1, TickKeeps DEF TrKeeps, TsKept
<1>4. InstsGood /\ LocGood(Tick)
  BY <1>1, InstsSame DEF FreshInv, InstsMade, LocGood
<1>5. pc'[Tick] \in {"tick.apply", "save.check"}
  BY <1>0, <1>2, Lands, PersistLands
<1>6. pc[Tick] \in FreeLabels
  BY <1>1, FreeApart
<1>7. Settles(Tick)
  <2>1. CASE \E k : Persist(Tick, k)
    BY <1>0, <2>1, OwesSettles DEF Owes
  <2>2. CASE ~\E k : Persist(Tick, k)
    <3>1. ~WillSave(Tick)
      BY <1>6, NotOwing DEF FreeLabels
    <3>2. RecordsKept
      BY <2>2, TickRecords
    <3>3. QED
      BY <1>1, <3>1, <3>2 DEF Settles
  <2>3. QED
    BY <2>1, <2>2
<1>8. Walks(Tick)
  BY <1>1, <1>2 DEF Walks, Persist
<1>9. Steps(Tick)
  BY <1>1, <1>4, <1>5, <1>7, <1>8 DEF Steps, SwapOK
<1>10. QED
  BY <1>0, <1>3, <1>6, <1>9, AsideFresh DEF FreeLabels

LEMMA TickFresh ==
  ASSUME Inv, Inv', FreshInv, TickStep
  PROVE  FreshInv'
BY TickGoesFresh, TickStopFresh, TickDecideFresh DEF TickStep

-----------------------------------------------------------------------------
(* Saves.                                                                  *)

(* A save changes nothing of what is recorded.                             *)
Saves(p) ==
  /\ pc[p] \in SaveLabels /\ Walks(p) /\ Where(p)' = Where(p) /\ pc'[p] \in SaveLabels \cup SaveNext
  /\ UNCHANGED <<torrents, tr, lib, ninst, client, loc, restoring, closing>>

LEMMA SaveApart ==
  SaveNext \cap (OwesLabels \cup {"wait.info", "purge.swap", "add.spawn", "close.wait", "restore.read", "new"}
                   \cup SaveLabels \cup EarlyLabels) = {}
BY SMTT(30) DEF SaveNext, OwesLabels, SaveLabels, EarlyLabels

LEMMA SavesNot ==
  ASSUME Inv, NEW p \in Threads, Saves(p)
  PROVE  /\ Where(p) = save[p].k /\ Where(p) \in SaveNext
         /\ WillSave(p) <=> pc[p] \in {"save.check", "save.gather"}
         /\ WillSave(p)' <=> pc'[p] \in {"save.check", "save.gather"}
         /\ pc[p] \notin EarlyLabels \cup {"close.wait"}
<1>1. Where(p) = save[p].k /\ Where(p) \in SaveNext
  <2>1. save[p].k \in SaveNext
    BY ThreadFacts DEF Saves, LocalOK, ReturnsOK
  <2>2. pc[p] \notin FlowLabels
    BY NextApart DEF Saves
  <2>3. QED
    BY <2>1, <2>2 DEF Saves, Where, WhereOf
<1>2. pc[p] # "wait.info" /\ pc[p] \notin EarlyLabels \cup {"close.wait"}
  BY DEF Saves, SaveLabels, EarlyLabels
<1>3. pc'[p] # "wait.info"
  BY SaveApart DEF Saves, SaveLabels
<1>4. QED
  BY <1>1, <1>2, <1>3, SaveApart DEF WillSave, Saves

LEMMA SaveFrame ==
  ASSUME Inv, Inv', FreshInv, NEW p \in Threads, Saves(p), budget'.faults = 0, OneSave', UpToDate'
  PROVE  FreshInv'
<1>0. Main \in Threads /\ Tick \in Threads
  BY MainThreads
<1>1. \A q \in Threads : q # p => Stays(q)
  BY WalksStays DEF Saves
<1>2. \A q \in Threads : loc'[q].op # "move"
  BY DEF Saves, FreshInv
<1>3. MainUp'
  <2>1. Where(Main)' = Where(Main)
    <3>1. CASE p # Main
      BY <1>0, <1>1, <3>1 DEF Stays, Where, WhereOf
    <3>2. QED
      BY <3>1 DEF Saves
  <2>2. closing => At(Main, "close.wait")'
    <3>1. CASE p # Main
      BY <1>0, <1>1, <3>1 DEF Stays, FreshInv, MainUp, At
    <3>2. CASE p = Main
      BY <3>2, SavesNot DEF FreshInv, MainUp, At
    <3>3. QED
      BY <3>1, <3>2
  <2>3. At(Main, "new")' => At(Tick, "off")'
    <3>2. pc[p] # "off" /\ pc'[p] # "new"
      BY SaveApart DEF Saves, SaveLabels
    <3>3. CASE p # Main
      BY <1>0, <1>1, <3>2, <3>3 DEF Stays, FreshInv, MainUp, At
    <3>4. QED
      BY <3>2, <3>3 DEF At
  <2>4. QED
    BY <2>1, <2>2, <2>3 DEF FreshInv, MainUp, Saves
<1>4. InstsGood /\ TsKept
  BY InstsSame, TsSame DEF Saves, libVars, FreshInv, InstsMade
<1>5. Made /\ \A i \in Ids : torrents'[i] # NoObj => AwaitedAlso(i)
  BY <1>4, TsMade DEF FreshInv
<1>6. InstsMade'
  <2>1. MadeOK(p)'
    <3>1. LocGood(p) /\ SwapOK(p)
      BY SaveApart DEF Saves, LocGood, SwapOK, SaveLabels
    <3>2. QED
      BY <1>4, <3>1, LocMade
  <2>2. QED
    BY <1>1, <1>5, <2>1, InstsKept DEF FreshInv
<1>7. Awaited'
  <2>0. CASE closing
    BY <2>0 DEF Awaited, Saves
  <2>1. WaitsOn(p)
    BY SavesNot, SaveApart, NotWaiting DEF Saves, SaveLabels
  <2>2. CASE ~closing
    BY <1>1, <1>5, <2>1, <2>2, AwaitedKept DEF FreshInv, WaitsOn, Made, Saves
  <2>3. QED
    BY <2>0, <2>2
<1>8. QED
  BY <1>2, <1>3, <1>6, <1>7 DEF FreshInv

(* What is owed besides is owed on.                                        *)
LEMMA SavesOwed ==
  ASSUME Inv, Inv', FreshInv, NEW p \in Threads, Saves(p), pc[p] \notin {"save.check", "save.gather"}
  PROVE  Owed => Owed'
<1>0. Main \in Threads
  BY MainThreads
<1>1. \A q \in Threads : q # p => Stays(q)
  BY WalksStays DEF Saves
<1>2. ~WillSave(p)
  BY SavesNot
<1>3. LibGood
  BY KnownSame DEF Saves, libVars, FreshInv, InstsMade
<1>4. \A q \in Threads : WillSave(q) => WillSave(q)'
  BY <1>1, <1>2, <1>3, StaysOwing
<1>5. Early => Early'
  BY <1>0, <1>1, SavesNot DEF Early, Stays
<1>6. QED
  BY <1>4, <1>5 DEF Owed, Saves

(* The records, and those with metadata, are those there were.             *)
LEMMA SavesSame ==
  ASSUME Inv, Inv', NEW p \in Threads, Saves(p)
  PROVE  /\ \A s, z : SavedAs(s) /\ z = s => \A i \in Ids : SameRecord(z[i], Records[i]')
         /\ \A m : ListedIn(m) => \A i \in TrackedIds' : (lib[tr[torrents[i]].t].info)' => i \in m
<1>1. RecordsKept
  BY RecordsSame DEF Saves
<1>2. QED
  BY <1>1, SavedKept

LEMMA PersistCheckFresh ==
  ASSUME Inv, Inv', FreshInv, NEW p \in Threads, PersistCheck(p)
  PROVE  FreshInv'
<1>1. /\ pc[p] = "save.check" /\ UNCHANGED saveMu /\ UNCHANGED budget
      /\ UNCHANGED <<torrents, tr, lib, ninst, client, loc, restoring, closing>>
      /\ \/ restoring /\ Goto(p, save[p].k) /\ SetSave(p, Save0)
         \/ ~restoring /\ Goto(p, "save.gather") /\ UNCHANGED save
  BY DEF PersistCheck, At, engineVars, libVars, mainVars
<1>2. save[p].k \in SaveNext
  BY <1>1, ThreadFacts DEF LocalOK, ReturnsOK, SaveLabels
<1>3. /\ pc'[p] \in {save[p].k, "save.gather"}
      /\ \/ restoring /\ pc'[p] = save[p].k
         \/ pc'[p] = "save.gather" /\ save'[p] = save[p]
  BY <1>1, Lands
<1>4. Where(p)' = Where(p)
  BY <1>1, <1>2, <1>3, NextApart DEF Where, WhereOf, SaveLabels, FlowLabels
<1>5. Walks(p)
  BY <1>1 DEF Walks
<1>6. Saves(p)
  BY <1>1, <1>2, <1>3, <1>4, <1>5 DEF Saves, SaveLabels
<1>7. OneSave'
  <2>1. ~Saver(p) /\ ~Saver(p)'
    BY <1>1, <1>2, <1>3, NextApart DEF Saver, SaveLabels
  <2>2. QED
    BY <1>1, <1>5, <2>1, WalksStays, OneSaveKept DEF FreshInv
<1>8. UpToDate'
  <2>1. restoring' \/ WillSave(p)'
    BY <1>1, <1>3 DEF WillSave
  <2>2. QED
    BY <2>1 DEF UpToDate, Owed
<1>9. QED
  BY <1>1, <1>6, <1>7, <1>8, SaveFrame DEF FreshInv

LEMMA SaveGatherFresh ==
  ASSUME Inv, Inv', FreshInv, NEW p \in Threads, SaveGather(p)
  PROVE  FreshInv'
<1> DEFINE z == [save[p] EXCEPT !.draft = Records]
<1>1. /\ pc[p] = "save.gather" /\ saveMu = NoThread /\ saveMu' = p /\ UNCHANGED budget
      /\ UNCHANGED <<torrents, tr, lib, ninst, client, loc, restoring, closing>>
      /\ Goto(p, "save.meta") /\ SetSave(p, z)
  BY DEF SaveGather, At, engineVars, libVars, mainVars
<1>2. z.k = save[p].k /\ z.draft = Records
  <2>1. save[p] \in Saving
    BY ThreadFacts
  <2>2. QED
    BY <2>1 DEF Saving
<1> HIDE DEF z
<1>3. pc'[p] = "save.meta" /\ save'[p] = z
  BY <1>1, Lands
<1>4. Where(p)' = Where(p) /\ Walks(p)
  BY <1>1, <1>2, <1>3 DEF Where, WhereOf, SaveLabels, FlowLabels, Walks
<1>5. Saves(p)
  BY <1>1, <1>3, <1>4 DEF Saves, SaveLabels
<1>6. p # NoThread
  BY ThreadsAssumption
<1>7. \A q \in Threads : q # p => Stays(q)
  BY <1>4, WalksStays
<1>8. OneSave'
  <2>1. \A q \in Threads : ~Saver(q)
    BY <1>1, ThreadsAssumption DEF FreshInv, OneSave
  <2>2. \A q \in Threads : Saver(q)' => q = p
    BY <1>7, <2>1 DEF Stays, Saver
  <2>3. QED
    BY <1>1, <1>3, <2>2 DEF OneSave, Saver
<1>9. UpToDate'
  <2>1. Records' = Records
    BY <1>1 DEF Records, RecordOf
  <2>2. \A i \in Ids : SameRecord(Records[i], Records[i])
    BY DEF SameRecord
  <2>3. SavedAs(save[p].draft)'
    BY <1>2, <1>3, <2>1, <2>2 DEF SavedAs
  <2>4. QED
    BY <1>1, <1>3, <1>6, <2>3 DEF UpToDate, At
<1>10. QED
  BY <1>1, <1>5, <1>8, <1>9, SaveFrame DEF FreshInv

(* Between gathering and writing, saveMu is the thread's.                  *)
LEMMA SaverKept ==
  ASSUME Inv, FreshInv, NEW p \in Threads, Walks(p), Saver(p), Saver(p)', UNCHANGED saveMu
  PROVE  OneSave' /\ saveMu = p /\ saveMu # NoThread
<1>1. saveMu = p /\ saveMu # NoThread
  BY ThreadsAssumption DEF FreshInv, OneSave
<1>2. \A q \in Threads : q # p => Stays(q)
  BY WalksStays
<1>3. \A q \in Threads : Saver(q)' => q = p
  BY <1>1, <1>2 DEF FreshInv, OneSave, Stays, Saver
<1>4. QED
  BY <1>1, <1>3 DEF OneSave

LEMMA SaveMetaCollectFresh ==
  ASSUME Inv, Inv', FreshInv, NEW p \in Threads, SaveMetaCollect(p)
  PROVE  FreshInv'
<1> DEFINE s == {i \in Ids : torrents[i] # NoObj /\ lib[tr[torrents[i]].t].info}
           z == [save[p] EXCEPT !.todo = s]
<1>1. /\ pc[p] = "save.meta" /\ UNCHANGED saveMu /\ UNCHANGED budget /\ UNCHANGED metainfo
      /\ UNCHANGED <<torrents, tr, lib, ninst, client, loc, restoring, closing>>
      /\ Goto(p, "save.write") /\ SetSave(p, z)
  BY DEF SaveMetaCollect, At, engineVars, libVars, mainVars, diskVars
<1>2. z.k = save[p].k /\ z.draft = save[p].draft /\ z.todo = s
  <2>1. save[p] \in Saving
    BY ThreadFacts
  <2> HIDE DEF s
  <2>2. QED
    BY <2>1 DEF Saving
<1> HIDE DEF z
<1>3. pc'[p] = "save.write" /\ save'[p] = z
  BY <1>1, Lands
<1>4. Where(p)' = Where(p) /\ Walks(p)
  BY <1>1, <1>2, <1>3 DEF Where, WhereOf, SaveLabels, FlowLabels, Walks
<1>5. Saves(p) /\ Saver(p) /\ Saver(p)'
  BY <1>1, <1>3, <1>4 DEF Saves, SaveLabels, Saver
<1>6. OneSave' /\ saveMu = p /\ saveMu # NoThread
  BY <1>1, <1>4, <1>5, SaverKept
<1>7. UpToDate'
  <2> SUFFICES ASSUME StateDir, ~Owed' PROVE SavedAs(save[p].draft)' /\ ListedIn(metainfo \cup save[p].todo)'
    BY <1>1, <1>6 DEF UpToDate
  <2>1. ~Owed
    BY <1>1, <1>5, SavesOwed
  <2>2. SavedAs(save[p].draft)
    BY <1>6, <2>1 DEF FreshInv, UpToDate
  <2>3. SavedAs(save[p].draft)'
    BY <1>2, <1>3, <1>5, <2>2, SavesSame DEF SavedAs
  <2>4. ListedIn(s)
    BY DEF ListedIn, TrackedIds
  <2>5. ListedIn(save[p].todo)'
    BY <1>2, <1>3, <1>5, <2>4, SavesSame DEF ListedIn
  <2>6. QED
    BY <2>3, <2>5 DEF ListedIn
<1>8. QED
  BY <1>1, <1>5, <1>6, <1>7, SaveFrame DEF FreshInv

LEMMA SaveMetaWriteFresh ==
  ASSUME Inv, Inv', FreshInv, NEW p \in Threads, SaveMetaWrite(p)
  PROVE  FreshInv'
<1>0. ~(budget.faults > 0)
  BY DEF FreshInv
<1>1. PICK i \in save[p].todo : /\ SetSave(p, [save[p] EXCEPT !.todo = @ \ {i}])
                                /\ metainfo' = metainfo \cup {i} /\ UNCHANGED budget
  BY <1>0 DEF SaveMetaWrite
<1> DEFINE z == [save[p] EXCEPT !.todo = @ \ {i}]
<1>2. /\ pc[p] = "save.write" /\ UNCHANGED pc /\ UNCHANGED saveMu
      /\ UNCHANGED <<torrents, tr, lib, ninst, client, loc, restoring, closing>>
      /\ SetSave(p, z)
  BY <1>1 DEF SaveMetaWrite, At, engineVars, libVars, mainVars
<1>3. z.k = save[p].k /\ z.draft = save[p].draft /\ z.todo = save[p].todo \ {i}
  <2>1. save[p] \in Saving
    BY ThreadFacts
  <2>2. QED
    BY <2>1 DEF Saving
<1> HIDE DEF z
<1>4. save'[p] = z
  BY <1>2, Lands
<1>5. Where(p)' = Where(p) /\ Walks(p)
  BY <1>2, <1>3, <1>4 DEF Where, WhereOf, SaveLabels, FlowLabels, Walks
<1>6. Saves(p) /\ Saver(p) /\ Saver(p)'
  BY <1>2, <1>5 DEF Saves, SaveLabels, Saver
<1>7. OneSave' /\ saveMu = p /\ saveMu # NoThread
  BY <1>2, <1>5, <1>6, SaverKept
<1>8. UpToDate'
  <2> SUFFICES ASSUME StateDir, ~Owed' PROVE SavedAs(save[p].draft)' /\ ListedIn(metainfo \cup save[p].todo)'
    BY <1>2, <1>7 DEF UpToDate
  <2>1. ~Owed
    BY <1>2, <1>6, SavesOwed
  <2>2. SavedAs(save[p].draft) /\ ListedIn(metainfo \cup save[p].todo)
    BY <1>2, <1>7, <2>1 DEF FreshInv, UpToDate, At
  <2>3. SavedAs(save[p].draft)'
    BY <1>3, <1>4, <1>6, <2>2, SavesSame DEF SavedAs
  <2>4. metainfo' \cup save'[p].todo = metainfo \cup save[p].todo
    BY <1>1, <1>3, <1>4
  <2>5. ListedIn(metainfo \cup save[p].todo)'
    BY <1>6, <2>2, <2>4, SavesSame DEF ListedIn
  <2>6. QED
    BY <2>3, <2>5
<1>9. QED
  BY <1>1, <1>6, <1>7, <1>8, SaveFrame DEF FreshInv

LEMMA SaveWriteFresh ==
  ASSUME Inv, Inv', FreshInv, NEW p \in Threads, SaveWrite(p)
  PROVE  FreshInv'
<1>1. /\ pc[p] = "save.write" /\ saveMu' = NoThread /\ UNCHANGED budget /\ UNCHANGED metainfo
      /\ UNCHANGED <<torrents, tr, lib, ninst, client, loc, restoring, closing>>
      /\ Goto(p, save[p].k) /\ SetSave(p, Save0)
      /\ session' = save[p].draft /\ save[p].todo = {}
  BY DEF SaveWrite, At, engineVars, libVars, mainVars, FreshInv
<1>2. save[p].k \in SaveNext
  BY <1>1, ThreadFacts DEF LocalOK, ReturnsOK, SaveLabels
<1>3. pc'[p] = save[p].k
  BY <1>1, Lands
<1>4. Where(p)' = Where(p) /\ Walks(p)
  BY <1>1, <1>2, <1>3, NextApart DEF Where, WhereOf, SaveLabels, FlowLabels, Walks
<1>5. Saves(p) /\ Saver(p) /\ ~Saver(p)'
  BY <1>1, <1>2, <1>3, <1>4, NextApart DEF Saves, SaveLabels, Saver
<1>6. saveMu = p /\ saveMu # NoThread
  BY <1>5, ThreadsAssumption DEF FreshInv, OneSave
<1>7. OneSave'
  <2>1. \A q \in Threads : q # p => Stays(q)
    BY <1>4, WalksStays
  <2>2. \A q \in Threads : ~Saver(q)'
    BY <1>5, <1>6, <2>1 DEF FreshInv, OneSave, Stays, Saver
  <2>3. QED
    BY <1>1, <2>2 DEF OneSave
<1>8. UpToDate'
  <2> SUFFICES ASSUME StateDir, ~Owed' PROVE SavedAs(session)' /\ ListedIn(metainfo)'
    BY <1>1 DEF UpToDate
  <2>1. ~Owed
    BY <1>1, <1>5, SavesOwed
  <2>2. SavedAs(save[p].draft) /\ ListedIn(metainfo \cup save[p].todo)
    BY <1>1, <1>6, <2>1 DEF FreshInv, UpToDate, At
  <2>3. SavedAs(session)'
    BY <1>1, <1>5, <2>2, SavesSame DEF SavedAs
  <2>4. metainfo' = metainfo \cup save[p].todo
    BY <1>1
  <2>5. ListedIn(metainfo)'
    BY <1>5, <2>2, <2>4, SavesSame DEF ListedIn
  <2>6. QED
    BY <2>3, <2>5
<1>9. QED
  BY <1>1, <1>5, <1>7, <1>8, SaveFrame DEF FreshInv

LEMMA PersistFresh ==
  ASSUME Inv, Inv', FreshInv, NEW p \in Threads, PersistStep(p)
  PROVE  FreshInv'
<1>1. ~SaveDirFails(p)
  BY DEF SaveDirFails, FreshInv
<1>2. QED
  BY <1>1, PersistCheckFresh, SaveGatherFresh, SaveMetaCollectFresh, SaveMetaWriteFresh, SaveWriteFresh
     DEF PersistStep

-----------------------------------------------------------------------------
(* The main goroutine.                                                     *)

LEMMA RestoringApart ==
  /\ RestoringLabels \cap ({"new", "restore.read", "up", "close.cancel", "close.wait"}
       \cup FlowLabels \cup SaveLabels) = {}
  /\ {"new", "restore.read", "up", "close.cancel", "close.wait"} \subseteq MainLabels
  /\ {"new", "restore.read", "up", "close.cancel", "close.wait"}
       \cap (AddLabels \cup DoneLabels \cup OwesLabels \cup FlowLabels \cup SaveLabels) = {}
BY SMTT(30) DEF RestoringLabels, MainLabels, AddLabels, DoneLabels, NextLabels, OwesLabels,
                FlowLabels, SaveLabels

(* What the main goroutine restores: the step of a record.                 *)
Restores ==
  /\ pc[Main] \in {"restore.next", "restore.limits", "restore.prios", "restore.final"}
  /\ UNCHANGED torrents /\ UNCHANGED libVars /\ UNCHANGED save /\ Aside
  /\ UNCHANGED pc \/ \E c \in {"add.spec", "restore.prios", "prio.set", "restore.final", "restore.next"} :
                       Goto(Main, c)
  /\ UNCHANGED loc \/ \E l : SetLoc(Main, l)
  /\ LocGood(Main)
  /\ pc'[Main] \in {"add.spec", "prio.set"} => loc'[Main].ret \in {"restore.limits", "restore.prios"}

LEMMA RestoresFresh ==
  ASSUME Inv, Inv', FreshInv, Restores, TsKept
  PROVE  FreshInv'
<1>0. Main \in Threads
  BY MainThreads
<1>1. pc'[Main] \in {"add.spec", "restore.prios", "prio.set", "restore.final", "restore.next", "restore.limits"}
  BY <1>0, Lands DEF Restores
<1>2. /\ Where(Main) = pc[Main] /\ Where(Main)' = pc'[Main]
      /\ Where(Main) \in RestoringLabels /\ Where(Main)' \in RestoringLabels
      /\ pc'[Main] \in AddLabels \cup DoneLabels => pc'[Main] \in {"add.spec", "prio.set"}
  BY <1>1 DEF Restores, Where, WhereOf, FlowLabels, SaveLabels, RestoringLabels, AddLabels,
              DoneLabels, NextLabels
<1>3. restoring'
  BY <1>2 DEF FreshInv, MainUp, Restores, Aside
<1>4. InstsGood
  BY InstsSame DEF Restores, FreshInv, InstsMade
<1>5. Walks(Main)
  BY DEF Restores, Walks
<1>6. Steps(Main)
  BY <1>1, <1>3, <1>4, <1>5 DEF Steps, Restores, SwapOK, Settles
<1>7. Where(Main) # "add.spawn" /\ pc[Main] \notin {"wait.info", "save.meta", "save.write"}
  BY <1>2 DEF Restores
<1>8. QED
  BY <1>0, <1>2, <1>6, <1>7, AnyFresh DEF Restores

LEMMA RestoreNextFresh ==
  ASSUME Inv, Inv', FreshInv, RestoreNext
  PROVE  FreshInv'
<1>0. Main \in Threads /\ ~(budget.faults > 0)
  BY MainThreads DEF FreshInv
<1>1. /\ pc[Main] = "restore.next" /\ UNCHANGED <<torrents, tr>> /\ UNCHANGED libVars
      /\ UNCHANGED save /\ Aside
      /\ \/ /\ Goto(Main, "add.spec")
            /\ \E a, b, c, d : SetLoc(Main, [Loc0 EXCEPT !.id = a, !.dir = b, !.flag = c,
                                                         !.magnet = d, !.ret = "restore.limits"])
         \/ UNCHANGED <<pc, loc>>
  BY <1>0 DEF RestoreNext, At, Aside, engineVars, saveVars, diskVars
<1>2. ASSUME NEW a, NEW b, NEW c, NEW d,
             SetLoc(Main, [Loc0 EXCEPT !.id = a, !.dir = b, !.flag = c, !.magnet = d,
                                       !.ret = "restore.limits"])
      PROVE  LocGood(Main) /\ loc'[Main].ret = "restore.limits"
  <2> DEFINE l == [Loc0 EXCEPT !.id = a, !.dir = b, !.flag = c, !.magnet = d, !.ret = "restore.limits"]
  <2>1. l.op = "" /\ l.t = 0 /\ l.ret = "restore.limits"
    BY DEF Loc0, NoInst
  <2>2. SetLoc(Main, l)
    BY <1>2
  <2> HIDE DEF l
  <2>3. loc'[Main] = l
    BY <1>0, <2>2, Lands
  <2>4. 0 <= ninst'
    BY BoundsAssumption DEF Inv, TypeOK, LibTypes
  <2>5. QED
    BY <2>1, <2>3, <2>4 DEF LocGood
<1>3. LocGood(Main) /\ (pc'[Main] = "add.spec" => loc'[Main].ret = "restore.limits")
  <2>1. CASE UNCHANGED <<pc, loc>>
    BY <1>1, <2>1 DEF LocGood
  <2>2. QED
    BY <1>1, <1>2, <2>1
<1>4. pc'[Main] \in {"add.spec", "restore.next"}
  BY <1>0, <1>1, Lands
<1>5. UNCHANGED pc \/ Goto(Main, "add.spec")
  BY <1>1
<1>6. Restores
  BY <1>1, <1>3, <1>4, <1>5 DEF Restores
<1>7. QED
  BY <1>1, <1>6, TsSame, RestoresFresh

LEMMA RestoreFieldsFresh ==
  ASSUME Inv, Inv', FreshInv, RestoreLimits \/ RestoreFinal
  PROVE  FreshInv'
<1> DEFINE o == torrents[loc[Main].id]
<1>0. Main \in Threads
  BY MainThreads
<1>1. /\ pc[Main] \in {"restore.limits", "restore.final"} /\ UNCHANGED torrents
      /\ UNCHANGED libVars /\ UNCHANGED save /\ Aside
      /\ Goto(Main, "restore.prios") \/ Goto(Main, "restore.next")
      /\ SetLoc(Main, Loc0) \/ \E a : SetLoc(Main, [loc[Main] EXCEPT !.sel = a])
      /\ \/ UNCHANGED tr
         \/ \E a, b : SetTr(o, [tr[o] EXCEPT !.upLimit = a, !.downLimit = b])
         \/ \E a, b, c, d : SetTr(o, [tr[o] EXCEPT !.base = a, !.seedLimit = b, !.completedAt = c,
                                                   !.label = d, !.completeLogged = c])
  <2>1. CASE RestoreLimits
    BY <2>1 DEF RestoreLimits, At, Aside, saveVars, diskVars, mainVars
  <2>2. CASE RestoreFinal
    BY <2>2 DEF RestoreFinal, At, Aside, saveVars, diskVars
  <2>3. QED
    BY <2>1, <2>2
<1>2. o \in Objs => tr[o] \in Tracked
  BY TrTyped
<1> HIDE DEF o
<1>3. TsKept
  <2>1. ASSUME NEW a, NEW b, SetTr(o, [tr[o] EXCEPT !.upLimit = a, !.downLimit = b])
        PROVE  TsKept
    <3>1. o \in Objs => [tr[o] EXCEPT !.upLimit = a, !.downLimit = b].t = tr[o].t
      BY <1>2 DEF Tracked
    <3>2. QED
      BY <1>1, <2>1, <3>1, TsSet
  <2>2. ASSUME NEW a, NEW b, NEW c, NEW d,
               SetTr(o, [tr[o] EXCEPT !.base = a, !.seedLimit = b, !.completedAt = c,
                                      !.label = d, !.completeLogged = c])
        PROVE  TsKept
    <3> DEFINE x == [tr[o] EXCEPT !.base = a, !.seedLimit = b, !.completedAt = c,
                                  !.label = d, !.completeLogged = c]
    <3>1. o \in Objs => x.t = tr[o].t
      BY <1>2 DEF Tracked
    <3>2. SetTr(o, x)
      BY <2>2
    <3> HIDE DEF x
    <3>3. QED
      BY <1>1, <3>1, <3>2, TsSet
  <2>3. QED
    BY <1>1, <2>1, <2>2, TsSame
<1>4. LocGood(Main)
  <2>1. ASSUME NEW a, SetLoc(Main, [loc[Main] EXCEPT !.sel = a]) PROVE LocGood(Main)
    <3>1. loc[Main] \in Locals
      BY <1>0, Lands
    <3>2. [loc[Main] EXCEPT !.sel = a].op = loc[Main].op /\ [loc[Main] EXCEPT !.sel = a].t = loc[Main].t
      BY <3>1 DEF Locals
    <3>3. QED
      BY <1>0, <2>1, <3>2, SetsLoc
  <2>2. QED
    BY <1>0, <1>1, <2>1, Loc0Good
<1>5. pc'[Main] \in {"restore.prios", "restore.next"}
  BY <1>0, <1>1, Lands
<1>6. Restores
  BY <1>1, <1>4, <1>5 DEF Restores
<1>7. QED
  BY <1>3, <1>6, RestoresFresh

LEMMA RestorePriosFresh ==
  ASSUME Inv, Inv', FreshInv, RestorePrios
  PROVE  FreshInv'
<1>0. Main \in Threads
  BY MainThreads
<1>1. /\ pc[Main] = "restore.prios" /\ UNCHANGED <<torrents, tr>> /\ UNCHANGED libVars
      /\ UNCHANGED save /\ Aside
  BY DEF RestorePrios, At, Aside, engineVars, saveVars, diskVars, mainVars
<1>9. \/ /\ Goto(Main, "prio.set")
         /\ \E f : SetLoc(Main, [loc[Main] EXCEPT !.sel = @ \ {f}, !.file = f,
                                                 !.prio = rs[loc[Main].id].prio[f],
                                                 !.o = torrents[loc[Main].id],
                                                 !.ret = "restore.prios"])
      \/ Goto(Main, "restore.final") /\ UNCHANGED loc
  BY DEF RestorePrios
<1>2. loc[Main] \in Locals
  BY <1>0, Lands
<1>3. ASSUME NEW f,
             SetLoc(Main, [loc[Main] EXCEPT !.sel = @ \ {f}, !.file = f,
                                            !.prio = rs[loc[Main].id].prio[f],
                                            !.o = torrents[loc[Main].id],
                                            !.ret = "restore.prios"])
      PROVE  LocGood(Main) /\ loc'[Main].ret = "restore.prios"
  <2> DEFINE l == [loc[Main] EXCEPT !.sel = @ \ {f}, !.file = f,
                                    !.prio = rs[loc[Main].id].prio[f],
                                    !.o = torrents[loc[Main].id],
                                    !.ret = "restore.prios"]
  <2>1. l.op = loc[Main].op /\ l.t = loc[Main].t /\ l.ret = "restore.prios"
    BY <1>2 DEF Locals
  <2>2. SetLoc(Main, l)
    BY <1>3
  <2> HIDE DEF l
  <2>3. QED
    BY <1>0, <2>1, <2>2, SetsLoc, Lands
<1>4. LocGood(Main) /\ (pc'[Main] = "prio.set" => loc'[Main].ret = "restore.prios")
  <2>1. CASE Goto(Main, "restore.final") /\ UNCHANGED loc
    BY <1>0, <2>1, Lands DEF LocGood
  <2>2. QED
    BY <1>3, <1>9, <2>1
<1>5. pc'[Main] \in {"prio.set", "restore.final"}
  BY <1>0, <1>9, Lands
<1>6. Restores
  <2>1. UNCHANGED pc \/ \E c \in {"prio.set", "restore.final"} : Goto(Main, c)
    BY <1>9
  <2>2. UNCHANGED loc \/ \E l : SetLoc(Main, l)
    BY <1>9
  <2>3. QED
    BY <1>1, <1>4, <1>5, <2>1, <2>2 DEF Restores
<1>7. QED
  BY <1>1, <1>6, TsSame, RestoresFresh

(* The main goroutine's other steps: a save, or none, is sure to follow.   *)
Passes(q) ==
  /\ Where(q) # "add.spawn" /\ pc[q] # "wait.info" /\ pc'[q] # "purge.swap"
  /\ ~Saver(q) /\ ~Saver(q)'

LEMMA MainPasses ==
  ASSUME Inv, Inv', FreshInv, UNCHANGED <<torrents, tr, lib, ninst, client, saveMu, loc>>,
         \A q \in Threads : Stays(q) \/ Passes(q),
         UNCHANGED closing \/ closing', budget'.faults = 0, MainUp', StateDir => Owed'
  PROVE  FreshInv'
<1>1. \A q \in Threads : loc'[q].op # "move"
  BY DEF FreshInv
<1>2. InstsGood /\ TsKept
  BY InstsSame, TsSame DEF libVars, FreshInv, InstsMade
<1>3. Made /\ \A i \in Ids : torrents'[i] # NoObj => AwaitedAlso(i)
  BY <1>2, TsMade DEF FreshInv
<1>4. InstsMade'
  <2>1. ASSUME NEW q \in Threads, Passes(q) PROVE MadeOK(q)'
    <3>1. LocGood(q) /\ SwapOK(q)
      BY <2>1 DEF LocGood, SwapOK, Passes
    <3>2. QED
      BY <1>2, <3>1, LocMade
  <2>2. \A q \in Threads : Stays(q) \/ MadeOK(q)'
    BY <2>1
  <2>3. QED
    BY <1>3, <2>2, InstsKept DEF FreshInv
<1>5. Awaited'
  <2>0. CASE closing'
    BY <2>0 DEF Awaited
  <2>1. CASE UNCHANGED closing /\ ~closing
    <3>1. \A q \in Threads : Passes(q) => WaitsOn(q)
      BY NotWaiting DEF Passes
    <3>2. QED
      BY <1>3, <2>1, <3>1, AwaitedKept DEF FreshInv, WaitsOn, Made
  <2>2. QED
    BY <2>0, <2>1
<1>6. OneSave'
  <2>1. \A q \in Threads : Stays(q) \/ (~Saver(q) /\ ~Saver(q)')
    BY DEF Passes
  <2>2. QED
    BY <2>1, OneSaveKept DEF FreshInv
<1>7. UpToDate'
  BY DEF UpToDate
<1>8. QED
  BY <1>1, <1>4, <1>5, <1>6, <1>7 DEF FreshInv

(* From the main goroutine's place in its life to the next.                *)
LEMMA MainMoves ==
  ASSUME Inv, FreshInv, pc[Main] \in {"new", "restore.read", "restore.next", "up", "close.cancel"}
  PROVE  /\ Where(Main) = pc[Main] /\ ~closing
         /\ pc[Main] # "restore.next" => ~restoring
         /\ restoring \in BOOLEAN
<1>1. Where(Main) = pc[Main]
  BY DEF Where, WhereOf, FlowLabels, SaveLabels
<1>2. pc[Main] # "restore.next" => Where(Main) \notin RestoringLabels
  BY <1>1, RestoringApart
<1>3. QED
  BY <1>1, <1>2 DEF FreshInv, MainUp, At, Inv, TypeOK, MainTypes

LEMMA NewFresh ==
  ASSUME Inv, Inv', FreshInv, New
  PROVE  FreshInv'
<1>1. /\ pc[Main] = "new" /\ pc' = [pc EXCEPT ![Main] = "restore.read", ![Tick] = "tick"]
      /\ UNCHANGED <<torrents, tr, lib, ninst, client, saveMu, loc, save, restoring, closing, budget>>
  BY DEF New, At, engineVars, libVars, saveVars, mainVars
<1>2. ThreadTypes /\ Tick \in Threads /\ Main \in Threads /\ Tick # Main
  BY MainThreads DEF Inv, TypeOK
<1>3. /\ \A q \in Threads \ {Main, Tick} : Stays(q)
      /\ pc'[Main] = "restore.read" /\ pc'[Tick] = "tick"
  BY <1>1, <1>2 DEF ThreadTypes, Stays
<1>4. pc[Tick] = "off" /\ Passes(Tick) /\ Passes(Main)
  <2>1. pc[Tick] = "off"
    BY <1>1 DEF FreshInv, MainUp, At
  <2>2. QED
    BY <1>1, <1>3, <2>1 DEF Passes, Saver, Where, WhereOf, FlowLabels, SaveLabels
<1>5. Where(Main)' = "restore.read"
  BY <1>3 DEF Where, WhereOf, FlowLabels, SaveLabels
<1>6. MainUp'
  BY <1>1, <1>3, <1>5, MainMoves, RestoringApart DEF MainUp, OnMain, At
<1>7. Owed'
  BY <1>3 DEF Owed, Early, EarlyLabels
<1>8. \A q \in Threads : Stays(q) \/ Passes(q)
  BY <1>3, <1>4
<1>9. budget'.faults = 0
  BY <1>1 DEF FreshInv
<1>10. QED
  BY <1>1, <1>6, <1>7, <1>8, <1>9, MainPasses

(* A step of the main goroutine at the end of a restore, or of its life.   *)
LEMMA MainHeads ==
  ASSUME Inv, Inv', FreshInv, pc[Main] \in {"new", "restore.read", "restore.next", "up", "close.cancel"},
         Walks(Main), pc'[Main] \in {"restore.next", "up", "close.cancel", "close.wait", "save.check"},
         UNCHANGED <<torrents, tr, lib, ninst, client, saveMu, loc, budget>>,
         UNCHANGED closing \/ (closing' /\ pc'[Main] = "close.wait"),
         Where(Main)' \in {"restore.next", "up", "close.cancel", "close.wait"},
         Where(Main)' = "restore.next" <=> restoring',
         StateDir => Owed'
  PROVE  FreshInv'
<1>1. Where(Main) = pc[Main] /\ ~closing
  BY MainMoves
<1>2. Passes(Main)
  BY <1>1 DEF Passes, Saver
<1>3. \A q \in Threads : Stays(q) \/ Passes(q)
  BY <1>2, MainThreads, WalksStays
<1>4. MainUp'
  <2>1. Where(Main)' \in RestoringLabels <=> Where(Main)' = "restore.next"
    BY RestoringApart DEF RestoringLabels
  <2>2. OnMain(Where(Main), loc[Main])'
    BY RestoringApart DEF OnMain, MainLabels, AddLabels, DoneLabels, NextLabels
  <2>3. closing' => At(Main, "close.wait")'
    BY <1>1 DEF At
  <2>4. ~At(Main, "new")'
    BY DEF At
  <2>5. QED
    BY <2>1, <2>2, <2>3, <2>4 DEF MainUp
<1>5. budget'.faults = 0
  BY DEF FreshInv
<1>6. QED
  BY <1>3, <1>4, <1>5, MainPasses

LEMMA PersistHeads ==
  ASSUME Inv, NEW p \in Threads, NEW k \in {"up", "close.cancel"}, Persist(p, k), UNCHANGED loc
  PROVE  /\ pc'[p] \in {k, "save.check"} /\ Where(p)' = k /\ Walks(p)
         /\ StateDir => WillSave(p)'
<1>1. CASE StateDir
  <2>1. pc'[p] = "save.check" /\ save'[p] = [save[p] EXCEPT !.k = k]
    BY <1>1, Lands DEF Persist
  <2>2. save'[p].k = k
    BY <2>1, ThreadFacts DEF Saving
  <2>3. QED
    BY <1>1, <2>1, <2>2 DEF Where, WhereOf, FlowLabels, SaveLabels, WillSave, Walks, Persist
<1>2. CASE ~StateDir
  <2>1. pc'[p] = k
    BY <1>2, Lands DEF Persist
  <2>2. QED
    BY <1>2, <2>1 DEF Where, WhereOf, FlowLabels, SaveLabels, Walks, Persist
<1>3. QED
  BY <1>1, <1>2

LEMMA RestoreDoneFresh ==
  ASSUME Inv, Inv', FreshInv, RestoreDone \/ Close
  PROVE  FreshInv'
<1>0. Main \in Threads
  BY MainThreads
<1>1. /\ UNCHANGED <<torrents, tr, lib, ninst, client, saveMu, loc, closing>>
      /\ budget' = budget
      /\ \/ pc[Main] = "restore.next" /\ Persist(Main, "up") /\ ~restoring'
         \/ pc[Main] = "up" /\ Persist(Main, "close.cancel") /\ UNCHANGED restoring
  BY DEF RestoreDone, Close, At, Up, engineVars, libVars, mainVars
<1>2. ~restoring'
  BY <1>1, MainMoves
<1>3. PICK k \in {"up", "close.cancel"} : Persist(Main, k)
  BY <1>1
<1>4. /\ pc'[Main] \in {k, "save.check"} /\ Where(Main)' = k /\ Walks(Main)
      /\ StateDir => WillSave(Main)'
  BY <1>0, <1>1, <1>3, PersistHeads
<1>5. StateDir => Owed'
  BY <1>0, <1>4 DEF Owed
<1>6. QED
  BY <1>1, <1>2, <1>4, <1>5, MainHeads

LEMMA RestoreReadFresh ==
  ASSUME Inv, Inv', FreshInv, RestoreRead
  PROVE  FreshInv'
<1>0. Main \in Threads
  BY MainThreads
<1>1. /\ pc[Main] = "restore.read" /\ UNCHANGED save
      /\ UNCHANGED <<torrents, tr, lib, ninst, client, saveMu, loc, closing, budget>>
      /\ \/ StateDir /\ restoring' /\ Goto(Main, "restore.next")
         \/ ~StateDir /\ UNCHANGED restoring /\ Goto(Main, "up")
  BY DEF RestoreRead, At, engineVars, libVars, saveVars, FreshInv
<1>2. ~restoring
  BY <1>1, MainMoves
<1>3. Walks(Main) /\ pc'[Main] \in {"restore.next", "up"} /\ (pc'[Main] = "restore.next" <=> restoring')
  BY <1>0, <1>1, <1>2, Lands DEF Walks
<1>4. Where(Main)' = pc'[Main]
  BY <1>3 DEF Where, WhereOf, FlowLabels, SaveLabels
<1>5. StateDir => Owed'
  BY <1>1 DEF Owed
<1>6. QED
  BY <1>1, <1>3, <1>4, <1>5, MainHeads

LEMMA CloseCancelFresh ==
  ASSUME Inv, Inv', FreshInv, CloseCancel
  PROVE  FreshInv'
<1>0. Main \in Threads
  BY MainThreads
<1>1. /\ pc[Main] = "close.cancel" /\ UNCHANGED save /\ UNCHANGED restoring
      /\ UNCHANGED <<torrents, tr, lib, ninst, client, saveMu, loc, budget>>
      /\ closing' /\ Goto(Main, "close.wait")
  BY DEF CloseCancel, At, libVars, saveVars
<1>2. ~restoring
  BY <1>1, MainMoves
<1>3. Walks(Main) /\ pc'[Main] = "close.wait"
  BY <1>0, <1>1, Lands DEF Walks
<1>4. Where(Main)' = "close.wait"
  BY <1>3 DEF Where, WhereOf, FlowLabels, SaveLabels
<1>5. Owed'
  BY <1>1 DEF Owed
<1>6. QED
  BY <1>1, <1>2, <1>3, <1>4, <1>5, MainHeads

-----------------------------------------------------------------------------
(* A process that starts has everything to restore.                        *)
Bare ==
  /\ \A q \in Threads : pc[q] = Fresh(q) /\ loc[q] = Loc0
  /\ \A o \in Objs : tr[o].t = NoInst
  /\ \A i \in Ids : torrents[i] = NoObj /\ client[i] = NoInst
  /\ \A t \in Insts : ~lib[t].live /\ ~lib[t].info
  /\ ninst = 0 /\ ~restoring /\ ~closing /\ saveMu = NoThread /\ budget.faults = 0

LEMMA BareFresh == Bare => FreshInv
<1> SUFFICES ASSUME Bare PROVE FreshInv
  OBVIOUS
<1>1. /\ \A q \in Threads : pc[q] \in {"new", "idle", "off"}
      /\ pc[Main] = "new" /\ pc[Tick] = "off" /\ Main \in Threads
  BY MainThreads, ThreadsAssumption DEF Bare, Fresh
<1>2. Loc0.op = "" /\ Loc0.t = NoInst /\ NoInst = 0
  BY NullTypes DEF NoInst
<1>3. Where(Main) = "new"
  BY <1>1 DEF Where, WhereOf, FlowLabels, SaveLabels
<1>4. MainUp
  BY <1>1, <1>3, RestoringApart DEF MainUp, OnMain, At, Bare
<1>5. KnownLib
  BY BoundsAssumption DEF Bare, KnownLib, NoInst
<1>6. InstsMade
  <2>0. NoInst <= ninst
    BY DEF NoInst, Bare
  <2>1. \A o \in Objs : tr[o].t <= ninst
    BY <2>0 DEF Bare
  <2>2. \A q \in Threads : loc[q].t <= ninst /\ ~At(q, "purge.swap")
    BY <1>1, <1>2, <2>0 DEF Bare, At
  <2>3. QED
    BY <1>5, <2>1, <2>2 DEF InstsMade
<1>7. Awaited
  BY DEF Awaited, TrackedIds, Bare
<1>8. OneSave
  BY <1>1 DEF OneSave, Saver, Bare
<1>9. UpToDate
  BY <1>1 DEF UpToDate, Owed, Early, EarlyLabels
<1>10. QED
  BY <1>2, <1>4, <1>6, <1>7, <1>8, <1>9 DEF FreshInv, Bare

LEMMA InitFresh ==
  ASSUME MaxFaults = 0, Init
  PROVE  FreshInv
<1>1. Bare
  BY DEF Bare, Init, NewTracked, Blank
<1>2. QED
  BY <1>1, BareFresh

LEMMA ProcessEndsFresh ==
  ASSUME Inv, FreshInv, ProcessEnds
  PROVE  FreshInv'
<1>1. budget'.faults = budget.faults
  BY DEF ProcessEnds, Inv, TypeOK, TallyTypes, Budget
<1>2. Bare'
  BY <1>1 DEF Bare, ProcessEnds, NewTracked, Blank, FreshInv
<1>3. Bare' => FreshInv'
  BY BareFresh, PTL
<1>4. QED
  BY <1>2, <1>3

-----------------------------------------------------------------------------
(* No thread moves.                                                        *)
LEMMA StillFresh ==
  ASSUME Inv, Inv', FreshInv, LibGood, UNCHANGED <<torrents, tr, ninst, pc, loc, save, saveMu>>,
         UNCHANGED <<session, metainfo, restoring, closing>>, budget'.faults = budget.faults,
         RecordsKept \/ Owed'
  PROVE  FreshInv'
<1>1. \A q \in Threads : Stays(q)
  BY DEF Stays
<1>2. MainUp'
  BY DEF FreshInv, MainUp, Where, WhereOf, At
<1>3. Made /\ \A i \in Ids : torrents'[i] # NoObj => AwaitedAlso(i)
  <2>1. InstsGood
    BY LibFacts DEF InstsGood
  <2>2. QED
    BY <2>1, TsSame, TsMade DEF FreshInv
<1>4. InstsMade'
  BY <1>1, <1>3, InstsKept DEF FreshInv
<1>5. Awaited'
  BY <1>1, <1>3, AwaitedKept DEF FreshInv
<1>6. OneSave'
  BY <1>1, OneSaveKept DEF FreshInv
<1>7. UpToDate'
  <2>1. CASE Owed'
    BY <2>1 DEF UpToDate
  <2>2. CASE RecordsKept
    <3>1. Owed => Owed'
      BY <1>1, StaysOwing DEF Owed, Early
    <3>2. saveMu # NoThread => Stays(saveMu)
      BY DEF Stays
    <3>3. QED
      BY <2>2, <3>1, <3>2, UpToDateKept DEF FreshInv
  <2>3. QED
    BY <2>1, <2>2
<1>8. \A q \in Threads : loc'[q].op # "move"
  BY DEF FreshInv
<1>9. QED
  BY <1>2, <1>4, <1>5, <1>6, <1>7, <1>8 DEF FreshInv

(* Metadata that comes is waited for: who waits for it saves.              *)
LEMMA AwaitedComes ==
  ASSUME Inv, FreshInv, NEW i \in Ids, torrents[i] # NoObj, ~lib[tr[torrents[i]].t].info,
         lib'[tr[torrents[i]].t].info, UNCHANGED <<pc, loc, save, closing>>
  PROVE  Owed'
<1> DEFINE t == tr[torrents[i]].t
<1>1. CASE closing
  BY <1>1 DEF Owed
<1>2. CASE ~closing
  <2>1. PICK q \in Threads : WaitsFor(q, t)
    BY <1>2 DEF FreshInv, Awaited, TrackedIds
  <2>2. CASE Where(q) = "add.spawn"
    <3>1. Where(q)' \in OwesLabels
      BY <2>2 DEF Where, WhereOf, OwesLabels
    <3>2. QED
      BY <3>1 DEF Owed, WillSave
  <2>3. CASE At(q, "wait.info") /\ loc[q].t = t
    BY <2>3 DEF Owed, WillSave, At
  <2>4. QED
    BY <2>1, <2>2, <2>3 DEF WaitsFor
<1>3. QED
  BY <1>1, <1>2

LEMMA NetworkFresh ==
  ASSUME Inv, Inv', FreshInv, Network
  PROVE  FreshInv'
<1>1. PICK t \in Insts :
        /\ \/ (GotInfo(t) \/ Transfer(t)) /\ UNCHANGED data
           \/ Finish(t) /\ UNCHANGED budget
        /\ UNCHANGED <<engineVars, ninst, client, guardVars, session, metainfo,
                       saveVars, mainVars, pc, loc, tk, hooks>>
  BY DEF Network
<1>2. /\ UNCHANGED <<torrents, tr, ninst, pc, loc, save, saveMu>>
      /\ UNCHANGED <<session, metainfo, restoring, closing>>
  BY <1>1 DEF engineVars, saveVars, mainVars
<1>3. budget'.faults = budget.faults
  <2>1. [budget EXCEPT !.bytes = @ - 1].faults = budget.faults
    BY DEF Inv, TypeOK, TallyTypes, Budget
  <2>2. QED
    BY <1>1, <2>1 DEF GotInfo, Transfer
<1>4. ASSUME NEW y \in Instance
      PROVE  /\ [y EXCEPT !.info = TRUE].info /\ [y EXCEPT !.info = TRUE].live = y.live
             /\ [y EXCEPT !.bytes = @ + 1].info = y.info /\ [y EXCEPT !.bytes = @ + 1].live = y.live
             /\ [y EXCEPT !.have = TRUE].info = y.info /\ [y EXCEPT !.have = TRUE].live = y.live
             /\ [y EXCEPT !.bytes = @ + 1].prio = y.prio /\ [y EXCEPT !.have = TRUE].prio = y.prio
             /\ [y EXCEPT !.info = TRUE].prio = y.prio
  BY DEF Instance
<1>5. lib[t] \in Instance
  BY LibFacts
<1>6. ASSUME NEW y, SetLib(t, y), lib[t].live, lib[t].info => y.info
      PROVE  LibGood
  BY <1>1, <1>6, KnownSet DEF LibKeeps, FreshInv, InstsMade
<1>7. ASSUME NEW y, SetLib(t, y)
      PROVE  \A u \in Insts : lib'[u] = IF u = t THEN y ELSE lib[u]
  BY <1>7, LibFacts DEF SetLib
<1>8. CASE Transfer(t) \/ Finish(t)
  <2>1. PICK y : SetLib(t, y) /\ y.info = lib[t].info /\ lib[t].live /\ y.prio = lib[t].prio
    BY <1>4, <1>5, <1>8 DEF Transfer, Finish
  <2>2. LibGood
    BY <1>1, <1>6, <2>1
  <2>3. \A u \in Insts : SameFiles(u)
    BY <1>7, <2>1 DEF SameFiles
  <2>4. RecordsKept
    BY <1>2, <2>3, ObjFor DEF RecordsKept, AsRecorded
  <2>5. QED
    BY <1>2, <1>3, <2>2, <2>4, StillFresh
<1>9. CASE GotInfo(t)
  <2> DEFINE y == [lib[t] EXCEPT !.info = TRUE]
  <2>1. SetLib(t, y) /\ y.info /\ lib[t].live /\ ~lib[t].info
    BY <1>4, <1>5, <1>9 DEF GotInfo
  <2> HIDE DEF y
  <2>2. LibGood
    BY <1>1, <1>6, <2>1
  <2>3. lib'[t].info /\ \A u \in Insts : u # t => SameFiles(u)
    BY <1>7, <2>1 DEF SameFiles
  <2>4. ASSUME NEW i \in Ids, torrents[i] # NoObj, tr[torrents[i]].t = t
        PROVE  Owed'
    BY <1>2, <2>1, <2>3, <2>4, AwaitedComes
  <2>5. RecordsKept \/ Owed'
    BY <1>2, <2>3, <2>4, ObjFor DEF RecordsKept, AsRecorded
  <2>6. QED
    BY <1>2, <1>3, <2>2, <2>5, StillFresh
<1>10. QED
  BY <1>1, <1>8, <1>9

LEMMA StutterFresh ==
  ASSUME Inv, Inv', FreshInv, UNCHANGED vars
  PROVE  FreshInv'
<1>1. /\ UNCHANGED <<torrents, tr, ninst, pc, loc, save, saveMu>>
      /\ UNCHANGED <<session, metainfo, restoring, closing>> /\ budget' = budget
      /\ UNCHANGED libVars /\ UNCHANGED <<torrents, tr, lib>>
  BY DEF vars, engineVars, saveVars, mainVars, diskVars, libVars
<1>2. LibGood /\ RecordsKept
  BY <1>1, KnownSame, RecordsSame DEF FreshInv, InstsMade
<1>3. QED
  BY <1>1, <1>2, StillFresh

-----------------------------------------------------------------------------
(* The calls clients make.                                                 *)

LEMMA CallFresh ==
  ASSUME Inv, Inv', FreshInv, NEW p \in Clients, NEW op, NEW c, NEW l, Call(p, op, c, l),
         l.op # "move", l.t <= ninst, c \notin {"save.meta", "save.write", "purge.swap"}
  PROVE  FreshInv'
<1>0. p \in Threads
  BY DEF Threads, Callers
<1>1. /\ pc[p] = "idle" /\ Goto(p, c) /\ SetLoc(p, l)
      /\ UNCHANGED <<torrents, tr, lib, ninst, client, metainfo, save>>
      /\ UNCHANGED <<saveMu, session, restoring, closing>>
      /\ budget' = [budget EXCEPT !.ops = @ - 1]
  BY DEF Call, At, engineVars, libVars, saveVars, diskVars, mainVars
<1>2. budget'.faults = budget.faults
  BY <1>1 DEF Inv, TypeOK, TallyTypes, Budget
<1>3. LocGood(p)
  <2>1. loc'[p] = l
    BY <1>0, <1>1, Lands
  <2>2. QED
    BY <1>1, <2>1 DEF LocGood
<1>4. QED
  BY <1>0, <1>1, <1>2, <1>3, FreeApart, GoesFresh DEF Aside

LEMMA FoundGood ==
  ASSUME Inv, FreshInv, NEW i \in Ids, torrents[i] # NoObj
  PROVE  Found(i) \in Locals /\ Found(i).op = "" /\ Found(i).t <= ninst
         /\ tr[torrents[i]].t <= ninst
<1>1. Found(i) \in Locals /\ Found(i).op = "" /\ Found(i).t = NoInst
  BY FoundFacts
<1>2. NoInst <= ninst
  BY LibFacts
<1>3. tr[torrents[i]].t <= ninst
  BY ObjFor DEF FreshInv, InstsMade
<1>4. QED
  BY <1>1, <1>2, <1>3

LEMMA ClientCallsFresh ==
  ASSUME Inv, Inv', FreshInv, "move" \notin Ops, NEW p \in Clients, ClientCalls(p)
  PROVE  FreshInv'
<1>1. CASE CallAdd(p)
  <2>1. PICK i \in Ids, opts \in AddOpts :
          Call(p, "add", "add.spec",
               [Loc0 EXCEPT !.id = i, !.dir = opts.dir, !.magnet = opts.magnet,
                            !.flag = opts.paused, !.pick = opts.pick, !.sel = opts.sel])
    BY <1>1 DEF CallAdd
  <2> DEFINE n == [Loc0 EXCEPT !.id = i, !.dir = opts.dir, !.magnet = opts.magnet,
                         !.flag = opts.paused, !.pick = opts.pick, !.sel = opts.sel]
  <2>2. n.op = "" /\ n.t = NoInst
    BY NullTypes DEF Locals
  <2> HIDE DEF n
  <2>3. Call(p, "add", "add.spec", n)
    BY <2>1 DEF n
  <2>4. NoInst <= ninst
    BY LibFacts
  <2>5. QED
    BY <2>2, <2>3, <2>4, CallFresh
<1>2. CASE CallSetPaused(p)
  <2>1. PICK i \in Ids, b \in BOOLEAN :
          torrents[i] # NoObj /\ Call(p, "pause", "pause.set", [Found(i) EXCEPT !.flag = b])
    BY <1>2 DEF CallSetPaused
  <2> DEFINE n == [Found(i) EXCEPT !.flag = b]
  <2>2. n.op = "" /\ n.t <= ninst
    <3>1. ASSUME NEW z \in Locals
          PROVE  [z EXCEPT !.flag = b].op = z.op /\ [z EXCEPT !.flag = b].t = z.t
      BY DEF Locals
    <3>2. QED
      BY <2>1, <3>1, FoundGood
  <2>3. Call(p, "pause", "pause.set", n)
    BY <2>1
  <2> HIDE DEF n
  <2>4. QED
    BY <2>2, <2>3, CallFresh
<1>3. CASE CallSetFilePriority(p)
  <2>1. PICK i \in Ids, f \in Files, q \in SetPrios :
          /\ torrents[i] # NoObj
          /\ Call(p, "prio", "prio.set", [Found(i) EXCEPT !.file = f, !.prio = q])
    BY <1>3 DEF CallSetFilePriority
  <2> DEFINE n == [Found(i) EXCEPT !.file = f, !.prio = q]
  <2>2. n.op = "" /\ n.t <= ninst
    <3>1. ASSUME NEW z \in Locals
          PROVE  [z EXCEPT !.file = f, !.prio = q].op = z.op /\ [z EXCEPT !.file = f, !.prio = q].t = z.t
      BY DEF Locals
    <3>2. QED
      BY <2>1, <3>1, FoundGood
  <2>3. Call(p, "prio", "prio.set", n)
    BY <2>1
  <2> HIDE DEF n
  <2>4. QED
    BY <2>2, <2>3, CallFresh
<1>4. CASE CallSetter(p)
  <2>1. PICK i \in Ids, op \in {"rate", "seed", "label"} :
          torrents[i] # NoObj /\ Call(p, op, op, Found(i))
    BY <1>4 DEF CallSetter
  <2>2. QED
    BY <2>1, CallFresh, FoundGood
<1>5. CASE CallPrepareStream(p)
  <2>1. PICK i \in Ids, f \in Files :
          /\ torrents[i] # NoObj
          /\ Call(p, "stream", "stream.paused",
                  [Found(i) EXCEPT !.file = f, !.t = tr[torrents[i]].t])
    BY <1>5 DEF CallPrepareStream
  <2> DEFINE n == [Found(i) EXCEPT !.file = f, !.t = tr[torrents[i]].t]
  <2>2. n.op = "" /\ n.t <= ninst
    <3>1. ASSUME NEW z \in Locals
          PROVE  [z EXCEPT !.file = f, !.t = tr[torrents[i]].t].op = z.op /\ [z EXCEPT !.file = f, !.t = tr[torrents[i]].t].t = tr[torrents[i]].t
      BY DEF Locals
    <3>2. QED
      BY <2>1, <3>1, FoundGood
  <2>3. Call(p, "stream", "stream.paused", n)
    BY <2>1
  <2> HIDE DEF n
  <2>4. QED
    BY <2>2, <2>3, CallFresh
<1>6. CASE CallForceRecheck(p)
  <2>1. PICK i \in Ids : torrents[i] # NoObj /\ Call(p, "recheck", "check.add", Found(i))
    BY <1>6 DEF CallForceRecheck
  <2>2. QED
    BY <2>1, CallFresh, FoundGood
<1>7. CASE CallStruct(p)
  <2>1. PICK i \in Ids, op \in {"remove", "purge", "move"}, d \in Dirs, b \in BOOLEAN :
          /\ torrents[i] # NoObj
          /\ Call(p, op, "op.lock", [Found(i) EXCEPT !.op = op, !.dir = d, !.flag = b])
    BY <1>7 DEF CallStruct
  <2> DEFINE n == [Found(i) EXCEPT !.op = op, !.dir = d, !.flag = b]
  <2>2. n.op = op /\ n.t <= ninst
    <3>1. ASSUME NEW z \in Locals
          PROVE  [z EXCEPT !.op = op, !.dir = d, !.flag = b].op = op /\ [z EXCEPT !.op = op, !.dir = d, !.flag = b].t = z.t
      BY DEF Locals
    <3>2. QED
      BY <2>1, <3>1, FoundGood
  <2>3. Call(p, op, "op.lock", n)
    BY <2>1
  <2> HIDE DEF n
  <2>4. QED
    BY <2>1, <2>2, <2>3, CallFresh DEF Call
<1>8. QED
  BY <1>1, <1>2, <1>3, <1>4, <1>5, <1>6, <1>7 DEF ClientCalls

-----------------------------------------------------------------------------
(* The step, and the theorem.                                              *)

LEMMA OpFresh ==
  ASSUME Inv, Inv', HoldInv, FreshInv, NEW p \in Threads, OpStep(p)
  PROVE  FreshInv'
<1>1. CASE AddStep(p)
  BY <1>1, AddSpecFresh, AddTrackFresh, AddSpawnFresh DEF AddStep
<1>2. CASE FieldStep(p)
  BY <1>2, PrioFresh, PrioChosenFresh, FieldsFresh DEF FieldStep
<1>3. CASE StructStep(p)
  BY <1>3, LockFresh, BeginFresh, RemoveFresh, PurgeFresh, NoMove DEF StructStep
<1>4. QED
  BY <1>1, <1>2, <1>3, ApplyFlowFresh, EndOpFresh, PersistFresh, PauseFresh, StreamFresh DEF OpStep

LEMMA ThreadFresh ==
  ASSUME Inv, Inv', HoldInv, FreshInv, NEW p \in Threads, ThreadStep(p)
  PROVE  FreshInv'
<1>1. CASE p \in Waiters \cup Checkers /\ GoroutineStep(p)
  <2>1. CASE CheckerStep(p)
    BY <2>1, VerifyFresh, CheckEndsFresh DEF CheckerStep
  <2>2. QED
    BY <1>1, <2>1, ApplyFlowFresh, PersistFresh, WaiterFresh DEF GoroutineStep
<1>2. CASE MainStep
  <2>1. CASE RestoreStep
    BY <2>1, RestoreReadFresh, RestoreNextFresh, RestoreFieldsFresh, RestorePriosFresh,
       RestoreDoneFresh DEF RestoreStep
  <2>2. QED
    BY <1>2, <2>1, NewFresh, CloseCancelFresh, ProcessEndsFresh DEF MainStep, CloseWait
<1>3. QED
  BY <1>1, <1>2, OpFresh, TickFresh DEF ThreadStep

LEMMA NextFresh ==
  ASSUME "move" \notin Ops
  PROVE  Inv /\ Inv' /\ HoldInv /\ FreshInv /\ [Next]_vars => FreshInv'
<1> SUFFICES ASSUME Inv, Inv', HoldInv, FreshInv, [Next]_vars PROVE FreshInv'
  OBVIOUS
<1>1. CASE Crash
  BY <1>1, ProcessEndsFresh DEF Crash
<1>2. CASE Idle \/ UNCHANGED vars
  BY <1>2, StutterFresh DEF Idle
<1>3. CASE Close
  BY <1>3, RestoreDoneFresh
<1>4. QED
  BY <1>1, <1>2, <1>3, ClientCallsFresh, ThreadFresh, NetworkFresh DEF Next

LEMMA FreshInvariance ==
  ASSUME "move" \notin Ops, MaxFaults = 0
  PROVE  Spec => []FreshInv
<1>1. Inv /\ Inv' /\ HoldInv /\ FreshInv /\ [Next]_vars => FreshInv'
  BY NextFresh
<1>2. Init => FreshInv
  BY InitFresh
<1>3. QED
  BY <1>1, <1>2, Invariance, HoldsInvariance, PTL DEF Spec

(* At rest nobody has anything to save.                                    *)
LEMMA QuietFresh ==
  ASSUME Inv, FreshInv
  PROVE  SessionFresh
<1> SUFFICES ASSUME Quiet, StateDir PROVE SavedAs(session) /\ ListedIn(metainfo)
  BY DEF SessionFresh, SavedAs, ListedIn
<1>1. pc[Main] = "up" /\ ~restoring /\ ~closing
  BY MainMoves DEF Quiet, Rest, Up, At
<1>2. ASSUME NEW q \in Threads PROVE pc[q] \in {"up", "idle", "off", "tick", "wait.info"}
  BY DEF Quiet, Rest, Up, At, Threads, Callers
<1>3. ASSUME NEW q \in Threads PROVE ~WillSave(q) /\ ~Saver(q)
  <2>1. Where(q) = pc[q] /\ pc[q] \notin OwesLabels
    BY <1>2 DEF Where, WhereOf, FlowLabels, SaveLabels, OwesLabels
  <2>2. pc[q] = "wait.info" => ~lib[loc[q].t].info
    BY ThreadsAssumption DEF Quiet, Rest, Up, At, Threads, Callers
  <2>3. QED
    BY <1>2, <2>1, <2>2 DEF WillSave, Saver
<1>4. ~Owed
  BY <1>1, <1>3 DEF Owed, Early, EarlyLabels
<1>5. saveMu = NoThread
  BY <1>3 DEF FreshInv, OneSave, Inv, TypeOK, SaveTypes
<1>6. QED
  BY <1>4, <1>5 DEF FreshInv, UpToDate

(* Where nothing moves a torrent and no file fails, session.json says, at  *)
(* rest, of every torrent what the engine does, and each one with metadata *)
(* has its metainfo file: whatever was called, and in whatever order the   *)
(* saves of those calls ran, the last to gather its records also writes    *)
(* last, and after every change someone is still to gather.                *)
THEOREM SessionUpToDate ==
  ASSUME "move" \notin Ops, MaxFaults = 0
  PROVE  Spec => []SessionFresh
<1>1. Inv /\ FreshInv => SessionFresh
  BY QuietFresh
<1>2. QED
  BY <1>1, FreshInvariance, Invariance, PTL
=============================================================================
