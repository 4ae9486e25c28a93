----------------------------- MODULE EngineDisk -----------------------------
(***************************************************************************)
(* For any torrents, clients, goroutines and restarts: as long as nothing  *)
(* removes a torrent and no disk call fails, session.json never loses one, *)
(* and every one it names can be added again; and what a restore puts back *)
(* is all that the file says.                                              *)
(*                                                                         *)
(* The first two are not inductive: what a save writes was gathered        *)
(* several steps before, what it leaves out depends on the engine tracking *)
(* everything the file names, and that on the restore having come first.   *)
(* DiskInv (EngineControl) says each of these: DraftOK of the save under   *)
(* way, SessionInv of the session and the records still to restore,        *)
(* EarlyInv of the process before its restore, SaversInv of saveMu,        *)
(* StructInfo and AddedInfo of the metadata that a metainfo file is        *)
(* written from.  The third is from RestoringInv: where the three kinds of *)
(* thread that work during a restore are, and what is done of each record. *)
(***************************************************************************)
EXTENDS EngineProofs

-----------------------------------------------------------------------------
(* What a step must show.                                                  *)

Stays(q) == pc'[q] = pc[q] /\ loc'[q] = loc[q] /\ save'[q] = save[q]

ThreadOK(q) == KeepsAll(pc[q], loc[q]) /\ AddedInfo(pc[q], loc[q]) /\ SavesOK(pc[q])

(* The labels a step other than those of persist and Main may put a thread *)
(* at.                                                                     *)
Fine(q) ==
  /\ pc'[q] \notin {"save.gather", "save.meta", "save.write"} \cup EarlyLabels
  /\ ThreadOK(q)'

Calm == \A q \in Threads : Stays(q) \/ Fine(q)

(* The same, of a step before the restore too.                             *)
Orderly ==
  \A q \in Threads :
    Stays(q) \/ (pc'[q] \notin {"save.gather", "save.meta", "save.write"} /\ ThreadOK(q)')

LibGood ==
  /\ KnownLib'
  /\ \A t \in Insts : lib[t].info => lib'[t].info

TrGood ==
  /\ \A i \in Ids : torrents[i] # NoObj =>
       torrents'[i] = torrents[i] /\ tr'[torrents[i]].magnet = tr[torrents[i]].magnet
  /\ StructInfo'

(* The restore gets on with its records, and ends with the last.           *)
RestoreGoes ==
  \/ /\ restoring' = restoring
     /\ restoring /\ budget'.faults = MaxFaults =>
          \A i \in Ids : rs'[i] = rs[i] \/ (rs'[i] = NoRec /\ torrents'[i] # NoObj)
  \/ ~restoring' /\ \A i \in Ids : rs[i] = NoRec

DiskSame ==
  /\ UNCHANGED <<session, metainfo, saveMu>> /\ RestoreGoes
  /\ budget'.faults <= budget.faults /\ budget'.faults \in Int

LEMMA MainKept ==
  ASSUME DiskInv, Stays(Main), TrGood, TypeOK
  PROVE  MainOK(Where(Main), loc[Main])'
<1>1. Where(Main)' = Where(Main) /\ loc'[Main] = loc[Main]
  BY DEF Stays, Where, WhereOf
<1>2. MainOK(Where(Main), loc[Main])
  BY DEF DiskInv
<1>3. loc[Main].id \in Ids
  BY DEF TypeOK, ThreadTypes, Locals, Threads, Callers
<1>4. QED
  BY <1>1, <1>2, <1>3 DEF MainOK, OnMain, TrGood

LEMMA ControlKept ==
  ASSUME DiskInv, Inv, Orderly, LibGood
  PROVE  ControlInv'
<1> SUFFICES ASSUME NEW q \in Threads PROVE ThreadOK(q)'
  BY DEF ControlInv, ThreadOK
<1>1. CASE ThreadOK(q)'
  BY <1>1
<1>2. CASE Stays(q)
  <2>1. KeepsAll(pc[q], loc[q]) /\ AddedInfo(pc[q], loc[q]) /\ SavesOK(pc[q])
    BY DEF DiskInv, ControlInv
  <2>2. \A t \in Insts : lib[t].info => lib'[t].info
    BY DEF LibGood
  <2>3. /\ pc[q] = "add.track" => loc[q].t \in Insts
        /\ pc[q] \in NeedsFresh => loc[q].ft \in Insts
    <3>1. loc[q] \in Locals /\ LocalOK(q, pc[q], loc[q], save[q].k, nobj)
      BY ThreadFacts
    <3>2. pc[q] = "add.track" => WhereOf(pc[q], loc[q], save[q].k) \in NeedsInst
      BY DEF WhereOf, FlowLabels, SaveLabels, NeedsInst
    <3>3. /\ pc[q] = "add.track" => loc[q].t # NoInst
          /\ pc[q] \in NeedsFresh => loc[q].ft # NoInst
      BY <3>1, <3>2 DEF LocalOK, PointersOK
    <3>4. QED
      BY <3>1, <3>3, LocalsFacts
  <2>4. KeepsAll(pc[q], loc[q])' /\ SavesOK(pc[q])'
    BY <1>2, <2>1 DEF Stays, KeepsAll, SavesOK
  <2>5. AddedInfo(pc[q], loc[q])'
    BY <1>2, <2>1, <2>2, <2>3 DEF Stays, AddedInfo
  <2>6. QED
    BY <2>4, <2>5 DEF ThreadOK
<1>3. QED
  BY <1>1, <1>2 DEF Orderly

(* Savers go on with what they have.                                       *)
LEMMA SaversKept ==
  ASSUME DiskInv, Orderly, DiskSame
  PROVE  SaversInv'
<1>1. ASSUME NEW q \in Threads, Saver(q)' \/ pc'[q] = "save.gather" PROVE Stays(q)
  BY <1>1 DEF Orderly, Saver
<1>2. restoring' => restoring
  BY DEF DiskSame, RestoreGoes
<1>3. QED
  BY <1>1, <1>2 DEF DiskInv, SaversInv, DiskSame, Saver, Stays

LEMMA SessionKept ==
  ASSUME DiskInv, Orderly, DiskSame, TrGood, TypeOK, SessionInv, Early' <=> Early,
         budget'.faults = MaxFaults
  PROVE  SessionInv'
<1>1. ASSUME NEW q \in Threads, Saver(q)' PROVE Stays(q) /\ Saver(q) /\ DraftOK(q)
  BY <1>1 DEF Orderly, Saver, Stays, SessionInv
<1>2. \A i \in Ids : torrents[i] # NoObj =>
        torrents'[i] # NoObj /\ tr'[torrents'[i]].magnet = tr[torrents[i]].magnet
  BY DEF TrGood
<1>3. ASSUME NEW q \in Threads, Saver(q)' PROVE DraftOK(q)'
  BY <1>1, <1>2, <1>3 DEF DraftOK, Stays, DiskSame
<1>4. ASSUME restoring'
      PROVE  \A i \in Ids : rs'[i] = session'[i] \/ (rs'[i] = NoRec /\ torrents'[i] # NoObj)
  BY <1>2, <1>4 DEF SessionInv, DiskSame, RestoreGoes
<1>5. ASSUME ~Early', ~restoring', StateDir
      PROVE  \A i \in Ids : session'[i] # NoRec => torrents'[i] # NoObj
  BY <1>2, <1>5 DEF SessionInv, DiskSame, RestoreGoes
<1>6. QED
  BY <1>3, <1>4, <1>5 DEF SessionInv, DiskSame

(* A step before the restore, or one that can only come after it.          *)
EarlyGood ==
  \/ ~Early /\ ~Early'
  \/ (Early <=> Early') /\ EarlyInv'

LEMMA DiskFrame ==
  ASSUME Inv, DiskInv, Orderly, LibGood, TrGood, DiskSame, EarlyGood,
         Stays(Main) \/ MainOK(Where(Main), loc[Main])'
  PROVE  DiskInv'
<1>1. TypeOK /\ Main \in Threads
  BY DEF Inv, Threads, Callers
<1>2. ControlInv' /\ SaversInv' /\ KnownLib' /\ StructInfo'
  BY ControlKept, SaversKept DEF LibGood, TrGood
<1>3. EarlyInv' /\ (Early' <=> Early)
  BY DEF EarlyGood, EarlyInv
<1>4. MainOK(Where(Main), loc[Main])'
  BY <1>1, MainKept
<1>5. /\ budget'.faults <= MaxFaults
      /\ budget'.faults = MaxFaults => budget.faults = MaxFaults
  <2>1. budget.faults \in Int /\ MaxFaults \in Int
    BY <1>1, BoundsAssumption DEF TypeOK, TallyTypes, Budget
  <2>2. QED
    BY <2>1 DEF DiskInv, DiskSame
<1>6. budget'.faults = MaxFaults => SessionInv'
  BY <1>1, <1>3, <1>5, SessionKept DEF DiskInv
<1>7. QED
  BY <1>2, <1>3, <1>4, <1>5, <1>6 DEF DiskInv

-----------------------------------------------------------------------------
(* The library.                                                            *)

LibKeeps(t, y) ==
  t \in Insts => /\ lib[t].info => y.info
                 /\ y.live \/ y.info => lib[t].live \/ lib[t].info

LEMMA LibFacts ==
  ASSUME Inv
  PROVE  /\ lib \in [Insts -> Instance] /\ client \in [Ids -> Insts \cup {NoInst}]
         /\ ninst \in Int /\ 0 <= ninst
         /\ Insts \subseteq Int /\ \A t \in Insts : 0 < t
         /\ NoInst = 0
BY BoundsAssumption DEF Inv, TypeOK, LibTypes, Insts, NoInst

LEMMA KnownSame ==
  ASSUME KnownLib, UNCHANGED libVars
  PROVE  LibGood
BY DEF KnownLib, libVars, LibGood

LEMMA LibSame ==
  ASSUME DiskInv, UNCHANGED libVars
  PROVE  LibGood
BY KnownSame DEF DiskInv

LEMMA KnownSet ==
  ASSUME Inv, KnownLib, NEW t, NEW y, SetLib(t, y), UNCHANGED <<ninst, client>>,
         LibKeeps(t, y)
  PROVE  LibGood
<1>1. \A u \in Insts : lib'[u] = IF u = t THEN y ELSE lib[u]
  BY LibFacts DEF SetLib
<1>2. QED
  BY <1>1 DEF KnownLib, LibGood, LibKeeps

LEMMA LibSet ==
  ASSUME Inv, DiskInv, NEW t, NEW y, SetLib(t, y), UNCHANGED <<ninst, client>>,
         LibKeeps(t, y)
  PROVE  LibGood
BY KnownSet DEF DiskInv

LEMMA KnownPrio ==
  ASSUME Inv, KnownLib, NEW t, NEW q, SetLib(t, [lib[t] EXCEPT !.prio = q]),
         UNCHANGED <<ninst, client>>
  PROVE  LibGood
<1> DEFINE y == [lib[t] EXCEPT !.prio = q]
<1>1. ASSUME NEW z \in Instance
      PROVE  [z EXCEPT !.prio = q].info = z.info /\ [z EXCEPT !.prio = q].live = z.live
  BY DEF Instance
<1>2. LibKeeps(t, y)
  BY <1>1, LibFacts DEF LibKeeps
<1> HIDE DEF y
<1>3. SetLib(t, y)
  BY DEF y
<1>4. QED
  BY <1>2, <1>3, KnownSet

LEMMA PrioGood ==
  ASSUME Inv, DiskInv, NEW t, NEW q, SetLib(t, [lib[t] EXCEPT !.prio = q]),
         UNCHANGED <<ninst, client>>
  PROVE  LibGood
BY KnownPrio DEF DiskInv

LEMMA KnownDrop ==
  ASSUME Inv, KnownLib, NEW t, Drop(t)
  PROVE  LibGood
<1>1. \A u \in Insts : lib'[u] = IF u = t THEN [lib[t] EXCEPT !.live = FALSE] ELSE lib[u]
  BY LibFacts DEF Drop, SetLib
<1>2. \A i \in Ids : client'[i] = client[i] \/ client'[i] = NoInst
  BY LibFacts DEF Drop
<1>3. ninst' = ninst
  BY DEF Drop
<1>4. \A u \in Insts : lib'[u].info = lib[u].info /\ (lib'[u].live => lib[u].live)
  <2>1. ASSUME NEW y \in Instance
        PROVE  [y EXCEPT !.live = FALSE].info = y.info /\ [y EXCEPT !.live = FALSE].live = FALSE
    BY DEF Instance
  <2>2. QED
    BY <1>1, <2>1, LibFacts
<1>5. \A u \in Insts : lib'[u].live \/ lib'[u].info => u <= ninst'
  BY <1>3, <1>4 DEF KnownLib
<1>6. \A i \in Ids : client'[i] <= ninst'
  BY <1>2, <1>3, LibFacts DEF KnownLib
<1>7. QED
  BY <1>4, <1>5, <1>6 DEF KnownLib, LibGood

LEMMA LibDrop ==
  ASSUME Inv, DiskInv, NEW t, Drop(t)
  PROVE  LibGood
BY KnownDrop DEF DiskInv

(* An added instance has the metadata it was added with.                   *)
LEMMA KnownAdd ==
  ASSUME Inv, KnownLib, NEW i \in Ids, NEW d, NEW b \in BOOLEAN, AddTorrentSpec(i, d, b)
  PROVE  LibGood /\ AddedInst(i) \in Insts /\ (b => lib'[AddedInst(i)].info)
<1>1. CASE client[i] # NoInst
  <2> DEFINE t == client[i]
  <2>1. AddedInst(i) = t /\ t \in Insts /\ ninst' = ninst
    BY <1>1, LibFacts DEF AddTorrentSpec, AddedInst
  <2>2. client' = [client EXCEPT ![i] = t]
    BY <2>1 DEF AddTorrentSpec
  <2>3. lib' = [lib EXCEPT ![t] = [lib[t] EXCEPT !.info = @ \/ b]]
    BY <1>1, <2>1 DEF AddTorrentSpec, SetLib
  <2>4. t <= ninst
    BY <2>1 DEF KnownLib
  <2>5. ASSUME NEW y \in Instance
        PROVE  [y EXCEPT !.info = @ \/ b].info = (y.info \/ b) /\ [y EXCEPT !.info = @ \/ b].live = y.live
    BY DEF Instance
  <2>6. lib[t] \in Instance
    BY <2>1, LibFacts
  <2> HIDE DEF t
  <2>7. \A u \in Insts : lib'[u] = IF u = t THEN [lib[t] EXCEPT !.info = @ \/ b] ELSE lib[u]
    BY <2>3, LibFacts
  <2>8. /\ \A u \in Insts : u # t => lib'[u] = lib[u]
        /\ lib'[t].info <=> (lib[t].info \/ b)
    BY <2>1, <2>5, <2>6, <2>7
  <2>9. \A k \in Ids : client'[k] = client[k] \/ client'[k] = t
    BY <2>2, LibFacts
  <2>10. KnownLib'
    BY <2>1, <2>4, <2>8, <2>9 DEF KnownLib
  <2>11. QED
    BY <2>1, <2>8, <2>10 DEF LibGood
<1>2. CASE client[i] = NoInst
  <2> DEFINE t == ninst + 1
             y == [id |-> i, dir |-> d, live |-> TRUE, info |-> b,
                   have |-> d \in data[i], down |-> TRUE, up |-> TRUE,
                   bytes |-> 0, prio |-> [f \in Files |-> "None"]]
  <2>1. AddedInst(i) = t /\ t \in Insts /\ ninst' = ninst + 1
    BY <1>2 DEF AddTorrentSpec, AddedInst
  <2>2. client' = [client EXCEPT ![i] = t]
    BY <2>1 DEF AddTorrentSpec
  <2>3. lib' = [lib EXCEPT ![t] = y]
    BY <1>2, <2>1 DEF AddTorrentSpec, SetLib
  <2>4. y.info = b
    OBVIOUS
  <2>5. ~(t <= ninst) /\ ninst <= ninst' /\ t = ninst'
    BY <2>1, LibFacts
  <2> HIDE DEF t, y
  <2>6. \A u \in Insts : lib'[u] = IF u = t THEN y ELSE lib[u]
    BY <2>3, LibFacts
  <2>7. ~lib[t].info
    BY <2>1, <2>5 DEF KnownLib
  <2>8. \A k \in Ids : client'[k] = client[k] \/ client'[k] = t
    BY <2>2, LibFacts
  <2>9. \A u \in Insts : u <= ninst => u <= ninst'
    BY <2>1, LibFacts
  <2>10. \A k \in Ids : client'[k] <= ninst'
    <3>1. \A k \in Ids : client[k] <= ninst /\ client[k] \in Int
      BY LibFacts DEF KnownLib
    <3>2. QED
      BY <2>1, <2>5, <2>8, <3>1, LibFacts
  <2>11. \A u \in Insts : lib'[u].live \/ lib'[u].info => u <= ninst'
    BY <2>5, <2>6, <2>9, LibFacts DEF KnownLib
  <2>12. QED
    BY <2>1, <2>4, <2>6, <2>7, <2>10, <2>11 DEF LibGood, KnownLib
<1>3. QED
  BY <1>1, <1>2

LEMMA LibAdd ==
  ASSUME Inv, DiskInv, NEW i \in Ids, NEW d, NEW b \in BOOLEAN, AddTorrentSpec(i, d, b)
  PROVE  LibGood /\ AddedInst(i) \in Insts /\ (b => lib'[AddedInst(i)].info)
BY KnownAdd DEF DiskInv

-----------------------------------------------------------------------------
(* The tracked structs.                                                    *)

LEMMA TrSame ==
  ASSUME Inv, DiskInv, LibGood, UNCHANGED <<torrents, tr>>
  PROVE  TrGood
<1>1. \A o \in Objs : tr[o].t \in Insts \cup {NoInst}
  BY DEF Inv, TypeOK, EngineTypes, Tracked
<1>2. QED
  BY <1>1 DEF DiskInv, StructInfo, LibGood, TrGood

(* A struct is assigned and keeps its instance, or gets one with metadata. *)
LEMMA TrSet ==
  ASSUME Inv, DiskInv, LibGood, UNCHANGED torrents, NEW o, NEW x, SetTr(o, x),
         o \in Objs => /\ x.magnet = tr[o].magnet
                       /\ x.t = tr[o].t \/ lib'[x.t].info
  PROVE  TrGood
<1>1. \A b \in Objs : tr[b].t \in Insts \cup {NoInst}
  BY DEF Inv, TypeOK, EngineTypes, Tracked
<1>2. \A b \in Objs : tr'[b] = IF b = o THEN x ELSE tr[b]
  BY DEF Inv, TypeOK, EngineTypes, SetTr
<1>3. \A i \in Ids : torrents[i] # NoObj => torrents[i] \in Objs
  BY ObjFor
<1>4. StructInfo'
  BY <1>1, <1>2 DEF DiskInv, StructInfo, LibGood
<1>5. QED
  BY <1>2, <1>3, <1>4 DEF TrGood

-----------------------------------------------------------------------------
(* One thread's step.                                                      *)

Watched == RemoveLabels \cup OpLabels \cup NeedsFresh \cup {"add.track"}
             \cup SaveLabels \cup EarlyLabels

(* To a label of which nothing is asked, or to persist.                    *)
Open(p) == pc'[p] \notin Watched \/ (pc'[p] = "save.check" /\ StateDir)

Resting(p) == pc[p] \in RestLabels \cup EarlyLabels

LEMMA WalksStays ==
  ASSUME Inv, NEW p \in Threads, Walks(p)
  PROVE  \A q \in Threads : q # p => Stays(q)
<1>0. ThreadTypes /\ SaveTypes
  BY ThreadFacts
<1>1. ASSUME NEW q \in Threads, q # p PROVE pc'[q] = pc[q]
  BY <1>0, <1>1 DEF Walks, Goto, ThreadTypes
<1>2. ASSUME NEW q \in Threads, q # p PROVE loc'[q] = loc[q]
  BY <1>0, <1>2 DEF Walks, SetLoc, ThreadTypes
<1>3. ASSUME NEW q \in Threads, q # p PROVE save'[q] = save[q]
  BY <1>0, <1>3 DEF Walks, SetSave, SaveTypes
<1>4. QED
  BY <1>1, <1>2, <1>3 DEF Stays

LEMMA OpenFine ==
  ASSUME NEW p, Open(p)
  PROVE  Fine(p)
<1>1. /\ pc'[p] \notin {"save.gather", "save.meta", "save.write"} \cup EarlyLabels
      /\ pc'[p] \notin RemoveLabels \cup OpLabels \cup NeedsFresh \cup {"add.track"}
      /\ pc'[p] \in SaveLabels => StateDir
  BY DEF Open, Watched, SaveLabels, EarlyLabels, RemoveLabels, OpLabels, NeedsFresh
<1>2. QED
  BY <1>1 DEF Fine, ThreadOK, KeepsAll, AddedInfo, SavesOK

LEMMA BusyEarly ==
  ASSUME DiskInv, Calm, NEW p \in Threads, ~Resting(p)
  PROVE  EarlyGood
<1>1. ~Early
  BY DEF DiskInv, EarlyInv, Early, Resting
<1>2. ~Early'
  BY <1>1 DEF Calm, Fine, Stays, Early, Threads, Callers
<1>3. QED
  BY <1>1, <1>2 DEF EarlyGood

LEMMA DiskStep ==
  ASSUME Inv, DiskInv, NEW p \in Threads, ~Resting(p), Walks(p), Fine(p),
         LibGood, TrGood, DiskSame, p = Main => MainOK(Where(Main), loc[Main])'
  PROVE  DiskInv'
<1>1. \A q \in Threads : q # p => Stays(q)
  BY WalksStays
<1>2. Calm /\ Orderly
  BY <1>1 DEF Calm, Orderly, Fine
<1>3. EarlyGood
  BY <1>2, BusyEarly
<1>4. Stays(Main) \/ MainOK(Where(Main), loc[Main])'
  BY <1>1 DEF Threads, Callers
<1>5. QED
  BY <1>2, <1>3, <1>4, DiskFrame

(* The main goroutine is only ever where it restores.                      *)
LEMMA NotMain ==
  ASSUME Inv, DiskInv, NEW p \in Threads, pc[p] \in (StructLabels \cup OtherLabels) \ MainLabels
  PROVE  p # Main
<1>1. pc[p] \notin FlowLabels /\ pc[p] \notin SaveLabels
  BY PlaceApart
<1>2. MainOK(Where(Main), loc[Main])
  BY DEF DiskInv
<1>3. QED
  BY <1>1, <1>2 DEF MainOK, OnMain, Where, WhereOf

(* The budget only shrinks.                                                *)
Spends ==
  \/ UNCHANGED budget \/ Fault
  \/ budget' = [budget EXCEPT !.ops = @ - 1]
  \/ budget' = [budget EXCEPT !.ticks = @ - TickCost]
  \/ budget' = [budget EXCEPT !.bytes = @ - 1]

LEMMA SpendsLess ==
  ASSUME Inv, Spends
  PROVE  budget'.faults <= budget.faults /\ budget'.faults \in Int
<1>1. budget \in Budget
  BY DEF Inv, TypeOK, TallyTypes
<1>2. QED
  BY <1>1 DEF Spends, Fault, Budget

LEMMA SameDisk ==
  ASSUME Inv, UNCHANGED <<session, metainfo, saveMu, restoring, rs>>, Spends
  PROVE  DiskSame
BY SpendsLess DEF DiskSame, RestoreGoes

-----------------------------------------------------------------------------
(* Pausing, and streams.                                                   *)

(* The fields of a struct that say nothing of its metadata.                *)
LEMMA TrField ==
  ASSUME NEW x \in Tracked, NEW a, NEW b
  PROVE  /\ [x EXCEPT !.paused = a].t = x.t /\ [x EXCEPT !.paused = a].magnet = x.magnet
         /\ [x EXCEPT !.chosenFiles = a].t = x.t /\ [x EXCEPT !.chosenFiles = a].magnet = x.magnet
         /\ [x EXCEPT !.seedLimit = a].t = x.t /\ [x EXCEPT !.seedLimit = a].magnet = x.magnet
         /\ [x EXCEPT !.label = a].t = x.t /\ [x EXCEPT !.label = a].magnet = x.magnet
         /\ [x EXCEPT !.base = a].t = x.t /\ [x EXCEPT !.base = a].magnet = x.magnet
         /\ [x EXCEPT !.savePath = a].t = x.t /\ [x EXCEPT !.savePath = a].magnet = x.magnet
         /\ [x EXCEPT !.upLimit = a, !.downLimit = b].t = x.t
         /\ [x EXCEPT !.upLimit = a, !.downLimit = b].magnet = x.magnet
         /\ [x EXCEPT !.holdData = a, !.paused = b].t = x.t
         /\ [x EXCEPT !.holdData = a, !.paused = b].magnet = x.magnet
         /\ [x EXCEPT !.cancelCheck = a, !.checking = b].t = x.t
         /\ [x EXCEPT !.cancelCheck = a, !.checking = b].magnet = x.magnet
         /\ [x EXCEPT !.lastErr = a, !.holdData = b].t = x.t
         /\ [x EXCEPT !.lastErr = a, !.holdData = b].magnet = x.magnet
BY DEF Tracked

LEMMA TrTyped == ASSUME Inv PROVE tr \in [Objs -> Tracked]
BY DEF Inv, TypeOK, EngineTypes

LEMMA PersistOpen ==
  ASSUME Inv, NEW p \in Threads, NEW k \in SaveNext \ Watched, Persist(p, k)
  PROVE  /\ Open(p)
         /\ \E c : Goto(p, c)
         /\ save' = save \/ \E s : SetSave(p, s)
         /\ Where(p)' = k
<1>1. \/ pc'[p] = k
      \/ pc'[p] = "save.check" /\ save'[p].k = k /\ StateDir
  <2>1. save[p] \in Saving
    BY ThreadFacts
  <2>2. [save[p] EXCEPT !.k = k].k = k
    BY <2>1 DEF Saving
  <2>3. QED
    BY <2>2, Lands DEF Persist
<1>2. Where(p)' = k
  BY <1>1, NextApart DEF Where, WhereOf, SaveLabels, FlowLabels
<1>3. QED
  BY <1>1, <1>2, PersistWalks DEF Open

LEMMA SaveNextOpen ==
  SaveNext \cap Watched = {}
BY SMTT(30) DEF SaveNext, Watched, RemoveLabels, OpLabels, NeedsFresh, SaveLabels, EarlyLabels

LEMMA PauseDisk ==
  ASSUME Inv, DiskInv, NEW p \in Threads, PauseStep(p)
  PROVE  DiskInv'
<1>1. pc[p] \in {"pause.set", "pause.chosen", "pause.mark", "pause.save"}
  BY DEF PauseStep, SetPaused, SetPausedChosen, SetPausedMark, SetPausedSave, At
<1>2. p # Main /\ ~Resting(p)
  <2>1. /\ pc[p] \in (StructLabels \cup OtherLabels) \ MainLabels
        /\ pc[p] \notin RestLabels \cup EarlyLabels
    BY <1>1, SMTT(30) DEF OtherLabels, MainLabels, AddLabels, DoneLabels, NextLabels, RestLabels, EarlyLabels
  <2>2. QED
    BY <2>1, NotMain DEF Resting
<1>3. DiskSame
  <2>1. UNCHANGED <<session, metainfo, saveMu, restoring, rs, budget>>
    BY DEF PauseStep, SetPaused, SetPausedChosen, SetPausedMark, SetPausedSave,
           diskVars, saveVars, mainVars
  <2>2. QED
    BY <2>1, SameDisk DEF Spends
<1>4. LibGood
  <2>1. CASE SetPausedMark(p)
    <3>1. UNCHANGED libVars
          \/ \E t, q : UNCHANGED <<ninst, client>> /\ SetLib(t, [lib[t] EXCEPT !.prio = q])
      BY <2>1 DEF SetPausedMark, MarkWanted, SetPrio, libVars
    <3>2. QED
      BY <3>1, LibSame, PrioGood
  <2>2. CASE UNCHANGED libVars
    BY <2>2, LibSame
  <2>3. QED
    BY <2>1, <2>2 DEF PauseStep, SetPaused, SetPausedChosen, SetPausedSave
<1>5. TrGood
  <2>1. CASE SetPaused(p)
    <3> DEFINE o == loc[p].o
               x == [tr[o] EXCEPT !.paused = loc[p].flag]
    <3>1. SetTr(o, x) /\ UNCHANGED torrents
      BY <2>1 DEF SetPaused
    <3>2. o \in Objs => x.magnet = tr[o].magnet /\ x.t = tr[o].t
      BY TrTyped, TrField
    <3> HIDE DEF o, x
    <3>3. QED
      BY <1>4, <3>1, <3>2, TrSet
  <2>2. CASE UNCHANGED <<torrents, tr>>
    BY <1>4, <2>2, TrSame
  <2>3. QED
    BY <2>1, <2>2 DEF PauseStep, SetPausedChosen, SetPausedMark, SetPausedSave, engineVars
<1>6. Walks(p) /\ Open(p)
  <2>1. CASE SetPausedSave(p)
    <3>1. Persist(p, "end") /\ UNCHANGED loc /\ "end" \in SaveNext \ Watched
      BY <2>1, SaveNextOpen DEF SetPausedSave, SaveNext
    <3>2. QED
      BY <3>1, PersistOpen DEF Walks
  <2>2. CASE ~SetPausedSave(p)
    <3>1. /\ Goto(p, "flow.down") \/ Goto(p, "pause.mark") \/ Goto(p, "pause.save")
          /\ UNCHANGED save /\ (UNCHANGED loc \/ \E l : SetLoc(p, l))
      BY <2>2, Zenon DEF PauseStep, SetPaused, SetPausedChosen, SetPausedMark, saveVars
    <3>2. \A c \in {"flow.down", "pause.mark", "pause.save"} : c \notin Watched
      BY SMTT(30) DEF Watched, RemoveLabels, OpLabels, NeedsFresh, SaveLabels, EarlyLabels
    <3>3. QED
      BY <3>1, <3>2, Lands DEF Walks, Open
  <2>3. QED
    BY <2>1, <2>2
<1>7. QED
  BY <1>2, <1>3, <1>4, <1>5, <1>6, OpenFine, DiskStep

-----------------------------------------------------------------------------
(* On to c, of which nothing is asked, or on to it through persist.        *)
LEMMA GoDisk ==
  ASSUME Inv, DiskInv, NEW p \in Threads, p # Main, ~Resting(p), LibGood, TrGood, DiskSame,
         NEW c, c \notin Watched, Goto(p, c), UNCHANGED save,
         UNCHANGED loc \/ \E l : SetLoc(p, l)
  PROVE  DiskInv'
<1>1. Walks(p) /\ Open(p)
  BY Lands DEF Walks, Open
<1>2. QED
  BY <1>1, OpenFine, DiskStep

LEMMA SaveDisk ==
  ASSUME Inv, DiskInv, NEW p \in Threads, p # Main, ~Resting(p), LibGood, TrGood, DiskSame,
         NEW k \in SaveNext, Persist(p, k), UNCHANGED loc \/ \E l : SetLoc(p, l)
  PROVE  DiskInv'
<1>1. k \in SaveNext \ Watched
  BY SaveNextOpen
<1>2. Walks(p) /\ Open(p)
  BY <1>1, PersistOpen DEF Walks
<1>3. QED
  BY <1>2, OpenFine, DiskStep

(* The main goroutine goes on with the torrent it is restoring.            *)
LEMMA MainGoes ==
  ASSUME Inv, DiskInv, TrGood, NEW c \in MainLabels, Where(Main)' = c,
         loc'[Main].id = loc[Main].id, loc'[Main].ret = loc[Main].ret,
         c \in AddLabels \cup DoneLabels => Where(Main) \in AddLabels \cup DoneLabels,
         c \in DoneLabels \cup NextLabels => Where(Main) \in DoneLabels \cup NextLabels
  PROVE  MainOK(Where(Main), loc[Main])'
<1>1. MainOK(Where(Main), loc[Main])
  BY DEF DiskInv
<1>2. loc[Main].id \in Ids
  BY MainThreads, Lands DEF Locals
<1>3. QED
  BY <1>1, <1>2 DEF MainOK, OnMain, TrGood

LEMMA NotResting ==
  ASSUME NEW p, pc[p] \notin RestLabels, pc[p] \notin EarlyLabels
  PROVE  ~Resting(p)
BY DEF Resting

LEMMA StreamDisk ==
  ASSUME Inv, DiskInv, NEW p \in Threads, StreamStep(p)
  PROVE  DiskInv'
<1>1. pc[p] \in {"stream.paused", "stream.resume", "stream.prio"}
  BY DEF StreamStep, PrepareStreamPaused, PrepareStreamResume, PrepareStreamPrio, At
<1>2. p # Main /\ ~Resting(p)
  <2>1. /\ pc[p] \in (StructLabels \cup OtherLabels) \ MainLabels
        /\ pc[p] \notin RestLabels \cup EarlyLabels
    BY <1>1, SMTT(30) DEF OtherLabels, MainLabels, AddLabels, DoneLabels, NextLabels, RestLabels, EarlyLabels
  <2>2. QED
    BY <2>1, NotMain DEF Resting
<1>3. UNCHANGED <<session, metainfo, saveMu, restoring, rs, budget>> /\ UNCHANGED save
      /\ UNCHANGED libVars /\ UNCHANGED <<torrents, tr>>
  BY DEF StreamStep, PrepareStreamPaused, PrepareStreamResume, PrepareStreamPrio,
         diskVars, saveVars, mainVars, engineVars
<1>4. DiskSame /\ LibGood /\ TrGood
  BY <1>3, SameDisk, LibSame, TrSame DEF Spends
<1>5. /\ \E c \in {"stream.resume", "stream.prio", "pause.set", "prio.set", "end"} : Goto(p, c)
      /\ UNCHANGED loc \/ \E l : SetLoc(p, l)
  BY DEF StreamStep, PrepareStreamPaused, PrepareStreamResume, PrepareStreamPrio
<1>6. \A c \in {"stream.resume", "stream.prio", "pause.set", "prio.set", "end"} : c \notin Watched
  BY SMTT(30) DEF Watched, RemoveLabels, OpLabels, NeedsFresh, SaveLabels, EarlyLabels
<1>7. QED
  BY <1>2, <1>3, <1>4, <1>5, <1>6, GoDisk

LEMMA FieldDisk ==
  ASSUME Inv, DiskInv, NEW p \in Threads, FieldStep(p)
  PROVE  DiskInv'
<1>1. pc[p] \in {"prio.set", "prio.chosen", "rate", "seed", "label"} /\ UNCHANGED loc
  BY DEF FieldStep, SetFilePriority, SetFilePriorityChosen, SetTorrentRateLimit,
         SetSeedLimit, SetLabel, At
<1>2. ~Resting(p)
  BY <1>1, NotResting DEF RestLabels, EarlyLabels
<1>3. DiskSame
  <2>1. UNCHANGED <<session, metainfo, saveMu, restoring, rs, budget>>
    BY DEF FieldStep, SetFilePriority, SetFilePriorityChosen, SetTorrentRateLimit,
           SetSeedLimit, SetLabel, diskVars, saveVars, mainVars
  <2>2. QED
    BY <2>1, SameDisk DEF Spends
<1>4. LibGood
  <2>1. CASE SetFilePriority(p)
    <3>1. UNCHANGED libVars
          \/ \E t, q : UNCHANGED <<ninst, client>> /\ SetLib(t, [lib[t] EXCEPT !.prio = q])
      BY <2>1 DEF SetFilePriority, SetPrio, libVars
    <3>2. QED
      BY <3>1, LibSame, PrioGood
  <2>2. CASE ~SetFilePriority(p)
    BY <2>2, LibSame DEF FieldStep, SetFilePriorityChosen, SetTorrentRateLimit, SetSeedLimit, SetLabel
  <2>3. QED
    BY <2>1, <2>2
<1>5. TrGood
  <2> DEFINE o == loc[p].o
  <2>0. UNCHANGED torrents /\ tr \in [Objs -> Tracked]
    BY TrTyped DEF FieldStep, SetFilePriority, SetFilePriorityChosen, SetTorrentRateLimit,
           SetSeedLimit, SetLabel, engineVars
  <2>1. CASE SetFilePriority(p)
    BY <1>4, <2>1, TrSame DEF SetFilePriority, engineVars
  <2>2. CASE SetFilePriorityChosen(p)
    <3>1. \E a : SetTr(o, [tr[o] EXCEPT !.chosenFiles = a])
      BY <2>2 DEF SetFilePriorityChosen
    <3> HIDE DEF o
    <3>2. QED
      BY <1>4, <2>0, <3>1, TrField, TrSet
  <2>3. CASE SetTorrentRateLimit(p)
    <3>1. PICK up \in {-1, 0, 1}, down \in {-1, 0, 1} :
            SetTr(o, [tr[o] EXCEPT !.upLimit = IF up >= 0 THEN up ELSE @,
                                   !.downLimit = IF down >= 0 THEN down ELSE @])
      BY <2>3 DEF SetTorrentRateLimit
    <3> DEFINE y == [tr[o] EXCEPT !.upLimit = IF up >= 0 THEN up ELSE @,
                                  !.downLimit = IF down >= 0 THEN down ELSE @]
    <3>2. ASSUME NEW x \in Tracked
          PROVE  LET z == [x EXCEPT !.upLimit = IF up >= 0 THEN up ELSE @,
                                    !.downLimit = IF down >= 0 THEN down ELSE @]
                 IN z.t = x.t /\ z.magnet = x.magnet
      BY DEF Tracked
    <3>3. o \in Objs => y.t = tr[o].t /\ y.magnet = tr[o].magnet
      BY <2>0, <3>2
    <3>4. SetTr(o, y)
      BY <3>1
    <3> HIDE DEF o, y
    <3>5. QED
      BY <1>4, <2>0, <3>3, <3>4, TrSet
  <2>4. CASE SetSeedLimit(p)
    <3>1. \E a : SetTr(o, [tr[o] EXCEPT !.seedLimit = a])
      BY <2>4 DEF SetSeedLimit
    <3> HIDE DEF o
    <3>2. QED
      BY <1>4, <2>0, <3>1, TrField, TrSet
  <2>5. CASE SetLabel(p)
    <3>1. \E a : SetTr(o, [tr[o] EXCEPT !.label = a])
      BY <2>5 DEF SetLabel
    <3> HIDE DEF o
    <3>2. QED
      BY <1>4, <2>0, <3>1, TrField, TrSet
  <2>6. QED
    BY <2>1, <2>2, <2>3, <2>4, <2>5 DEF FieldStep
<1>6. Walks(p) /\ Open(p) /\ Where(p)' \in {"prio.chosen", "end"}
  <2>1. CASE SetFilePriority(p)
    <3>1. /\ Goto(p, "prio.chosen") \/ Goto(p, "end")
          /\ UNCHANGED save
      BY <2>1 DEF SetFilePriority, saveVars
    <3>2. \A c \in {"prio.chosen", "end"} : c \notin Watched /\ c \notin FlowLabels
      BY SMTT(30) DEF Watched, RemoveLabels, OpLabels, NeedsFresh, SaveLabels, EarlyLabels, FlowLabels
    <3>3. pc'[p] \in {"prio.chosen", "end"}
      BY <3>1, Lands
    <3>4. Walks(p)
      BY <1>1, <3>1 DEF Walks
    <3>5. Where(p)' = pc'[p]
      BY <3>2, <3>3 DEF Where, WhereOf, Watched
    <3>6. QED
      BY <3>2, <3>3, <3>4, <3>5 DEF Open
  <2>2. CASE ~SetFilePriority(p)
    <3>1. Persist(p, "end") /\ "end" \in SaveNext \ Watched
      BY <2>2, SaveNextOpen DEF FieldStep, SetFilePriorityChosen, SetTorrentRateLimit,
                                SetSeedLimit, SetLabel, SaveNext
    <3>2. QED
      BY <1>1, <3>1, PersistOpen DEF Walks
  <2>3. QED
    BY <2>1, <2>2
<1>7. p = Main => MainOK(Where(Main), loc[Main])'
  <2> SUFFICES ASSUME p = Main PROVE MainOK(Where(Main), loc[Main])'
    OBVIOUS
  <2>1. Where(Main) = pc[Main] /\ pc[Main] \in MainLabels
    <3>1. pc[Main] \in OtherLabels
      BY <1>1 DEF OtherLabels
    <3>2. Where(Main) = pc[Main]
      BY <3>1, PlaceApart DEF Where, WhereOf
    <3>3. QED
      BY <3>2 DEF DiskInv, MainOK, OnMain
  <2>2. pc[Main] \in DoneLabels
    BY <1>1, <2>1 DEF MainLabels, AddLabels, NextLabels, DoneLabels
  <2>3. Where(Main)' \in MainLabels
    BY <1>6 DEF MainLabels, DoneLabels
  <2>4. QED
    BY <1>1, <1>5, <2>1, <2>2, <2>3, MainGoes
<1>8. QED
  BY <1>2, <1>3, <1>4, <1>5, <1>6, <1>7, OpenFine, DiskStep

LEMMA FlowNextOpen == FlowNext \cap Watched = {}
BY SMTT(30) DEF FlowNext, Watched, RemoveLabels, OpLabels, NeedsFresh, SaveLabels, EarlyLabels

LEMMA ApplyFlowDisk ==
  ASSUME Inv, DiskInv, NEW p \in Threads, ApplyFlowDown(p) \/ ApplyFlowUp(p)
  PROVE  DiskInv'
<1>1. /\ pc[p] \in FlowLabels
      /\ Goto(p, "flow.up") \/ Goto(p, loc[p].fk)
      /\ UNCHANGED loc /\ UNCHANGED save /\ UNCHANGED <<torrents, tr>>
      /\ UNCHANGED <<session, metainfo, saveMu, restoring, rs, budget>>
      /\ UNCHANGED <<ninst, client>>
  BY DEF ApplyFlowDown, ApplyFlowUp, At, FlowLabels, engineVars, saveVars, diskVars, mainVars
<1>2. ~Resting(p) /\ loc[p].fk \in FlowNext
  BY <1>1, ThreadFacts, NotResting DEF LocalOK, ReturnsOK, RestLabels, EarlyLabels, FlowLabels
<1>3. LibGood
  <2> DEFINE t == loc[p].ft
  <2>1. \E a : \/ SetLib(t, [lib[t] EXCEPT !.down = a])
               \/ SetLib(t, [lib[t] EXCEPT !.up = a])
    BY DEF ApplyFlowDown, ApplyFlowUp
  <2> HIDE DEF t
  <2>2. PICK a : \/ SetLib(t, [lib[t] EXCEPT !.down = a])
                 \/ SetLib(t, [lib[t] EXCEPT !.up = a])
    BY <2>1
  <2>3. ASSUME NEW y \in Instance
        PROVE  /\ [y EXCEPT !.down = a].info = y.info /\ [y EXCEPT !.down = a].live = y.live
               /\ [y EXCEPT !.up = a].info = y.info /\ [y EXCEPT !.up = a].live = y.live
    BY DEF Instance
  <2>4. LibKeeps(t, [lib[t] EXCEPT !.down = a]) /\ LibKeeps(t, [lib[t] EXCEPT !.up = a])
    BY <2>3, LibFacts DEF LibKeeps
  <2>5. QED
    BY <1>1, <2>2, <2>4, LibSet
<1>4. DiskSame /\ TrGood
  BY <1>1, <1>3, SameDisk, TrSame DEF Spends
<1>5. Walks(p) /\ Open(p) /\ Where(p)' = Where(p)
  <2>1. Walks(p)
    BY <1>1 DEF Walks
  <2>2. Where(p)' = Where(p)
    BY <1>1, <1>2, NextApart, Lands DEF Where, WhereOf, FlowLabels
  <2>3. "flow.up" \notin Watched
    BY SMTT(30) DEF Watched, RemoveLabels, OpLabels, NeedsFresh, SaveLabels, EarlyLabels
  <2>4. QED
    BY <1>1, <1>2, <2>1, <2>2, <2>3, FlowNextOpen, Lands DEF Open
<1>6. p = Main => MainOK(Where(Main), loc[Main])'
  <2>1. MainOK(Where(Main), loc[Main])
    BY DEF DiskInv
  <2>2. QED
    BY <1>1, <1>4, <1>5, <2>1, MainGoes DEF MainOK, OnMain
<1>7. QED
  BY <1>2, <1>3, <1>4, <1>5, <1>6, OpenFine, DiskStep

LEMMA RetNextOpen == RetNext \cap Watched = {}
BY SMTT(30) DEF RetNext, Watched, RemoveLabels, OpLabels, NeedsFresh, SaveLabels, EarlyLabels

LEMMA EndOpDisk ==
  ASSUME Inv, DiskInv, NEW p \in Threads, EndOp(p)
  PROVE  DiskInv'
<1>1. /\ pc[p] = "end" /\ Goto(p, loc[p].ret)
      /\ SetLoc(p, IF loc[p].ret = "idle" THEN Loc0 ELSE loc[p])
      /\ UNCHANGED save /\ UNCHANGED <<torrents, tr>> /\ UNCHANGED libVars
      /\ UNCHANGED <<session, metainfo, saveMu, restoring, rs, budget>>
  BY DEF EndOp, Return, At, saveVars, diskVars, mainVars
<1>2. ~Resting(p) /\ loc[p].ret \in RetNext
  BY <1>1, NotResting, Lands DEF RestLabels, EarlyLabels, Locals
<1>3. LibGood /\ TrGood /\ DiskSame
  BY <1>1, SameDisk, LibSame, TrSame DEF Spends
<1>4. Walks(p) /\ Open(p)
  BY <1>1, <1>2, RetNextOpen, Lands DEF Walks, Open
<1>5. p = Main => MainOK(Where(Main), loc[Main])'
  <2> SUFFICES ASSUME p = Main PROVE MainOK(Where(Main), loc[Main])'
    OBVIOUS
  <2>1. Where(Main) = "end" /\ MainOK(Where(Main), loc[Main])
    BY <1>1 DEF DiskInv, Where, WhereOf, FlowLabels, SaveLabels
  <2>2. loc[Main].ret \in {"restore.limits", "restore.prios"}
    BY <2>1 DEF MainOK, OnMain, DoneLabels
  <2>3. pc'[Main] = loc[Main].ret /\ loc'[Main] = loc[Main]
    BY <1>1, <2>2, Lands
  <2>4. Where(Main)' \in NextLabels
    BY <2>2, <2>3 DEF Where, WhereOf, FlowLabels, SaveLabels, NextLabels
  <2>5. Where(Main)' \notin AddLabels \cup DoneLabels /\ Where(Main)' \in MainLabels
        /\ Where(Main) \in DoneLabels
    BY <2>1, <2>4 DEF NextLabels, AddLabels, DoneLabels, MainLabels
  <2>6. QED
    BY <1>3, <2>3, <2>5, MainGoes
<1>6. QED
  BY <1>2, <1>3, <1>4, <1>5, OpenFine, DiskStep

-----------------------------------------------------------------------------
(* Adding.                                                                 *)

LEMMA AddSpecDisk ==
  ASSUME Inv, DiskInv, NEW p \in Threads, AddSpec(p)
  PROVE  DiskInv'
<1> DEFINE l == [loc[p] EXCEPT !.t = AddedInst(loc[p].id)]
<1>1. /\ pc[p] = "add.spec" /\ Goto(p, "add.track") /\ SetLoc(p, l)
      /\ UNCHANGED save /\ UNCHANGED <<torrents, tr>>
      /\ UNCHANGED <<session, metainfo, saveMu, restoring, rs, budget>>
      /\ AddTorrentSpec(loc[p].id, loc[p].dir, ~loc[p].magnet)
  BY DEF AddSpec, At, saveVars, diskVars, mainVars, engineVars
<1>2. /\ loc[p] \in Locals /\ loc[p].id \in Ids /\ loc[p].magnet \in BOOLEAN
  BY Lands DEF Locals
<1>3. /\ l.t = AddedInst(loc[p].id) /\ l.magnet = loc[p].magnet
      /\ l.id = loc[p].id /\ l.ret = loc[p].ret
  BY <1>2 DEF Locals
<1>4. LibGood /\ (~loc[p].magnet => lib'[AddedInst(loc[p].id)].info)
  BY <1>1, <1>2, LibAdd
<1>5. DiskSame /\ TrGood
  BY <1>1, <1>4, SameDisk, TrSame DEF Spends
<1>6. pc'[p] = "add.track" /\ loc'[p] = l
  BY <1>1, Lands
<1> HIDE DEF l
<1>7. Walks(p) /\ ~Resting(p)
  BY <1>1, NotResting DEF Walks, RestLabels, EarlyLabels
<1>8. Fine(p)
  BY <1>3, <1>4, <1>6 DEF Fine, ThreadOK, KeepsAll, AddedInfo, SavesOK, EarlyLabels,
                          RemoveLabels, OpLabels, NeedsFresh, SaveLabels
<1>9. p = Main => MainOK(Where(Main), loc[Main])'
  <2>1. p = Main => Where(Main) = "add.spec" /\ Where(Main)' = "add.track"
    BY <1>1, <1>6 DEF Where, WhereOf, FlowLabels, SaveLabels
  <2>2. /\ {"add.spec", "add.track"} \subseteq AddLabels /\ "add.track" \in MainLabels
        /\ "add.track" \notin DoneLabels \cup NextLabels
    BY DEF AddLabels, MainLabels, DoneLabels, NextLabels
  <2>3. QED
    BY <1>3, <1>5, <1>6, <2>1, <2>2, MainGoes
<1>10. QED
  BY <1>4, <1>5, <1>7, <1>8, <1>9, DiskStep

LEMMA DecideKeeps ==
  ASSUME NEW l \in Locals, NEW x, NEW k
  PROVE  /\ Decide(l, x, k).id = l.id /\ Decide(l, x, k).ret = l.ret
         /\ Decide(l, x, k).fk = k
BY DEF Decide, Locals

(* The struct an add tracks has its metadata, or is a magnet's.            *)
LEMMA TrackGood ==
  ASSUME Inv, DiskInv, NEW p \in Threads, AddTrack(p)
  PROVE  TrGood /\ torrents'[loc[p].id] # NoObj
<1> DEFINE i == loc[p].id
           o == IF torrents[i] # NoObj THEN torrents[i] ELSE nobj + 1
           x == IF torrents[i] # NoObj
                THEN [tr[o] EXCEPT !.paused = @ \/ loc[p].flag]
                ELSE NewTracked(loc[p].t, loc[p].dir, loc[p].magnet, loc[p].flag)
<1>1. /\ pc[p] = "add.track" /\ o \in Objs /\ SetTr(o, x)
      /\ torrents' = [torrents EXCEPT ![i] = o] /\ UNCHANGED lib
  BY Zenon DEF AddTrack, At, libVars
<1>2. i \in Ids /\ loc[p] \in Locals
  BY Lands DEF Locals
<1>3. /\ torrents \in [Ids -> Objs \cup {NoObj}] /\ tr \in [Objs -> Tracked]
      /\ nobj \in Int
  BY ThreadFacts DEF EngineTypes
<1>4. /\ torrents[i] # NoObj => o = torrents[i] /\ x.t = tr[o].t /\ x.magnet = tr[o].magnet
      /\ torrents[i] = NoObj => o = nobj + 1 /\ x.t = loc[p].t /\ x.magnet = loc[p].magnet
  <2>1. CASE torrents[i] # NoObj
    <3>1. o = torrents[i] /\ tr[o] \in Tracked
      BY <1>2, <2>1, ObjFor
    <3>2. x = [tr[o] EXCEPT !.paused = @ \/ loc[p].flag]
      BY <2>1
    <3> HIDE DEF x, o
    <3>3. ASSUME NEW y \in Tracked
          PROVE  /\ [y EXCEPT !.paused = @ \/ loc[p].flag].t = y.t
                 /\ [y EXCEPT !.paused = @ \/ loc[p].flag].magnet = y.magnet
      BY DEF Tracked
    <3>4. QED
      BY <2>1, <3>1, <3>2, <3>3
  <2>2. CASE torrents[i] = NoObj
    BY <2>2 DEF NewTracked
  <2>3. QED
    BY <2>1, <2>2
<1>5. torrents[i] = NoObj => (~loc[p].magnet => lib[loc[p].t].info)
  BY <1>1 DEF DiskInv, ControlInv, AddedInfo
<1>6. torrents[i] = NoObj => \A j \in Ids : torrents[j] # o
  BY <1>3, <1>4, ObjFor
<1> HIDE DEF o, x, i
<1>7. \A b \in Objs : tr'[b] = IF b = o THEN x ELSE tr[b]
  BY <1>1, <1>3 DEF SetTr
<1>8. \A j \in Ids : torrents'[j] = IF j = i THEN o ELSE torrents[j]
  BY <1>1, <1>3
<1>9. StructInfo'
  BY <1>1, <1>4, <1>5, <1>7 DEF DiskInv, StructInfo
<1>10. ASSUME NEW j \in Ids, torrents[j] # NoObj
       PROVE  torrents'[j] = torrents[j] /\ tr'[torrents[j]].magnet = tr[torrents[j]].magnet
  <2>1. torrents'[j] = torrents[j] /\ torrents[j] \in Objs
    BY <1>3, <1>4, <1>8, <1>10
  <2>2. CASE torrents[j] = o
    BY <1>1, <1>4, <1>6, <1>7, <2>2
  <2>3. CASE torrents[j] # o
    BY <1>7, <2>1, <2>3
  <2>4. QED
    BY <2>1, <2>2, <2>3
<1>11. torrents'[i] # NoObj
  BY <1>1, <1>2, <1>8, BoundsAssumption DEF Objs, NoObj
<1>12. QED
  BY <1>9, <1>10, <1>11 DEF TrGood, i

LEMMA AddTrackDisk ==
  ASSUME Inv, DiskInv, NEW p \in Threads, AddTrack(p)
  PROVE  DiskInv'
<1>1. /\ pc[p] = "add.track" /\ Goto(p, "flow.down")
      /\ \E x : SetLoc(p, Decide(loc[p], x, "add.spawn"))
      /\ UNCHANGED save /\ UNCHANGED libVars
      /\ UNCHANGED <<session, metainfo, saveMu, restoring, rs, budget>>
  BY DEF AddTrack, At, saveVars, diskVars, mainVars
<1>2. LibGood /\ DiskSame
  BY <1>1, LibSame, SameDisk DEF Spends
<1>3. TrGood /\ torrents'[loc[p].id] # NoObj
  BY TrackGood
<1>4. Walks(p) /\ ~Resting(p)
  BY <1>1, NotResting DEF Walks, RestLabels, EarlyLabels
<1>5. /\ pc'[p] = "flow.down" /\ loc'[p].id = loc[p].id /\ loc'[p].ret = loc[p].ret
      /\ loc'[p].fk = "add.spawn"
  BY <1>1, DecideKeeps, Lands
<1>6. Open(p)
  BY <1>5, SMTT(30) DEF Open, Watched, RemoveLabels, OpLabels, NeedsFresh, SaveLabels, EarlyLabels
<1>7. p = Main => MainOK(Where(Main), loc[Main])'
  <2> SUFFICES ASSUME p = Main PROVE MainOK(Where(Main), loc[Main])'
    OBVIOUS
  <2>1. Where(Main) = "add.track" /\ Where(Main)' = "add.spawn"
    BY <1>1, <1>5 DEF Where, WhereOf, FlowLabels, SaveLabels
  <2>2. MainOK(Where(Main), loc[Main])
    BY DEF DiskInv
  <2>3. loc[Main].ret \in {"restore.limits", "restore.prios"}
    BY <2>1, <2>2 DEF MainOK, OnMain, AddLabels
  <2>4. QED
    BY <1>3, <1>5, <2>1, <2>3 DEF MainOK, OnMain, MainLabels, DoneLabels
<1>8. QED
  BY <1>2, <1>3, <1>4, <1>6, <1>7, OpenFine, DiskStep

LEMMA AddSpawnDisk ==
  ASSUME Inv, DiskInv, NEW p \in Threads, AddSpawn(p)
  PROVE  DiskInv'
<1> DEFINE w == CHOOSE x \in Waiters : At(x, "off")
<1>1. /\ w \in Waiters /\ SetLoc(w, [loc[p] EXCEPT !.ret = "off"])
      /\ \/ /\ StateDir /\ pc' = [pc EXCEPT ![p] = "save.check", ![w] = "wait.info"]
            /\ SetSave(p, [save[p] EXCEPT !.k = "end"])
         \/ /\ pc' = [pc EXCEPT ![p] = "end", ![w] = "wait.info"]
            /\ UNCHANGED save
      /\ UNCHANGED <<torrents, tr>> /\ pc[p] = "add.spawn" /\ pc[w] = "off"
      /\ UNCHANGED libVars
      /\ UNCHANGED <<session, metainfo, saveMu, restoring, rs, budget>>
  BY DEF AddSpawn, At, engineVars, diskVars, mainVars
<1> HIDE DEF w
<1>2. w # p /\ w # Main /\ w \in Threads
  BY <1>1, ThreadsAssumption DEF Threads
<1>3. ThreadTypes /\ SaveTypes
  BY ThreadFacts
<1>4. LibGood /\ DiskSame /\ TrGood
  BY <1>1, LibSame, SameDisk, TrSame DEF Spends
<1>5. ASSUME NEW q \in Threads, q # p, q # w PROVE Stays(q)
  <2>1. pc'[q] = pc[q]
    BY <1>1, <1>2, <1>3, <1>5 DEF ThreadTypes
  <2>2. loc'[q] = loc[q] /\ save'[q] = save[q]
    BY <1>1, <1>3, <1>5 DEF ThreadTypes, SaveTypes, SetLoc, SetSave
  <2>3. QED
    BY <2>1, <2>2 DEF Stays
<1>6. /\ pc'[w] = "wait.info"
      /\ \/ StateDir /\ pc'[p] = "save.check" /\ save'[p].k = "end"
         \/ pc'[p] = "end"
      /\ loc'[p] = loc[p]
  <2>1. [save[p] EXCEPT !.k = "end"].k = "end"
    BY ThreadFacts DEF Saving
  <2>2. loc'[p] = loc[p]
    BY <1>1, <1>2, <1>3 DEF ThreadTypes, SetLoc
  <2>3. SetSave(p, [save[p] EXCEPT !.k = "end"]) => save'[p] = [save[p] EXCEPT !.k = "end"]
    BY Lands
  <2>4. QED
    BY <1>1, <1>2, <1>3, <2>1, <2>2, <2>3 DEF ThreadTypes
<1>7. Open(w) /\ Open(p)
  <2>1. "wait.info" \notin Watched /\ "end" \notin Watched
    BY SMTT(30) DEF Watched, RemoveLabels, OpLabels, NeedsFresh, SaveLabels, EarlyLabels
  <2>2. QED
    BY <1>6, <2>1 DEF Open
<1>8. Calm /\ Orderly
  BY <1>5, <1>7, OpenFine DEF Calm, Orderly, Fine
<1>9. EarlyGood
  <2>1. ~Resting(p)
    BY <1>1, NotResting DEF RestLabels, EarlyLabels
  <2>2. QED
    BY <1>8, <2>1, BusyEarly
<1>10. Stays(Main) \/ MainOK(Where(Main), loc[Main])'
  <2>1. CASE p # Main
    BY <1>2, <1>5, <2>1, MainThreads
  <2>2. CASE p = Main
    <3>1. Where(Main) = "add.spawn" /\ Where(Main)' = "end"
      BY <1>1, <1>6, <2>2 DEF Where, WhereOf, FlowLabels, SaveLabels
    <3>2. {"add.spawn", "end"} \subseteq DoneLabels /\ "end" \in MainLabels
      BY DEF DoneLabels, MainLabels
    <3>3. QED
      BY <1>4, <1>6, <2>2, <3>1, <3>2, MainGoes
  <2>3. QED
    BY <2>1, <2>2
<1>11. QED
  BY <1>4, <1>8, <1>9, <1>10, DiskFrame

-----------------------------------------------------------------------------
(* Saving.                                                                 *)

LEMMA SavingFields ==
  ASSUME Inv, NEW p \in Threads, NEW d
  PROVE  /\ SetSave(p, [save[p] EXCEPT !.draft = d]) =>
              save'[p].draft = d /\ save'[p].k = save[p].k
         /\ SetSave(p, [save[p] EXCEPT !.todo = d]) =>
              save'[p].todo = d /\ save'[p].draft = save[p].draft /\ save'[p].k = save[p].k
<1>1. ASSUME NEW s \in Saving
      PROVE  /\ [s EXCEPT !.draft = d].draft = d /\ [s EXCEPT !.draft = d].k = s.k
             /\ [s EXCEPT !.todo = d].todo = d /\ [s EXCEPT !.todo = d].draft = s.draft
             /\ [s EXCEPT !.todo = d].k = s.k
  BY DEF Saving
<1>2. save[p] \in Saving
  BY ThreadFacts
<1>3. QED
  BY <1>1, <1>2, Lands

LEMMA FaultSpends == ASSUME Inv, Fault PROVE budget' # budget
BY DEF Inv, TypeOK, TallyTypes, Budget, Fault

(* A thread that saves goes on saving, or to where it goes on then.        *)
LEMMA PersistPlace ==
  ASSUME Inv, DiskInv, NEW p \in Threads, PersistStep(p)
  PROVE  /\ pc[p] \in SaveLabels /\ StateDir /\ save[p].k \in SaveNext
         /\ UNCHANGED loc /\ UNCHANGED <<torrents, tr>> /\ UNCHANGED libVars
         /\ UNCHANGED <<restoring, rs>> /\ (UNCHANGED budget \/ Fault)
         /\ pc'[p] = save[p].k \/ pc'[p] \in SaveLabels
         /\ Where(p)' = Where(p)
         /\ \A q \in Threads : q # p => Stays(q)
<1> USE DEF PersistCheck, SaveGather, SaveMetaCollect, SaveMetaWrite, SaveWrite, SaveDirFails
<1>1. /\ pc[p] \in SaveLabels /\ UNCHANGED loc /\ UNCHANGED <<torrents, tr>>
      /\ UNCHANGED libVars /\ UNCHANGED <<restoring, rs>>
      /\ save' = save \/ \E s : SetSave(p, s)
      /\ UNCHANGED pc \/ \E c : Goto(p, c)
      /\ UNCHANGED budget \/ Fault
  BY DEF PersistStep, At, SaveLabels, engineVars, mainVars, Fault
<1>2. save[p].k \in SaveNext /\ save[p] \in Saving /\ StateDir
  BY <1>1, ThreadFacts DEF LocalOK, ReturnsOK, DiskInv, ControlInv, SavesOK
<1>3. Walks(p)
  BY <1>1 DEF Walks
<1>4. \/ pc'[p] \in SaveLabels /\ save'[p].k = save[p].k
      \/ pc'[p] = save[p].k
  <2>1. CASE PersistCheck(p) \/ SaveWrite(p) \/ SaveDirFails(p)
    BY <2>1, Lands DEF SaveLabels
  <2>2. CASE SaveGather(p) \/ SaveMetaCollect(p)
    <3>1. \E d : \/ SetSave(p, [save[p] EXCEPT !.draft = d])
                 \/ SetSave(p, [save[p] EXCEPT !.todo = d])
      BY <2>2
    <3>2. pc'[p] \in SaveLabels
      BY <2>2, Lands DEF SaveLabels
    <3>3. QED
      BY <3>1, <3>2, SavingFields
  <2>3. CASE SaveMetaWrite(p)
    <3>1. UNCHANGED pc /\ \E d : SetSave(p, [save[p] EXCEPT !.todo = d])
      BY <2>3
    <3>2. QED
      BY <1>1, <3>1, SavingFields
  <2>4. QED
    BY <2>1, <2>2, <2>3 DEF PersistStep
<1>5. Where(p)' = Where(p)
  BY <1>1, <1>2, <1>4, NextApart DEF Where, WhereOf
<1>6. QED
  BY <1>1, <1>2, <1>3, <1>4, <1>5, WalksStays

(* All but the session is as with any other step.                          *)
LEMMA PersistRest ==
  ASSUME Inv, DiskInv, NEW p \in Threads, PersistStep(p)
  PROVE  /\ ControlInv' /\ KnownLib' /\ StructInfo' /\ EarlyInv' /\ ~Early /\ ~Early'
         /\ MainOK(Where(Main), loc[Main])'
         /\ budget'.faults <= MaxFaults
         /\ budget'.faults = MaxFaults => budget.faults = MaxFaults /\ UNCHANGED budget
<1>1. LibGood /\ TrGood
  BY PersistPlace, LibSame, TrSame
<1>2. ~Early
  BY PersistPlace DEF DiskInv, EarlyInv, Early, EarlyLabels, RestLabels, SaveLabels
<1>3. pc'[p] \notin Watched \/ (pc'[p] \in SaveLabels /\ StateDir)
  BY PersistPlace, SaveNextOpen
<1>4. ~Early'
  <2>1. pc'[p] \notin EarlyLabels
    BY <1>3 DEF Watched, SaveLabels, EarlyLabels
  <2>2. QED
    BY <1>2, <2>1, PersistPlace, MainThreads DEF Early, Stays
<1>5. ControlInv'
  <2> SUFFICES ASSUME NEW q \in Threads PROVE ThreadOK(q)'
    BY DEF ControlInv, ThreadOK
  <2>1. CASE q = p
    BY <1>3, <2>1, SMTT(30) DEF ThreadOK, KeepsAll, AddedInfo, SavesOK, Watched, SaveLabels, EarlyLabels,
                      RemoveLabels, OpLabels, NeedsFresh
  <2>2. CASE q # p
    <3>1. Stays(q) /\ UNCHANGED libVars
      BY <2>2, PersistPlace
    <3>2. ThreadOK(q)
      BY DEF DiskInv, ControlInv, ThreadOK
    <3>3. QED
      BY <3>1, <3>2 DEF ThreadOK, KeepsAll, AddedInfo, SavesOK, Stays, libVars
  <2>3. QED
    BY <2>1, <2>2
<1>6. MainOK(Where(Main), loc[Main])'
  <2>1. Where(Main)' = Where(Main) /\ loc'[Main] = loc[Main]
    BY PersistPlace, MainThreads DEF Stays, Where, WhereOf
  <2>2. QED
    BY <1>1, <2>1, MainGoes DEF DiskInv, MainOK, OnMain
<1>7. /\ budget'.faults <= MaxFaults
      /\ budget'.faults = MaxFaults => budget.faults = MaxFaults /\ UNCHANGED budget
  <2>1. budget \in Budget /\ MaxFaults \in Int /\ budget.faults <= MaxFaults
    BY BoundsAssumption DEF Inv, TypeOK, TallyTypes, DiskInv
  <2>2. UNCHANGED budget \/ Fault
    BY PersistPlace
  <2>3. QED
    BY <2>1, <2>2 DEF Budget, Fault
<1>8. QED
  BY <1>1, <1>2, <1>4, <1>5, <1>6, <1>7 DEF LibGood, TrGood, EarlyInv

(* One thread at a time writes.                                            *)
LEMMA OneSaver ==
  ASSUME Inv, DiskInv, NEW p \in Threads, Saver(p)
  PROVE  ~restoring /\ \A q \in Threads : Saver(q) => q = p
BY DEF DiskInv, SaversInv

LEMMA NoSaver ==
  ASSUME DiskInv, saveMu = NoThread
  PROVE  \A q \in Threads : ~Saver(q)
BY ThreadsAssumption DEF DiskInv, SaversInv

LEMMA SaversGood ==
  ASSUME Inv, DiskInv, NEW p \in Threads, PersistStep(p)
  PROVE  SaversInv'
<1>0. /\ UNCHANGED restoring /\ save[p].k \in SaveNext
      /\ \A q \in Threads : q # p => Stays(q)
  BY PersistPlace
<1>1. \A q \in Threads : q # p => (Saver(q)' <=> Saver(q)) /\ pc'[q] = pc[q]
  BY <1>0 DEF Stays, Saver
<1>2. \A k \in SaveNext : k \notin {"save.gather", "save.meta", "save.write"}
  BY SMTT(30) DEF SaveNext
<1>3. CASE PersistCheck(p)
  <2>1. /\ UNCHANGED saveMu
        /\ IF restoring THEN pc'[p] = save[p].k ELSE pc'[p] = "save.gather"
    BY <1>3, Lands DEF PersistCheck
  <2>2. QED
    BY <1>0, <1>1, <1>2, <2>1 DEF DiskInv, SaversInv, Saver
<1>4. CASE SaveGather(p)
  <2>1. saveMu = NoThread /\ saveMu' = p /\ pc[p] = "save.gather" /\ pc'[p] = "save.meta"
    BY <1>4, Lands DEF SaveGather, At
  <2>2. ~restoring
    BY <2>1 DEF DiskInv, SaversInv
  <2>3. QED
    BY <1>0, <1>1, <2>1, <2>2, NoSaver DEF SaversInv
<1>5. CASE SaveMetaCollect(p) \/ SaveMetaWrite(p)
  <2>1. Saver(p) /\ UNCHANGED saveMu
    BY <1>5 DEF SaveMetaCollect, SaveMetaWrite, At, Saver, saveVars
  <2>2. saveMu = p
    BY <2>1 DEF DiskInv, SaversInv
  <2>3. QED
    BY <1>0, <1>1, <2>1, <2>2, OneSaver DEF SaversInv
<1>6. CASE SaveWrite(p) \/ SaveDirFails(p)
  <2>1. Saver(p) /\ pc'[p] = save[p].k
    BY <1>6, Lands DEF SaveWrite, SaveDirFails, At, Saver
  <2>2. ~Saver(p)' /\ pc'[p] # "save.gather"
    BY <1>0, <1>2, <2>1 DEF Saver
  <2>3. QED
    BY <1>0, <1>1, <2>1, <2>2, OneSaver DEF SaversInv
<1>7. QED
  BY <1>3, <1>4, <1>5, <1>6 DEF PersistStep

(* The records a save gathers.                                             *)
LEMMA RecordsFacts ==
  ASSUME NEW i \in Ids
  PROVE  /\ torrents[i] = NoObj => Records[i] = NoRec
         /\ torrents[i] # NoObj => /\ Records[i] # NoRec
                                   /\ Records[i].magnet = tr[torrents[i]].magnet
<1>1. Records[i] = IF torrents[i] = NoObj THEN NoRec ELSE RecordOf(torrents[i])
  BY DEF Records
<1>2. RecordOf(torrents[i]).saved = TRUE /\ RecordOf(torrents[i]).magnet = tr[torrents[i]].magnet
  BY DEF RecordOf
<1>3. NoRec.saved = FALSE
  BY DEF NoRec
<1>4. QED
  BY <1>1, <1>2, <1>3

(* What the session then says: nothing is forgotten, everything can be     *)
(* added again.                                                            *)
LEMMA SessionGood ==
  ASSUME Inv, DiskInv, NEW p \in Threads, PersistStep(p), SessionInv, UNCHANGED budget
  PROVE  SessionInv' /\ \A i \in Ids : session[i] # NoRec => session'[i] # NoRec
<1>0. /\ UNCHANGED <<restoring, rs>> /\ UNCHANGED <<torrents, tr>> /\ UNCHANGED lib
      /\ save[p].k \in SaveNext /\ StateDir /\ save[p] \in Saving
      /\ \A q \in Threads : q # p => Stays(q)
      /\ pc[p] \in SaveLabels /\ ~Early /\ ~Early'
  BY PersistPlace, PersistRest, ThreadFacts DEF libVars
<1>1. \A q \in Threads : q # p => (Saver(q)' <=> Saver(q))
  BY <1>0 DEF Stays, Saver
<1>2. \A k \in SaveNext : k \notin {"save.gather", "save.meta", "save.write"}
  BY SMTT(30) DEF SaveNext
<1>3. CASE PersistCheck(p)
  <2>1. UNCHANGED <<session, metainfo>> /\ pc'[p] \in {save[p].k, "save.gather"}
    BY <1>3, Lands DEF PersistCheck, diskVars
  <2>2. ~Saver(p)'
    BY <1>0, <1>2, <2>1 DEF Saver
  <2>3. ASSUME NEW q \in Threads, Saver(q)' PROVE DraftOK(q)'
    <3>1. q # p /\ Saver(q) /\ Stays(q) /\ DraftOK(q)
      BY <1>0, <1>1, <2>2, <2>3 DEF SessionInv
    <3>2. QED
      BY <1>0, <2>1, <3>1 DEF Stays, DraftOK
  <2>4. QED
    BY <1>0, <2>1, <2>3 DEF SessionInv
<1>4. CASE SaveGather(p)
  <2>1. /\ saveMu = NoThread /\ pc[p] = "save.gather" /\ pc'[p] = "save.meta"
        /\ SetSave(p, [save[p] EXCEPT !.draft = Records]) /\ UNCHANGED <<session, metainfo>>
    BY <1>4, Lands DEF SaveGather, At, diskVars
  <2>a. save'[p].draft = Records
    BY <2>1, SavingFields
  <2>2. ~restoring
    BY <2>1 DEF DiskInv, SaversInv
  <2>3. \A i \in Ids : session[i] # NoRec => torrents[i] # NoObj
    BY <1>0, <2>2 DEF SessionInv
  <2>4. DraftOK(p)'
    BY <1>0, <2>1, <2>a, <2>3, RecordsFacts DEF DraftOK
  <2>5. \A q \in Threads : Saver(q)' => q = p
    BY <1>1, <2>1, NoSaver
  <2>6. QED
    BY <1>0, <2>1, <2>4, <2>5 DEF SessionInv
<1>5. CASE SaveMetaCollect(p)
  <2> DEFINE todo == {i \in Ids : torrents[i] # NoObj /\ lib[tr[torrents[i]].t].info}
  <2>1. /\ pc[p] = "save.meta" /\ pc'[p] = "save.write"
        /\ SetSave(p, [save[p] EXCEPT !.todo = todo]) /\ UNCHANGED <<session, metainfo>>
    BY <1>5, Lands DEF SaveMetaCollect, At, diskVars
  <2>2. save'[p].draft = save[p].draft /\ save'[p].todo = todo
    BY <2>1, SavingFields
  <2>3. Saver(p) /\ DraftOK(p)
    BY <2>1 DEF Saver, SessionInv
  <2>4. \A i \in Ids : torrents[i] # NoObj /\ ~tr[torrents[i]].magnet => i \in todo
    <3>1. \A i \in Ids : torrents[i] # NoObj =>
             torrents[i] \in Objs /\ tr[torrents[i]].t \in Insts
      BY ObjFor
    <3>2. \A t \in Insts : t # NoInst
      BY LibFacts
    <3>3. QED
      BY <3>1, <3>2 DEF DiskInv, StructInfo
  <2> HIDE DEF todo
  <2>5. DraftOK(p)'
    BY <1>0, <2>1, <2>2, <2>3, <2>4 DEF DraftOK
  <2>6. \A q \in Threads : Saver(q)' => q = p
    BY <1>1, <2>3, OneSaver
  <2>7. QED
    BY <1>0, <2>1, <2>5, <2>6 DEF SessionInv
<1>6. CASE SaveMetaWrite(p)
  <2>1. PICK i \in save[p].todo :
           /\ SetSave(p, [save[p] EXCEPT !.todo = save[p].todo \ {i}])
           /\ metainfo' = metainfo \cup {i}
    BY <1>6, FaultSpends DEF SaveMetaWrite, Fault
  <2>2. save'[p].draft = save[p].draft /\ save'[p].todo = save[p].todo \ {i}
    BY <2>1, SavingFields
  <2>3. Saver(p) /\ DraftOK(p) /\ UNCHANGED pc /\ UNCHANGED session
    BY <1>6 DEF SaveMetaWrite, At, Saver, SessionInv
  <2>4. DraftOK(p)'
    BY <1>0, <2>1, <2>2, <2>3 DEF DraftOK
  <2>5. \A q \in Threads : Saver(q)' => q = p
    BY <1>1, <2>3, OneSaver
  <2>6. QED
    BY <1>0, <2>1, <2>3, <2>4, <2>5 DEF SessionInv
<1>7. CASE SaveWrite(p)
  <2>1. /\ pc[p] = "save.write" /\ save[p].todo = {} /\ session' = save[p].draft
        /\ UNCHANGED metainfo /\ pc'[p] = save[p].k
    BY <1>7, Lands, FaultSpends DEF SaveWrite, At, Fault
  <2>2. Saver(p) /\ DraftOK(p) /\ ~restoring
    BY <2>1, OneSaver DEF Saver, SessionInv
  <2>3. ~Saver(p)'
    BY <1>0, <1>2, <2>1 DEF Saver
  <2>4. \A q \in Threads : ~Saver(q)'
    BY <1>1, <2>2, <2>3, OneSaver
  <2>5. \A i \in Ids : session'[i] # NoRec =>
          /\ torrents[i] # NoObj
          /\ i \in metainfo \/ session'[i].magnet
    BY <2>1, <2>2 DEF DraftOK
  <2>6. \A i \in Ids : session[i] # NoRec => session'[i] # NoRec
    BY <2>1, <2>2 DEF DraftOK
  <2>7. QED
    BY <1>0, <2>1, <2>2, <2>4, <2>5, <2>6 DEF SessionInv
<1>8. CASE SaveDirFails(p)
  BY <1>8, FaultSpends DEF SaveDirFails, Fault
<1>9. QED
  BY <1>3, <1>4, <1>5, <1>6, <1>7, <1>8 DEF PersistStep

LEMMA PersistDisk ==
  ASSUME Inv, DiskInv, NEW p \in Threads, PersistStep(p)
  PROVE  DiskInv'
<1>1. budget'.faults = MaxFaults => SessionInv'
  BY PersistRest, SessionGood DEF DiskInv
<1>2. QED
  BY <1>1, PersistRest, SaversGood DEF DiskInv

-----------------------------------------------------------------------------
(* Structural operations.                                                  *)

LEMMA StructSpot ==
  ASSUME Inv, NEW p \in Threads, pc[p] \in StructLabels
  PROVE  /\ p # Main /\ ~Resting(p) /\ loc[p] \in Locals
         /\ loc[p].op # "" /\ loc[p].o \in Objs /\ tr[loc[p].o] \in Tracked
<1>1. p # Main
  BY StructAt, ThreadsAssumption
<1>2. ~Resting(p)
  BY SMTT(30) DEF Resting, StructLabels, RestLabels, EarlyLabels
<1>3. QED
  BY <1>1, <1>2, StructAt

LEMMA LockDisk ==
  ASSUME Inv, DiskInv, NEW p \in Threads, LockOp(p) \/ QuiesceCancel(p) \/ QuiesceWait(p)
  PROVE  DiskInv'
<1>1. /\ pc[p] \in OpLabels /\ pc[p] \in StructLabels
      /\ Goto(p, "op.cancel") \/ Goto(p, "op.wait") \/ Goto(p, loc[p].op)
      /\ UNCHANGED loc /\ UNCHANGED save /\ UNCHANGED <<torrents, tr>> /\ UNCHANGED libVars
      /\ UNCHANGED <<session, metainfo, saveMu, restoring, rs, budget>>
  BY DEF LockOp, QuiesceCancel, QuiesceWait, At, OpLabels, StructLabels, engineVars,
         diskVars, saveVars, mainVars
<1>2. LibGood /\ TrGood /\ DiskSame
  BY <1>1, LibSame, TrSame, SameDisk DEF Spends
<1>3. p # Main /\ ~Resting(p) /\ loc[p] \in Locals /\ loc[p].op # ""
  BY <1>1, StructSpot
<1>4. loc[p].op \in {"purge", "move"}
  BY <1>1, <1>3 DEF DiskInv, ControlInv, KeepsAll, Locals
<1>5. pc'[p] \in {"op.cancel", "op.wait", "purge", "move"} /\ loc'[p] = loc[p]
  BY <1>1, <1>4, Lands
<1>6. Fine(p)
  BY <1>4, <1>5, SMTT(30) DEF Fine, ThreadOK, KeepsAll, AddedInfo, SavesOK, RemoveLabels,
       OpLabels, NeedsFresh, SaveLabels, EarlyLabels
<1>7. Walks(p)
  BY <1>1 DEF Walks
<1>8. QED
  BY <1>2, <1>3, <1>6, <1>7, DiskStep

(* Nobody is in a remove.                                                  *)
LEMMA RemoveDisk ==
  ASSUME DiskInv, NEW p \in Threads, RemoveStep(p)
  PROVE  FALSE
BY DEF RemoveStep, RemoveDelete, RemoveDrop, RemoveFiles, RemoveMeta, At, DiskInv, ControlInv,
       KeepsAll, RemoveLabels

LEMMA ReadDisk ==
  ASSUME Inv, DiskInv, NEW p \in Threads, pc[p] \in StructLabels,
         NEW c, c \notin Watched, StructRead(p, c)
  PROVE  DiskInv'
<1>1. /\ \E k \in {c, "end"} : Goto(p, k)
      /\ UNCHANGED loc \/ \E l : SetLoc(p, l)
      /\ UNCHANGED save /\ UNCHANGED <<torrents, tr>> /\ UNCHANGED libVars
      /\ UNCHANGED <<session, metainfo, saveMu, restoring, rs, budget>>
  BY DEF StructRead, engineVars, diskVars, saveVars, mainVars
<1>2. LibGood /\ TrGood /\ DiskSame
  BY <1>1, LibSame, TrSame, SameDisk DEF Spends
<1>3. "end" \notin Watched
  BY SaveNextOpen DEF SaveNext
<1>4. QED
  BY <1>1, <1>2, <1>3, StructSpot, GoDisk

LEMMA FlowDownOpen == "flow.down" \notin Watched
BY SMTT(30) DEF Watched, RemoveLabels, OpLabels, NeedsFresh, SaveLabels, EarlyLabels

LEMMA HoldDisk ==
  ASSUME Inv, DiskInv, NEW p \in Threads, pc[p] \in StructLabels,
         NEW b, NEW c, StructHold(p, b, c)
  PROVE  DiskInv'
<1> DEFINE o == loc[p].o
           x == [tr[o] EXCEPT !.holdData = TRUE, !.paused = @ \/ b]
<1>1. /\ SetTr(o, x) /\ (\E l : SetLoc(p, l)) /\ Goto(p, "flow.down")
      /\ UNCHANGED save /\ UNCHANGED torrents /\ UNCHANGED libVars
      /\ UNCHANGED <<session, metainfo, saveMu, restoring, rs, budget>>
  BY Zenon DEF StructHold, diskVars, saveVars, mainVars
<1>2. x.t = tr[o].t /\ x.magnet = tr[o].magnet
  <2>1. ASSUME NEW y \in Tracked
        PROVE  LET z == [y EXCEPT !.holdData = TRUE, !.paused = @ \/ b]
               IN z.t = y.t /\ z.magnet = y.magnet
    BY DEF Tracked
  <2>2. QED
    BY <2>1, StructSpot
<1>3. LibGood /\ DiskSame
  BY <1>1, LibSame, SameDisk DEF Spends
<1> HIDE DEF o, x
<1>4. TrGood
  BY <1>1, <1>2, <1>3, TrSet
<1>5. QED
  BY <1>1, <1>3, <1>4, FlowDownOpen, StructSpot, GoDisk

LEMMA FoldDisk ==
  ASSUME Inv, DiskInv, NEW p \in Threads, pc[p] \in StructLabels, NEW c, c \notin Watched,
         FoldCounters(p, c) \/ DropOld(p, c)
  PROVE  DiskInv'
<1>1. /\ Goto(p, c) /\ UNCHANGED loc /\ UNCHANGED save /\ UNCHANGED torrents
      /\ UNCHANGED <<session, metainfo, saveMu, restoring, rs, budget>>
  BY DEF FoldCounters, DropOld, engineVars, diskVars, saveVars, mainVars
<1>2. LibGood
  BY LibSame, LibDrop DEF FoldCounters, DropOld
<1>3. TrGood
  <2> DEFINE o == loc[p].o
  <2>1. UNCHANGED tr \/ \E a : SetTr(o, [tr[o] EXCEPT !.base = a])
    BY DEF FoldCounters, DropOld, engineVars
  <2>2. tr[o] \in Tracked
    BY StructSpot
  <2> HIDE DEF o
  <2>3. QED
    BY <1>1, <1>2, <2>1, <2>2, TrSame, TrSet, TrField
<1>4. DiskSame
  BY <1>1, SameDisk DEF Spends
<1>5. QED
  BY <1>1, <1>2, <1>3, <1>4, StructSpot, GoDisk

(* The torrent is added again, with its metadata.                          *)
LEMMA ReaddDisk ==
  ASSUME Inv, DiskInv, NEW p \in Threads, pc[p] \in StructLabels, NEW c \in NeedsFresh, NEW d,
         AddTorrentSpec(loc[p].id, d, TRUE),
         SetLoc(p, [loc[p] EXCEPT !.ft = AddedInst(loc[p].id)]), Goto(p, c),
         UNCHANGED <<engineVars, diskVars, saveVars, mainVars, budget>>
  PROVE  DiskInv'
<1> DEFINE l == [loc[p] EXCEPT !.ft = AddedInst(loc[p].id)]
<1>0. loc[p] \in Locals /\ loc[p].id \in Ids
  BY StructSpot DEF Locals
<1>1. LibGood /\ lib'[AddedInst(loc[p].id)].info
  BY <1>0, LibAdd
<1>2. UNCHANGED <<torrents, tr>> /\ UNCHANGED save
      /\ UNCHANGED <<session, metainfo, saveMu, restoring, rs, budget>>
  BY DEF engineVars, diskVars, saveVars, mainVars
<1>3. TrGood /\ DiskSame
  BY <1>1, <1>2, TrSame, SameDisk DEF Spends
<1>4. l.ft = AddedInst(loc[p].id)
  BY <1>0 DEF Locals
<1>5. pc'[p] = c /\ loc'[p] = l
  BY Lands
<1>6. Walks(p)
  BY <1>2 DEF Walks
<1> HIDE DEF l
<1>7. Fine(p)
  BY <1>1, <1>4, <1>5, SMTT(30) DEF Fine, ThreadOK, KeepsAll, AddedInfo, SavesOK, RemoveLabels,
       OpLabels, NeedsFresh, SaveLabels, EarlyLabels
<1>8. QED
  BY <1>1, <1>3, <1>6, <1>7, StructSpot, DiskStep

(* A step that changes a thread's place and locals, files, and no more.    *)
LEMMA QuietDisk ==
  ASSUME Inv, DiskInv, NEW p \in Threads, p # Main, ~Resting(p), NEW c, c \notin Watched,
         Goto(p, c), UNCHANGED loc \/ \E l : SetLoc(p, l),
         UNCHANGED save, UNCHANGED <<torrents, tr>>, UNCHANGED libVars,
         UNCHANGED <<session, metainfo, saveMu, restoring, rs>>, UNCHANGED budget \/ Fault
  PROVE  DiskInv'
<1>1. LibGood /\ TrGood /\ DiskSame
  BY LibSame, TrSame, SameDisk DEF Spends
<1>2. QED
  BY <1>1, GoDisk

PlainPlaces == {"purge.hold", "purge.fold", "purge.drop", "purge.delete", "purge.readd",
                "purge.save", "purge.failed", "move.mkdir", "move.hold", "move.prios",
                "move.files", "move.fold", "move.drop", "move.readd", "move.lost",
                "move.failed", "check.add", "check.begin", "end"}

LEMMA PlainOpen == \A c \in PlainPlaces : c \notin Watched
BY SMTT(30) DEF PlainPlaces, Watched, RemoveLabels, OpLabels, NeedsFresh, SaveLabels, EarlyLabels

(* The fresh instance takes the old one's place.                           *)
LEMMA SwapGood ==
  ASSUME Inv, DiskInv, NEW p \in Threads, pc[p] \in {"purge.swap", "move.swap"},
         LibGood, UNCHANGED torrents, UNCHANGED lib,
         NEW a, \/ SetTr(loc[p].o, [tr[loc[p].o] EXCEPT !.t = loc[p].ft, !.holdData = a])
                \/ SetTr(loc[p].o, [tr[loc[p].o] EXCEPT !.t = loc[p].ft, !.savePath = a])
  PROVE  TrGood
<1>1. pc[p] \in StructLabels /\ pc[p] \in NeedsFresh
  BY DEF StructLabels, NeedsFresh
<1>2. lib'[loc[p].ft].info
  BY <1>1 DEF DiskInv, ControlInv, AddedInfo
<1>3. tr[loc[p].o] \in Tracked
  BY <1>1, StructSpot
<1>4. ASSUME NEW x \in Tracked, NEW t
      PROVE  /\ [x EXCEPT !.t = t, !.holdData = a].t = t
             /\ [x EXCEPT !.t = t, !.savePath = a].t = t
             /\ [x EXCEPT !.t = t, !.holdData = a].magnet = x.magnet
             /\ [x EXCEPT !.t = t, !.savePath = a].magnet = x.magnet
  BY DEF Tracked
<1> DEFINE y == [tr[loc[p].o] EXCEPT !.t = loc[p].ft, !.holdData = a]
           z == [tr[loc[p].o] EXCEPT !.t = loc[p].ft, !.savePath = a]
<1>5. /\ y.t = loc[p].ft /\ y.magnet = tr[loc[p].o].magnet
      /\ z.t = loc[p].ft /\ z.magnet = tr[loc[p].o].magnet
  BY <1>3, <1>4
<1>6. SetTr(loc[p].o, y) \/ SetTr(loc[p].o, z)
  OBVIOUS
<1> HIDE DEF y, z
<1>7. QED
  BY <1>2, <1>5, <1>6, TrSet

LEMMA FailedGood ==
  ASSUME Inv, DiskInv, NEW p \in Threads, pc[p] \in StructLabels, LibGood,
         UNCHANGED torrents, SetTr(loc[p].o, Failed(tr[loc[p].o]))
  PROVE  TrGood
<1>1. ASSUME NEW x \in Tracked PROVE Failed(x).t = x.t /\ Failed(x).magnet = x.magnet
  BY DEF Tracked, Failed
<1>2. QED
  BY <1>1, StructSpot, TrSet

LEMMA PurgeDisk ==
  ASSUME Inv, DiskInv, NEW p \in Threads, PurgeStep(p)
  PROVE  DiskInv'
<1>0. pc[p] \in StructLabels
  BY DEF PurgeStep, PurgeRead, PurgeHold, PurgeFold, PurgeDrop, PurgeDelete, PurgeReadd,
         PurgeSwap, PurgeSave, PurgeFailed, At, StructLabels
<1>a. /\ "purge.hold" \notin Watched /\ "purge.drop" \notin Watched
      /\ "purge.delete" \notin Watched /\ "purge.readd" \notin Watched
      /\ "purge.failed" \notin Watched /\ "end" \in SaveNext
  BY PlainOpen DEF PlainPlaces, SaveNext
<1>1. CASE PurgeRead(p)
  BY <1>0, <1>a, <1>1, ReadDisk DEF PurgeRead
<1>2. CASE PurgeHold(p)
  BY <1>0, <1>2, HoldDisk DEF PurgeHold
<1>3. CASE PurgeFold(p) \/ PurgeDrop(p)
  BY <1>0, <1>a, <1>3, FoldDisk DEF PurgeFold, PurgeDrop
<1>4. CASE PurgeDelete(p)
  <2>1. /\ Goto(p, "purge.readd") /\ UNCHANGED loc /\ UNCHANGED save
        /\ UNCHANGED <<torrents, tr>> /\ UNCHANGED libVars
        /\ UNCHANGED <<session, metainfo, saveMu, restoring, rs>> /\ UNCHANGED budget
    BY <1>4 DEF PurgeDelete, engineVars, saveVars, mainVars
  <2>2. QED
    BY <1>0, <1>a, <2>1, StructSpot, QuietDisk
<1>5. CASE PurgeReadd(p)
  <2>1. CASE Fault /\ Goto(p, "purge.failed") /\ UNCHANGED <<libVars, loc>>
    <3>1. /\ UNCHANGED loc /\ UNCHANGED save /\ UNCHANGED <<torrents, tr>> /\ UNCHANGED libVars
          /\ UNCHANGED <<session, metainfo, saveMu, restoring, rs>>
      BY <1>5, <2>1 DEF PurgeReadd, engineVars, diskVars, saveVars, mainVars
    <3>2. QED
      BY <1>0, <1>a, <2>1, <3>1, StructSpot, QuietDisk
  <2>2. CASE /\ AddTorrentSpec(loc[p].id, loc[p].old, TRUE)
             /\ SetLoc(p, [loc[p] EXCEPT !.ft = AddedInst(loc[p].id)])
             /\ Goto(p, "purge.swap") /\ UNCHANGED budget
    BY <1>0, <1>5, <2>2, ReaddDisk DEF PurgeReadd, NeedsFresh
  <2>3. QED
    BY <1>5, <2>1, <2>2 DEF PurgeReadd
<1>6. CASE PurgeSwap(p)
  <2>1. /\ pc[p] = "purge.swap" /\ Goto(p, "flow.down") /\ (\E l : SetLoc(p, l))
        /\ SetTr(loc[p].o, [tr[loc[p].o] EXCEPT !.t = loc[p].ft, !.holdData = FALSE])
        /\ UNCHANGED save /\ UNCHANGED torrents /\ UNCHANGED libVars /\ UNCHANGED lib
        /\ UNCHANGED <<session, metainfo, saveMu, restoring, rs, budget>>
    BY <1>6, Zenon DEF PurgeSwap, At, libVars, diskVars, saveVars, mainVars
  <2>2. LibGood /\ DiskSame
    BY <2>1, LibSame, SameDisk DEF Spends
  <2>3. TrGood
    BY <2>1, <2>2, SwapGood
  <2>4. QED
    BY <1>0, <2>1, <2>2, <2>3, FlowDownOpen, StructSpot, GoDisk
<1>7. CASE PurgeSave(p)
  <2>1. /\ Persist(p, "end") /\ UNCHANGED loc /\ UNCHANGED <<torrents, tr>> /\ UNCHANGED libVars
        /\ UNCHANGED <<session, metainfo, saveMu, restoring, rs, budget>>
    BY <1>7 DEF PurgeSave, engineVars, diskVars, mainVars
  <2>2. LibGood /\ TrGood /\ DiskSame
    BY <2>1, LibSame, TrSame, SameDisk DEF Spends
  <2>3. QED
    BY <1>0, <1>a, <2>1, <2>2, StructSpot, SaveDisk
<1>8. CASE PurgeFailed(p)
  <2>1. /\ Persist(p, "end") /\ (\E l : SetLoc(p, l)) /\ UNCHANGED torrents /\ UNCHANGED libVars
        /\ SetTr(loc[p].o, Failed(tr[loc[p].o]))
        /\ UNCHANGED <<session, metainfo, saveMu, restoring, rs, budget>>
    BY <1>8 DEF PurgeFailed, diskVars, mainVars
  <2>2. LibGood /\ TrGood /\ DiskSame
    BY <1>0, <2>1, LibSame, FailedGood, SameDisk DEF Spends
  <2>3. QED
    BY <1>0, <1>a, <2>1, <2>2, StructSpot, SaveDisk
<1>9. QED
  BY <1>1, <1>2, <1>3, <1>4, <1>5, <1>6, <1>7, <1>8 DEF PurgeStep

LEMMA MoveDisk ==
  ASSUME Inv, DiskInv, NEW p \in Threads, MoveStep(p)
  PROVE  DiskInv'
<1>0. pc[p] \in StructLabels
  BY DEF MoveStep, MoveRead, MoveMkdir, MoveHold, MovePrios, MoveFiles, MoveFold, MoveDrop,
         MoveReadd, MoveLost, MoveFailed, MoveReprio, MoveSwap, At, StructLabels
<1>a. /\ \A c \in {"move.mkdir", "move.hold", "end", "move.files", "move.fold", "move.drop",
                   "move.readd", "move.lost", "move.failed", "check.add"} : c \notin Watched
      /\ "move.failed" \in SaveNext
  BY PlainOpen DEF PlainPlaces, SaveNext
<1>1. CASE MoveRead(p)
  BY <1>0, <1>a, <1>1, ReadDisk DEF MoveRead
<1>2. CASE MoveHold(p)
  BY <1>0, <1>2, HoldDisk DEF MoveHold
<1>3. CASE MoveFold(p) \/ MoveDrop(p)
  BY <1>0, <1>a, <1>3, FoldDisk DEF MoveFold, MoveDrop
<1>4. CASE MoveMkdir(p) \/ MovePrios(p) \/ MoveFiles(p)
  <2>1. /\ \E c \in {"move.hold", "end", "move.files", "move.fold", "move.failed"} : Goto(p, c)
        /\ UNCHANGED loc \/ \E l : SetLoc(p, l)
        /\ UNCHANGED save /\ UNCHANGED <<torrents, tr>> /\ UNCHANGED libVars
        /\ UNCHANGED <<session, metainfo, saveMu, restoring, rs>>
        /\ UNCHANGED budget \/ Fault
    BY <1>4 DEF MoveMkdir, MovePrios, MoveFiles, engineVars, diskVars, saveVars, mainVars
  <2>2. QED
    BY <1>0, <1>a, <2>1, StructSpot, QuietDisk
<1>5. CASE MoveReadd(p)
  <2>1. CASE Fault /\ Goto(p, "move.lost") /\ UNCHANGED <<libVars, loc>>
    <3>1. /\ UNCHANGED loc /\ UNCHANGED save /\ UNCHANGED <<torrents, tr>> /\ UNCHANGED libVars
          /\ UNCHANGED <<session, metainfo, saveMu, restoring, rs>>
      BY <1>5, <2>1 DEF MoveReadd, engineVars, diskVars, saveVars, mainVars
    <3>2. QED
      BY <1>0, <1>a, <2>1, <3>1, StructSpot, QuietDisk
  <2>2. CASE /\ AddTorrentSpec(loc[p].id, loc[p].dir, TRUE)
             /\ SetLoc(p, [loc[p] EXCEPT !.ft = AddedInst(loc[p].id)])
             /\ Goto(p, "move.reprio") /\ UNCHANGED budget
    BY <1>0, <1>5, <2>2, ReaddDisk DEF MoveReadd, NeedsFresh
  <2>3. QED
    BY <1>5, <2>1, <2>2 DEF MoveReadd
<1>6. CASE MoveReprio(p)
  <2>1. /\ pc[p] = "move.reprio" /\ Goto(p, "move.swap") /\ UNCHANGED loc /\ UNCHANGED save
        /\ UNCHANGED <<torrents, tr>> /\ UNCHANGED <<ninst, client>>
        /\ \E q : SetLib(loc[p].ft, [lib[loc[p].ft] EXCEPT !.prio = q])
        /\ UNCHANGED <<session, metainfo, saveMu, restoring, rs, budget>>
    BY <1>6 DEF MoveReprio, At, SetPrio, engineVars, diskVars, saveVars, mainVars
  <2>2. LibGood
    BY <2>1, PrioGood
  <2>3. TrGood /\ DiskSame
    BY <2>1, <2>2, TrSame, SameDisk DEF Spends
  <2>4. lib'[loc[p].ft].info
    <3>1. pc[p] \in NeedsFresh
      BY <2>1 DEF NeedsFresh
    <3>2. lib[loc[p].ft].info /\ loc[p].ft \in Insts
      BY <1>0, <3>1, StructAt DEF DiskInv, ControlInv, AddedInfo
    <3>3. QED
      BY <2>2, <3>2 DEF LibGood
  <2>5. pc'[p] = "move.swap" /\ loc'[p] = loc[p] /\ Walks(p)
    BY <2>1, Lands DEF Walks
  <2>6. Fine(p)
    BY <2>4, <2>5, SMTT(30) DEF Fine, ThreadOK, KeepsAll, AddedInfo, SavesOK, RemoveLabels,
         OpLabels, NeedsFresh, SaveLabels, EarlyLabels
  <2>7. QED
    BY <1>0, <2>2, <2>3, <2>5, <2>6, StructSpot, DiskStep
<1>7. CASE MoveSwap(p)
  <2>1. /\ pc[p] = "move.swap" /\ Goto(p, "check.add") /\ (\E l : SetLoc(p, l))
        /\ SetTr(loc[p].o, [tr[loc[p].o] EXCEPT !.t = loc[p].ft, !.savePath = loc[p].dir])
        /\ UNCHANGED save /\ UNCHANGED torrents /\ UNCHANGED libVars /\ UNCHANGED lib
        /\ UNCHANGED <<session, metainfo, saveMu, restoring, rs, budget>>
    BY <1>7 DEF MoveSwap, At, libVars, diskVars, saveVars, mainVars
  <2>2. LibGood /\ DiskSame
    BY <2>1, LibSame, SameDisk DEF Spends
  <2>3. TrGood
    BY <2>1, <2>2, SwapGood
  <2>4. QED
    BY <1>0, <1>a, <2>1, <2>2, <2>3, StructSpot, GoDisk
<1>8. CASE MoveLost(p)
  <2>1. /\ Persist(p, "move.failed") /\ (\E l : SetLoc(p, l)) /\ UNCHANGED torrents
        /\ SetTr(loc[p].o, [tr[loc[p].o] EXCEPT !.savePath = loc[p].dir])
        /\ UNCHANGED libVars
        /\ UNCHANGED <<session, metainfo, saveMu, restoring, rs, budget>>
    BY <1>8 DEF MoveLost, diskVars, mainVars
  <2>2. LibGood /\ DiskSame
    BY <2>1, LibSame, SameDisk DEF Spends
  <2>3. TrGood
    BY <1>0, <2>1, <2>2, StructSpot, TrField, TrSet
  <2>4. QED
    BY <1>0, <1>a, <2>1, <2>2, <2>3, StructSpot, SaveDisk
<1>9. CASE MoveFailed(p)
  <2>1. /\ Goto(p, "flow.down") /\ (\E l : SetLoc(p, l)) /\ UNCHANGED torrents
        /\ SetTr(loc[p].o, Failed(tr[loc[p].o])) /\ UNCHANGED save /\ UNCHANGED libVars
        /\ UNCHANGED <<session, metainfo, saveMu, restoring, rs, budget>>
    BY <1>9 DEF MoveFailed, diskVars, saveVars, mainVars
  <2>2. LibGood /\ TrGood /\ DiskSame
    BY <1>0, <2>1, LibSame, FailedGood, SameDisk DEF Spends
  <2>3. QED
    BY <1>0, <2>1, <2>2, FlowDownOpen, StructSpot, GoDisk
<1>10. QED
  BY <1>1, <1>2, <1>3, <1>4, <1>5, <1>6, <1>7, <1>8, <1>9 DEF MoveStep

(* A verification is begun.                                                *)
LEMMA BeginDisk ==
  ASSUME Inv, DiskInv, NEW p \in Threads, BeginCheckAdd(p) \/ BeginCheck(p)
  PROVE  DiskInv'
<1>1. pc[p] \in {"check.add", "check.begin"}
  BY DEF BeginCheckAdd, BeginCheck, At
<1>2. p # Main /\ ~Resting(p)
  <2>1. /\ pc[p] \in (StructLabels \cup OtherLabels) \ MainLabels
        /\ pc[p] \notin RestLabels \cup EarlyLabels
    BY <1>1, SMTT(30) DEF OtherLabels, MainLabels, AddLabels, DoneLabels, NextLabels, RestLabels, EarlyLabels
  <2>2. QED
    BY <2>1, NotMain DEF Resting
<1>3. CASE BeginCheckAdd(p)
  <2>1. /\ Goto(p, "check.begin") /\ UNCHANGED loc /\ UNCHANGED save
        /\ UNCHANGED <<torrents, tr>> /\ UNCHANGED libVars
        /\ UNCHANGED <<session, metainfo, saveMu, restoring, rs>> /\ UNCHANGED budget
    BY <1>3 DEF BeginCheckAdd, diskVars, saveVars, mainVars
  <2>2. "check.begin" \notin Watched
    BY PlainOpen DEF PlainPlaces
  <2>3. QED
    BY <1>2, <2>1, <2>2, QuietDisk
<1>4. CASE BeginCheck(p)
  <2> DEFINE k == CHOOSE x \in Checkers : At(x, "off")
             o == loc[p].o
             y == [tr[o] EXCEPT !.cancelCheck = k, !.checking = TRUE]
  <2>1. /\ k \in Checkers /\ pc[k] = "off" /\ SetTr(o, y)
        /\ \E l : SetLoc(k, l)
        /\ pc' = [pc EXCEPT ![k] = "check.read", ![p] = "end"]
        /\ UNCHANGED torrents /\ UNCHANGED libVars /\ UNCHANGED save
        /\ UNCHANGED <<session, metainfo, saveMu, restoring, rs, budget>>
    BY <1>4 DEF BeginCheck, At, diskVars, saveVars, mainVars
  <2>2. o \in Objs => y.magnet = tr[o].magnet /\ y.t = tr[o].t
    BY TrTyped, TrField
  <2> HIDE DEF k, o, y
  <2>3. k # p /\ k # Main /\ k \in Threads
    BY <1>1, <2>1, ThreadsAssumption DEF Threads
  <2>4. LibGood /\ DiskSame
    BY <2>1, LibSame, SameDisk DEF Spends
  <2>5. TrGood
    BY <2>1, <2>2, <2>4, TrSet
  <2>6. ThreadTypes /\ SaveTypes
    BY ThreadFacts
  <2>7. \A q \in Threads : q # p /\ q # k => Stays(q)
    BY <2>1, <2>6 DEF ThreadTypes, SetLoc, Stays
  <2>8. pc'[k] = "check.read" /\ pc'[p] = "end"
    BY <2>1, <2>3, <2>6 DEF ThreadTypes
  <2>9. Fine(k) /\ Fine(p)
    <3>1. "check.read" \notin Watched /\ "end" \notin Watched
      BY SMTT(30) DEF Watched, RemoveLabels, OpLabels, NeedsFresh, SaveLabels, EarlyLabels
    <3>2. Open(k) /\ Open(p)
      BY <2>8, <3>1 DEF Open
    <3>3. QED
      BY <3>2, OpenFine
  <2>10. Calm /\ Orderly
    <3>1. Calm
      BY <2>7, <2>9 DEF Calm
    <3>2. QED
      BY <3>1 DEF Calm, Orderly, Fine
  <2>11. EarlyGood /\ Stays(Main)
    BY <1>2, <2>3, <2>7, <2>10, BusyEarly, MainThreads
  <2>12. QED
    BY <2>4, <2>5, <2>10, <2>11, DiskFrame
<1>5. QED
  BY <1>3, <1>4

LEMMA StructDisk ==
  ASSUME Inv, DiskInv, NEW p \in Threads, StructStep(p)
  PROVE  DiskInv'
BY BeginDisk, LockDisk, RemoveDisk, PurgeDisk, MoveDisk DEF StructStep

-----------------------------------------------------------------------------
(* The goroutines.                                                         *)

LEMMA WaiterDisk ==
  ASSUME Inv, DiskInv, NEW p \in Threads, WaiterStep(p)
  PROVE  DiskInv'
<1>1. pc[p] \in {"wait.info", "wait.mark", "wait.select", "wait.chosen", "wait.save"}
  BY DEF WaiterStep, WaitInfo, WaitMark, WaitSelect, WaitChosen, WaitSave, At
<1>2. p # Main /\ ~Resting(p)
  <2>1. /\ pc[p] \in (StructLabels \cup OtherLabels) \ MainLabels
        /\ pc[p] \notin RestLabels \cup EarlyLabels
    BY <1>1, SMTT(30) DEF OtherLabels, MainLabels, AddLabels, DoneLabels, NextLabels, RestLabels, EarlyLabels
  <2>2. QED
    BY <2>1, NotMain DEF Resting
<1>3. /\ UNCHANGED torrents
      /\ UNCHANGED <<session, metainfo, saveMu, restoring, rs, budget>>
  BY DEF WaiterStep, WaitInfo, WaitMark, WaitSelect, WaitChosen, WaitSave, engineVars,
         diskVars, saveVars, mainVars
<1>4. DiskSame
  BY <1>3, SameDisk DEF Spends
<1>5. LibGood
  <2>1. \/ UNCHANGED libVars
        \/ \E t, q : UNCHANGED <<ninst, client>> /\ SetLib(t, [lib[t] EXCEPT !.prio = q])
    BY DEF WaiterStep, WaitInfo, WaitMark, WaitSelect, WaitChosen, WaitSave, MarkWanted, SetPrio
  <2>2. QED
    BY <2>1, LibSame, PrioGood
<1>6. TrGood
  <2>1. UNCHANGED tr \/ \E o, a : SetTr(o, [tr[o] EXCEPT !.chosenFiles = a])
    BY DEF WaiterStep, WaitInfo, WaitMark, WaitSelect, WaitChosen, WaitSave, engineVars
  <2>2. CASE UNCHANGED tr
    BY <1>3, <1>5, <2>2, TrSame
  <2>3. CASE \E o, a : SetTr(o, [tr[o] EXCEPT !.chosenFiles = a])
    BY <1>3, <1>5, <2>3, TrTyped, TrField, TrSet
  <2>4. QED
    BY <2>1, <2>2, <2>3
<1>7. CASE WaitSave(p)
  BY <1>2, <1>4, <1>5, <1>6, <1>7, SaveDisk DEF WaitSave, SaveNext
<1>8. CASE ~WaitSave(p)
  <2>1. /\ \E c \in {"wait.select", "wait.save", "wait.mark", "wait.chosen", "off"} : Goto(p, c)
        /\ UNCHANGED loc \/ \E l : SetLoc(p, l)
        /\ UNCHANGED save
    BY <1>8 DEF WaiterStep, WaitInfo, WaitMark, WaitSelect, WaitChosen, saveVars
  <2>2. \A c \in {"wait.select", "wait.save", "wait.mark", "wait.chosen", "off"} : c \notin Watched
    BY SMTT(30) DEF Watched, RemoveLabels, OpLabels, NeedsFresh, SaveLabels, EarlyLabels
  <2>3. QED
    BY <1>2, <1>4, <1>5, <1>6, <2>1, <2>2, GoDisk
<1>9. QED
  BY <1>7, <1>8

LEMMA CheckerDisk ==
  ASSUME Inv, DiskInv, NEW p \in Threads, CheckerStep(p)
  PROVE  DiskInv'
<1>1. pc[p] \in {"check.read", "check.loop", "check.hash", "check.clear", "check.done",
                 "check.end", "check.off"}
  BY DEF CheckerStep, VerifyRead, VerifyLoop, VerifyPiece, CheckClear, CheckDone, CheckEnd,
         CheckOff, At
<1>2. p # Main /\ ~Resting(p)
  <2>1. /\ pc[p] \in (StructLabels \cup OtherLabels) \ MainLabels
        /\ pc[p] \notin RestLabels \cup EarlyLabels
    BY <1>1, SMTT(30) DEF OtherLabels, MainLabels, AddLabels, DoneLabels, NextLabels, RestLabels, EarlyLabels
  <2>2. QED
    BY <2>1, NotMain DEF Resting
<1>3. /\ UNCHANGED torrents /\ UNCHANGED libVars /\ UNCHANGED save
      /\ UNCHANGED <<session, metainfo, saveMu, restoring, rs>>
      /\ UNCHANGED budget \/ Fault
  BY DEF CheckerStep, VerifyRead, VerifyLoop, VerifyPiece, CheckClear, CheckDone, CheckEnd,
         CheckOff, engineVars, diskVars, saveVars, mainVars
<1>4. DiskSame /\ LibGood
  BY <1>3, SameDisk, LibSame DEF Spends
<1>5. TrGood
  <2>1. CASE CheckClear(p)
    <3>1. \E o : SetTr(o, [tr[o] EXCEPT !.cancelCheck = NoThread, !.checking = FALSE])
      BY <2>1 DEF CheckClear
    <3>2. PICK o : SetTr(o, [tr[o] EXCEPT !.cancelCheck = NoThread, !.checking = FALSE])
      BY <3>1
    <3> DEFINE y == [tr[o] EXCEPT !.cancelCheck = NoThread, !.checking = FALSE]
    <3>3. SetTr(o, y) /\ (o \in Objs => y.t = tr[o].t /\ y.magnet = tr[o].magnet)
      BY <3>2, TrTyped, TrField
    <3> HIDE DEF y
    <3>4. QED
      BY <1>3, <1>4, <3>3, TrSet
  <2>2. CASE CheckEnd(p)
    <3> DEFINE o == loc[p].o
               x == [tr[o] EXCEPT !.lastErr = @ \/ loc[p].err = "failed",
                                  !.holdData = @ /\ ~loc[p].flag]
    <3>1. SetTr(o, x)
      BY <2>2, Zenon DEF CheckEnd
    <3>2. ASSUME NEW y \in Tracked
          PROVE  LET z == [y EXCEPT !.lastErr = @ \/ loc[p].err = "failed",
                                    !.holdData = @ /\ ~loc[p].flag]
                 IN z.t = y.t /\ z.magnet = y.magnet
      BY DEF Tracked
    <3>3. o \in Objs => x.t = tr[o].t /\ x.magnet = tr[o].magnet
      BY <3>2, TrTyped
    <3> HIDE DEF o, x
    <3>4. QED
      BY <1>3, <1>4, <3>1, <3>3, TrSet
  <2>3. CASE UNCHANGED tr
    BY <1>3, <1>4, <2>3, TrSame
  <2>4. QED
    BY <2>1, <2>2, <2>3 DEF CheckerStep, VerifyRead, VerifyLoop, VerifyPiece, CheckDone,
                            CheckOff, engineVars
<1>6. /\ \E c \in {"check.loop", "check.hash", "check.clear", "check.done", "check.end",
                   "flow.down", "off"} : Goto(p, c)
      /\ UNCHANGED loc \/ \E l : SetLoc(p, l)
  BY DEF CheckerStep, VerifyRead, VerifyLoop, VerifyPiece, CheckClear, CheckDone, CheckEnd,
         CheckOff
<1>7. \A c \in {"check.loop", "check.hash", "check.clear", "check.done", "check.end",
                "flow.down", "off"} : c \notin Watched
  BY SMTT(30) DEF Watched, RemoveLabels, OpLabels, NeedsFresh, SaveLabels, EarlyLabels
<1>8. QED
  BY <1>2, <1>3, <1>4, <1>5, <1>6, <1>7, GoDisk

-----------------------------------------------------------------------------
(* The tick, which runs before the restore too, and then finds nothing.    *)

LEMMA TickGoes ==
  ASSUME Inv, DiskInv, Walks(Tick), Open(Tick), LibGood, TrGood, DiskSame, UNCHANGED torrents,
         Early => tk'.flows = {} /\ tk'.stop = {} /\ pc'[Tick] \in RestLabels
  PROVE  DiskInv'
<1>1. \A q \in Threads : q # Tick => Stays(q)
  BY WalksStays, MainThreads
<1>2. Orderly /\ Stays(Main)
  BY <1>1, OpenFine, MainThreads DEF Orderly, Fine
<1>3. Early' <=> Early
  BY <1>2 DEF Early, Stays
<1>4. EarlyInv'
  <2> SUFFICES ASSUME Early PROVE EarlyInv'
    BY <1>3 DEF EarlyInv
  <2>1. \A q \in Threads : q # Main => pc'[q] \in RestLabels
    BY <1>1 DEF Stays, DiskInv, EarlyInv
  <2>2. QED
    BY <2>1 DEF DiskInv, EarlyInv, DiskSame, RestoreGoes
<1>5. QED
  BY <1>2, <1>3, <1>4, DiskFrame DEF EarlyGood

LEMMA EarlyNothing ==
  ASSUME DiskInv, Early
  PROVE  TrackedIds = {} /\ tk.flows = {} /\ tk.stop = {}
BY DEF DiskInv, EarlyInv, TrackedIds

LEMMA TickFinds ==
  ASSUME TickDecide, TrackedIds = {}
  PROVE  tk'.flows = {} /\ tk'.stop = {} /\ Goto(Tick, "tick.apply")
<1>1. PICK down \in [TrackedIds -> Rates], up \in [TrackedIds -> Rates],
           stop \in SUBSET {i \in TrackedIds : MayReachLimit(tr[torrents[i]])} :
       LET rated(i) == [tr[torrents[i]] EXCEPT !.lastDownBPS = down[i], !.lastUpBPS = up[i]]
           finished == {i \in TrackedIds : Complete(tr[torrents[i]].t)}
           started  == {i \in finished : ~tr[torrents[i]].completedAt}
           ticked(i) == [rated(i) EXCEPT !.completeLogged = @ \/ i \in finished,
                                         !.completedAt = @ \/ i \in finished]
       IN /\ tr' = [o \in Objs |->
                      IF \E i \in TrackedIds : torrents[i] = o
                      THEN ticked(CHOOSE i \in TrackedIds : torrents[i] = o)
                      ELSE tr[o]]
          /\ tk' = [flows |-> {[ft |-> rated(i).t, down |-> DownFlow(rated(i), Guarded),
                                up |-> UpFlow(rated(i), Guarded)] : i \in TrackedIds},
                    stop  |-> stop,
                    done  |-> {i \in finished : ~tr[torrents[i]].completeLogged}]
          /\ IF started # {}
             THEN Persist(Tick, "tick.apply")
             ELSE Goto(Tick, "tick.apply") /\ UNCHANGED save
  BY DEF TickDecide
<1> DEFINE rated(i) == [tr[torrents[i]] EXCEPT !.lastDownBPS = down[i], !.lastUpBPS = up[i]]
           finished == {i \in TrackedIds : Complete(tr[torrents[i]].t)}
           started  == {i \in finished : ~tr[torrents[i]].completedAt}
           flow(i)  == [ft |-> rated(i).t, down |-> DownFlow(rated(i), Guarded),
                        up |-> UpFlow(rated(i), Guarded)]
<1>2. /\ tk' = [flows |-> {flow(i) : i \in TrackedIds},
                stop  |-> stop,
                done  |-> {i \in finished : ~tr[torrents[i]].completeLogged}]
      /\ IF started # {}
         THEN Persist(Tick, "tick.apply")
         ELSE Goto(Tick, "tick.apply") /\ UNCHANGED save
  BY <1>1, Zenon
<1>3. stop = {} /\ started = {}
  OBVIOUS
<1> HIDE DEF started, flow, finished
<1>4. {flow(i) : i \in TrackedIds} = {}
  OBVIOUS
<1>5. QED
  BY <1>2, <1>3, <1>4

(* The tick's ratings leave the instances and the magnets as they are.     *)
LEMMA TickRates ==
  ASSUME Inv, DiskInv, TickDecide, LibGood
  PROVE  TrGood
<1>1. PICK down \in [TrackedIds -> Rates], up \in [TrackedIds -> Rates] :
       LET rated(i) == [tr[torrents[i]] EXCEPT !.lastDownBPS = down[i], !.lastUpBPS = up[i]]
           finished == {i \in TrackedIds : Complete(tr[torrents[i]].t)}
           ticked(i) == [rated(i) EXCEPT !.completeLogged = @ \/ i \in finished,
                                         !.completedAt = @ \/ i \in finished]
       IN tr' = [o \in Objs |->
                   IF \E i \in TrackedIds : torrents[i] = o
                   THEN ticked(CHOOSE i \in TrackedIds : torrents[i] = o)
                   ELSE tr[o]]
  BY DEF TickDecide
<1> DEFINE rated(i) == [tr[torrents[i]] EXCEPT !.lastDownBPS = down[i], !.lastUpBPS = up[i]]
           finished == {i \in TrackedIds : Complete(tr[torrents[i]].t)}
           ticked(i) == [rated(i) EXCEPT !.completeLogged = @ \/ i \in finished,
                                         !.completedAt = @ \/ i \in finished]
<1>2. tr' = [o \in Objs |->
               IF \E i \in TrackedIds : torrents[i] = o
               THEN ticked(CHOOSE i \in TrackedIds : torrents[i] = o)
               ELSE tr[o]]
  BY <1>1, Zenon
<1>3. ASSUME NEW i \in TrackedIds
      PROVE  ticked(i).t = tr[torrents[i]].t /\ ticked(i).magnet = tr[torrents[i]].magnet
  <2>1. tr[torrents[i]] \in Tracked
    BY ObjFor DEF TrackedIds
  <2>2. /\ rated(i) \in Tracked /\ rated(i).t = tr[torrents[i]].t
        /\ rated(i).magnet = tr[torrents[i]].magnet
    <3>1. ASSUME NEW y \in Tracked, NEW a \in Rates, NEW b \in Rates
          PROVE  [y EXCEPT !.lastDownBPS = a, !.lastUpBPS = b] \in Tracked
      BY DEF Tracked
    <3>2. down[i] \in Rates /\ up[i] \in Rates
      OBVIOUS
    <3>3. rated(i) \in Tracked
      BY <2>1, <3>1, <3>2
    <3>4. rated(i).t = tr[torrents[i]].t /\ rated(i).magnet = tr[torrents[i]].magnet
      BY <2>1 DEF Tracked
    <3>5. QED
      BY <3>3, <3>4
  <2> HIDE DEF rated, finished
  <2>3. ASSUME NEW y \in Tracked, NEW b
        PROVE  LET z == [y EXCEPT !.completeLogged = @ \/ b, !.completedAt = @ \/ b]
               IN z.t = y.t /\ z.magnet = y.magnet
    BY DEF Tracked
  <2>4. QED
    BY <2>2, <2>3
<1> HIDE DEF rated, finished, ticked
<1>4. \A b \in Objs : tr'[b].t = tr[b].t /\ tr'[b].magnet = tr[b].magnet
  BY <1>2, <1>3
<1>5. \A o \in Objs : tr[o].t \in Insts \cup {NoInst}
  BY TrTyped DEF Tracked
<1>6. UNCHANGED torrents
  BY DEF TickDecide
<1>7. \A i \in Ids : torrents[i] # NoObj => torrents[i] \in Objs
  BY ObjFor
<1>8. StructInfo'
  BY <1>4, <1>5 DEF DiskInv, StructInfo, LibGood
<1>9. QED
  BY <1>4, <1>6, <1>7, <1>8 DEF TrGood

LEMMA TickDisks ==
  ASSUME Inv, DiskInv, TickStep
  PROVE  DiskInv'
<1>1. /\ UNCHANGED torrents /\ UNCHANGED libVars
      /\ UNCHANGED <<session, metainfo, saveMu, restoring, rs>> /\ Spends
  BY DEF TickStep, TickStart, TickDisk, TickDecide, TickApply, TickStop, TickHook, engineVars,
         diskVars, saveVars, mainVars, Spends
<1>2. DiskSame /\ LibGood
  BY <1>1, SameDisk, LibSame
<1>3. TrGood
  <2>1. TickDecide \/ UNCHANGED tr
    BY DEF TickStep, TickStart, TickDisk, TickApply, TickStop, TickHook, engineVars
  <2>2. QED
    BY <1>1, <1>2, <2>1, TickRates, TrSame
<1>4. \A c \in {"tick.disk", "tick.decide", "flow.down", "tick.stop", "pause.set",
                "tick.hook", "tick"} : c \notin Watched
  BY SMTT(30) DEF Watched, RemoveLabels, OpLabels, NeedsFresh, SaveLabels, EarlyLabels
<1>5. CASE TickDecide
  <2>1. Walks(Tick) /\ Open(Tick)
    <3>1. Persist(Tick, "tick.apply") \/ (Goto(Tick, "tick.apply") /\ UNCHANGED save)
      BY <1>5 DEF TickDecide
    <3>2. UNCHANGED loc /\ "tick.apply" \in SaveNext \ Watched
      BY <1>5, SaveNextOpen DEF TickDecide, SaveNext
    <3>3. QED
      BY <3>1, <3>2, PersistOpen, Lands, MainThreads DEF Walks, Open
  <2>2. Early => tk'.flows = {} /\ tk'.stop = {} /\ pc'[Tick] = "tick.apply"
    BY <1>5, EarlyNothing, TickFinds, Lands, MainThreads
  <2>3. QED
    BY <1>1, <1>2, <1>3, <2>1, <2>2, TickGoes DEF RestLabels
<1>6. CASE ~TickDecide
  <2>1. /\ UNCHANGED pc \/ \E c \in {"tick.disk", "tick.decide", "flow.down", "tick.stop",
                                     "pause.set", "tick.hook", "tick"} : Goto(Tick, c)
        /\ UNCHANGED loc \/ \E l : SetLoc(Tick, l)
        /\ UNCHANGED save
    BY <1>6 DEF TickStep, TickStart, TickDisk, TickApply, TickStop, TickHook, saveVars
  <2>2. UNCHANGED pc => pc[Tick] = "tick.stop"
    <3>1. UNCHANGED pc => TickStop \/ pc'[Tick] # pc[Tick]
      BY <1>6, Lands, MainThreads DEF TickStep, TickStart, TickDisk, TickApply, TickHook, At
    <3>2. QED
      BY <3>1 DEF TickStop, At
  <2>3. Walks(Tick) /\ Open(Tick)
    BY <1>4, <2>1, <2>2, Lands, MainThreads DEF Walks, Open
  <2>4. Early => tk'.flows = {} /\ tk'.stop = {} /\ pc'[Tick] \in RestLabels
    <3> SUFFICES ASSUME Early
                 PROVE  tk'.flows = {} /\ tk'.stop = {} /\ pc'[Tick] \in RestLabels
      OBVIOUS
    <3>1. tk.flows = {} /\ tk.stop = {}
      BY EarlyNothing
    <3>2. /\ UNCHANGED tk \/ tk' = Tk0
          /\ \E c \in {"tick.disk", "tick.decide", "tick.stop", "tick.hook", "tick"} : Goto(Tick, c)
      BY <1>6, <3>1 DEF TickStep, TickStart, TickDisk, TickApply, TickStop, TickHook
    <3>3. Tk0.flows = {} /\ Tk0.stop = {}
      BY DEF Tk0
    <3>4. QED
      BY <3>1, <3>2, <3>3, Lands, MainThreads DEF RestLabels
  <2>5. QED
    BY <1>1, <1>2, <1>3, <2>3, <2>4, TickGoes
<1>7. QED
  BY <1>5, <1>6

-----------------------------------------------------------------------------
(* Starting and restoring.                                                 *)

LEMMA NewDisk ==
  ASSUME Inv, DiskInv, New
  PROVE  DiskInv'
<1>1. /\ pc[Main] = "new" /\ pc' = [pc EXCEPT ![Main] = "restore.read", ![Tick] = "tick"]
      /\ UNCHANGED loc /\ UNCHANGED save /\ UNCHANGED <<torrents, tr>> /\ UNCHANGED libVars
      /\ UNCHANGED <<session, metainfo, saveMu, restoring, rs, tk, budget>>
  BY DEF New, At, saveVars, diskVars, mainVars, engineVars
<1>2. LibGood /\ TrGood /\ DiskSame
  BY <1>1, LibSame, TrSame, SameDisk DEF Spends
<1>3. /\ \A q \in Threads \ {Main, Tick} : Stays(q)
      /\ pc'[Main] = "restore.read" /\ pc'[Tick] = "tick"
  <2>1. ThreadTypes
    BY MainThreads, ThreadFacts
  <2>2. QED
    BY <1>1, <2>1, MainThreads DEF ThreadTypes, Stays
<1>4. Orderly
  <2>1. \A c \in {"restore.read", "tick"} :
          /\ c \notin {"save.gather", "save.meta", "save.write"} \cup SaveLabels
          /\ c \notin RemoveLabels \cup OpLabels \cup NeedsFresh \cup {"add.track"}
    BY SMTT(30) DEF RemoveLabels, OpLabels, NeedsFresh, SaveLabels
  <2>2. QED
    BY <1>3, <2>1 DEF Orderly, ThreadOK, KeepsAll, AddedInfo, SavesOK
<1>5. Early /\ Early'
  BY <1>1, <1>3 DEF Early, EarlyLabels
<1>6. EarlyInv'
  <2>1. \A q \in Threads : q # Main => pc'[q] \in RestLabels
    BY <1>3, <1>5 DEF Stays, DiskInv, EarlyInv, RestLabels
  <2>2. QED
    BY <1>1, <1>5, <2>1 DEF DiskInv, EarlyInv
<1>7. MainOK(Where(Main), loc[Main])'
  <2>1. Where(Main)' = "restore.read"
    BY <1>3 DEF Where, WhereOf, FlowLabels, SaveLabels
  <2>2. "restore.read" \in MainLabels \ (AddLabels \cup DoneLabels \cup NextLabels)
    BY DEF MainLabels, AddLabels, DoneLabels, NextLabels
  <2>3. QED
    BY <2>1, <2>2 DEF MainOK, OnMain
<1>8. QED
  BY <1>2, <1>4, <1>5, <1>6, <1>7, DiskFrame DEF EarlyGood

(* The main goroutine goes on to a label of which nothing is asked.        *)
LEMMA MainAt ==
  ASSUME Inv, NEW c, c \notin Watched, c \notin FlowLabels, Goto(Main, c)
  PROVE  pc'[Main] = c /\ Where(Main)' = c /\ Open(Main)
<1>1. pc'[Main] = c
  BY MainThreads, Lands
<1>2. QED
  BY <1>1 DEF Where, WhereOf, Open, Watched

LEMMA MainBusy ==
  ASSUME Inv, DiskInv, ~Early
  PROVE  ~Resting(Main)
<1>1. Where(Main) \in MainLabels
  BY DEF DiskInv, MainOK, OnMain
<1>2. \A c \in RestLabels : c \notin MainLabels \cup FlowLabels \cup SaveLabels
  BY SMTT(30) DEF RestLabels, MainLabels, AddLabels, DoneLabels, NextLabels, FlowLabels, SaveLabels
<1>3. QED
  BY <1>1, <1>2 DEF Early, Resting, Where, WhereOf

LEMMA MainDisk ==
  ASSUME Inv, DiskInv, ~Early, LibGood, TrGood, DiskSame,
         NEW c, c \notin Watched, c \notin FlowLabels,
         \/ Goto(Main, c) /\ UNCHANGED save
         \/ c \in SaveNext /\ Persist(Main, c),
         UNCHANGED loc \/ \E l : SetLoc(Main, l),
         MainOK(c, loc[Main])'
  PROVE  DiskInv'
<1>1. Main \in Threads /\ ~Resting(Main)
  BY MainThreads, MainBusy
<1>2. Walks(Main) /\ Open(Main) /\ Where(Main)' = c
  <2>1. CASE Goto(Main, c) /\ UNCHANGED save
    BY <2>1, MainAt DEF Walks
  <2>2. CASE c \in SaveNext /\ Persist(Main, c)
    BY <1>1, <2>2, PersistOpen DEF Walks
  <2>3. QED
    BY <2>1, <2>2
<1>3. QED
  BY <1>1, <1>2, OpenFine, DiskStep

(* The labels the main goroutine goes on to.                               *)
LEMMA MainNext ==
  /\ \A c \in MainLabels \ (EarlyLabels \cup {"add.track"}) :
       c \notin Watched /\ c \notin FlowLabels
  /\ {"up", "close.cancel"} \subseteq SaveNext
  /\ {"restore.next", "up", "close.cancel", "close.wait", "add.spec"}
       \cup DoneLabels \cup NextLabels \subseteq MainLabels \ (EarlyLabels \cup {"add.track"})
  /\ {"restore.next", "up", "close.cancel", "close.wait"} \cap
        (AddLabels \cup DoneLabels \cup NextLabels) = {}
BY SMTT(30) DEF Watched, RemoveLabels, OpLabels, NeedsFresh, SaveLabels, EarlyLabels, FlowLabels,
                MainLabels, AddLabels, DoneLabels, NextLabels, SaveNext

LEMMA FaultEnds ==
  ASSUME Inv, DiskInv, Fault
  PROVE  budget'.faults # MaxFaults
<1>1. budget \in Budget /\ MaxFaults \in Int /\ budget.faults <= MaxFaults
  BY BoundsAssumption DEF DiskInv, Inv, TypeOK, TallyTypes
<1>2. QED
  BY <1>1 DEF Fault, Budget

(* Of records still to do: none left out but where a disk call failed.     *)
LEMMA RestoreNextDisk ==
  ASSUME Inv, DiskInv, RestoreNext
  PROVE  DiskInv'
<1>2. /\ pc[Main] = "restore.next" /\ UNCHANGED save /\ UNCHANGED <<torrents, tr>>
      /\ UNCHANGED libVars /\ UNCHANGED <<session, metainfo, saveMu, restoring>>
  BY DEF RestoreNext, At, saveVars, diskVars, engineVars
<1>3. LibGood /\ TrGood
  BY <1>2, LibSame, TrSame
<1>4. ~Early /\ Where(Main) = "restore.next" /\ Main \in Threads
  BY <1>2, MainThreads DEF Early, EarlyLabels, Where, WhereOf, FlowLabels, SaveLabels
<1>5. ASSUME NEW i \in Ids,
             SetLoc(Main, [Loc0 EXCEPT !.id = i, !.dir = rs[i].savePath,
                                       !.flag = rs[i].paused,
                                       !.magnet = i \notin metainfo,
                                       !.ret = "restore.limits"]),
             UNCHANGED <<rs, budget>>, Goto(Main, "add.spec")
      PROVE  DiskInv'
  <2> DEFINE l == [Loc0 EXCEPT !.id = i, !.dir = rs[i].savePath, !.flag = rs[i].paused,
                               !.magnet = i \notin metainfo, !.ret = "restore.limits"]
  <2>1. DiskSame
    BY <1>2, <1>5, SameDisk DEF Spends
  <2>2. l.ret = "restore.limits"
    BY NullTypes DEF Locals
  <2> HIDE DEF l
  <2>3. SetLoc(Main, l)
    BY <1>5 DEF l
  <2>4. MainOK("add.spec", loc[Main])'
    <3>1. "add.spec" \in MainLabels \ (DoneLabels \cup NextLabels)
      BY DEF MainLabels, AddLabels, DoneLabels, NextLabels
    <3>2. QED
      BY <1>4, <2>2, <2>3, <3>1, Lands DEF MainOK, OnMain
  <2>5. "add.spec" \notin Watched /\ "add.spec" \notin FlowLabels
    BY MainNext
  <2>6. QED
    BY <1>2, <1>3, <1>4, <1>5, <2>1, <2>3, <2>4, <2>5, MainDisk
<1>6. ASSUME NEW i \in Ids, rs[i] # NoRec, UNCHANGED <<pc, loc>>,
             \/ i \notin metainfo /\ ~rs[i].magnet /\ UNCHANGED budget
             \/ Fault
      PROVE  DiskInv'
  <2>1. \A q \in Threads : Stays(q)
    BY <1>2, <1>6 DEF Stays
  <2>2. Orderly /\ EarlyGood
    BY <1>4, <1>6, <2>1 DEF Orderly, EarlyGood, Early
  <2>3. Spends
    BY <1>6 DEF Spends
  <2>4. RestoreGoes
    <3>1. CASE budget' = budget /\ i \notin metainfo /\ ~rs[i].magnet
      <4>1. budget'.faults = MaxFaults /\ restoring => FALSE
        BY <1>6, <3>1 DEF DiskInv, SessionInv
      <4>2. QED
        BY <1>2, <4>1 DEF RestoreGoes
    <3>2. CASE Fault
      <4>1. budget'.faults # MaxFaults
        BY <3>2, FaultEnds
      <4>2. QED
        BY <1>2, <4>1 DEF RestoreGoes
    <3>3. QED
      BY <1>6, <3>1, <3>2
  <2>5. DiskSame
    BY <1>2, <2>3, <2>4, SpendsLess DEF DiskSame
  <2>6. QED
    BY <1>3, <1>4, <2>1, <2>2, <2>5, DiskFrame
<1>7. PICK i \in Ids :
        /\ rs[i] # NoRec
        /\ \/ /\ SetLoc(Main, [Loc0 EXCEPT !.id = i, !.dir = rs[i].savePath,
                                           !.flag = rs[i].paused,
                                           !.magnet = i \notin metainfo,
                                           !.ret = "restore.limits"])
              /\ Goto(Main, "add.spec")
              /\ UNCHANGED <<rs, budget>>
           \/ i \notin metainfo /\ ~rs[i].magnet /\ UNCHANGED <<pc, loc, budget>>
           \/ Fault /\ UNCHANGED <<pc, loc>>
  BY DEF RestoreNext, Fault
<1>8. QED
  BY <1>5, <1>6, <1>7

LEMMA RestoreLimitsDisk ==
  ASSUME Inv, DiskInv, RestoreLimits
  PROVE  DiskInv'
<1> DEFINE o == torrents[loc[Main].id]
           l == [loc[Main] EXCEPT !.sel = {f \in Files : rs[loc[Main].id].prio[f] # "normal"}]
<1>1. /\ pc[Main] = "restore.limits" /\ UNCHANGED save /\ UNCHANGED torrents
      /\ UNCHANGED libVars /\ UNCHANGED <<session, metainfo, saveMu, restoring, rs, budget>>
      /\ \/ UNCHANGED tr
         \/ \E a, b : SetTr(o, [tr[o] EXCEPT !.upLimit = a, !.downLimit = b])
      /\ Goto(Main, "restore.prios") /\ SetLoc(Main, l)
  BY DEF RestoreLimits, At, saveVars, diskVars, mainVars
<1>2. LibGood /\ DiskSame
  BY <1>1, LibSame, SameDisk DEF Spends
<1>3. l.id = loc[Main].id /\ l.ret = loc[Main].ret /\ Main \in Threads
  BY MainThreads, Lands DEF Locals
<1> HIDE DEF l, o
<1>4. TrGood
  <2>1. CASE UNCHANGED tr
    BY <1>1, <1>2, <2>1, TrSame
  <2>2. CASE \E a, b : SetTr(o, [tr[o] EXCEPT !.upLimit = a, !.downLimit = b])
    <3>1. PICK a, b : SetTr(o, [tr[o] EXCEPT !.upLimit = a, !.downLimit = b])
      BY <2>2
    <3> DEFINE x == [tr[o] EXCEPT !.upLimit = a, !.downLimit = b]
    <3>2. o \in Objs => x.t = tr[o].t /\ x.magnet = tr[o].magnet
      BY TrTyped, TrField
    <3> HIDE DEF x
    <3>3. SetTr(o, x)
      BY <3>1 DEF x
    <3>4. QED
      BY <1>1, <1>2, <3>2, <3>3, TrSet
  <2>3. QED
    BY <1>1, <2>1, <2>2
<1>5. ~Early /\ Where(Main) = "restore.limits"
  BY <1>1 DEF Early, EarlyLabels, Where, WhereOf, FlowLabels, SaveLabels
<1>6. /\ "restore.prios" \in MainLabels /\ {"restore.limits", "restore.prios"} \subseteq NextLabels
      /\ "restore.prios" \notin Watched \cup FlowLabels \cup AddLabels \cup DoneLabels
  BY MainNext DEF NextLabels, AddLabels, DoneLabels
<1>7. MainOK(Where(Main), loc[Main])' /\ Where(Main)' = "restore.prios"
  BY <1>1, <1>3, <1>4, <1>5, <1>6, MainAt, MainGoes, Lands
<1>8. MainOK("restore.prios", loc[Main])'
  BY <1>7
<1>9. QED
  BY <1>1, <1>2, <1>4, <1>5, <1>6, <1>8, MainDisk

LEMMA RestorePriosDisk ==
  ASSUME Inv, DiskInv, RestorePrios
  PROVE  DiskInv'
<1>1. /\ pc[Main] = "restore.prios" /\ UNCHANGED save /\ UNCHANGED <<torrents, tr>>
      /\ UNCHANGED libVars /\ UNCHANGED <<session, metainfo, saveMu, restoring, rs, budget>>
  BY DEF RestorePrios, At, saveVars, diskVars, mainVars, engineVars
<1>2. LibGood /\ TrGood /\ DiskSame /\ Main \in Threads
  BY <1>1, LibSame, TrSame, SameDisk, MainThreads DEF Spends
<1>3. ~Early /\ Where(Main) = "restore.prios"
  BY <1>1 DEF Early, EarlyLabels, Where, WhereOf, FlowLabels, SaveLabels
<1>4. torrents[loc[Main].id] # NoObj
  BY <1>3 DEF DiskInv, MainOK, OnMain, NextLabels
<1>5. /\ {"prio.set", "restore.final"} \subseteq MainLabels
      /\ {"prio.set", "restore.final"} \cap (Watched \cup FlowLabels \cup AddLabels) = {}
  BY MainNext DEF DoneLabels, NextLabels, AddLabels
<1>6. ASSUME NEW l, SetLoc(Main, l), Goto(Main, "prio.set"),
             l.id = loc[Main].id, l.ret = "restore.prios"
      PROVE  DiskInv'
  <2>1. MainOK("prio.set", loc[Main])'
    BY <1>1, <1>2, <1>4, <1>5, <1>6, Lands DEF MainOK, OnMain
  <2>2. QED
    BY <1>1, <1>2, <1>3, <1>5, <1>6, <2>1, MainDisk
<1>7. ASSUME Goto(Main, "restore.final"), UNCHANGED loc
      PROVE  DiskInv'
  <2>1. "restore.final" \notin DoneLabels
    BY DEF DoneLabels
  <2>2. MainOK("restore.final", loc[Main])'
    BY <1>1, <1>4, <1>5, <1>7, <2>1 DEF MainOK, OnMain
  <2>3. QED
    BY <1>1, <1>2, <1>3, <1>5, <1>7, <2>2, MainDisk
<1>8. CASE \E f \in loc[Main].sel :
             /\ SetLoc(Main, [loc[Main] EXCEPT !.sel = @ \ {f}, !.file = f,
                                               !.prio = rs[loc[Main].id].prio[f],
                                               !.o = torrents[loc[Main].id],
                                               !.ret = "restore.prios"])
             /\ Goto(Main, "prio.set")
  <2>1. PICK f \in loc[Main].sel :
             /\ SetLoc(Main, [loc[Main] EXCEPT !.sel = @ \ {f}, !.file = f,
                                               !.prio = rs[loc[Main].id].prio[f],
                                               !.o = torrents[loc[Main].id],
                                               !.ret = "restore.prios"])
             /\ Goto(Main, "prio.set")
    BY <1>8
  <2> DEFINE l == [loc[Main] EXCEPT !.sel = @ \ {f}, !.file = f,
                                    !.prio = rs[loc[Main].id].prio[f],
                                    !.o = torrents[loc[Main].id],
                                    !.ret = "restore.prios"]
  <2>2. l.id = loc[Main].id /\ l.ret = "restore.prios"
    BY <1>2, Lands DEF Locals
  <2> HIDE DEF l
  <2>3. SetLoc(Main, l)
    BY <2>1 DEF l
  <2>4. QED
    BY <1>6, <2>1, <2>2, <2>3
<1>9. QED
  BY <1>7, <1>8 DEF RestorePrios

(* A record that is done is tracked.                                       *)
LEMMA RestoreFinalDisk ==
  ASSUME Inv, DiskInv, RestoreFinal
  PROVE  DiskInv'
<1> DEFINE i == loc[Main].id
           o == torrents[i]
           r == rs[i]
           x == [tr[o] EXCEPT !.base = r.downloaded, !.seedLimit = r.seedLimit,
                              !.completedAt = r.completedAt, !.label = r.label,
                              !.completeLogged = r.completedAt]
<1>1. /\ pc[Main] = "restore.final" /\ UNCHANGED save /\ UNCHANGED torrents
      /\ UNCHANGED libVars /\ UNCHANGED <<session, metainfo, saveMu, restoring, budget>>
      /\ Goto(Main, "restore.next") /\ SetLoc(Main, Loc0)
  BY DEF RestoreFinal, At, saveVars, diskVars, mainVars
<1>2. SetTr(o, x) /\ rs' = [rs EXCEPT ![i] = NoRec]
  BY Zenon DEF RestoreFinal
<1>3. LibGood /\ Main \in Threads
  BY <1>1, LibSame, MainThreads
<1>4. o \in Objs => x.t = tr[o].t /\ x.magnet = tr[o].magnet
  BY TrTyped DEF Tracked
<1> HIDE DEF x, r
<1>5. TrGood
  BY <1>1, <1>2, <1>3, <1>4, TrSet
<1>6. ~Early /\ Where(Main) = "restore.final"
  BY <1>1 DEF Early, EarlyLabels, Where, WhereOf, FlowLabels, SaveLabels
<1>7. o # NoObj
  BY <1>6 DEF DiskInv, MainOK, OnMain, NextLabels
<1>8. DiskSame
  <2>1. RestoreGoes
    <3>1. rs \in [Ids -> Record \cup {NoRec}]
      BY <1>3, ThreadFacts DEF MainTypes
    <3>2. QED
      BY <1>1, <1>2, <1>7, <3>1 DEF RestoreGoes
  <2>2. QED
    BY <1>1, <2>1, SpendsLess DEF DiskSame, Spends
<1>9. "restore.next" \in MainLabels \ (AddLabels \cup DoneLabels \cup NextLabels)
      /\ "restore.next" \notin Watched \cup FlowLabels
  BY MainNext
<1>10. MainOK("restore.next", loc[Main])'
  BY <1>9 DEF MainOK, OnMain
<1>11. QED
  BY <1>1, <1>3, <1>5, <1>6, <1>8, <1>9, <1>10, MainDisk

(* Every record has been done.                                             *)
LEMMA RestoreDoneDisk ==
  ASSUME Inv, DiskInv, RestoreDone
  PROVE  DiskInv'
<1>1. /\ pc[Main] = "restore.next" /\ UNCHANGED <<torrents, tr>> /\ UNCHANGED loc
      /\ UNCHANGED libVars /\ UNCHANGED <<session, metainfo, saveMu, rs, budget>>
      /\ ~restoring' /\ \A i \in Ids : rs[i] = NoRec
      /\ Persist(Main, "up")
  BY DEF RestoreDone, At, diskVars, engineVars
<1>2. LibGood /\ TrGood
  BY <1>1, LibSame, TrSame
<1>3. DiskSame
  BY <1>1, SpendsLess DEF DiskSame, RestoreGoes, Spends
<1>4. ~Early
  BY <1>1 DEF Early, EarlyLabels
<1>5. "up" \in MainLabels \ (AddLabels \cup DoneLabels \cup NextLabels)
      /\ "up" \in SaveNext /\ "up" \notin Watched \cup FlowLabels
  BY MainNext
<1>6. MainOK("up", loc[Main])'
  BY <1>5 DEF MainOK, OnMain
<1>7. QED
  BY <1>1, <1>2, <1>3, <1>4, <1>5, <1>6, MainDisk

(* The session is read: all of it is to do, or there is none.              *)
LEMMA RestoreReadDisk ==
  ASSUME Inv, DiskInv, RestoreRead
  PROVE  DiskInv'
<1>1. /\ pc[Main] = "restore.read" /\ UNCHANGED <<torrents, tr, loc, save, tk>>
      /\ UNCHANGED libVars /\ UNCHANGED <<session, metainfo, saveMu>>
      /\ \/ /\ StateDir /\ restoring' /\ rs' = session /\ UNCHANGED budget
            /\ Goto(Main, "restore.next")
         \/ ~StateDir /\ UNCHANGED <<restoring, rs, budget>> /\ Goto(Main, "up")
         \/ Fault /\ UNCHANGED <<restoring, rs>> /\ Goto(Main, "up")
  BY DEF RestoreRead, At, Fault, saveVars, diskVars, engineVars
<1>2. LibGood /\ TrGood
  BY <1>1, LibSame, TrSame
<1>3. Early /\ Main \in Threads
  BY <1>1, MainThreads DEF Early, EarlyLabels
<1>4. /\ ~restoring /\ \A i \in Ids : torrents[i] = NoObj
      /\ \A q \in Threads : q # Main => pc[q] \in RestLabels
  BY <1>3 DEF DiskInv, EarlyInv
<1>5. /\ pc'[Main] \in {"restore.next", "up"}
      /\ \A q \in Threads : q # Main => Stays(q)
  <2>1. ThreadTypes
    BY <1>3, ThreadFacts
  <2>2. QED
    BY <1>1, <1>3, <2>1 DEF Goto, ThreadTypes, Stays
<1>6. Orderly
  <2>1. \A c \in {"restore.next", "up"} :
          /\ c \notin {"save.gather", "save.meta", "save.write"} \cup SaveLabels
          /\ c \notin RemoveLabels \cup OpLabels \cup NeedsFresh \cup {"add.track"}
    BY SMTT(30) DEF RemoveLabels, OpLabels, NeedsFresh, SaveLabels
  <2>2. QED
    BY <1>5, <2>1 DEF Orderly, ThreadOK, KeepsAll, AddedInfo, SavesOK
<1>7. ~Early'
  BY <1>5 DEF Early, EarlyLabels
<1>8. ControlInv' /\ KnownLib' /\ StructInfo' /\ EarlyInv'
  BY <1>2, <1>6, <1>7, ControlKept DEF LibGood, TrGood, EarlyInv
<1>9. \A q \in Threads : ~Saver(q)' /\ pc'[q] # "save.gather"
  BY <1>4, <1>5 DEF Saver, Stays, RestLabels
<1>10. SaversInv'
  BY <1>9 DEF SaversInv
<1>11. MainOK(Where(Main), loc[Main])'
  <2>1. Where(Main)' \in {"restore.next", "up"}
    BY <1>5 DEF Where, WhereOf, FlowLabels, SaveLabels
  <2>2. {"restore.next", "up"} \subseteq MainLabels \ (AddLabels \cup DoneLabels \cup NextLabels)
    BY DEF MainLabels, AddLabels, DoneLabels, NextLabels
  <2>3. QED
    BY <2>1, <2>2 DEF MainOK, OnMain
<1>12. /\ budget'.faults <= MaxFaults
       /\ budget'.faults = MaxFaults => budget.faults = MaxFaults /\ ~Fault
  <2>1. budget.faults \in Int /\ MaxFaults \in Int /\ budget.faults <= MaxFaults
    BY BoundsAssumption DEF DiskInv, Inv, TypeOK, TallyTypes, Budget
  <2>2. budget'.faults <= budget.faults /\ budget'.faults \in Int
    BY <1>1, SpendsLess DEF Spends
  <2>3. QED
    BY <2>1, <2>2, FaultEnds
<1>13. budget'.faults = MaxFaults => SessionInv'
  <2> SUFFICES ASSUME budget'.faults = MaxFaults PROVE SessionInv'
    OBVIOUS
  <2>1. SessionInv /\ ~Fault
    BY <1>12 DEF DiskInv
  <2>2. \A i \in Ids : session'[i] # NoRec => i \in metainfo' \/ session'[i].magnet
    BY <1>1, <2>1 DEF SessionInv
  <2>3. ~restoring' => ~StateDir
    BY <1>1, <2>1
  <2>4. restoring' => rs' = session'
    BY <1>1, <1>4, <2>1
  <2>5. QED
    BY <1>9, <2>2, <2>3, <2>4 DEF SessionInv
<1>14. QED
  BY <1>8, <1>10, <1>11, <1>12, <1>13 DEF DiskInv

-----------------------------------------------------------------------------
(* A process that starts: nothing is going on, and the session is what the *)
(* last one left.                                                          *)

SessionSound ==
  \A i \in Ids : Session0[i] # NoRec => i \in Metainfo0 \/ Session0[i].magnet

LEMMA InitDisk == SessionSound /\ Init => DiskInv
<1> SUFFICES ASSUME SessionSound, Init PROVE DiskInv
  OBVIOUS
<1>1. /\ \A q \in Threads : pc[q] = Fresh(q)
      /\ \A o \in Objs : tr[o].t = NoInst
      /\ \A i \in Ids : torrents[i] = NoObj /\ client[i] = NoInst
      /\ \A t \in Insts : ~lib[t].live /\ ~lib[t].info
      /\ ninst = 0 /\ ~restoring /\ tk = Tk0
  BY DEF Init, NewTracked, Blank
<1>2. /\ pc[Main] = "new" /\ \A q \in Threads : pc[q] \in {"new", "idle", "off"}
      /\ \A q \in Threads : q # Main => pc[q] \in RestLabels
  BY <1>1, MainThreads DEF Fresh, RestLabels
<1>3. ControlInv
  <2>1. \A c \in {"new", "idle", "off"} :
          c \notin RemoveLabels \cup OpLabels \cup NeedsFresh \cup SaveLabels \cup {"add.track"}
    BY SMTT(30) DEF RemoveLabels, OpLabels, NeedsFresh, SaveLabels
  <2>2. QED
    BY <1>2, <2>1 DEF ControlInv, KeepsAll, AddedInfo, SavesOK
<1>4. KnownLib /\ StructInfo
  BY <1>1, BoundsAssumption DEF KnownLib, StructInfo, NoInst
<1>5. Early /\ EarlyInv
  BY <1>1, <1>2 DEF Early, EarlyLabels, EarlyInv, Tk0
<1>6. \A q \in Threads : ~Saver(q)
  BY <1>2 DEF Saver
<1>7. SaversInv
  BY <1>1, <1>6 DEF SaversInv
<1>8. MainOK(Where(Main), loc[Main])
  <2>1. Where(Main) = "new"
    BY <1>2 DEF Where, WhereOf, FlowLabels, SaveLabels
  <2>2. "new" \in MainLabels \ (AddLabels \cup DoneLabels \cup NextLabels)
    BY DEF MainLabels, AddLabels, DoneLabels, NextLabels
  <2>3. QED
    BY <2>1, <2>2 DEF MainOK, OnMain
<1>9. budget.faults <= MaxFaults
  BY BoundsAssumption DEF Init
<1>10. SessionInv
  <2>1. \A i \in Ids : session[i] # NoRec => i \in metainfo \/ session[i].magnet
    BY DEF SessionSound, Init
  <2>2. QED
    BY <1>1, <1>5, <1>6, <2>1 DEF SessionInv
<1>11. QED
  BY <1>3, <1>4, <1>5, <1>7, <1>8, <1>9, <1>10 DEF DiskInv

LEMMA ProcessEndsDisk ==
  ASSUME Inv, DiskInv, ProcessEnds
  PROVE  DiskInv'
<1>1. /\ \A q \in Threads : pc'[q] = Fresh(q)
      /\ \A o \in Objs : tr'[o].t = NoInst
      /\ \A i \in Ids : torrents'[i] = NoObj /\ client'[i] = NoInst
      /\ \A t \in Insts : ~lib'[t].live /\ ~lib'[t].info
      /\ ninst' = 0 /\ ~restoring' /\ tk' = Tk0
  BY DEF ProcessEnds, NewTracked, Blank
<1>2. /\ pc'[Main] = "new" /\ \A q \in Threads : pc'[q] \in {"new", "idle", "off"}
      /\ \A q \in Threads : q # Main => pc'[q] \in RestLabels
  BY <1>1, MainThreads DEF Fresh, RestLabels
<1>3. ControlInv'
  <2>1. \A c \in {"new", "idle", "off"} :
          c \notin RemoveLabels \cup OpLabels \cup NeedsFresh \cup SaveLabels \cup {"add.track"}
    BY SMTT(30) DEF RemoveLabels, OpLabels, NeedsFresh, SaveLabels
  <2>2. QED
    BY <1>2, <2>1 DEF ControlInv, KeepsAll, AddedInfo, SavesOK
<1>4. KnownLib' /\ StructInfo'
  BY <1>1, BoundsAssumption DEF KnownLib, StructInfo, NoInst
<1>5. Early' /\ EarlyInv'
  BY <1>1, <1>2 DEF Early, EarlyLabels, EarlyInv, Tk0
<1>6. \A q \in Threads : ~Saver(q)'
  BY <1>2 DEF Saver
<1>7. SaversInv'
  BY <1>1, <1>6 DEF SaversInv
<1>8. MainOK(Where(Main), loc[Main])'
  <2>1. Where(Main)' = "new"
    BY <1>2 DEF Where, WhereOf, FlowLabels, SaveLabels
  <2>2. "new" \in MainLabels \ (AddLabels \cup DoneLabels \cup NextLabels)
    BY DEF MainLabels, AddLabels, DoneLabels, NextLabels
  <2>3. QED
    BY <2>1, <2>2 DEF MainOK, OnMain
<1>9. budget'.faults = budget.faults
  BY DEF ProcessEnds, Inv, TypeOK, TallyTypes, Budget
<1>10. budget'.faults = MaxFaults => SessionInv'
  <2> SUFFICES ASSUME budget'.faults = MaxFaults PROVE SessionInv'
    OBVIOUS
  <2>1. \A i \in Ids : session[i] # NoRec => i \in metainfo \/ session[i].magnet
    BY <1>9 DEF DiskInv, SessionInv
  <2>2. UNCHANGED <<session, metainfo>>
    BY DEF ProcessEnds, diskVars
  <2>3. \A i \in Ids : session'[i] # NoRec => i \in metainfo' \/ session'[i].magnet
    BY <2>1, <2>2
  <2>4. QED
    BY <1>1, <1>5, <1>6, <2>3 DEF SessionInv
<1>11. QED
  BY <1>3, <1>4, <1>5, <1>7, <1>8, <1>9, <1>10 DEF DiskInv

-----------------------------------------------------------------------------
(* Closing, the network, and calls.                                        *)

LEMMA CloseDisk ==
  ASSUME Inv, DiskInv, Close \/ CloseCancel
  PROVE  DiskInv'
<1>1. /\ pc[Main] \in {"up", "close.cancel"} /\ UNCHANGED <<torrents, tr>> /\ UNCHANGED loc
      /\ UNCHANGED libVars /\ UNCHANGED <<session, metainfo, saveMu, restoring, rs, budget>>
      /\ \/ Persist(Main, "close.cancel")
         \/ Goto(Main, "close.wait") /\ UNCHANGED save
  BY DEF Close, CloseCancel, Up, At, saveVars, diskVars, mainVars, engineVars
<1>2. LibGood /\ TrGood /\ DiskSame
  BY <1>1, LibSame, TrSame, SameDisk DEF Spends
<1>3. ~Early
  BY <1>1 DEF Early, EarlyLabels
<1>4. \A c \in {"close.cancel", "close.wait"} :
        /\ c \in MainLabels \ (AddLabels \cup DoneLabels \cup NextLabels)
        /\ c \notin Watched /\ c \notin FlowLabels
  BY MainNext
<1>5. \A c \in {"close.cancel", "close.wait"} : MainOK(c, loc[Main])'
  BY <1>4 DEF MainOK, OnMain
<1>6. "close.cancel" \in SaveNext
  BY MainNext
<1>7. QED
  BY <1>1, <1>2, <1>3, <1>4, <1>5, <1>6, MainDisk

(* No thread moves.                                                        *)
LEMMA StillDisk ==
  ASSUME Inv, DiskInv, LibGood, TrGood, DiskSame, UNCHANGED <<torrents, pc, loc, save, tk>>
  PROVE  DiskInv'
<1>1. (\A q \in Threads : Stays(q)) /\ Stays(Main)
  BY MainThreads DEF Stays
<1>2. Orderly /\ (Early' <=> Early)
  BY <1>1 DEF Orderly, Early
<1>3. EarlyInv'
  <2> SUFFICES ASSUME Early PROVE EarlyInv'
    BY <1>2 DEF EarlyInv
  <2>1. QED
    BY DEF DiskInv, EarlyInv, DiskSame, RestoreGoes
<1>4. QED
  BY <1>1, <1>2, <1>3, DiskFrame DEF EarlyGood

(* Nothing the network does takes metadata away.                           *)
LEMMA NetworkDisk ==
  ASSUME Inv, DiskInv, Network
  PROVE  DiskInv'
<1>1. PICK t \in Insts :
        /\ \/ (GotInfo(t) \/ Transfer(t)) /\ UNCHANGED data
           \/ Finish(t) /\ UNCHANGED budget
        /\ UNCHANGED <<engineVars, ninst, client, guardVars, session, metainfo,
                       saveVars, mainVars, pc, loc, tk, hooks>>
  BY DEF Network
<1>2. LibGood
  <2>1. lib[t] \in Instance
    BY LibFacts
  <2>2. CASE GotInfo(t)
    <3>1. ASSUME NEW y \in Instance
          PROVE  [y EXCEPT !.info = TRUE].info /\ [y EXCEPT !.info = TRUE].live = y.live
      BY DEF Instance
    <3>2. LibKeeps(t, [lib[t] EXCEPT !.info = TRUE])
      BY <2>1, <2>2, <3>1 DEF LibKeeps, GotInfo
    <3>3. QED
      BY <1>1, <2>2, <3>2, LibSet DEF GotInfo
  <2>3. CASE Transfer(t)
    <3>1. ASSUME NEW y \in Instance
          PROVE  LET z == [y EXCEPT !.bytes = @ + 1] IN z.info = y.info /\ z.live = y.live
      BY DEF Instance
    <3>2. LibKeeps(t, [lib[t] EXCEPT !.bytes = @ + 1])
      BY <2>1, <3>1 DEF LibKeeps
    <3>3. QED
      BY <1>1, <2>3, <3>2, LibSet DEF Transfer
  <2>4. CASE Finish(t)
    <3>1. ASSUME NEW y \in Instance
          PROVE  LET z == [y EXCEPT !.have = TRUE] IN z.info = y.info /\ z.live = y.live
      BY DEF Instance
    <3>2. LibKeeps(t, [lib[t] EXCEPT !.have = TRUE])
      BY <2>1, <3>1 DEF LibKeeps
    <3>3. QED
      BY <1>1, <2>4, <3>2, LibSet DEF Finish
  <2>5. QED
    BY <1>1, <2>2, <2>3, <2>4
<1>3. /\ UNCHANGED <<torrents, tr, pc, loc, save, tk>>
      /\ UNCHANGED <<session, metainfo, saveMu, restoring, rs>>
  BY <1>1 DEF engineVars, saveVars, mainVars
<1>4. Spends
  BY <1>1 DEF GotInfo, Transfer, Spends
<1>5. TrGood /\ DiskSame
  BY <1>2, <1>3, <1>4, TrSame, SameDisk
<1>6. QED
  BY <1>2, <1>3, <1>5, StillDisk

-----------------------------------------------------------------------------

(* A call that is not a remove.                                            *)
LEMMA CallDisk ==
  ASSUME Inv, DiskInv, NEW p \in Clients, NEW op, NEW c, NEW l, Call(p, op, c, l),
         \/ c \notin Watched
         \/ c = "op.lock" /\ l.op # "remove"
  PROVE  DiskInv'
<1>1. p \in Threads /\ p # Main
  BY ThreadsAssumption DEF Threads, Callers
<1>2. /\ pc[p] = "idle" /\ pc[Main] = "up" /\ Goto(p, c) /\ SetLoc(p, l) /\ UNCHANGED save
      /\ UNCHANGED <<torrents, tr>> /\ UNCHANGED libVars
      /\ UNCHANGED <<session, metainfo, saveMu, restoring, rs>>
      /\ budget' = [budget EXCEPT !.ops = @ - 1]
  BY DEF Call, At, Up, engineVars, saveVars, diskVars, mainVars
<1>3. LibGood /\ TrGood /\ DiskSame
  BY <1>2, LibSame, TrSame, SameDisk DEF Spends
<1>4. pc'[p] = c /\ loc'[p] = l /\ Walks(p)
  BY <1>1, <1>2, Lands DEF Walks
<1>5. (\A q \in Threads : q # p => Stays(q)) /\ Stays(Main)
  BY <1>1, <1>4, WalksStays, MainThreads
<1>6. Fine(p)
  <2>1. CASE c \notin Watched
    BY <1>4, <2>1, OpenFine DEF Open
  <2>2. CASE c = "op.lock" /\ l.op # "remove"
    <3>1. "op.lock" \notin SaveLabels \cup EarlyLabels \cup RemoveLabels \cup NeedsFresh
      BY SMTT(30) DEF SaveLabels, EarlyLabels, RemoveLabels, NeedsFresh
    <3>2. QED
      BY <1>4, <2>2, <3>1 DEF Fine, ThreadOK, KeepsAll, AddedInfo, SavesOK
  <2>3. QED
    BY <2>1, <2>2
<1>7. Orderly
  BY <1>5, <1>6 DEF Orderly, Fine
<1>8. ~Early /\ ~Early'
  BY <1>2, <1>5 DEF Early, EarlyLabels, Stays
<1>9. QED
  BY <1>3, <1>5, <1>7, <1>8, DiskFrame DEF EarlyGood

LEMMA ClientCallsDisk ==
  ASSUME Inv, DiskInv, "remove" \notin Ops, NEW p \in Clients, ClientCalls(p)
  PROVE  DiskInv'
<1>1. \A c \in {"add.spec", "pause.set", "prio.set", "rate", "seed", "label",
                "stream.paused", "check.add"} : c \notin Watched
  BY SMTT(30) DEF Watched, RemoveLabels, OpLabels, NeedsFresh, SaveLabels, EarlyLabels
<1>2. CASE \E op, c, l : Call(p, op, c, l) /\ c \notin Watched
  BY <1>2, CallDisk
<1>3. CASE CallStruct(p)
  <2>1. PICK i \in Ids, op \in {"purge", "move"}, d \in Dirs, b \in BOOLEAN :
          /\ torrents[i] # NoObj
          /\ Call(p, op, "op.lock", [Found(i) EXCEPT !.op = op, !.dir = d, !.flag = b])
    BY <1>3 DEF CallStruct, Call
  <2> DEFINE l == [Found(i) EXCEPT !.op = op, !.dir = d, !.flag = b]
  <2>2. l.op # "remove"
    <3>1. ASSUME NEW z \in Locals
          PROVE  [z EXCEPT !.op = op, !.dir = d, !.flag = b].op = op
      BY DEF Locals
    <3>2. QED
      BY <2>1, <3>1, FoundFacts
  <2> HIDE DEF l
  <2>3. Call(p, op, "op.lock", l)
    BY <2>1 DEF l
  <2>4. QED
    BY <2>2, <2>3, CallDisk
<1>4. ClientCalls(p) => CallStruct(p) \/ \E op, c, l : Call(p, op, c, l) /\ c \notin Watched
  <2>1. ASSUME NEW op, NEW c \in {"add.spec", "pause.set", "prio.set", "rate", "seed", "label",
                                  "stream.paused", "check.add"}, NEW l, Call(p, op, c, l)
        PROVE  \E a, e, f : Call(p, a, e, f) /\ e \notin Watched
    BY <1>1, <2>1
  <2>2. CASE CallAdd(p)
    BY <2>1, <2>2 DEF CallAdd
  <2>3. CASE CallSetPaused(p)
    BY <2>1, <2>3 DEF CallSetPaused
  <2>4. CASE CallSetFilePriority(p)
    BY <2>1, <2>4 DEF CallSetFilePriority
  <2>5. CASE CallSetter(p)
    BY <2>1, <2>5 DEF CallSetter
  <2>6. CASE CallPrepareStream(p)
    BY <2>1, <2>6 DEF CallPrepareStream
  <2>7. CASE CallForceRecheck(p)
    BY <2>1, <2>7 DEF CallForceRecheck
  <2>8. QED
    BY <2>2, <2>3, <2>4, <2>5, <2>6, <2>7 DEF ClientCalls
<1>5. QED
  BY <1>2, <1>3, <1>4

-----------------------------------------------------------------------------
(* The step, and the theorems.                                             *)

LEMMA ThreadDisk ==
  ASSUME Inv, DiskInv, NEW p \in Threads, ThreadStep(p)
  PROVE  DiskInv'
<1>1. CASE OpStep(p)
  <2>1. CASE AddStep(p)
    BY <2>1, AddSpecDisk, AddTrackDisk, AddSpawnDisk DEF AddStep
  <2>2. QED
    BY <1>1, <2>1, ApplyFlowDisk, EndOpDisk, PersistDisk, PauseDisk, FieldDisk, StreamDisk,
       StructDisk DEF OpStep
<1>2. CASE GoroutineStep(p)
  BY <1>2, ApplyFlowDisk, PersistDisk, WaiterDisk, CheckerDisk DEF GoroutineStep
<1>3. CASE MainStep
  <2>1. CASE RestoreStep
    BY <2>1, RestoreReadDisk, RestoreNextDisk, RestoreLimitsDisk, RestorePriosDisk,
       RestoreFinalDisk, RestoreDoneDisk DEF RestoreStep
  <2>2. QED
    BY <1>3, <2>1, NewDisk, CloseDisk, ProcessEndsDisk DEF MainStep, CloseWait
<1>4. QED
  BY <1>1, <1>2, <1>3, TickDisks DEF ThreadStep

LEMMA NextDisk ==
  ASSUME "remove" \notin Ops
  PROVE  Inv /\ DiskInv /\ [Next]_vars => DiskInv'
<1> SUFFICES ASSUME Inv, DiskInv, [Next]_vars PROVE DiskInv'
  OBVIOUS
<1>1. CASE Crash
  BY <1>1, ProcessEndsDisk DEF Crash
<1>2. CASE Idle \/ UNCHANGED vars
  <2>1. /\ UNCHANGED <<torrents, tr, pc, loc, save, tk, budget>> /\ UNCHANGED libVars
        /\ UNCHANGED <<session, metainfo, saveMu, restoring, rs>>
    BY <1>2 DEF Idle, vars, engineVars, saveVars, diskVars, mainVars
  <2>2. LibGood /\ TrGood /\ DiskSame
    BY <2>1, LibSame, TrSame, SameDisk DEF Spends
  <2>3. QED
    BY <2>1, <2>2, StillDisk
<1>3. QED
  BY <1>1, <1>2, ClientCallsDisk, ThreadDisk, CloseDisk, NetworkDisk DEF Next

LEMMA DiskInvariance ==
  ASSUME "remove" \notin Ops, SessionSound
  PROVE  Spec => []DiskInv
BY Invariance, InitDisk, NextDisk, PTL DEF Spec

(* While no torrent is removed and no disk call has failed, every torrent  *)
(* of session.json can be added again, wherever a crash comes: saves write *)
(* a metainfo file before the record that needs it, and never two at once. *)
THEOREM CrashSafe ==
  ASSUME "remove" \notin Ops, SessionSound
  PROVE  Spec => []Restorable
<1>1. DiskInv => Restorable
  BY DEF DiskInv, SessionInv, Restorable
<1>2. QED
  BY <1>1, DiskInvariance, PTL

(* Only a save writes session.json.                                        *)
LEMMA OpSaves ==
  ASSUME NEW p, OpStep(p)
  PROVE  UNCHANGED session \/ PersistStep(p)
<1>1. CASE ApplyFlowDown(p) \/ ApplyFlowUp(p) \/ EndOp(p) \/ AddStep(p) \/ PauseStep(p)
  BY <1>1 DEF ApplyFlowDown, ApplyFlowUp, EndOp, AddStep, AddSpec, AddTrack, AddSpawn, PauseStep,
              SetPaused, SetPausedChosen, SetPausedMark, SetPausedSave, diskVars
<1>2. CASE FieldStep(p) \/ StreamStep(p)
  BY <1>2 DEF FieldStep, SetFilePriority, SetFilePriorityChosen, SetTorrentRateLimit,
              SetSeedLimit, SetLabel, StreamStep, PrepareStreamPaused, PrepareStreamResume,
              PrepareStreamPrio, diskVars
<1>3. CASE StructStep(p)
  <2>1. CASE BeginCheckAdd(p) \/ BeginCheck(p) \/ LockOp(p) \/ QuiesceCancel(p) \/ QuiesceWait(p)
    BY <2>1 DEF BeginCheckAdd, BeginCheck, LockOp, QuiesceCancel, QuiesceWait, diskVars
  <2>2. CASE RemoveStep(p)
    BY <2>2 DEF RemoveStep, RemoveDelete, RemoveDrop, RemoveFiles, RemoveMeta, diskVars
  <2>3. CASE PurgeStep(p)
    BY <2>3 DEF PurgeStep, PurgeRead, PurgeHold, PurgeFold, PurgeDrop, PurgeDelete, PurgeReadd,
                PurgeSwap, PurgeSave, PurgeFailed, StructRead, StructHold, FoldCounters, DropOld,
                diskVars
  <2>4. CASE MoveStep(p)
    BY <2>4 DEF MoveStep, MoveRead, MoveMkdir, MoveHold, MovePrios, MoveFiles, MoveFold, MoveDrop,
                MoveReadd, MoveLost, MoveFailed, MoveReprio, MoveSwap, StructRead, StructHold,
                FoldCounters, DropOld, diskVars
  <2>5. QED
    BY <1>3, <2>1, <2>2, <2>3, <2>4 DEF StructStep
<1>4. QED
  BY <1>1, <1>2, <1>3 DEF OpStep

LEMMA ThreadSaves ==
  ASSUME NEW p \in Threads, ThreadStep(p)
  PROVE  UNCHANGED session \/ PersistStep(p)
<1>1. CASE GoroutineStep(p)
  BY <1>1 DEF GoroutineStep, ApplyFlowDown, ApplyFlowUp, WaiterStep, WaitInfo, WaitMark,
              WaitSelect, WaitChosen, WaitSave, CheckerStep, VerifyRead, VerifyLoop, VerifyPiece,
              CheckClear, CheckDone, CheckEnd, CheckOff, diskVars
<1>2. CASE TickStep
  BY <1>2 DEF TickStep, TickStart, TickDisk, TickDecide, TickApply, TickStop, TickHook, diskVars
<1>3. CASE MainStep
  BY <1>3 DEF MainStep, New, RestoreStep, RestoreRead, RestoreNext, RestoreLimits, RestorePrios,
              RestoreFinal, RestoreDone, CloseCancel, CloseWait, ProcessEnds, diskVars
<1>4. QED
  BY <1>1, <1>2, <1>3, OpSaves DEF ThreadStep

LEMMA SavesOnly ==
  ASSUME [Next]_vars
  PROVE  UNCHANGED session \/ \E p \in Threads : PersistStep(p)
<1>1. ASSUME NEW p \in Clients, ClientCalls(p)
      PROVE  UNCHANGED session
  <2>1. ASSUME NEW op, NEW c, NEW l, Call(p, op, c, l)
        PROVE  UNCHANGED session
    BY <2>1 DEF Call, diskVars
  <2>2. CASE CallAdd(p) \/ CallSetPaused(p) \/ CallSetFilePriority(p) \/ CallSetter(p)
    BY <2>1, <2>2 DEF CallAdd, CallSetPaused, CallSetFilePriority, CallSetter
  <2>3. CASE CallPrepareStream(p) \/ CallForceRecheck(p) \/ CallStruct(p)
    BY <2>1, <2>3 DEF CallPrepareStream, CallForceRecheck, CallStruct
  <2>4. QED
    BY <1>1, <2>2, <2>3 DEF ClientCalls
<1>2. CASE Close \/ Crash \/ Network \/ Idle \/ UNCHANGED vars
  BY <1>2 DEF Close, Crash, ProcessEnds, Network, Idle, vars, diskVars
<1>3. QED
  BY <1>1, <1>2, ThreadSaves DEF Next

(* A save drops a record only where a disk call has failed before.         *)
LEMMA SaveForgets ==
  ASSUME Inv, DiskInv, [Next]_vars, budget.faults = MaxFaults
  PROVE  \A i \in Ids : session[i] # NoRec => session'[i] # NoRec
<1>1. CASE UNCHANGED session
  BY <1>1
<1>2. ASSUME NEW p \in Threads, PersistStep(p)
      PROVE  \A i \in Ids : session[i] # NoRec => session'[i] # NoRec
  <2>1. UNCHANGED session \/ UNCHANGED budget
    BY <1>2 DEF PersistStep, PersistCheck, SaveGather, SaveMetaCollect, SaveMetaWrite, SaveWrite,
                SaveDirFails, diskVars
  <2>2. SessionInv
    BY DEF DiskInv
  <2>3. QED
    BY <1>1, <1>2, <2>1, <2>2, SessionGood
<1>3. QED
  BY <1>1, <1>2, SavesOnly

(* No save forgets a torrent: a record leaves session.json only where a    *)
(* disk call has failed, also while a restore is under way or a crash cuts *)
(* one short (no removes among the calls).                                 *)
THEOREM SessionComplete ==
  ASSUME "remove" \notin Ops, SessionSound
  PROVE  Spec => NothingForgotten
<1>1. Inv /\ DiskInv /\ [Next]_vars =>
        [\A i \in Ids : session[i] # NoRec /\ session'[i] = NoRec => budget.faults < MaxFaults]_vars
  <2> SUFFICES ASSUME Inv, DiskInv, [Next]_vars, NEW i \in Ids,
                      session[i] # NoRec, session'[i] = NoRec
               PROVE  budget.faults < MaxFaults
    OBVIOUS
  <2>1. budget.faults # MaxFaults
    BY SaveForgets
  <2>2. budget.faults \in Int /\ MaxFaults \in Int /\ budget.faults <= MaxFaults
    BY BoundsAssumption DEF DiskInv, Inv, TypeOK, TallyTypes, Budget
  <2>3. QED
    BY <2>1, <2>2
<1>2. QED
  BY <1>1, Invariance, DiskInvariance, PTL DEF Spec, NothingForgotten

-----------------------------------------------------------------------------
(* The restore.                                                            *)

(* What the rest of the process leaves of a struct.                        *)
LibDone == \A t \in Insts : Complete(t) => Complete(t)'

Keeps(x, y) ==
  /\ y.t = x.t /\ y.savePath = x.savePath /\ y.label = x.label
  /\ y.downLimit = x.downLimit /\ y.upLimit = x.upLimit /\ y.seedLimit = x.seedLimit
  /\ y.base = x.base
  /\ x.completedAt => y.completedAt
  /\ x.completeLogged => y.completeLogged

KeepsStruct(i) ==
  LET x == tr[torrents[i]]  y == tr'[torrents[i]] IN
  /\ torrents'[i] = torrents[i] /\ Keeps(x, y)
  /\ y.paused = x.paused \/ (y.paused /\ StopOK(i))

StructKeeps == LibDone /\ \A i \in Ids : torrents[i] # NoObj => KeepsStruct(i)

LEMMA LibDoneSame ==
  ASSUME UNCHANGED lib
  PROVE  LibDone
BY DEF LibDone, Complete

LibHolds(z, y) == (z.info => y.info) /\ (z.have => y.have)

LEMMA LibDoneSet ==
  ASSUME Inv, NEW t, NEW y, SetLib(t, y), t \in Insts => LibHolds(lib[t], y)
  PROVE  LibDone
<1>1. \A u \in Insts : lib'[u] = IF u = t THEN y ELSE lib[u]
  BY LibFacts DEF SetLib
<1>2. QED
  BY <1>1 DEF LibDone, Complete, LibHolds

(* What the steps of a restore, and those beside it, assign.               *)
LEMMA LibDoneField ==
  ASSUME Inv, NEW t, NEW a,
         \/ SetLib(t, [lib[t] EXCEPT !.prio = a])
         \/ SetLib(t, [lib[t] EXCEPT !.down = a])
         \/ SetLib(t, [lib[t] EXCEPT !.up = a])
         \/ SetLib(t, [lib[t] EXCEPT !.bytes = @ + 1])
         \/ SetLib(t, [lib[t] EXCEPT !.info = TRUE])
         \/ SetLib(t, [lib[t] EXCEPT !.have = TRUE])
         \/ SetLib(t, [lib[t] EXCEPT !.info = @ \/ a])
  PROVE  LibDone
<1>1. ASSUME NEW z \in Instance
      PROVE  /\ LibHolds(z, [z EXCEPT !.prio = a])
             /\ LibHolds(z, [z EXCEPT !.down = a])
             /\ LibHolds(z, [z EXCEPT !.up = a])
             /\ LibHolds(z, [z EXCEPT !.bytes = @ + 1])
             /\ LibHolds(z, [z EXCEPT !.info = TRUE])
             /\ LibHolds(z, [z EXCEPT !.have = TRUE])
             /\ LibHolds(z, [z EXCEPT !.info = @ \/ a])
  BY DEF Instance, LibHolds
<1>2. t \in Insts => lib[t] \in Instance
  BY LibFacts
<1>3. QED
  BY <1>1, <1>2, LibDoneSet

LEMMA LibDoneAdd ==
  ASSUME Inv, DiskInv, NEW i \in Ids, NEW d, NEW b, AddTorrentSpec(i, d, b)
  PROVE  LibDone
<1>1. CASE client[i] # NoInst
  <2>1. SetLib(client[i], [lib[client[i]] EXCEPT !.info = @ \/ b])
    BY <1>1 DEF AddTorrentSpec, AddedInst
  <2>2. QED
    BY <2>1, LibDoneField
<1>2. CASE client[i] = NoInst
  <2>1. PICK y : SetLib(ninst + 1, y)
    BY <1>2 DEF AddTorrentSpec, AddedInst
  <2>2. ninst + 1 \in Insts => ~Complete(ninst + 1)
    BY LibFacts DEF DiskInv, KnownLib, Complete
  <2>3. \A u \in Insts : u # ninst + 1 => lib'[u] = lib[u]
    BY <2>1, LibFacts DEF SetLib
  <2>4. QED
    BY <2>2, <2>3 DEF LibDone, Complete
<1>3. QED
  BY <1>1, <1>2

LEMMA StructSame ==
  ASSUME LibDone, UNCHANGED <<torrents, tr>>
  PROVE  StructKeeps
BY DEF StructKeeps, KeepsStruct, Keeps

LEMMA StopKept ==
  ASSUME Inv, LibDone, NEW i \in Ids, KeepsStruct(i), StopOK(i)
  PROVE  StopOK(i)'
<1>1. tr[torrents[i]].t \in Insts
  BY ObjFor DEF StopOK
<1>2. QED
  BY <1>1 DEF KeepsStruct, Keeps, StopOK, LibDone, SeedLimitOf

(* A torrent that has been restored stays so.                              *)
LEMMA RestoredKept ==
  ASSUME Inv, LibDone, NEW i \in Ids, KeepsStruct(i), Restored(i), UNCHANGED session
  PROVE  Restored(i)'
<1>1. torrents[i] # NoObj /\ torrents'[i] = torrents[i]
  BY DEF Restored, KeepsStruct
<1>2. KeepsStruct(i)
  OBVIOUS
<1>3. StopOK(i) <=> Complete(tr[torrents[i]].t) /\ SeedLimitOf(tr[torrents[i]]) > 0
  BY <1>1 DEF StopOK
<1>4. StopOK(i)' <=> Complete(tr[torrents[i]].t)' /\ (SeedLimitOf(tr[torrents[i]]) > 0)'
  BY <1>1 DEF StopOK
<1>5. StopOK(i) => StopOK(i)'
  BY StopKept
<1>6. tr'[torrents'[i]].paused = session'[i].paused \/ (tr'[torrents'[i]].paused /\ StopOK(i)')
  BY <1>1, <1>2, <1>3, <1>5 DEF Restored, KeepsStruct
<1>7. QED
  BY <1>1, <1>2, <1>4, <1>6 DEF Restored, KeepsStruct, Keeps

(* One that is being restored is stopped by nobody.                        *)
LEMMA PutBackKept ==
  ASSUME SeedDefault = 0, StructKeeps, NEW i \in Ids, torrents[i] # NoObj,
         NEW r, NEW d, NEW u, PutBack(i, r, d, u)
  PROVE  /\ ~StopOK(i)
         /\ LET x == tr'[torrents'[i]] IN
            /\ x.savePath = r.savePath /\ x.paused = r.paused /\ x.seedLimit = 0
            /\ x.downLimit = d /\ x.upLimit = u
<1>1. ~StopOK(i)
  BY DEF StopOK, PutBack, SeedLimitOf
<1>2. KeepsStruct(i)
  BY DEF StructKeeps
<1>3. QED
  BY <1>1, <1>2 DEF KeepsStruct, Keeps, PutBack

-----------------------------------------------------------------------------
(* One thread's step in a restore.                                         *)

Restoring == restoring /\ RestoringInv

LEMMA SpendsFaults ==
  ASSUME Inv, DiskInv, Spends, budget'.faults = MaxFaults
  PROVE  budget.faults = MaxFaults
<1>1. budget.faults \in Int /\ MaxFaults \in Int /\ budget.faults <= MaxFaults
  BY BoundsAssumption DEF DiskInv, Inv, TypeOK, TallyTypes, Budget
<1>2. QED
  BY <1>1, SpendsLess

LEMMA StopsKept ==
  ASSUME Inv, Restoring, LibDone, \A i \in Ids : StopOK(i) => KeepsStruct(i),
         tk'.stop \subseteq tk.stop,
         pc'[Tick] # "pause.set" \/ Stays(Tick)
  PROVE  StopsOK'
<1>1. StopsOK
  BY DEF Restoring, RestoringInv
<1>2. tk.stop \subseteq Ids /\ loc[Tick].id \in Ids
  BY MainThreads, ThreadFacts, Lands DEF TallyTypes, Ticking, Locals
<1>3. \A i \in Ids : StopOK(i) => StopOK(i)'
  BY StopKept
<1>4. \A i \in tk'.stop : StopOK(i)'
  BY <1>1, <1>2, <1>3 DEF StopsOK
<1>5. ASSUME pc'[Tick] = "pause.set"
      PROVE  (StopOK(loc[Tick].id) /\ loc[Tick].o = torrents[loc[Tick].id] /\ loc[Tick].flag)'
  <2>1. loc'[Tick] = loc[Tick] /\ pc[Tick] = "pause.set"
    BY <1>5 DEF Stays
  <2>2. StopOK(loc[Tick].id) /\ loc[Tick].o = torrents[loc[Tick].id] /\ loc[Tick].flag
    BY <1>1, <2>1 DEF StopsOK
  <2>3. torrents'[loc[Tick].id] = torrents[loc[Tick].id]
    BY <1>2, <2>2 DEF KeepsStruct
  <2>4. QED
    BY <1>2, <1>3, <2>1, <2>2, <2>3
<1>6. QED
  BY <1>4, <1>5 DEF StopsOK

(* The records done and to do, of a step that does not go on to another.   *)
LEMMA DoneKept ==
  ASSUME Inv, DiskInv, Restoring, StructKeeps, Spends, UNCHANGED <<session, rs>>
  PROVE  DoneOK'
<1> SUFFICES ASSUME budget'.faults = MaxFaults, NEW i \in Ids,
                    session[i] # NoRec, rs[i] = NoRec
             PROVE  Restored(i)'
  BY DEF DoneOK
<1>1. Restored(i)
  BY SpendsFaults DEF Restoring, RestoringInv, DoneOK
<1>2. KeepsStruct(i) /\ LibDone
  BY <1>1 DEF Restored, StructKeeps
<1>3. QED
  BY <1>1, <1>2, RestoredKept

(* The main goroutine, from c to d with the record it is at.               *)
Onward(c, l, d, m) ==
  /\ d \in RestoringLabels /\ m.id = l.id
  /\ d \in AddLabels => c \in AddLabels /\ m.ret = l.ret /\ m.dir = l.dir /\ m.flag = l.flag
  /\ AddedAt(d, m) => AddedAt(c, l)
  /\ LimitedAt(d, m) => LimitedAt(c, l)
  /\ d \in DoneLabels \cup NextLabels => c \in AddLabels \cup DoneLabels \cup NextLabels
  /\ c \in DoneLabels \cup NextLabels => d \in DoneLabels \cup NextLabels

LEMMA StaysOnward ==
  ASSUME Restoring
  PROVE  Onward(Where(Main), loc[Main], Where(Main), loc[Main])
BY DEF Onward, Restoring, RestoringInv

LEMMA CurrentKept ==
  ASSUME SeedDefault = 0, Inv, DiskInv, Restoring, StructKeeps, UNCHANGED <<torrents, rs>>,
         Onward(Where(Main), loc[Main], Where(Main)', loc'[Main])
  PROVE  CurrentOK(Where(Main), loc[Main])'
<1> DEFINE i == loc[Main].id
           r == rs[loc[Main].id]
           c == Where(Main)
<1>1. i \in Ids /\ CurrentOK(c, loc[Main]) /\ MainOK(c, loc[Main])
  BY MainThreads, Lands DEF Restoring, RestoringInv, DiskInv, Locals
<1>2. AddedAt(c, loc[Main]) \/ LimitedAt(c, loc[Main]) => torrents[i] # NoObj
  BY <1>1 DEF MainOK, OnMain, AddedAt, LimitedAt, NextLabels
<1>3. /\ AddedAt(c, loc[Main]) => PutBack(i, r, 0, 0)
      /\ LimitedAt(c, loc[Main]) => PutBack(i, r, r.downLimit, r.upLimit)
  BY <1>1 DEF CurrentOK
<1>4. loc'[Main].id = i /\ r' = r
  BY DEF Onward
<1>5. AddedAt(c, loc[Main]) => PutBack(loc[Main].id, r, 0, 0)'
  <2> SUFFICES ASSUME AddedAt(c, loc[Main]) PROVE PutBack(loc[Main].id, r, 0, 0)'
    OBVIOUS
  <2>1. PutBack(i, r, 0, 0) /\ torrents[i] # NoObj
    BY <1>2, <1>3
  <2> HIDE DEF r, c
  <2>2. QED
    BY <1>1, <1>4, <2>1, PutBackKept DEF PutBack
<1>6. LimitedAt(c, loc[Main]) => PutBack(loc[Main].id, r, r.downLimit, r.upLimit)'
  <2> SUFFICES ASSUME LimitedAt(c, loc[Main])
               PROVE  PutBack(loc[Main].id, r, r.downLimit, r.upLimit)'
    OBVIOUS
  <2>1. PutBack(i, r, r.downLimit, r.upLimit) /\ torrents[i] # NoObj
    BY <1>2, <1>3
  <2> HIDE DEF r, c
  <2>2. QED
    BY <1>1, <1>4, <2>1, PutBackKept DEF PutBack
<1>7. /\ AddedAt(Where(Main), loc[Main])' => AddedAt(c, loc[Main])
      /\ LimitedAt(Where(Main), loc[Main])' => LimitedAt(c, loc[Main])
  BY DEF Onward, AddedAt, LimitedAt
<1>8. /\ Where(Main)' \in AddLabels \cup DoneLabels \cup NextLabels => r # NoRec
      /\ Where(Main)' \in AddLabels =>
           /\ torrents'[loc'[Main].id] = NoObj /\ loc'[Main].ret = "restore.limits"
           /\ loc'[Main].dir = r.savePath /\ loc'[Main].flag = r.paused
  BY <1>1, <1>4 DEF CurrentOK, Onward
<1>9. rs'[loc'[Main].id] = r
  BY <1>4
<1>10. QED
  BY <1>4, <1>5, <1>6, <1>7, <1>8, <1>9 DEF CurrentOK

LEMMA TodoKept ==
  ASSUME Restoring, UNCHANGED <<torrents, rs>>,
         Onward(Where(Main), loc[Main], Where(Main)', loc'[Main])
  PROVE  TodoOK'
BY DEF Restoring, RestoringInv, TodoOK, Onward

(* A step that assigns nothing of a record but what Keeps allows.          *)
LEMMA GoesOn ==
  ASSUME SeedDefault = 0, Inv, DiskInv, Restoring, UNCHANGED <<torrents, rs, session>>,
         Onward(Where(Main), loc[Main], Where(Main)', loc'[Main]),
         StructKeeps, Spends, StopsOK', \A p \in Threads : QuietAt(p)'
  PROVE  RestoringInv'
<1>1. OwnStruct'
  BY DEF Restoring, RestoringInv, OwnStruct
<1>2. Where(Main)' \in RestoringLabels
  BY DEF Onward
<1>3. QED
  BY <1>1, <1>2, DoneKept, CurrentKept, TodoKept DEF RestoringInv

(* A step of another thread, ...                                           *)
LEMMA SideStep ==
  ASSUME SeedDefault = 0, Inv, DiskInv, Restoring, NEW p \in Threads, p # Main, Walks(p),
         QuietAt(p)', UNCHANGED <<torrents, rs, session>>, StructKeeps, Spends, StopsOK'
  PROVE  RestoringInv'
<1>1. \A q \in Threads : q # p => Stays(q)
  BY WalksStays
<1>2. \A q \in Threads : QuietAt(q)'
  <2>1. ASSUME NEW q \in Threads, q # p PROVE QuietAt(q)'
    BY <1>1, <2>1 DEF Restoring, RestoringInv, QuietAt, Stays, Where, WhereOf
  <2>2. QED
    BY <2>1
<1>3. Where(Main)' = Where(Main) /\ loc'[Main] = loc[Main]
  BY <1>1, MainThreads DEF Stays, Where, WhereOf
<1>4. QED
  BY <1>2, <1>3, GoesOn, StaysOnward

(* ... and one of the main goroutine.                                      *)
LEMMA MainQuiet ==
  ASSUME Inv, Restoring, Walks(Main)
  PROVE  \A q \in Threads : QuietAt(q)'
<1>1. \A q \in Threads : q # Main => Stays(q)
  BY WalksStays, MainThreads
<1>2. ASSUME NEW q \in Threads, q # Main PROVE QuietAt(q)'
  BY <1>1, <1>2 DEF Restoring, RestoringInv, QuietAt, Stays, Where, WhereOf
<1>3. QuietAt(Main)'
  BY ThreadsAssumption DEF QuietAt
<1>4. QED
  BY <1>2, <1>3

LEMMA MainStops ==
  ASSUME Inv, Restoring, Walks(Main), StructKeeps, UNCHANGED tk
  PROVE  StopsOK'
<1>1. Stays(Tick)
  BY WalksStays, MainThreads
<1>2. LibDone /\ \A i \in Ids : StopOK(i) => KeepsStruct(i)
  BY DEF StructKeeps, StopOK
<1>3. QED
  BY <1>1, <1>2, StopsKept

LEMMA MainGoesOn ==
  ASSUME SeedDefault = 0, Inv, DiskInv, Restoring, Walks(Main), UNCHANGED tk,
         UNCHANGED <<torrents, rs, session>>, StructKeeps, Spends,
         Onward(Where(Main), loc[Main], Where(Main)', loc'[Main])
  PROVE  RestoringInv'
BY MainQuiet, MainStops, GoesOn

-----------------------------------------------------------------------------
(* Assignments that Keeps allows.                                          *)

LEMMA KeepsField ==
  ASSUME NEW x \in Tracked, NEW a
  PROVE  /\ Keeps(x, x)
         /\ Keeps(x, [x EXCEPT !.chosenFiles = a])
         /\ [x EXCEPT !.chosenFiles = a].paused = x.paused
         /\ Keeps(x, [x EXCEPT !.paused = a])
         /\ [x EXCEPT !.paused = a].paused = a
BY DEF Tracked, Keeps

LEMMA StructSet ==
  ASSUME Inv, LibDone, UNCHANGED torrents, NEW o, NEW x, SetTr(o, x),
         o \in Objs =>
           /\ Keeps(tr[o], x)
           /\ x.paused = tr[o].paused
                \/ (x.paused /\ \A i \in Ids : torrents[i] = o => StopOK(i))
  PROVE  StructKeeps
<1>1. \A b \in Objs : tr'[b] = IF b = o THEN x ELSE tr[b]
  BY TrTyped DEF SetTr
<1>2. \A b \in Objs : Keeps(tr[b], tr[b])
  BY TrTyped, KeepsField
<1>3. ASSUME NEW i \in Ids, torrents[i] # NoObj
      PROVE  KeepsStruct(i)
  <2>1. torrents[i] \in Objs
    BY <1>3, ObjFor
  <2>2. QED
    BY <1>1, <1>2, <2>1 DEF KeepsStruct
<1>4. QED
  BY <1>3 DEF StructKeeps

LEMMA StructFiles ==
  ASSUME Inv, LibDone, UNCHANGED torrents, NEW o, NEW a,
         SetTr(o, [tr[o] EXCEPT !.chosenFiles = a])
  PROVE  StructKeeps
<1>1. o \in Objs => /\ Keeps(tr[o], [tr[o] EXCEPT !.chosenFiles = a])
                    /\ [tr[o] EXCEPT !.chosenFiles = a].paused = tr[o].paused
  BY TrTyped, KeepsField
<1>2. QED
  BY <1>1, StructSet

-----------------------------------------------------------------------------
(* Who is where.                                                           *)

BusyLabels ==
  StructLabels \cup
  {"check.add", "check.begin", "check.read", "check.loop", "check.hash", "check.clear",
   "check.done", "check.end", "check.off", "rate", "seed", "label", "stream.paused",
   "stream.resume", "stream.prio", "pause.chosen", "pause.mark",
   "up", "close.cancel", "close.wait", "new", "restore.read"}

LEMMA RestoreApart ==
  /\ (RestLabels \cup StopLabels \cup WaitLabels \cup RestoringLabels)
       \cap (BusyLabels \cup FlowLabels \cup SaveLabels) = {}
  /\ (FlowLabels \cup SaveLabels) \cap BusyLabels = {}
  /\ (WaitLabels \cup RestLabels) \cap (RestoringLabels \cup StopLabels) = {}
  /\ WaitLabels \cap RestLabels = {}
  /\ RestoringLabels \cap StopLabels = {"end"}
BY SMTT(60) DEF RestLabels, StopLabels, WaitLabels, RestoringLabels, AddLabels, DoneLabels,
                NextLabels, BusyLabels, StructLabels, FlowLabels, SaveLabels

LEMMA Who ==
  ASSUME Restoring, NEW p \in Threads, pc[p] \notin FlowLabels \cup SaveLabels
  PROVE  \/ pc[p] \in RestLabels
         \/ p = Main /\ pc[p] \in RestoringLabels
         \/ p = Tick /\ pc[p] \in StopLabels /\ loc[p].ret = "tick.stop"
         \/ p \in Waiters /\ pc[p] \in WaitLabels
<1>1. Where(p) = pc[p]
  BY DEF Where, WhereOf
<1>2. QED
  BY <1>1 DEF Restoring, RestoringInv, QuietAt, Threads, Callers

LEMMA Where0 ==
  ASSUME NEW p, pc[p] \notin FlowLabels \cup SaveLabels
  PROVE  Where(p) = pc[p]
BY DEF Where, WhereOf

LEMMA NobodyBusy ==
  ASSUME Restoring, NEW p \in Threads
  PROVE  pc[p] \notin BusyLabels
<1>1. CASE pc[p] \in FlowLabels \cup SaveLabels
  BY <1>1, RestoreApart
<1>2. CASE pc[p] \notin FlowLabels \cup SaveLabels
  BY <1>2, Who, RestoreApart
<1>3. QED
  BY <1>1, <1>2

(* Of the operations, those a restore makes, and the stops of the tick.    *)
LEMMA StructBusy ==
  ASSUME NEW p, StructStep(p)
  PROVE  pc[p] \in BusyLabels
<1>1. CASE BeginCheckAdd(p) \/ BeginCheck(p) \/ LockOp(p) \/ QuiesceCancel(p) \/ QuiesceWait(p)
  BY <1>1, SMTT(30) DEF BeginCheckAdd, BeginCheck, LockOp, QuiesceCancel, QuiesceWait, At,
                        BusyLabels, StructLabels
<1>2. CASE RemoveStep(p)
  BY <1>2, SMTT(30) DEF RemoveStep, RemoveDelete, RemoveDrop, RemoveFiles, RemoveMeta, At,
                        BusyLabels, StructLabels
<1>3. CASE PurgeStep(p)
  <2>1. pc[p] \in {"purge", "purge.hold", "purge.fold", "purge.drop", "purge.delete",
                   "purge.readd", "purge.swap", "purge.save", "purge.failed"}
    BY <1>3 DEF PurgeStep, PurgeRead, PurgeHold, PurgeFold, PurgeDrop, PurgeDelete,
                PurgeReadd, PurgeSwap, PurgeSave, PurgeFailed, At
  <2>2. QED
    BY <2>1, SMTT(30) DEF BusyLabels, StructLabels
<1>4. CASE MoveStep(p)
  <2>1. pc[p] \in {"move", "move.mkdir", "move.hold", "move.prios", "move.files", "move.fold",
                   "move.drop", "move.readd", "move.lost", "move.failed", "move.reprio",
                   "move.swap"}
    <3>1. \/ At(p, "move") \/ At(p, "move.mkdir") \/ At(p, "move.hold") \/ At(p, "move.prios")
          \/ At(p, "move.files") \/ At(p, "move.fold") \/ At(p, "move.drop")
          \/ At(p, "move.readd") \/ At(p, "move.lost") \/ At(p, "move.failed")
          \/ At(p, "move.reprio") \/ At(p, "move.swap")
      BY <1>4, Zenon DEF MoveStep, MoveRead, MoveMkdir, MoveHold, MovePrios, MoveFiles, MoveFold,
                  MoveDrop, MoveReadd, MoveLost, MoveFailed, MoveReprio, MoveSwap
    <3>2. QED
      BY <3>1 DEF At
  <2>2. QED
    BY <2>1, SMTT(30) DEF BusyLabels, StructLabels
<1>5. QED
  BY <1>1, <1>2, <1>3, <1>4 DEF StructStep

LEMMA RestoreOps ==
  ASSUME Restoring, NEW p \in Threads, OpStep(p)
  PROVE  \/ ApplyFlowDown(p) \/ ApplyFlowUp(p) \/ EndOp(p) \/ PersistStep(p) \/ AddStep(p)
         \/ SetPaused(p) \/ SetPausedSave(p)
         \/ SetFilePriority(p) \/ SetFilePriorityChosen(p)
<1>1. pc[p] \notin BusyLabels
  BY NobodyBusy
<1>2. ~SetPausedChosen(p) /\ ~SetPausedMark(p)
  BY <1>1 DEF SetPausedChosen, SetPausedMark, At, BusyLabels
<1>3. ~SetTorrentRateLimit(p) /\ ~SetSeedLimit(p) /\ ~SetLabel(p)
  BY <1>1 DEF SetTorrentRateLimit, SetSeedLimit, SetLabel, At, BusyLabels
<1>4. ~StreamStep(p)
  BY <1>1 DEF StreamStep, PrepareStreamPaused, PrepareStreamResume, PrepareStreamPrio, At,
              BusyLabels
<1>5. ~StructStep(p)
  BY <1>1, StructBusy
<1>6. QED
  BY <1>2, <1>3, <1>4, <1>5 DEF OpStep, PauseStep, FieldStep

LEMMA NoChecker ==
  ASSUME Restoring, NEW p \in Threads
  PROVE  ~CheckerStep(p)
<1>1. pc[p] \notin BusyLabels
  BY NobodyBusy
<1>2. QED
  BY <1>1 DEF CheckerStep, VerifyRead, VerifyLoop, VerifyPiece, CheckClear, CheckDone, CheckEnd,
              CheckOff, At, BusyLabels

-----------------------------------------------------------------------------
(* applyFlow and persist leave a thread where it was.                      *)

LEMMA KeepsStops ==
  ASSUME StructKeeps
  PROVE  LibDone /\ \A i \in Ids : StopOK(i) => KeepsStruct(i)
BY DEF StructKeeps, StopOK

LEMMA SameSpot ==
  ASSUME SeedDefault = 0, Inv, DiskInv, Restoring, NEW p \in Threads, Walks(p),
         pc[p] \in FlowLabels \cup SaveLabels, UNCHANGED loc, Where(p)' = Where(p),
         pc'[p] # "pause.set", UNCHANGED <<torrents, rs, session, tk>>, StructKeeps, Spends
  PROVE  RestoringInv'
<1>1. \A q \in Threads : q # p => Stays(q)
  BY WalksStays
<1>2. StopsOK'
  BY <1>1, MainThreads, KeepsStops, StopsKept
<1>3. CASE p = Main
  <2>1. Where(Main)' = Where(Main) /\ loc'[Main] = loc[Main]
    BY <1>3
  <2>2. QED
    BY <1>3, <2>1, MainGoesOn, StaysOnward
<1>4. CASE p # Main
  <2>1. QuietAt(p)'
    BY RestoreApart DEF Restoring, RestoringInv, QuietAt
  <2>2. QED
    BY <1>2, <1>4, <2>1, SideStep
<1>5. QED
  BY <1>3, <1>4

LEMMA ApplyFlowRestore ==
  ASSUME SeedDefault = 0, Inv, DiskInv, Restoring, NEW p \in Threads,
         ApplyFlowDown(p) \/ ApplyFlowUp(p)
  PROVE  RestoringInv'
<1>1. /\ pc[p] \in FlowLabels
      /\ Goto(p, "flow.up") \/ Goto(p, loc[p].fk)
      /\ UNCHANGED loc /\ UNCHANGED save /\ UNCHANGED <<torrents, tr, tk>>
      /\ UNCHANGED <<session, rs, budget>>
  BY DEF ApplyFlowDown, ApplyFlowUp, At, FlowLabels, engineVars, saveVars, diskVars, mainVars
<1>2. loc[p].fk \in FlowNext
  BY <1>1, ThreadFacts DEF LocalOK, ReturnsOK
<1>3. LibDone
  <2> DEFINE t == loc[p].ft
  <2>1. \E a : \/ SetLib(t, [lib[t] EXCEPT !.down = a])
               \/ SetLib(t, [lib[t] EXCEPT !.up = a])
    BY DEF ApplyFlowDown, ApplyFlowUp
  <2> HIDE DEF t
  <2>2. QED
    BY <2>1, LibDoneField
<1>4. StructKeeps /\ Spends /\ Walks(p)
  BY <1>1, <1>3, StructSame DEF Spends, Walks
<1>5. Where(p)' = Where(p) /\ pc'[p] # "pause.set"
  <2>1. pc'[p] \in {"flow.up", loc[p].fk}
    BY <1>1, Lands
  <2>2. "pause.set" \notin FlowNext
    BY DEF FlowNext
  <2>3. QED
    BY <1>1, <1>2, <2>1, <2>2, NextApart DEF Where, WhereOf, FlowLabels
<1>6. QED
  BY <1>1, <1>4, <1>5, SameSpot

LEMMA PersistRestore ==
  ASSUME SeedDefault = 0, Inv, DiskInv, Restoring, NEW p \in Threads, PersistStep(p)
  PROVE  RestoringInv'
<1>1. ~Saver(p) /\ pc[p] # "save.gather"
  BY DEF Restoring, DiskInv, SaversInv
<1>2. PersistCheck(p) /\ restoring
  BY <1>1 DEF PersistStep, SaveGather, SaveMetaCollect, SaveMetaWrite, SaveWrite, SaveDirFails,
              At, Saver, Restoring
<1>3. /\ pc[p] = "save.check" /\ Goto(p, save[p].k) /\ SetSave(p, Save0)
      /\ UNCHANGED loc /\ UNCHANGED libVars /\ UNCHANGED <<torrents, tr, tk>>
      /\ UNCHANGED <<session, rs, budget>>
  BY <1>2 DEF PersistCheck, At, engineVars, diskVars, mainVars
<1>4. save[p].k \in SaveNext
  BY <1>3, ThreadFacts DEF LocalOK, ReturnsOK, SaveLabels
<1>5. StructKeeps /\ Spends /\ Walks(p)
  BY <1>3, LibDoneSame, StructSame DEF Spends, Walks, libVars
<1>6. Where(p)' = Where(p) /\ pc'[p] # "pause.set" /\ pc[p] \in SaveLabels
  <2>1. "pause.set" \notin SaveNext /\ "save.check" \in SaveLabels
    BY DEF SaveNext, SaveLabels
  <2>2. pc'[p] = save[p].k
    BY <1>3, Lands
  <2>3. QED
    BY <1>3, <1>4, <2>1, <2>2, NextApart DEF Where, WhereOf
<1>7. QED
  BY <1>3, <1>5, <1>6, SameSpot

-----------------------------------------------------------------------------
(* The end of an operation, and setting a file's priority.                 *)

LEMMA EndOpRestore ==
  ASSUME SeedDefault = 0, Inv, DiskInv, Restoring, NEW p \in Threads, EndOp(p)
  PROVE  RestoringInv'
<1>1. /\ pc[p] = "end" /\ Goto(p, loc[p].ret)
      /\ SetLoc(p, IF loc[p].ret = "idle" THEN Loc0 ELSE loc[p])
      /\ UNCHANGED save /\ UNCHANGED <<torrents, tr, tk>> /\ UNCHANGED libVars
      /\ UNCHANGED <<session, rs, budget>>
  BY DEF EndOp, Return, At, saveVars, diskVars, mainVars
<1>2. StructKeeps /\ Spends /\ Walks(p)
  BY <1>1, LibDoneSame, StructSame DEF Spends, Walks, libVars
<1>3. Where(p) = "end" /\ "end" \notin RestLabels \cup WaitLabels
  BY <1>1 DEF Where, WhereOf, FlowLabels, SaveLabels, RestLabels, WaitLabels
<1>4. CASE p = Main
  <2>1. MainOK(Where(Main), loc[Main])
    BY DEF DiskInv
  <2>2. loc[Main].ret \in {"restore.limits", "restore.prios"}
    BY <1>3, <1>4, <2>1 DEF MainOK, OnMain, DoneLabels
  <2>3. pc'[Main] = loc[Main].ret /\ loc'[Main] = loc[Main]
    BY <1>1, <1>4, <2>2, Lands
  <2>4. Where(Main)' = loc[Main].ret
    BY <2>2, <2>3 DEF Where, WhereOf, FlowLabels, SaveLabels
  <2>5. Onward("end", loc[Main], loc[Main].ret, loc[Main])
    BY <2>2, SMTT(30) DEF Onward, AddedAt, LimitedAt, AddLabels, DoneLabels, NextLabels, RestoringLabels
  <2>6. QED
    BY <1>1, <1>2, <1>3, <1>4, <2>3, <2>4, <2>5, MainGoesOn
<1>5. CASE p # Main
  <2>1. p = Tick /\ loc[p].ret = "tick.stop"
    <3>1. pc[p] \notin FlowLabels \cup SaveLabels
      BY <1>1 DEF FlowLabels, SaveLabels
    <3>2. QED
      BY <1>1, <1>3, <1>5, <3>1, Who
  <2>2. pc'[p] = "tick.stop" /\ Where(p)' = "tick.stop"
    BY <1>1, <2>1, Lands DEF Where, WhereOf, FlowLabels, SaveLabels
  <2>3. QuietAt(p)'
    BY <2>1, <2>2, ThreadsAssumption DEF QuietAt, RestLabels, StopLabels
  <2>4. StopsOK'
    BY <1>1, <1>2, <2>1, <2>2, KeepsStops, StopsKept
  <2>5. QED
    BY <1>1, <1>2, <1>5, <2>3, <2>4, SideStep
<1>6. QED
  BY <1>4, <1>5

LEMMA PrioRestore ==
  ASSUME SeedDefault = 0, Inv, DiskInv, Restoring, NEW p \in Threads,
         SetFilePriority(p) \/ SetFilePriorityChosen(p)
  PROVE  RestoringInv'
<1>1. pc[p] \in {"prio.set", "prio.chosen"} /\ UNCHANGED loc
      /\ UNCHANGED <<torrents, rs, session, tk, budget>>
  BY DEF SetFilePriority, SetFilePriorityChosen, At, engineVars, mainVars, diskVars
<1>2. p = Main /\ Where(Main) = pc[Main]
  <2>1. pc[p] \notin FlowLabels \cup SaveLabels \cup RestLabels \cup StopLabels \cup WaitLabels
    BY <1>1, SMTT(30) DEF FlowLabels, SaveLabels, RestLabels, StopLabels, WaitLabels
  <2>2. QED
    BY <2>1, Who, Where0
<1>3. StructKeeps
  <2>1. CASE SetFilePriority(p)
    <3>1. UNCHANGED lib \/ \E t, a : SetLib(t, [lib[t] EXCEPT !.prio = a])
      BY <2>1 DEF SetFilePriority, SetPrio
    <3>2. UNCHANGED <<torrents, tr>>
      BY <2>1 DEF SetFilePriority, engineVars
    <3>3. QED
      BY <3>1, <3>2, LibDoneSame, LibDoneField, StructSame
  <2>2. CASE SetFilePriorityChosen(p)
    <3>1. \E o, a : SetTr(o, [tr[o] EXCEPT !.chosenFiles = a])
      BY <2>2 DEF SetFilePriorityChosen
    <3>2. LibDone
      BY <2>2, LibDoneSame DEF SetFilePriorityChosen, libVars
    <3>3. QED
      BY <1>1, <3>1, <3>2, StructFiles
  <2>3. QED
    BY <2>1, <2>2
<1>4. Walks(p) /\ Where(p)' \in {"prio.chosen", "end"}
  <2>1. CASE SetFilePriority(p)
    <3>1. UNCHANGED save /\ (Goto(p, "prio.chosen") \/ Goto(p, "end"))
      BY <2>1 DEF SetFilePriority, saveVars
    <3>2. pc'[p] \in {"prio.chosen", "end"}
      BY <3>1, Lands
    <3>3. QED
      BY <1>1, <3>1, <3>2 DEF Walks, Where, WhereOf, FlowLabels, SaveLabels
  <2>2. CASE SetFilePriorityChosen(p)
    <3>1. Persist(p, "end") /\ "end" \in SaveNext \ Watched
      BY <2>2, SaveNextOpen DEF SetFilePriorityChosen, SaveNext
    <3>2. QED
      BY <1>1, <3>1, PersistOpen DEF Walks
  <2>3. QED
    BY <2>1, <2>2
<1>5. Onward(Where(Main), loc[Main], Where(Main)', loc'[Main])
  <2>1. {"prio.set", "prio.chosen", "end"} \subseteq DoneLabels \ (AddLabels \cup NextLabels)
    BY DEF DoneLabels, AddLabels, NextLabels
  <2>2. Where(Main) \in DoneLabels /\ Where(Main)' \in DoneLabels \ (AddLabels \cup NextLabels)
    BY <1>1, <1>2, <1>4, <2>1
  <2>3. QED
    BY <1>1, <2>2, SMTT(30) DEF Onward, AddedAt, LimitedAt, NextLabels, RestoringLabels
<1>6. QED
  BY <1>1, <1>2, <1>3, <1>4, <1>5, MainGoesOn DEF Spends

-----------------------------------------------------------------------------
(* The tick stops a torrent at its limit.                                  *)

LEMMA PauseRestore ==
  ASSUME SeedDefault = 0, Inv, DiskInv, Restoring, NEW p \in Threads,
         SetPaused(p) \/ SetPausedSave(p)
  PROVE  RestoringInv'
<1>1. pc[p] \in {"pause.set", "pause.save"}
      /\ UNCHANGED <<torrents, rs, session, tk, budget>> /\ UNCHANGED libVars
  BY DEF SetPaused, SetPausedSave, At, engineVars, mainVars, diskVars
<1>2. p = Tick /\ loc[p].ret = "tick.stop" /\ p # Main
  <2>1. pc[p] \notin FlowLabels \cup SaveLabels \cup RestLabels \cup RestoringLabels \cup WaitLabels
    BY <1>1, SMTT(30) DEF FlowLabels, SaveLabels, RestLabels, RestoringLabels, AddLabels, DoneLabels,
                          NextLabels, WaitLabels
  <2>2. QED
    BY <2>1, Who, MainThreads
<1>3. LibDone
  BY <1>1, LibDoneSame DEF libVars
<1>4. CASE SetPaused(p)
  <2> DEFINE o == loc[p].o
             x == [tr[o] EXCEPT !.paused = loc[p].flag]
  <2>1. /\ SetTr(o, x) /\ Goto(p, "flow.down") /\ UNCHANGED save
        /\ SetLoc(p, Decide(loc[p], x, IF loc[p].flag THEN "pause.save" ELSE "pause.chosen"))
    BY <1>4, Zenon DEF SetPaused, saveVars
  <2>2. pc[p] = "pause.set"
    BY <1>4 DEF SetPaused, At
  <2>3. StopOK(loc[p].id) /\ o = torrents[loc[p].id] /\ loc[p].flag /\ loc[p].id \in Ids
    BY <1>2, <2>2, Lands DEF Restoring, RestoringInv, StopsOK, Locals
  <2>4. \A i \in Ids : torrents[i] = o => StopOK(i)
    BY <2>3 DEF Restoring, RestoringInv, OwnStruct, StopOK
  <2>5. o \in Objs => Keeps(tr[o], x) /\ x.paused = loc[p].flag
    BY TrTyped, KeepsField
  <2>6. StructKeeps
    <3> HIDE DEF x, o
    <3>1. QED
      BY <1>1, <1>3, <2>1, <2>3, <2>4, <2>5, StructSet
  <2>7. /\ pc'[p] = "flow.down" /\ loc'[p].ret = loc[p].ret /\ loc'[p].fk = "pause.save"
    <3> HIDE DEF x, o
    <3>1. QED
      BY <2>1, <2>3, DecideKeeps, Lands
  <2>8. Where(p)' = "pause.save"
    BY <2>7 DEF Where, WhereOf, FlowLabels
  <2>9. QuietAt(p)'
    BY <1>2, <2>7, <2>8, ThreadsAssumption DEF QuietAt, StopLabels
  <2>10. StopsOK'
    BY <1>1, <1>2, <2>6, <2>7, KeepsStops, StopsKept
  <2>11. Walks(p)
    BY <2>1 DEF Walks
  <2>12. QED
    BY <1>1, <1>2, <2>6, <2>9, <2>10, <2>11, SideStep DEF Spends
<1>5. CASE SetPausedSave(p)
  <2>1. Persist(p, "end") /\ UNCHANGED loc /\ UNCHANGED tr /\ "end" \in SaveNext \ Watched
    BY <1>5, SaveNextOpen DEF SetPausedSave, SaveNext, engineVars
  <2>2. Walks(p) /\ Where(p)' = "end"
    BY <2>1, PersistOpen DEF Walks
  <2>3. StructKeeps
    BY <1>1, <1>3, <2>1, StructSame
  <2>4. QuietAt(p)'
    BY <1>2, <2>1, <2>2, ThreadsAssumption DEF QuietAt, StopLabels
  <2>5. pc'[p] # "pause.set"
    BY <2>2 DEF Where, WhereOf, FlowLabels, SaveLabels
  <2>6. StopsOK'
    BY <1>1, <1>2, <2>3, <2>5, KeepsStops, StopsKept
  <2>7. QED
    BY <1>1, <1>2, <2>2, <2>3, <2>4, <2>6, SideStep DEF Spends
<1>6. QED
  BY <1>4, <1>5

-----------------------------------------------------------------------------
(* The goroutines of the torrents added so far.                            *)

LEMMA WaiterRestore ==
  ASSUME SeedDefault = 0, Inv, DiskInv, Restoring, NEW p \in Threads, WaiterStep(p)
  PROVE  RestoringInv'
<1>1. pc[p] \in {"wait.info", "wait.mark", "wait.select", "wait.chosen", "wait.save"}
      /\ UNCHANGED <<torrents, rs, session, tk, budget>>
  BY DEF WaiterStep, WaitInfo, WaitMark, WaitSelect, WaitChosen, WaitSave, At, engineVars,
         mainVars, diskVars
<1>2. p \in Waiters /\ p # Main /\ p # Tick /\ p \notin Clients \cup Checkers
  <2>1. pc[p] \notin FlowLabels \cup SaveLabels \cup RestLabels \cup RestoringLabels \cup StopLabels
    BY <1>1, SMTT(30) DEF FlowLabels, SaveLabels, RestLabels, RestoringLabels, AddLabels, DoneLabels,
                          NextLabels, StopLabels
  <2>2. QED
    BY <2>1, Who, ThreadsAssumption
<1>3. StructKeeps
  <2>1. UNCHANGED lib \/ \E t, a : SetLib(t, [lib[t] EXCEPT !.prio = a])
    BY DEF WaiterStep, WaitInfo, WaitMark, WaitSelect, WaitChosen, WaitSave, MarkWanted, SetPrio,
           libVars
  <2>2. UNCHANGED tr \/ \E o, a : SetTr(o, [tr[o] EXCEPT !.chosenFiles = a])
    BY DEF WaiterStep, WaitInfo, WaitMark, WaitSelect, WaitChosen, WaitSave, engineVars
  <2>3. LibDone
    BY <2>1, LibDoneSame, LibDoneField
  <2>4. QED
    BY <1>1, <2>2, <2>3, StructSame, StructFiles
<1>4. Walks(p) /\ Where(p)' \in WaitLabels \cup RestLabels
  <2>1. CASE WaitSave(p)
    <3>1. Persist(p, "off") /\ SetLoc(p, Loc0) /\ "off" \in SaveNext \ Watched
      BY <2>1, SaveNextOpen DEF WaitSave, SaveNext
    <3>2. QED
      BY <3>1, PersistOpen DEF Walks, RestLabels
  <2>2. CASE ~WaitSave(p)
    <3>1. /\ \E c \in {"wait.select", "wait.save", "wait.mark", "wait.chosen", "off"} : Goto(p, c)
          /\ UNCHANGED loc \/ \E l : SetLoc(p, l)
          /\ UNCHANGED save
      BY <2>2 DEF WaiterStep, WaitInfo, WaitMark, WaitSelect, WaitChosen, saveVars
    <3>2. pc'[p] \in {"wait.select", "wait.save", "wait.mark", "wait.chosen", "off"}
      BY <3>1, Lands
    <3>3. QED
      BY <3>1, <3>2 DEF Walks, Where, WhereOf, FlowLabels, SaveLabels, WaitLabels, RestLabels
  <2>3. QED
    BY <2>1, <2>2
<1>5. StopsOK'
  <2>1. Stays(Tick)
    BY <1>2, <1>4, WalksStays, MainThreads
  <2>2. QED
    BY <1>1, <1>3, <2>1, KeepsStops, StopsKept
<1>6. QuietAt(p)'
  BY <1>2, <1>4 DEF QuietAt
<1>7. QED
  BY <1>1, <1>2, <1>3, <1>4, <1>5, <1>6, SideStep DEF Spends

-----------------------------------------------------------------------------
(* The add of a restored torrent.                                          *)

LEMMA AtMain ==
  ASSUME Restoring, NEW p \in Threads,
         pc[p] \in {"add.spec", "add.track", "add.spawn", "restore.next", "restore.limits",
                    "restore.prios", "restore.final"}
  PROVE  p = Main /\ Where(p) = pc[p]
<1>1. pc[p] \notin FlowLabels \cup SaveLabels \cup RestLabels \cup StopLabels \cup WaitLabels
  BY SMTT(30) DEF FlowLabels, SaveLabels, RestLabels, StopLabels, WaitLabels
<1>2. QED
  BY <1>1, Who, Where0

LEMMA AddSpecRestore ==
  ASSUME SeedDefault = 0, Inv, DiskInv, Restoring, NEW p \in Threads, AddSpec(p)
  PROVE  RestoringInv'
<1> DEFINE l == [loc[p] EXCEPT !.t = AddedInst(loc[p].id)]
<1>1. /\ pc[p] = "add.spec" /\ Goto(p, "add.track") /\ SetLoc(p, l)
      /\ UNCHANGED save /\ UNCHANGED <<torrents, tr, tk>>
      /\ UNCHANGED <<session, rs, budget>>
      /\ AddTorrentSpec(loc[p].id, loc[p].dir, ~loc[p].magnet)
  BY DEF AddSpec, At, saveVars, diskVars, mainVars, engineVars
<1>2. p = Main /\ Where(Main) = "add.spec" /\ loc[p].id \in Ids
  <2>1. p = Main /\ Where(p) = pc[p]
    BY <1>1, AtMain
  <2>2. QED
    BY <1>1, <2>1, Lands DEF Locals
<1>3. /\ l.id = loc[p].id /\ l.ret = loc[p].ret /\ l.dir = loc[p].dir /\ l.flag = loc[p].flag
  BY Lands DEF Locals
<1> HIDE DEF l
<1>4. StructKeeps /\ Walks(p)
  BY <1>1, <1>2, LibDoneAdd, StructSame DEF Walks
<1>5. Where(Main)' = "add.track" /\ loc'[Main] = l
  BY <1>1, <1>2, Lands DEF Where, WhereOf, FlowLabels, SaveLabels
<1>6. Onward("add.spec", loc[Main], "add.track", l)
  BY <1>2, <1>3, SMTT(30) DEF Onward, AddedAt, LimitedAt, AddLabels, DoneLabels, NextLabels,
                              RestoringLabels
<1>7. QED
  BY <1>1, <1>2, <1>4, <1>5, <1>6, MainGoesOn DEF Spends

LEMMA AddTrackRestore ==
  ASSUME SeedDefault = 0, Inv, DiskInv, Restoring, NEW p \in Threads, AddTrack(p)
  PROVE  RestoringInv'
<1> DEFINE i == loc[p].id
           x == NewTracked(loc[p].t, loc[p].dir, loc[p].magnet, loc[p].flag)
           r == rs[i]
<1>1. /\ pc[p] = "add.track" /\ Goto(p, "flow.down") /\ UNCHANGED save
      /\ UNCHANGED libVars /\ UNCHANGED <<session, rs, tk, budget>>
  BY DEF AddTrack, At, saveVars, diskVars, mainVars
<1>2. p = Main /\ Where(Main) = "add.track" /\ i \in Ids
  BY <1>1, AtMain, Lands DEF Locals
<1>3. /\ r # NoRec /\ torrents[i] = NoObj /\ loc[p].ret = "restore.limits"
      /\ loc[p].dir = r.savePath /\ loc[p].flag = r.paused
  BY <1>2 DEF Restoring, RestoringInv, CurrentOK, AddLabels
<1>4. /\ nobj + 1 \in Objs /\ torrents' = [torrents EXCEPT ![i] = nobj + 1]
      /\ SetTr(nobj + 1, x) /\ SetLoc(p, Decide(loc[p], x, "add.spawn"))
  BY <1>3 DEF AddTrack
<1>5. /\ torrents \in [Ids -> Objs \cup {NoObj}] /\ tr \in [Objs -> Tracked] /\ nobj \in Int
      /\ \A j \in Ids : torrents[j] <= nobj
  BY ThreadFacts DEF EngineTypes, Inv, NoNilPointer
<1>6. /\ x.savePath = loc[p].dir /\ x.paused = loc[p].flag /\ x.seedLimit = 0
      /\ x.downLimit = 0 /\ x.upLimit = 0
  BY DEF NewTracked
<1>7. /\ pc'[p] = "flow.down" /\ loc'[p].id = i /\ loc'[p].ret = "restore.limits"
      /\ loc'[p].fk = "add.spawn"
  <2> HIDE DEF x
  <2>1. QED
    BY <1>1, <1>3, <1>4, DecideKeeps, Lands
<1> HIDE DEF x
<1>8. Where(Main)' = "add.spawn"
  BY <1>2, <1>7 DEF Where, WhereOf, FlowLabels
<1>9. /\ \A j \in Ids : torrents'[j] = IF j = i THEN nobj + 1 ELSE torrents[j]
      /\ \A o \in Objs : tr'[o] = IF o = nobj + 1 THEN x ELSE tr[o]
  BY <1>2, <1>4, <1>5 DEF SetTr
<1>10. \A j \in Ids : torrents[j] # nobj + 1 /\ (torrents[j] # NoObj => torrents[j] \in Objs)
  BY <1>5, BoundsAssumption DEF Objs, NoObj
<1>11. StructKeeps
  <2>1. LibDone
    BY <1>1, LibDoneSame DEF libVars
  <2>2. ASSUME NEW j \in Ids, torrents[j] # NoObj PROVE KeepsStruct(j)
    <3>1. torrents'[j] = torrents[j] /\ tr'[torrents[j]] = tr[torrents[j]]
      BY <1>3, <1>9, <1>10, <2>2
    <3>2. QED
      BY <3>1 DEF KeepsStruct, Keeps
  <2>3. QED
    BY <2>1, <2>2 DEF StructKeeps
<1>12. Walks(Main)
  BY <1>1, <1>2, <1>4 DEF Walks
<1>13. OwnStruct'
  <2>1. \A j, k \in Ids : torrents[j] # NoObj /\ torrents[j] = torrents[k] => j = k
    BY DEF Restoring, RestoringInv, OwnStruct
  <2>2. QED
    BY <1>9, <1>10, <2>1 DEF OwnStruct
<1>14. TodoOK'
  <2>1. \A j \in Ids : torrents[j] # NoObj /\ rs[j] # NoRec => j = i
    BY <1>2 DEF Restoring, RestoringInv, TodoOK
  <2>2. \A j \in Ids : torrents'[j] # NoObj /\ rs'[j] # NoRec => j = i
    BY <1>1, <1>9, <2>1
  <2>3. "add.spawn" \in DoneLabels \cup NextLabels
    BY DEF DoneLabels
  <2>4. QED
    BY <1>2, <1>7, <1>8, <2>2, <2>3 DEF TodoOK
<1>15. CurrentOK(Where(Main), loc[Main])'
  <2>1. PutBack(i, r, 0, 0)'
    <3>1. tr'[torrents'[i]] = x
      BY <1>2, <1>4, <1>9
    <3>2. i' = i /\ r' = r
      BY <1>1, <1>2, <1>7
    <3>3. /\ x.savePath = r.savePath /\ x.paused = r.paused
      BY <1>3, <1>6
    <3> HIDE DEF i, r
    <3>4. QED
      BY <1>6, <3>1, <3>2, <3>3 DEF PutBack
  <2>2. "add.spawn" \notin AddLabels /\ loc'[Main].ret # "restore.prios"
        /\ "add.spawn" \notin {"restore.prios", "restore.final"}
    BY <1>2, <1>7 DEF AddLabels
  <2>3. rs'[loc'[Main].id] # NoRec
    BY <1>1, <1>2, <1>3, <1>7
  <2>4. ~LimitedAt(Where(Main), loc[Main])' /\ Where(Main)' \notin AddLabels
    BY <1>8, <2>2 DEF LimitedAt
  <2>5. PutBack(loc[Main].id, rs[loc[Main].id], 0, 0)'
    BY <1>2, <2>1
  <2>6. QED
    BY <2>3, <2>4, <2>5 DEF CurrentOK
<1>16. Where(Main)' \in RestoringLabels
  BY <1>8 DEF RestoringLabels, DoneLabels
<1>17. DoneOK'
  BY <1>1, <1>11, DoneKept DEF Spends
<1>18. QED
  BY <1>1, <1>11, <1>12, <1>13, <1>14, <1>15, <1>16, <1>17, MainQuiet, MainStops DEF RestoringInv

LEMMA AddSpawnRestore ==
  ASSUME SeedDefault = 0, Inv, DiskInv, Restoring, NEW p \in Threads, AddSpawn(p)
  PROVE  RestoringInv'
<1>1. PICK w \in Waiters :
      /\ SetLoc(w, [loc[p] EXCEPT !.ret = "off"])
      /\ \/ /\ pc' = [pc EXCEPT ![p] = "save.check", ![w] = "wait.info"]
            /\ SetSave(p, [save[p] EXCEPT !.k = "end"])
         \/ /\ pc' = [pc EXCEPT ![p] = "end", ![w] = "wait.info"]
            /\ UNCHANGED save
      /\ UNCHANGED <<torrents, tr, tk>> /\ pc[p] = "add.spawn" /\ pc[w] = "off"
      /\ UNCHANGED libVars /\ UNCHANGED <<session, rs, budget>>
  BY DEF AddSpawn, At, engineVars, diskVars, mainVars
<1>2. /\ p = Main /\ Where(Main) = "add.spawn" /\ w # p /\ w \in Threads /\ w # Tick
      /\ w \notin Clients \cup Checkers
  BY <1>1, AtMain, ThreadsAssumption DEF Threads
<1>3. ThreadTypes /\ SaveTypes
  BY ThreadFacts
<1>4. StructKeeps
  BY <1>1, LibDoneSame, StructSame DEF libVars
<1>5. ASSUME NEW q \in Threads, q # p, q # w PROVE Stays(q)
  <2>1. pc'[q] = pc[q]
    BY <1>1, <1>2, <1>3, <1>5 DEF ThreadTypes
  <2>2. loc'[q] = loc[q] /\ save'[q] = save[q]
    BY <1>1, <1>3, <1>5 DEF ThreadTypes, SaveTypes, SetLoc, SetSave
  <2>3. QED
    BY <2>1, <2>2 DEF Stays
<1>6. /\ pc'[w] = "wait.info" /\ loc'[p] = loc[p]
      /\ (pc'[p] = "save.check" /\ save'[p].k = "end") \/ pc'[p] = "end"
  <2>1. [save[p] EXCEPT !.k = "end"].k = "end"
    BY ThreadFacts DEF Saving
  <2>2. loc'[p] = loc[p]
    BY <1>1, <1>2, <1>3 DEF ThreadTypes, SetLoc
  <2>3. SetSave(p, [save[p] EXCEPT !.k = "end"]) => save'[p] = [save[p] EXCEPT !.k = "end"]
    BY Lands
  <2>4. QED
    BY <1>1, <1>2, <1>3, <2>1, <2>2, <2>3 DEF ThreadTypes
<1>7. Where(Main)' = "end" /\ Where(w)' = "wait.info"
  BY <1>2, <1>6 DEF Where, WhereOf, FlowLabels, SaveLabels
<1>8. \A q \in Threads : QuietAt(q)'
  <2>1. ASSUME NEW q \in Threads, q # p, q # w PROVE QuietAt(q)'
    BY <1>5, <2>1 DEF Restoring, RestoringInv, QuietAt, Stays, Where, WhereOf
  <2>2. QuietAt(w)' /\ QuietAt(p)'
    BY <1>2, <1>7, ThreadsAssumption DEF QuietAt, WaitLabels
  <2>3. QED
    BY <2>1, <2>2
<1>9. StopsOK'
  <2>1. Stays(Tick)
    BY <1>2, <1>5, MainThreads
  <2>2. QED
    BY <1>1, <1>4, <2>1, KeepsStops, StopsKept
<1>10. Onward("add.spawn", loc[Main], "end", loc[Main])
  BY SMTT(30) DEF Onward, AddedAt, LimitedAt, AddLabels, DoneLabels, NextLabels, RestoringLabels
<1>11. QED
  BY <1>1, <1>2, <1>4, <1>6, <1>7, <1>8, <1>9, <1>10, GoesOn DEF Spends

-----------------------------------------------------------------------------
(* From one record to the next.                                            *)

LEMMA RestoreNextRestore ==
  ASSUME SeedDefault = 0, Inv, DiskInv, Restoring, RestoreNext
  PROVE  RestoringInv'
<1>1. /\ pc[Main] = "restore.next" /\ UNCHANGED save /\ UNCHANGED <<torrents, tr, tk>>
      /\ UNCHANGED libVars /\ UNCHANGED session
  BY DEF RestoreNext, At, saveVars, diskVars, engineVars
<1>2. Where(Main) = "restore.next" /\ Main \in Threads
  BY <1>1, MainThreads DEF Where, WhereOf, FlowLabels, SaveLabels
<1>3. StructKeeps
  BY <1>1, LibDoneSame, StructSame DEF libVars
<1>4. \A j \in Ids : torrents[j] # NoObj => rs[j] = NoRec
  <2>1. "restore.next" \notin DoneLabels \cup NextLabels
    BY DEF DoneLabels, NextLabels
  <2>2. QED
    BY <1>2, <2>1 DEF Restoring, RestoringInv, TodoOK
<1>5. OwnStruct'
  BY <1>1 DEF Restoring, RestoringInv, OwnStruct
<1>6. rs \in [Ids -> Record \cup {NoRec}]
  BY <1>2, ThreadFacts DEF MainTypes
<1>7. ASSUME NEW i \in Ids, rs[i] # NoRec,
             SetLoc(Main, [Loc0 EXCEPT !.id = i, !.dir = rs[i].savePath,
                                       !.flag = rs[i].paused,
                                       !.magnet = i \notin metainfo,
                                       !.ret = "restore.limits"]),
             UNCHANGED <<rs, budget>>, Goto(Main, "add.spec")
      PROVE  RestoringInv'
  <2> DEFINE l == [Loc0 EXCEPT !.id = i, !.dir = rs[i].savePath, !.flag = rs[i].paused,
                               !.magnet = i \notin metainfo, !.ret = "restore.limits"]
  <2>1. /\ l.ret = "restore.limits" /\ l.id = i
        /\ l.dir = rs[i].savePath /\ l.flag = rs[i].paused
    BY NullTypes DEF Locals
  <2> HIDE DEF l
  <2>2. SetLoc(Main, l)
    BY <1>7 DEF l
  <2>3. loc'[Main] = l /\ pc'[Main] = "add.spec" /\ Where(Main)' = "add.spec" /\ Walks(Main)
    BY <1>1, <1>2, <1>7, <2>2, Lands DEF Where, WhereOf, FlowLabels, SaveLabels, Walks
  <2>4. DoneOK'
    BY <1>1, <1>3, <1>7, DoneKept DEF Spends
  <2>5. TodoOK'
    BY <1>1, <1>4, <1>7 DEF TodoOK
  <2>6. "add.spec" \in RestoringLabels /\ "add.spec" \notin DoneLabels \cup NextLabels
    BY DEF RestoringLabels, AddLabels, DoneLabels, NextLabels
  <2>7. CurrentOK(Where(Main), loc[Main])'
    <3>1. /\ rs'[loc'[Main].id] = rs[i] /\ torrents'[loc'[Main].id] = NoObj
      BY <1>1, <1>4, <1>7, <2>1, <2>3
    <3>2. ~AddedAt("add.spec", loc'[Main]) /\ ~LimitedAt("add.spec", loc'[Main])
      BY <2>6 DEF AddedAt, LimitedAt
    <3>3. /\ loc'[Main].ret = "restore.limits"
          /\ loc'[Main].dir = rs[i].savePath /\ loc'[Main].flag = rs[i].paused
      BY <2>1, <2>3
    <3> HIDE DEF AddedAt
    <3>4. ~AddedAt(Where(Main), loc[Main])' /\ ~LimitedAt(Where(Main), loc[Main])'
      BY <2>3, <2>6 DEF AddedAt, LimitedAt
    <3>5. QED
      BY <1>7, <3>1, <3>3, <3>4 DEF CurrentOK
  <2>8. QED
    BY <1>1, <1>3, <1>5, <2>3, <2>4, <2>5, <2>6, <2>7, MainQuiet, MainStops DEF RestoringInv
<1>8. ASSUME NEW i \in Ids, rs[i] # NoRec, UNCHANGED <<pc, loc>>,
             rs' = [rs EXCEPT ![i] = NoRec],
             \/ i \notin metainfo /\ ~rs[i].magnet /\ UNCHANGED budget
             \/ Fault
      PROVE  RestoringInv'
  <2>1. Walks(Main) /\ Spends /\ Where(Main)' = "restore.next"
    BY <1>1, <1>2, <1>8 DEF Walks, Spends, Where, WhereOf, FlowLabels, SaveLabels
  <2>2. budget'.faults = MaxFaults => session[i] = NoRec
    <3>1. CASE UNCHANGED budget /\ i \notin metainfo /\ ~rs[i].magnet
      <4>1. budget'.faults = MaxFaults =>
              /\ session[i] # NoRec => i \in metainfo \/ session[i].magnet
              /\ rs[i] = session[i]
        BY <1>8, <3>1 DEF Restoring, DiskInv, SessionInv
      <4>2. QED
        BY <3>1, <4>1
    <3>2. CASE Fault
      BY <3>2, FaultEnds
    <3>3. QED
      BY <1>8, <3>1, <3>2
  <2>3. DoneOK'
    <3> SUFFICES ASSUME budget'.faults = MaxFaults, NEW j \in Ids,
                        session[j] # NoRec, rs'[j] = NoRec
                 PROVE  Restored(j)'
      BY <1>1 DEF DoneOK
    <3>1. j # i /\ rs[j] = NoRec
      BY <1>6, <1>8, <2>2
    <3>2. Restored(j)
      BY <2>1, <3>1, SpendsFaults DEF Restoring, RestoringInv, DoneOK
    <3>3. KeepsStruct(j) /\ LibDone
      BY <1>3, <3>2 DEF StructKeeps, Restored
    <3>4. QED
      BY <1>1, <3>2, <3>3, RestoredKept
  <2>4. TodoOK'
    BY <1>1, <1>4, <1>6, <1>8 DEF TodoOK
  <2>5. CurrentOK(Where(Main), loc[Main])' /\ Where(Main)' \in RestoringLabels
    BY <2>1, SMTT(30) DEF CurrentOK, AddedAt, LimitedAt, AddLabels, DoneLabels, NextLabels,
                          RestoringLabels
  <2>6. QED
    BY <1>1, <1>3, <1>5, <2>1, <2>3, <2>4, <2>5, MainQuiet, MainStops DEF RestoringInv
<1>9. PICK i \in Ids :
        /\ rs[i] # NoRec
        /\ \/ /\ SetLoc(Main, [Loc0 EXCEPT !.id = i, !.dir = rs[i].savePath,
                                           !.flag = rs[i].paused,
                                           !.magnet = i \notin metainfo,
                                           !.ret = "restore.limits"])
              /\ Goto(Main, "add.spec")
              /\ UNCHANGED <<rs, budget>>
           \/ /\ i \notin metainfo /\ ~rs[i].magnet /\ UNCHANGED <<pc, loc, budget>>
              /\ rs' = [rs EXCEPT ![i] = NoRec]
           \/ Fault /\ UNCHANGED <<pc, loc>> /\ rs' = [rs EXCEPT ![i] = NoRec]
  BY DEF RestoreNext, Fault
<1>10. QED
  BY <1>7, <1>8, <1>9

(* A step on the struct being restored leaves the others.                  *)
LEMMA OtherStructsKept ==
  ASSUME Inv, Restoring, UNCHANGED torrents, NEW i \in Ids, torrents[i] # NoObj,
         \A b \in Objs : b # torrents[i] => tr'[b] = tr[b]
  PROVE  \A j \in Ids : torrents[j] # NoObj /\ j # i => KeepsStruct(j)
<1>1. ASSUME NEW j \in Ids, torrents[j] # NoObj, j # i
      PROVE  KeepsStruct(j)
  <2>1. torrents[j] \in Objs /\ torrents[j] # torrents[i]
    BY <1>1, ObjFor DEF Restoring, RestoringInv, OwnStruct
  <2>2. tr'[torrents[j]] = tr[torrents[j]]
    BY <2>1
  <2>3. QED
    BY <2>2, <1>1 DEF KeepsStruct, Keeps
<1>2. QED
  BY <1>1

LEMMA OthersDone ==
  ASSUME Inv, Restoring, LibDone, UNCHANGED <<session, budget>>, NEW i \in Ids,
         \A j \in Ids : torrents[j] # NoObj /\ j # i => KeepsStruct(j),
         \A j \in Ids : j # i => rs'[j] = rs[j],
         NEW j \in Ids, j # i, session[j] # NoRec, rs'[j] = NoRec, budget.faults = MaxFaults
  PROVE  Restored(j)'
<1>1. Restored(j)
  BY DEF Restoring, RestoringInv, DoneOK
<1>2. KeepsStruct(j)
  BY <1>1 DEF Restored
<1>3. QED
  BY <1>1, <1>2, RestoredKept

LEMMA RestoreLimitsRestore ==
  ASSUME SeedDefault = 0, Inv, DiskInv, Restoring, RestoreLimits
  PROVE  RestoringInv'
<1> DEFINE l == [loc[Main] EXCEPT !.sel = {f \in Files : rs[loc[Main].id].prio[f] # "normal"}]
<1>1. PICK i \in Ids : i = loc[Main].id
  BY MainThreads, Lands DEF Locals
<1>2. /\ pc[Main] = "restore.limits" /\ UNCHANGED save /\ UNCHANGED <<torrents, tk>>
      /\ UNCHANGED libVars /\ UNCHANGED <<session, rs, budget>>
      /\ Goto(Main, "restore.prios") /\ SetLoc(Main, l)
  BY DEF RestoreLimits, At, saveVars, diskVars, mainVars
<1>3. IF rs[i].upLimit # 0 \/ rs[i].downLimit # 0
      THEN SetTr(torrents[i], [tr[torrents[i]] EXCEPT !.upLimit = rs[i].upLimit,
                                                      !.downLimit = rs[i].downLimit])
      ELSE UNCHANGED tr
  BY <1>1 DEF RestoreLimits
<1>4. l.id = i
  BY <1>1, MainThreads, Lands DEF Locals
<1> HIDE DEF l
<1>5. /\ Where(Main) = "restore.limits" /\ Where(Main)' = "restore.prios" /\ loc'[Main] = l
      /\ Walks(Main)
  BY <1>2, MainThreads, Lands DEF Where, WhereOf, FlowLabels, SaveLabels, Walks
<1>6. torrents[i] # NoObj /\ rs[i] # NoRec /\ PutBack(i, rs[i], 0, 0)
  BY <1>1, <1>5 DEF DiskInv, MainOK, OnMain, Restoring, RestoringInv, CurrentOK, AddedAt, NextLabels
<1>7. LibDone
  BY <1>2, LibDoneSame DEF libVars
<1>8. \A j \in Ids : torrents[j] # NoObj /\ j # i => KeepsStruct(j)
  <2>1. \A b \in Objs : b # torrents[i] => tr'[b] = tr[b]
    BY <1>3, TrTyped DEF SetTr
  <2>2. QED
    BY <1>2, <1>6, <2>1, OtherStructsKept
<1>9. PutBack(i, rs[i], rs[i].downLimit, rs[i].upLimit)'
  <2>1. torrents[i] \in Objs /\ tr[torrents[i]] \in Tracked
    BY <1>6, ObjFor, TrTyped
  <2>2. ASSUME NEW y \in Tracked, NEW a, NEW b
        PROVE  LET z == [y EXCEPT !.upLimit = a, !.downLimit = b]
               IN /\ z.savePath = y.savePath /\ z.paused = y.paused /\ z.seedLimit = y.seedLimit
                  /\ z.upLimit = a /\ z.downLimit = b
    BY DEF Tracked
  <2>3. CASE UNCHANGED tr /\ rs[i].upLimit = 0 /\ rs[i].downLimit = 0
    BY <1>2, <1>6, <2>3 DEF PutBack
  <2>4. CASE SetTr(torrents[i], [tr[torrents[i]] EXCEPT !.upLimit = rs[i].upLimit,
                                                        !.downLimit = rs[i].downLimit])
    <3>1. tr'[torrents[i]] = [tr[torrents[i]] EXCEPT !.upLimit = rs[i].upLimit,
                                                     !.downLimit = rs[i].downLimit]
      BY <2>1, <2>4, TrTyped DEF SetTr
    <3>2. QED
      BY <1>2, <1>6, <2>1, <2>2, <3>1 DEF PutBack
  <2>5. QED
    BY <1>3, <2>3, <2>4
<1>10. StopsOK'
  <2>1. ~StopOK(i)
    BY <1>6 DEF StopOK, PutBack, SeedLimitOf
  <2>2. \A j \in Ids : StopOK(j) => KeepsStruct(j)
    BY <1>8, <2>1 DEF StopOK
  <2>3. Stays(Tick)
    BY <1>5, WalksStays, MainThreads
  <2>4. QED
    BY <1>2, <1>7, <2>2, <2>3, StopsKept
<1>11. DoneOK'
  BY <1>2, <1>6, <1>7, <1>8, OthersDone DEF DoneOK
<1>12. "restore.prios" \in NextLabels /\ "restore.limits" \in NextLabels
       /\ "restore.prios" \notin AddLabels \cup DoneLabels /\ "restore.prios" \in RestoringLabels
  BY DEF NextLabels, AddLabels, DoneLabels, RestoringLabels
<1>13. TodoOK'
  BY <1>1, <1>2, <1>4, <1>5, <1>12 DEF Restoring, RestoringInv, TodoOK
<1>14. CurrentOK(Where(Main), loc[Main])'
  <2>1. loc'[Main].id = i /\ rs'[i] # NoRec
    BY <1>2, <1>4, <1>5, <1>6
  <2>2. ~AddedAt(Where(Main), loc[Main])'
    BY <1>5, <1>12 DEF AddedAt
  <2>3. PutBack(loc[Main].id, rs[loc[Main].id], rs[loc[Main].id].downLimit,
                rs[loc[Main].id].upLimit)'
    BY <1>9, <2>1
  <2>4. QED
    BY <1>5, <1>12, <2>1, <2>2, <2>3 DEF CurrentOK
<1>15. OwnStruct'
  BY <1>2 DEF Restoring, RestoringInv, OwnStruct
<1>16. QED
  BY <1>5, <1>10, <1>11, <1>12, <1>13, <1>14, <1>15, MainQuiet DEF RestoringInv

LEMMA RestorePriosRestore ==
  ASSUME SeedDefault = 0, Inv, DiskInv, Restoring, RestorePrios
  PROVE  RestoringInv'
<1>1. /\ pc[Main] = "restore.prios" /\ UNCHANGED save /\ UNCHANGED <<torrents, tr, tk>>
      /\ UNCHANGED libVars /\ UNCHANGED <<session, rs, budget>>
  BY DEF RestorePrios, At, saveVars, diskVars, mainVars, engineVars
<1>2. Where(Main) = "restore.prios" /\ Main \in Threads
  BY <1>1, MainThreads DEF Where, WhereOf, FlowLabels, SaveLabels
<1>3. StructKeeps
  BY <1>1, LibDoneSame, StructSame DEF libVars
<1>4. ASSUME NEW c, NEW l, Goto(Main, c), loc'[Main] = l, UNCHANGED loc \/ SetLoc(Main, l),
             l.id = loc[Main].id,
             c = "restore.final" \/ (c = "prio.set" /\ l.ret = "restore.prios")
      PROVE  RestoringInv'
  <2>1. Where(Main)' = c /\ Walks(Main)
    BY <1>1, <1>2, <1>4, Lands DEF Where, WhereOf, FlowLabels, SaveLabels, Walks
  <2>2. Onward("restore.prios", loc[Main], c, l)
    BY <1>4, SMTT(30) DEF Onward, AddedAt, LimitedAt, AddLabels, DoneLabels, NextLabels,
                          RestoringLabels
  <2>3. QED
    BY <1>1, <1>2, <1>3, <1>4, <2>1, <2>2, MainGoesOn DEF Spends
<1>5. CASE \E f \in loc[Main].sel :
             /\ SetLoc(Main, [loc[Main] EXCEPT !.sel = @ \ {f}, !.file = f,
                                               !.prio = rs[loc[Main].id].prio[f],
                                               !.o = torrents[loc[Main].id],
                                               !.ret = "restore.prios"])
             /\ Goto(Main, "prio.set")
  <2>1. PICK f \in loc[Main].sel :
             /\ SetLoc(Main, [loc[Main] EXCEPT !.sel = @ \ {f}, !.file = f,
                                               !.prio = rs[loc[Main].id].prio[f],
                                               !.o = torrents[loc[Main].id],
                                               !.ret = "restore.prios"])
             /\ Goto(Main, "prio.set")
    BY <1>5
  <2> DEFINE l == [loc[Main] EXCEPT !.sel = @ \ {f}, !.file = f,
                                    !.prio = rs[loc[Main].id].prio[f],
                                    !.o = torrents[loc[Main].id],
                                    !.ret = "restore.prios"]
  <2>2. l.id = loc[Main].id /\ l.ret = "restore.prios"
    BY <1>2, Lands DEF Locals
  <2> HIDE DEF l
  <2>3. SetLoc(Main, l)
    BY <2>1 DEF l
  <2>4. QED
    BY <1>2, <1>4, <2>1, <2>2, <2>3, Lands
<1>6. CASE Goto(Main, "restore.final") /\ UNCHANGED loc
  BY <1>4, <1>6
<1>7. QED
  BY <1>5, <1>6 DEF RestorePrios

LEMMA RestoreFinalRestore ==
  ASSUME SeedDefault = 0, Inv, DiskInv, Restoring, RestoreFinal
  PROVE  RestoringInv'
<1>1. PICK i \in Ids : i = loc[Main].id
  BY MainThreads, Lands DEF Locals
<1> DEFINE o == torrents[i]
           r == rs[i]
           x == [tr[o] EXCEPT !.base = r.downloaded, !.seedLimit = r.seedLimit,
                              !.completedAt = r.completedAt, !.label = r.label,
                              !.completeLogged = r.completedAt]
<1>2. /\ pc[Main] = "restore.final" /\ UNCHANGED save /\ UNCHANGED <<torrents, tk>>
      /\ UNCHANGED libVars /\ UNCHANGED <<session, budget>>
      /\ Goto(Main, "restore.next") /\ SetLoc(Main, Loc0)
  BY DEF RestoreFinal, At, saveVars, diskVars, mainVars
<1>3. SetTr(o, x) /\ rs' = [rs EXCEPT ![i] = NoRec]
  BY <1>1, Zenon DEF RestoreFinal
<1>4. /\ Where(Main) = "restore.final" /\ Where(Main)' = "restore.next" /\ Walks(Main)
  BY <1>2, MainThreads, Lands DEF Where, WhereOf, FlowLabels, SaveLabels, Walks
<1>5. o # NoObj /\ r # NoRec /\ PutBack(i, r, r.downLimit, r.upLimit)
  BY <1>1, <1>4 DEF DiskInv, MainOK, OnMain, Restoring, RestoringInv, CurrentOK, LimitedAt, NextLabels
<1>6. LibDone
  BY <1>2, LibDoneSame DEF libVars
<1>7. o \in Objs /\ tr[o] \in Tracked /\ rs \in [Ids -> Record \cup {NoRec}]
  BY <1>5, ObjFor, TrTyped, MainThreads, ThreadFacts DEF MainTypes
<1>8. /\ x.savePath = tr[o].savePath /\ x.paused = tr[o].paused
      /\ x.downLimit = tr[o].downLimit /\ x.upLimit = tr[o].upLimit
      /\ x.base = r.downloaded /\ x.seedLimit = r.seedLimit /\ x.label = r.label
      /\ x.completedAt = r.completedAt /\ x.completeLogged = r.completedAt
  BY <1>7 DEF Tracked
<1> HIDE DEF x
<1>9. tr'[o] = x
  BY <1>3, <1>7, TrTyped DEF SetTr
<1>10. \A j \in Ids : torrents[j] # NoObj /\ j # i => KeepsStruct(j)
  <2>1. \A b \in Objs : b # torrents[i] => tr'[b] = tr[b]
    BY <1>3, TrTyped DEF SetTr
  <2>2. QED
    BY <1>2, <1>5, <2>1, OtherStructsKept
<1>11. \A j \in Ids : rs'[j] = IF j = i THEN NoRec ELSE rs[j]
  BY <1>3, <1>7
<1>12. StopsOK'
  <2>1. ~StopOK(i)
    BY <1>5 DEF StopOK, PutBack, SeedLimitOf
  <2>2. \A j \in Ids : StopOK(j) => KeepsStruct(j)
    BY <1>10, <2>1 DEF StopOK
  <2>3. Stays(Tick)
    BY <1>4, WalksStays, MainThreads
  <2>4. QED
    BY <1>2, <1>6, <2>2, <2>3, StopsKept
<1>13. budget.faults = MaxFaults /\ session[i] # NoRec => Restored(i)'
  <2> SUFFICES ASSUME budget.faults = MaxFaults, session[i] # NoRec PROVE Restored(i)'
    OBVIOUS
  <2>1. r = session[i]
    BY <1>5 DEF Restoring, DiskInv, SessionInv
  <2>2. r \in Record
    BY <1>5, <1>7
  <2>3. r.downloaded >= r.downloaded
    <3>1. \A y \in Record : y.downloaded \in Nat
      BY DEF Record
    <3>2. PICK n \in Nat : n = r.downloaded
      BY <2>2, <3>1
    <3>3. QED
      BY <3>2
  <2>4. torrents'[i] = o /\ session'[i] = r
    BY <1>2, <2>1
  <2>5. x.savePath = r.savePath /\ x.paused = r.paused
        /\ x.downLimit = r.downLimit /\ x.upLimit = r.upLimit
    BY <1>5, <1>8 DEF PutBack
  <2>6. tr'[torrents'[i]] = x
    BY <1>9, <2>4
  <2> HIDE DEF r, o
  <2>7. QED
    BY <1>5, <1>8, <2>3, <2>4, <2>5, <2>6 DEF Restored
<1>14. DoneOK'
  <2>1. ASSUME NEW j \in Ids, session'[j] # NoRec, rs'[j] = NoRec, budget'.faults = MaxFaults
        PROVE  Restored(j)'
    <3>1. CASE j = i
      BY <1>2, <1>13, <2>1, <3>1
    <3>2. CASE j # i
      BY <1>2, <1>6, <1>10, <1>11, <2>1, <3>2, OthersDone
    <3>3. QED
      BY <3>1, <3>2
  <2>2. QED
    BY <2>1 DEF DoneOK
<1>15. TodoOK'
  <2>1. \A j \in Ids : torrents[j] # NoObj /\ rs[j] # NoRec => j = i
    BY <1>1 DEF Restoring, RestoringInv, TodoOK
  <2>2. QED
    BY <1>2, <1>11, <2>1 DEF TodoOK
<1>16. CurrentOK(Where(Main), loc[Main])' /\ Where(Main)' \in RestoringLabels
  BY <1>4, SMTT(30) DEF CurrentOK, AddedAt, LimitedAt, AddLabels, DoneLabels, NextLabels,
                        RestoringLabels
<1>17. OwnStruct'
  BY <1>2 DEF Restoring, RestoringInv, OwnStruct
<1>18. QED
  BY <1>4, <1>12, <1>14, <1>15, <1>16, <1>17, MainQuiet DEF RestoringInv

-----------------------------------------------------------------------------
(* A tick: it assigns rates and completions, and stops who is finished.    *)

LEMMA TickStructKeeps ==
  ASSUME Inv, TickDecide
  PROVE  StructKeeps
<1>1. PICK down \in [TrackedIds -> Rates], up \in [TrackedIds -> Rates] :
       LET rated(i) == [tr[torrents[i]] EXCEPT !.lastDownBPS = down[i], !.lastUpBPS = up[i]]
           finished == {i \in TrackedIds : Complete(tr[torrents[i]].t)}
           ticked(i) == [rated(i) EXCEPT !.completeLogged = @ \/ i \in finished,
                                         !.completedAt = @ \/ i \in finished]
       IN tr' = [o \in Objs |->
                   IF \E i \in TrackedIds : torrents[i] = o
                   THEN ticked(CHOOSE i \in TrackedIds : torrents[i] = o)
                   ELSE tr[o]]
  BY DEF TickDecide
<1> DEFINE rated(i) == [tr[torrents[i]] EXCEPT !.lastDownBPS = down[i], !.lastUpBPS = up[i]]
           finished == {i \in TrackedIds : Complete(tr[torrents[i]].t)}
           ticked(i) == [rated(i) EXCEPT !.completeLogged = @ \/ i \in finished,
                                         !.completedAt = @ \/ i \in finished]
<1>2. tr' = [o \in Objs |->
               IF \E i \in TrackedIds : torrents[i] = o
               THEN ticked(CHOOSE i \in TrackedIds : torrents[i] = o)
               ELSE tr[o]]
  BY <1>1, Zenon
<1>3. ASSUME NEW i \in TrackedIds
      PROVE  Keeps(tr[torrents[i]], ticked(i)) /\ ticked(i).paused = tr[torrents[i]].paused
  <2>1. tr[torrents[i]] \in Tracked
    BY ObjFor DEF TrackedIds
  <2>2. down[i] \in Rates /\ up[i] \in Rates
    OBVIOUS
  <2>3. ASSUME NEW y \in Tracked, NEW a \in Rates, NEW b \in Rates
        PROVE  LET z == [y EXCEPT !.lastDownBPS = a, !.lastUpBPS = b]
               IN z \in Tracked /\ Keeps(y, z) /\ z.paused = y.paused
    BY DEF Tracked, Keeps
  <2>4. rated(i) \in Tracked /\ Keeps(tr[torrents[i]], rated(i))
        /\ rated(i).paused = tr[torrents[i]].paused
    BY <2>1, <2>2, <2>3
  <2> HIDE DEF rated, finished
  <2>5. ASSUME NEW y \in Tracked, NEW b \in BOOLEAN
        PROVE  LET z == [y EXCEPT !.completeLogged = @ \/ b, !.completedAt = @ \/ b]
               IN Keeps(y, z) /\ z.paused = y.paused
    BY DEF Tracked, Keeps
  <2>6. Keeps(rated(i), ticked(i)) /\ ticked(i).paused = rated(i).paused
    BY <2>4, <2>5
  <2> HIDE DEF ticked
  <2>7. QED
    BY <2>4, <2>6 DEF Keeps
<1> HIDE DEF rated, finished, ticked
<1>4. \A b \in Objs : Keeps(tr[b], tr[b])
  BY TrTyped, KeepsField
<1>5. \A b \in Objs : Keeps(tr[b], tr'[b]) /\ tr'[b].paused = tr[b].paused
  BY <1>2, <1>3, <1>4
<1>6. UNCHANGED torrents /\ LibDone
  BY LibDoneSame DEF TickDecide, libVars
<1>7. ASSUME NEW i \in Ids, torrents[i] # NoObj
      PROVE  KeepsStruct(i)
  BY <1>5, <1>6, <1>7, ObjFor DEF KeepsStruct
<1>8. QED
  BY <1>6, <1>7 DEF StructKeeps

LEMMA TickDecideRestore ==
  ASSUME SeedDefault = 0, Inv, DiskInv, Restoring, TickDecide
  PROVE  RestoringInv'
<1> DEFINE M == {i \in TrackedIds : MayReachLimit(tr[torrents[i]])}
<1>0. PICK s, a, b :
        /\ s \in SUBSET M
        /\ tk' = [flows |-> a, stop |-> s, done |-> b]
        /\ Persist(Tick, "tick.apply") \/ (Goto(Tick, "tick.apply") /\ UNCHANGED save)
  BY Zenon DEF TickDecide
<1>1. /\ UNCHANGED loc /\ UNCHANGED <<torrents, rs, session, budget>>
      /\ Persist(Tick, "tick.apply") \/ (Goto(Tick, "tick.apply") /\ UNCHANGED save)
      /\ tk'.stop \subseteq M
  BY <1>0 DEF TickDecide, diskVars, mainVars
<1>2. StructKeeps /\ LibDone /\ Spends
  BY <1>1, TickStructKeeps DEF StructKeeps, Spends
<1>3. Walks(Tick) /\ Where(Tick)' = "tick.apply" /\ pc'[Tick] # "pause.set"
  <2>1. "tick.apply" \in SaveNext \ Watched
    BY SaveNextOpen DEF SaveNext
  <2>2. CASE Persist(Tick, "tick.apply")
    <3>1. pc'[Tick] \in {"tick.apply", "save.check"}
      BY <2>2, Lands, MainThreads DEF Persist
    <3>2. QED
      BY <1>1, <2>1, <2>2, <3>1, PersistOpen, MainThreads DEF Walks
  <2>3. CASE Goto(Tick, "tick.apply") /\ UNCHANGED save
    BY <1>1, <2>3, Lands, MainThreads DEF Walks, Where, WhereOf, FlowLabels, SaveLabels
  <2>4. QED
    BY <1>1, <2>2, <2>3
<1>4. StopsOK'
  <2>1. ASSUME NEW i \in tk'.stop PROVE StopOK(i)'
    <3>1. i \in Ids /\ StopOK(i)
      BY <1>1, <2>1 DEF TrackedIds, MayReachLimit, StopOK
    <3>2. KeepsStruct(i)
      BY <1>2, <3>1 DEF StructKeeps, StopOK
    <3>3. QED
      BY <1>2, <3>1, <3>2, StopKept
  <2>2. QED
    BY <1>3, <2>1 DEF StopsOK
<1>5. QuietAt(Tick)'
  BY <1>3, ThreadsAssumption DEF QuietAt, RestLabels, StopLabels
<1>6. QED
  BY <1>1, <1>2, <1>3, <1>4, <1>5, MainThreads, SideStep

(* The tick stops one of those that have reached their limit.              *)
LEMMA TickStopRestore ==
  ASSUME SeedDefault = 0, Inv, DiskInv, Restoring, TickStop
  PROVE  RestoringInv'
<1>1. /\ pc[Tick] = "tick.stop" /\ UNCHANGED save /\ UNCHANGED <<torrents, tr, budget>>
      /\ UNCHANGED libVars /\ UNCHANGED <<session, rs>>
  BY DEF TickStop, At, saveVars, diskVars, mainVars, engineVars
<1>2. StructKeeps /\ LibDone /\ Spends
  BY <1>1, LibDoneSame, StructSame DEF libVars, Spends
<1>3. tk \in Ticking /\ tk.stop \subseteq Ids
  BY MainThreads, ThreadFacts DEF TallyTypes, Ticking
<1>4. CASE \E i \in tk.stop :
             /\ tk' = [tk EXCEPT !.stop = @ \ {i}]
             /\ IF torrents[i] = NoObj
                THEN UNCHANGED <<pc, loc>>
                ELSE /\ SetLoc(Tick, [Found(i) EXCEPT !.flag = TRUE, !.ret = "tick.stop"])
                     /\ Goto(Tick, "pause.set")
  <2>1. PICK i \in tk.stop :
             /\ tk' = [tk EXCEPT !.stop = @ \ {i}]
             /\ IF torrents[i] = NoObj
                THEN UNCHANGED <<pc, loc>>
                ELSE /\ SetLoc(Tick, [Found(i) EXCEPT !.flag = TRUE, !.ret = "tick.stop"])
                     /\ Goto(Tick, "pause.set")
    BY <1>4
  <2> DEFINE l == [Found(i) EXCEPT !.flag = TRUE, !.ret = "tick.stop"]
  <2>2. StopOK(i) /\ i \in Ids
    BY <1>3, <2>1 DEF Restoring, RestoringInv, StopsOK
  <2>3. tk'.stop \subseteq tk.stop
    BY <1>3, <2>1 DEF Ticking
  <2>4. l.id = i /\ l.o = torrents[i] /\ l.flag /\ l.ret = "tick.stop"
    <3>1. Found(i) \in Locals /\ Found(i).o = torrents[i]
      BY <2>2, FoundFacts DEF StopOK
    <3>2. Found(i).id = i
      BY DEF Found, Loc0
    <3>3. QED
      BY <3>1, <3>2 DEF Locals
  <2> HIDE DEF l
  <2>5. SetLoc(Tick, l) /\ Goto(Tick, "pause.set")
    BY <2>1, <2>2 DEF l, StopOK
  <2>6. pc'[Tick] = "pause.set" /\ loc'[Tick] = l /\ Walks(Tick)
    BY <1>1, <2>5, Lands, MainThreads DEF Walks
  <2>7. StopsOK'
    <3>1. \A j \in Ids : StopOK(j) => StopOK(j)'
      BY <1>2, StopKept, KeepsStops
    <3>2. \A j \in tk'.stop : StopOK(j)'
      BY <1>3, <2>3, <3>1 DEF Restoring, RestoringInv, StopsOK
    <3>3. StopOK(i)' /\ torrents'[i] = torrents[i]
      BY <1>1, <2>2, <3>1
    <3>4. (StopOK(loc[Tick].id) /\ loc[Tick].o = torrents[loc[Tick].id] /\ loc[Tick].flag)'
      BY <2>4, <2>6, <3>3
    <3>5. QED
      BY <3>2, <3>4 DEF StopsOK
  <2>8. QuietAt(Tick)'
    <3>1. Where(Tick)' = "pause.set"
      BY <2>6 DEF Where, WhereOf, FlowLabels, SaveLabels
    <3>2. QED
      BY <2>4, <2>6, <3>1, ThreadsAssumption DEF QuietAt, StopLabels
  <2>9. QED
    BY <1>1, <1>2, <2>6, <2>7, <2>8, MainThreads, SideStep
<1>5. CASE tk.stop = {} /\ Goto(Tick, "tick.hook") /\ SetLoc(Tick, Loc0) /\ UNCHANGED tk
  <2>1. pc'[Tick] = "tick.hook" /\ Walks(Tick)
    BY <1>1, <1>5, Lands, MainThreads DEF Walks
  <2>2. StopsOK'
    BY <1>2, <1>5, <2>1, StopsKept, KeepsStops
  <2>3. QuietAt(Tick)'
    BY <2>1, ThreadsAssumption DEF QuietAt, Where, WhereOf, FlowLabels, SaveLabels, RestLabels,
                                   StopLabels
  <2>4. QED
    BY <1>1, <1>2, <2>1, <2>2, <2>3, MainThreads, SideStep
<1>6. QED
  BY <1>4, <1>5 DEF TickStop

LEMMA TickRestore ==
  ASSUME SeedDefault = 0, Inv, DiskInv, Restoring, TickStep
  PROVE  RestoringInv'
<1>1. CASE TickStart \/ TickDisk \/ TickApply \/ TickHook
  <2>1. /\ UNCHANGED save /\ UNCHANGED <<torrents, tr>> /\ UNCHANGED libVars
        /\ UNCHANGED <<session, rs>>
        /\ UNCHANGED loc \/ \E l : SetLoc(Tick, l)
    BY <1>1 DEF TickStart, TickDisk, TickApply, TickHook, saveVars, diskVars, mainVars, engineVars
  <2>2. Spends
    BY <1>1 DEF TickStart, TickDisk, TickApply, TickHook, Spends
  <2>3. StructKeeps /\ LibDone
    BY <2>1, LibDoneSame, StructSame DEF libVars
  <2>4. tk \in Ticking
    BY MainThreads, ThreadFacts DEF TallyTypes
  <2>5. tk'.stop \subseteq tk.stop
    <3>1. UNCHANGED tk \/ tk' = Tk0 \/ \E f : tk' = [tk EXCEPT !.flows = @ \ {f}]
      BY <1>1 DEF TickStart, TickDisk, TickApply, TickHook
    <3>2. QED
      BY <2>4, <3>1 DEF Ticking, Tk0
  <2>6. Walks(Tick) /\ pc'[Tick] # "pause.set" /\ Where(Tick)' \in RestLabels
    <3>1. CASE TickStart \/ TickDisk \/ TickHook
      <4>1. Goto(Tick, "tick.disk") \/ Goto(Tick, "tick.decide") \/ Goto(Tick, "tick")
        BY <3>1 DEF TickStart, TickDisk, TickHook
      <4>2. pc'[Tick] \in {"tick.disk", "tick.decide", "tick"}
        BY <4>1, Lands, MainThreads
      <4>3. Where(Tick)' = pc'[Tick]
        BY <4>2 DEF Where, WhereOf, FlowLabels, SaveLabels
      <4>4. QED
        BY <2>1, <4>1, <4>2, <4>3 DEF Walks, RestLabels
    <3>2. CASE TickApply
      <4>1. CASE \E f \in tk.flows :
                   /\ SetLoc(Tick, [loc[Tick] EXCEPT !.ft = f.ft, !.down = f.down,
                                                     !.up = f.up, !.fk = "tick.apply"])
                   /\ Goto(Tick, "flow.down")
        <5>1. PICK f \in tk.flows :
                   /\ SetLoc(Tick, [loc[Tick] EXCEPT !.ft = f.ft, !.down = f.down,
                                                     !.up = f.up, !.fk = "tick.apply"])
                   /\ Goto(Tick, "flow.down")
          BY <4>1
        <5> DEFINE l == [loc[Tick] EXCEPT !.ft = f.ft, !.down = f.down,
                                          !.up = f.up, !.fk = "tick.apply"]
        <5>2. loc'[Tick].fk = "tick.apply" /\ pc'[Tick] = "flow.down"
          <6>1. l.fk = "tick.apply"
            BY Lands, MainThreads DEF Locals
          <6> HIDE DEF l
          <6>2. SetLoc(Tick, l)
            BY <5>1 DEF l
          <6>3. QED
            BY <5>1, <6>1, <6>2, Lands, MainThreads
        <5>3. Where(Tick)' = "tick.apply"
          BY <5>2 DEF Where, WhereOf, FlowLabels
        <5>4. QED
          BY <2>1, <5>1, <5>2, <5>3 DEF Walks, RestLabels
      <4>2. CASE Goto(Tick, "tick.stop")
        <5>1. pc'[Tick] = "tick.stop"
          BY <4>2, Lands, MainThreads
        <5>2. QED
          BY <2>1, <4>2, <5>1 DEF Walks, Where, WhereOf, FlowLabels, SaveLabels, RestLabels
      <4>3. QED
        BY <3>2, <4>1, <4>2 DEF TickApply
    <3>3. QED
      BY <1>1, <3>1, <3>2
  <2>7. QuietAt(Tick)'
    <3>1. RestLabels \cap StopLabels = {}
      BY DEF RestLabels, StopLabels
    <3>2. QED
      BY <2>6, <3>1, ThreadsAssumption DEF QuietAt
  <2>8. StopsOK'
    BY <2>3, <2>5, <2>6, StopsKept, KeepsStops
  <2>9. QED
    BY <2>1, <2>2, <2>3, <2>6, <2>7, <2>8, MainThreads, SideStep
<1>2. QED
  BY <1>1, TickDecideRestore, TickStopRestore DEF TickStep

-----------------------------------------------------------------------------
(* A step in a restore.                                                    *)

(* No thread moves.                                                        *)
LEMMA StillRestore ==
  ASSUME SeedDefault = 0, Inv, DiskInv, Restoring, LibDone, Spends,
         UNCHANGED <<torrents, tr, pc, loc, save, tk, rs, session>>
  PROVE  RestoringInv'
<1>1. StructKeeps
  BY StructSame
<1>2. \A q \in Threads : Stays(q) /\ Where(q)' = Where(q)
  BY DEF Stays, Where
<1>3. \A q \in Threads : QuietAt(q)'
  BY <1>2 DEF Restoring, RestoringInv, QuietAt
<1>4. StopsOK'
  BY <1>1, <1>2, MainThreads, KeepsStops, StopsKept
<1>5. Onward(Where(Main), loc[Main], Where(Main)', loc'[Main])
  BY <1>2, MainThreads, StaysOnward DEF Stays
<1>6. QED
  BY <1>1, <1>3, <1>4, <1>5, GoesOn

LEMMA NetworkRestore ==
  ASSUME SeedDefault = 0, Inv, DiskInv, Restoring, Network
  PROVE  RestoringInv'
<1>1. PICK t \in Insts :
        /\ \/ (GotInfo(t) \/ Transfer(t)) /\ UNCHANGED data
           \/ Finish(t) /\ UNCHANGED budget
        /\ UNCHANGED <<engineVars, ninst, client, guardVars, session, metainfo,
                       saveVars, mainVars, pc, loc, tk, hooks>>
  BY DEF Network
<1>2. UNCHANGED <<torrents, tr, pc, loc, save, tk, rs, session>>
  BY <1>1 DEF engineVars, saveVars, mainVars
<1>3. LibDone
  BY <1>1, LibDoneField DEF GotInfo, Transfer, Finish
<1>4. Spends
  BY <1>1 DEF GotInfo, Transfer, Spends
<1>5. QED
  BY <1>2, <1>3, <1>4, StillRestore

LEMMA ThreadRestore ==
  ASSUME SeedDefault = 0, Inv, DiskInv, Restoring, NEW p \in Threads, ThreadStep(p)
  PROVE  RestoringInv'
<1>1. CASE OpStep(p)
  <2>1. CASE AddStep(p)
    BY <2>1, AddSpecRestore, AddTrackRestore, AddSpawnRestore DEF AddStep
  <2>2. QED
    BY <1>1, <2>1, RestoreOps, ApplyFlowRestore, EndOpRestore, PersistRestore, PauseRestore,
       PrioRestore
<1>2. CASE GoroutineStep(p)
  BY <1>2, ApplyFlowRestore, PersistRestore, WaiterRestore, NoChecker DEF GoroutineStep
<1>3. CASE MainStep
  <2>1. pc[Main] \notin BusyLabels
    BY NobodyBusy, MainThreads
  <2>2. ~New /\ ~CloseCancel /\ ~CloseWait /\ ~RestoreRead
    BY <2>1 DEF New, CloseCancel, CloseWait, RestoreRead, At, BusyLabels
  <2>3. CASE RestoreDone
    BY <2>3 DEF RestoreDone, RestoringInv
  <2>4. QED
    BY <1>3, <2>2, <2>3, RestoreNextRestore, RestoreLimitsRestore, RestorePriosRestore,
       RestoreFinalRestore DEF MainStep, RestoreStep
<1>4. QED
  BY <1>1, <1>2, <1>3, TickRestore DEF ThreadStep

LEMMA CallsUp ==
  ASSUME NEW p \in Clients, ClientCalls(p)
  PROVE  pc[Main] = "up" /\ UNCHANGED restoring
<1>1. ASSUME NEW op, NEW c, NEW l, Call(p, op, c, l)
      PROVE  pc[Main] = "up" /\ UNCHANGED restoring
  BY <1>1 DEF Call, Up, At, mainVars
<1>2. CASE CallAdd(p) \/ CallSetPaused(p) \/ CallSetFilePriority(p) \/ CallSetter(p)
  BY <1>1, <1>2 DEF CallAdd, CallSetPaused, CallSetFilePriority, CallSetter
<1>3. CASE CallPrepareStream(p) \/ CallForceRecheck(p) \/ CallStruct(p)
  BY <1>1, <1>3 DEF CallPrepareStream, CallForceRecheck, CallStruct
<1>4. QED
  BY <1>2, <1>3 DEF ClientCalls

LEMMA InRestore ==
  ASSUME SeedDefault = 0, Inv, DiskInv, Restoring, [Next]_vars
  PROVE  RestoringInv'
<1>1. pc[Main] # "up"
  BY NobodyBusy, MainThreads DEF BusyLabels
<1>2. ~Close /\ ~Idle /\ \A c \in Clients : ~ClientCalls(c)
  BY <1>1, CallsUp DEF Close, Idle, Rest, Up, At
<1>3. CASE Crash
  BY <1>3 DEF Crash, ProcessEnds, RestoringInv
<1>4. CASE UNCHANGED vars
  <2>1. UNCHANGED <<torrents, tr, pc, loc, save, tk, rs, session, budget, lib>>
    BY <1>4 DEF vars, engineVars, libVars, saveVars, diskVars, mainVars
  <2>2. QED
    BY <2>1, LibDoneSame, StillRestore DEF Spends
<1>5. QED
  BY <1>2, <1>3, <1>4, NetworkRestore, ThreadRestore DEF Next

-----------------------------------------------------------------------------
(* The restore begins when session.json has been read.                     *)

LEMMA OpRestoring ==
  ASSUME NEW p, OpStep(p)
  PROVE  UNCHANGED restoring
<1>1. CASE ApplyFlowDown(p) \/ ApplyFlowUp(p) \/ EndOp(p) \/ AddStep(p) \/ PauseStep(p)
  BY <1>1 DEF ApplyFlowDown, ApplyFlowUp, EndOp, AddStep, AddSpec, AddTrack, AddSpawn, PauseStep,
              SetPaused, SetPausedChosen, SetPausedMark, SetPausedSave, mainVars
<1>2. CASE FieldStep(p) \/ StreamStep(p)
  BY <1>2 DEF FieldStep, SetFilePriority, SetFilePriorityChosen, SetTorrentRateLimit,
              SetSeedLimit, SetLabel, StreamStep, PrepareStreamPaused, PrepareStreamResume,
              PrepareStreamPrio, mainVars
<1>3. CASE PersistStep(p)
  BY <1>3 DEF PersistStep, PersistCheck, SaveGather, SaveMetaCollect, SaveMetaWrite, SaveWrite,
              SaveDirFails, mainVars
<1>4. CASE StructStep(p)
  <2>1. CASE BeginCheckAdd(p) \/ BeginCheck(p) \/ LockOp(p) \/ QuiesceCancel(p) \/ QuiesceWait(p)
    BY <2>1 DEF BeginCheckAdd, BeginCheck, LockOp, QuiesceCancel, QuiesceWait, mainVars
  <2>2. CASE RemoveStep(p)
    BY <2>2 DEF RemoveStep, RemoveDelete, RemoveDrop, RemoveFiles, RemoveMeta, mainVars
  <2>3. CASE PurgeStep(p)
    BY <2>3 DEF PurgeStep, PurgeRead, PurgeHold, PurgeFold, PurgeDrop, PurgeDelete, PurgeReadd,
                PurgeSwap, PurgeSave, PurgeFailed, StructRead, StructHold, FoldCounters, DropOld,
                mainVars
  <2>4. CASE MoveStep(p)
    BY <2>4 DEF MoveStep, MoveRead, MoveMkdir, MoveHold, MovePrios, MoveFiles, MoveFold, MoveDrop,
                MoveReadd, MoveLost, MoveFailed, MoveReprio, MoveSwap, StructRead, StructHold,
                FoldCounters, DropOld, mainVars
  <2>5. QED
    BY <1>4, <2>1, <2>2, <2>3, <2>4 DEF StructStep
<1>5. QED
  BY <1>1, <1>2, <1>3, <1>4 DEF OpStep

LEMMA ThreadRestoring ==
  ASSUME NEW p \in Threads, ThreadStep(p)
  PROVE  UNCHANGED restoring \/ RestoreRead \/ RestoreDone \/ CloseWait
<1>1. CASE GoroutineStep(p)
  <2>1. CASE WaiterStep(p) \/ CheckerStep(p)
    BY <2>1 DEF WaiterStep, WaitInfo, WaitMark, WaitSelect, WaitChosen, WaitSave, CheckerStep,
                VerifyRead, VerifyLoop, VerifyPiece, CheckClear, CheckDone, CheckEnd, CheckOff,
                mainVars
  <2>2. QED
    BY <1>1, <2>1, OpRestoring DEF GoroutineStep, OpStep
<1>2. CASE TickStep
  BY <1>2 DEF TickStep, TickStart, TickDisk, TickDecide, TickApply, TickStop, TickHook, mainVars
<1>3. CASE MainStep
  BY <1>3 DEF MainStep, New, RestoreStep, RestoreNext, RestoreLimits, RestorePrios, RestoreFinal,
              CloseCancel, mainVars
<1>4. QED
  BY <1>1, <1>2, <1>3, OpRestoring DEF ThreadStep

LEMMA RestoringOnly ==
  ASSUME [Next]_vars
  PROVE  \/ UNCHANGED restoring
         \/ RestoreRead \/ RestoreDone
         \/ ProcessEnds
<1>1. CASE Close \/ Network \/ Idle \/ UNCHANGED vars
  BY <1>1 DEF Close, Network, Idle, vars, mainVars
<1>2. QED
  BY <1>1, CallsUp, ThreadRestoring DEF Next, Crash, CloseWait

LEMMA RestoreBegins ==
  ASSUME Inv, DiskInv, ~restoring, RestoreRead
  PROVE  RestoringInv'
<1> SUFFICES ASSUME restoring' PROVE RestoringInv'
  BY DEF RestoringInv
<1>1. /\ pc[Main] = "restore.read" /\ rs' = session /\ Goto(Main, "restore.next")
      /\ UNCHANGED <<loc, save, torrents, tr, tk, session>>
  BY DEF RestoreRead, At, engineVars, diskVars, saveVars
<1>2. Early /\ EarlyInv
  BY <1>1 DEF Early, EarlyLabels, DiskInv
<1>3. /\ tk'.stop = {} /\ \A i \in Ids : torrents'[i] = NoObj
      /\ \A q \in Threads : q # Main => pc[q] \in RestLabels
  BY <1>1, <1>2 DEF EarlyInv
<1>4. Walks(Main) /\ pc'[Main] = "restore.next"
  BY <1>1, Lands, MainThreads DEF Walks
<1>5. \A q \in Threads : q # Main => pc'[q] \in RestLabels /\ Where(q)' = pc'[q]
  <2>1. RestLabels \cap (FlowLabels \cup SaveLabels) = {}
    BY RestoreApart
  <2>2. QED
    BY <1>3, <1>4, <2>1, WalksStays, MainThreads DEF Stays, Where, WhereOf
<1>6. \A q \in Threads : QuietAt(q)'
  <2>1. RestLabels \cap StopLabels = {}
    BY DEF RestLabels, StopLabels
  <2>2. QED
    BY <1>5, <2>1, ThreadsAssumption DEF QuietAt
<1>7. StopsOK'
  <2>1. pc'[Tick] # "pause.set"
    BY <1>5, MainThreads DEF RestLabels
  <2>2. QED
    BY <1>3, <2>1 DEF StopsOK
<1>8. OwnStruct' /\ TodoOK' /\ DoneOK'
  BY <1>1, <1>3 DEF OwnStruct, TodoOK, DoneOK
<1>9. Where(Main)' = "restore.next"
  BY <1>4 DEF Where, WhereOf, FlowLabels, SaveLabels
<1>10. Where(Main)' \in RestoringLabels /\ CurrentOK(Where(Main), loc[Main])'
  BY <1>9, SMTT(30) DEF CurrentOK, AddedAt, LimitedAt, AddLabels, DoneLabels, NextLabels,
                        RestoringLabels
<1>11. QED
  BY <1>6, <1>7, <1>8, <1>10 DEF RestoringInv

LEMMA NextRestore ==
  ASSUME SeedDefault = 0
  PROVE  Inv /\ DiskInv /\ RestoringInv /\ [Next]_vars => RestoringInv'
<1> SUFFICES ASSUME Inv, DiskInv, RestoringInv, [Next]_vars PROVE RestoringInv'
  OBVIOUS
<1>1. CASE restoring
  BY <1>1, InRestore DEF Restoring
<1>2. CASE ~restoring
  <2>1. CASE ~restoring'
    BY <2>1 DEF RestoringInv
  <2>2. CASE restoring'
    <3>1. ~RestoreDone /\ ~ProcessEnds
      BY <2>2 DEF RestoreDone, ProcessEnds
    <3>2. ~(UNCHANGED restoring)
      BY <1>2, <2>2, Zenon
    <3>3. QED
      BY <1>2, <3>1, <3>2, RestoringOnly, RestoreBegins
  <2>3. QED
    BY <2>1, <2>2
<1>3. QED
  BY <1>1, <1>2

LEMMA RestoringInvariance ==
  ASSUME "remove" \notin Ops, SessionSound, SeedDefault = 0
  PROVE  Spec => []RestoringInv
<1>1. Init => RestoringInv
  BY DEF Init, RestoringInv
<1>2. QED
  BY <1>1, Invariance, DiskInvariance, NextRestore, PTL DEF Spec

(* When RestoreSession stops suppressing saves, every torrent of the       *)
(* session.json it read is back with what the file says of it, so that the *)
(* save it then makes loses nothing: whatever the ticks, the goroutines of *)
(* the torrents already added and the network have done in the meantime    *)
(* (no removes among the calls, no default seeding limit, no disk call     *)
(* failed).                                                                *)
THEOREM RestoreComplete ==
  ASSUME "remove" \notin Ops, SessionSound, SeedDefault = 0
  PROVE  Spec => RestoreKeepsAll
<1>1. Inv /\ DiskInv /\ RestoringInv /\ [Next]_vars =>
        [restoring /\ ~restoring' /\ ~At(Main, "new")' /\ budget.faults = MaxFaults =>
           \A i \in Ids : session[i] # NoRec => Restored(i)]_vars
  <2> SUFFICES ASSUME Inv, DiskInv, RestoringInv, [Next]_vars, restoring, ~restoring',
                      ~At(Main, "new")', budget.faults = MaxFaults,
                      NEW i \in Ids, session[i] # NoRec
               PROVE  Restored(i)
    OBVIOUS
  <2>1. ~ProcessEnds
    BY MainThreads DEF ProcessEnds, Fresh, At
  <2>2. RestoreDone
    BY <2>1, RestoringOnly DEF RestoreRead
  <2>3. rs[i] = NoRec
    BY <2>2 DEF RestoreDone
  <2>4. QED
    BY <2>3 DEF RestoringInv, DoneOK
<1>2. QED
  BY <1>1, Invariance, DiskInvariance, RestoringInvariance, PTL DEF Spec, RestoreKeepsAll
=============================================================================
