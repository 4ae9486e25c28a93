------------------------------ MODULE TuiProofs ------------------------------
(***************************************************************************)
(* For any torrents, labels, rows and scenes, and any number of keys,      *)
(* clicks, pushes and answers in any order: the cursor is on a row in      *)
(* sight, the detail belongs to the torrent it names, the overlay shows    *)
(* the results of the search it names, no mark is hidden while the list    *)
(* stays, and what was just added is in sight once it is pushed.           *)
(***************************************************************************)
EXTENDS Tui, FiniteSetTheorems, TLAPS

-----------------------------------------------------------------------------
(* Ranks: what Arranged returns is a row for each index.                   *)

(* R orders I strictly and totally.                                        *)
Orders2(R, I) ==
  /\ \A i \in I : <<i, i>> \notin R
  /\ \A i, j \in I : i # j => <<i, j>> \in R \/ <<j, i>> \in R
  /\ \A i, j, k \in I : <<i, j>> \in R /\ <<j, k>> \in R => <<i, k>> \in R

Before(R, I, i) == {j \in I : <<j, i>> \in R}

(* In a finite total order each number below the size is the rank of an    *)
(* element.                                                                *)
LEMMA Ranks ==
  ASSUME NEW I, IsFiniteSet(I), NEW R, Orders2(R, I), NEW k \in 1 .. Cardinality(I)
  PROVE  \E i \in I : Cardinality(Before(R, I, i)) = k - 1
<1>1. PICK n \in Nat : n = Cardinality(I)
  BY FS_CardinalityType
<1>2. \A i \in I : Before(R, I, i) \in SUBSET I /\ i \notin Before(R, I, i)
  BY DEF Before, Orders2
<1>3. \A i \in I : /\ IsFiniteSet(Before(R, I, i)) /\ Cardinality(Before(R, I, i)) \in Nat
                   /\ Cardinality(Before(R, I, i)) < n
  <2> TAKE i \in I
  <2>1. /\ IsFiniteSet(Before(R, I, i))
        /\ Cardinality(Before(R, I, i)) <= Cardinality(I)
        /\ Cardinality(I) = Cardinality(Before(R, I, i)) => I = Before(R, I, i)
    BY <1>2, FS_Subset
  <2>2. Cardinality(Before(R, I, i)) \in Nat
    BY <2>1, FS_CardinalityType
  <2> QED BY <1>1, <1>2, <2>1, <2>2
<1>4. \A i, j \in I : <<i, j>> \in R => Cardinality(Before(R, I, i)) < Cardinality(Before(R, I, j))
  <2> SUFFICES ASSUME NEW i \in I, NEW j \in I, <<i, j>> \in R
               PROVE  Cardinality(Before(R, I, i)) < Cardinality(Before(R, I, j))
    OBVIOUS
  <2>1. Before(R, I, i) \in SUBSET Before(R, I, j) /\ i \in Before(R, I, j)
    BY DEF Before, Orders2
  <2>2. /\ Cardinality(Before(R, I, i)) <= Cardinality(Before(R, I, j))
        /\ Cardinality(Before(R, I, j)) = Cardinality(Before(R, I, i)) => Before(R, I, j) = Before(R, I, i)
    BY <1>3, <2>1, FS_Subset
  <2> QED BY <1>2, <1>3, <2>1, <2>2
<1> DEFINE f == [i \in I |-> Cardinality(Before(R, I, i))]
<1>5. f \in Injection(I, 0 .. n - 1)
  <2>1. \A i \in I : f[i] \in 0 .. n - 1
    BY <1>1, <1>3
  <2>2. f \in [I -> 0 .. n - 1]
    BY <2>1
  <2>3. \A i \in I : f[i] = Cardinality(Before(R, I, i)) /\ Cardinality(Before(R, I, i)) \in Nat
    BY <1>3
  <2> HIDE DEF f
  <2>4. ASSUME NEW i \in I, NEW j \in I, i # j PROVE f[i] # f[j]
    <3>1. f[i] \in Nat /\ f[j] \in Nat
      BY <2>3
    <3>2. <<i, j>> \in R \/ <<j, i>> \in R
      BY <2>4 DEF Orders2
    <3>3. f[i] < f[j] \/ f[j] < f[i]
      BY <1>4, <2>3, <3>2
    <3> QED BY <3>1, <3>3
  <2> QED BY <2>2, <2>4 DEF Injection, IsInjective
<1> HIDE DEF f
<1>6. IsFiniteSet(0 .. n - 1) /\ Cardinality(0 .. n - 1) = n
  <2>1. 0 \in Int /\ n - 1 \in Int
    BY <1>1
  <2>2. IsFiniteSet(0 .. n - 1) /\ Cardinality(0 .. n - 1) = IF 0 > n - 1 THEN 0 ELSE n - 1 - 0 + 1
    BY <2>1, FS_Interval
  <2> QED BY <1>1, <2>2
<1>7. f \in Surjection(I, 0 .. n - 1)
  BY <1>1, <1>5, <1>6, FS_Injection
<1>8. k - 1 \in 0 .. n - 1
  BY <1>1
<1>9. PICK i \in I : f[i] = k - 1
  BY <1>7, <1>8 DEF Surjection
<1> QED BY <1>9 DEF f

(* The first of a finite total order.                                      *)
LEMMA First ==
  ASSUME NEW I, IsFiniteSet(I), I # {}, NEW R, Orders2(R, I)
  PROVE  \E i \in I : \A j \in I : <<j, i>> \notin R
<1>1. Cardinality(I) \in Nat /\ Cardinality(I) # 0
  BY FS_CardinalityType, FS_EmptySet
<1>2. PICK i \in I : Cardinality(Before(R, I, i)) = 1 - 1
  BY <1>1, Ranks
<1>3. Before(R, I, i) \in SUBSET I
  BY DEF Before
<1>4. Before(R, I, i) = {}
  BY <1>2, <1>3, FS_Subset, FS_EmptySet
<1> QED BY <1>4 DEF Before

-----------------------------------------------------------------------------
(* The parts of a Model the properties are about.                          *)

Has(n) ==
  /\ "torrents" \in DOMAIN n /\ "filter" \in DOMAIN n /\ "labelFilter" \in DOMAIN n
  /\ "searchQuery" \in DOMAIN n /\ "cursor" \in DOMAIN n /\ "selected" \in DOMAIN n
  /\ "pendingReveal" \in DOMAIN n /\ "commandBuf" \in DOMAIN n
  /\ "findState" \in DOMAIN n /\ "findQuery" \in DOMAIN n /\ "findFor" \in DOMAIN n
  /\ "findResults" \in DOMAIN n /\ "findCursor" \in DOMAIN n /\ "findSeq" \in DOMAIN n
  /\ "detail" \in DOMAIN n /\ "detailLoaded" \in DOMAIN n /\ "detailID" \in DOMAIN n
  /\ "detailCursor" \in DOMAIN n

SameView(n, p) ==
  /\ p.torrents = n.torrents /\ p.filter = n.filter
  /\ p.labelFilter = n.labelFilter /\ p.searchQuery = n.searchQuery
SameList(n, p) == SameView(n, p) /\ p.cursor = n.cursor /\ p.selected = n.selected
SameFind(n, p) ==
  /\ p.findState = n.findState /\ p.findQuery = n.findQuery /\ p.findFor = n.findFor
  /\ p.findResults = n.findResults /\ p.findCursor = n.findCursor /\ p.findSeq = n.findSeq
SameDetail(n, p) ==
  /\ p.detail = n.detail /\ p.detailLoaded = n.detailLoaded
  /\ p.detailID = n.detailID /\ p.detailCursor = n.detailCursor
SameLine(n, p) == p.commandBuf = n.commandBuf

Same(n, p) == Has(p) /\ SameList(n, p) /\ SameFind(n, p) /\ SameDetail(n, p) /\ SameLine(n, p)

(* The invariant of a Model. A list holds snapshots of different torrents; *)
(* the cursor is on a row; a file is known by its torrent and its index.   *)
IsList(list) ==
  list \in Seq(Snapshots) /\ \A i, j \in DOMAIN list : list[i].id = list[j].id => i = j
CursorOk(n) == n.cursor \in 0 .. rows(n) - 1 \/ (n.cursor = 0 /\ rows(n) = 0)

Refs == {f \in [of: Ids, i: Nat, prio: 0 .. 4] : f.i \in DOMAIN FileLen[f.of]}

IsDetail(d) == "id" \in DOMAIN d /\ "files" \in DOMAIN d /\ d.files \in Seq(Refs)
DetailOk(n) ==
  /\ IsDetail(n.detail) /\ n.detailCursor \in Nat
  /\ n.detailLoaded => /\ n.detail.id = n.detailID
                       /\ \A i \in DOMAIN n.detail.files : n.detail.files[i].of = n.detailID

FindOk(n) ==
  /\ n.findState \in {"closed", "loading", "loaded"} /\ n.findSeq \in Nat
  /\ n.findResults \in Seq(Ids \cup {NoID}) /\ n.findCursor \in Nat
  /\ n.findState = "loaded" => n.findFor = n.findQuery

ModelOk(n) ==
  /\ Has(n) /\ IsList(n.torrents) /\ CursorOk(n) /\ DetailOk(n) /\ FindOk(n) /\ IsLine(n.commandBuf)

(* The invariant of a command beside a Model: a search that is still       *)
(* awaited is the one the overlay names.                                   *)
CmdOk(n, c) ==
  /\ c.k = "find" => /\ c.seq \in Nat /\ c.seq <= n.findSeq
                     /\ c.seq = n.findSeq => n.findState # "closed" /\ c.q = n.findQuery
  /\ c.k = "preview" => c.file.of = c.id
  /\ c.k = "add" => "k" \in DOMAIN c /\ "links" \in DOMAIN c /\ c.links \subseteq Ids
  /\ c.k = "batch" => /\ "k" \in DOMAIN c /\ "op" \in DOMAIN c
                      /\ c.op.do = "label" => c.op.label \in LabelNames \cup {NoLabel}
  /\ c.k = "prio" => c.p \in 0 .. 4

Plain(c) == c.k \in {"timer", "theme", "detail", "other", "listen"}

(* A step keeps the searches that are awaited, opens no results and hides  *)
(* no mark.                                                                *)
FindStep(n, p) ==
  /\ p.findSeq >= n.findSeq
  /\ p.findState = "loaded" => n.findState # "closed"
  /\ p.findSeq = n.findSeq => \/ n.findState = "closed"
                              \/ p.findState # "closed" /\ p.findQuery = n.findQuery
MarksStep(n, p) == p.torrents = n.torrents => HiddenMarks(p) \subseteq HiddenMarks(n)

GoodM(n, p) == ModelOk(p) /\ FindStep(n, p) /\ MarksStep(n, p)
Good(n, r)  == GoodM(n, r.m) /\ \A c \in r.c : CmdOk(r.m, c)

-----------------------------------------------------------------------------
(* How good steps are put together.                                        *)

LEMMA SameRows ==
  ASSUME NEW n, NEW p, SameView(n, p)
  PROVE  shown(p) = shown(n) /\ rows(p) = rows(n)
BY DEF SameView, shown, inLabel, inSearch, rows

LEMMA RowsNat ==
  ASSUME NEW n, IsList(n.torrents)
  PROVE  /\ shown(n) \subseteq DOMAIN n.torrents /\ IsFiniteSet(shown(n))
         /\ rows(n) \in Nat /\ (rows(n) = 0 <=> shown(n) = {})
<1>1. DOMAIN n.torrents = 1 .. Len(n.torrents) /\ Len(n.torrents) \in Nat /\ 1 \in Int
  BY DEF IsList
<1>2. IsFiniteSet(DOMAIN n.torrents)
  BY <1>1, FS_Interval
<1>3. shown(n) \in SUBSET DOMAIN n.torrents
  BY DEF shown
<1>4. IsFiniteSet(shown(n))
  BY <1>2, <1>3, FS_Subset
<1> QED BY <1>3, <1>4, FS_CardinalityType, FS_EmptySet DEF rows

LEMMA ClampedIn ==
  ASSUME NEW i \in Int, NEW n \in Nat
  PROVE  /\ Clamped(i, n) \in Nat /\ (Clamped(i, n) \in 0 .. n - 1 \/ (Clamped(i, n) = 0 /\ n = 0))
         /\ i \in 0 .. n - 1 => Clamped(i, n) = i
BY DEF Clamped

LEMMA Reflexive == ASSUME NEW n, ModelOk(n) PROVE GoodM(n, n)
BY DEF ModelOk, FindOk, GoodM, FindStep, MarksStep

(* Before and after a step that changes nothing the properties are about.  *)
LEMMA SameAfter ==
  ASSUME NEW n, NEW p, NEW q, GoodM(n, p), Same(p, q)
  PROVE  GoodM(n, q)
<1>1. shown(q) = shown(p) /\ rows(q) = rows(p)
  BY SameRows DEF Same, SameList
<1>2. ModelOk(q)
  BY <1>1 DEF GoodM, ModelOk, Same, SameList, SameView, SameFind, SameDetail, SameLine, IsList, CursorOk,
              DetailOk, FindOk
<1>3. MarksStep(n, q)
  BY <1>1 DEF GoodM, MarksStep, HiddenMarks, Same, SameList, SameView
<1> QED BY <1>2, <1>3 DEF GoodM, FindStep, Same, SameFind

LEMMA SameBefore ==
  ASSUME NEW n, NEW p, NEW q, SameList(n, p), SameFind(n, p), GoodM(p, q)
  PROVE  GoodM(n, q)
<1>1. shown(p) = shown(n)
  BY SameRows DEF SameList
<1>2. MarksStep(n, q)
  BY <1>1 DEF GoodM, MarksStep, HiddenMarks, SameList, SameView
<1> QED BY <1>2 DEF GoodM, FindStep, SameFind

LEMMA SameGood ==
  ASSUME NEW n, ModelOk(n), NEW p, Same(n, p)
  PROVE  GoodM(n, p)
BY Reflexive, SameAfter

LEMMA PlainOk == ASSUME NEW n, NEW c, Plain(c) PROVE CmdOk(n, c)
BY DEF Plain, CmdOk

LEMMA OnlyGood == ASSUME NEW n, NEW p, GoodM(n, p) PROVE Good(n, Only(p))
BY DEF Good, Only, Result

LEMMA PlainGood ==
  ASSUME NEW n, NEW p, GoodM(n, p), NEW C, \A c \in C : Plain(c)
  PROVE  Good(n, Result(p, C))
BY PlainOk DEF Good, Result

(* Result is a pair.                                                       *)
LEMMA ResultParts == \A p, C : Result(p, C).m = p /\ Result(p, C).c = C
BY DEF Result

(* A change of the list's view or its marks.                               *)
LEMMA ListGood ==
  ASSUME NEW n, ModelOk(n), NEW p, Has(p), SameFind(n, p), SameDetail(n, p), SameLine(n, p),
         p.torrents = n.torrents, CursorOk(p), HiddenMarks(p) \subseteq HiddenMarks(n)
  PROVE  GoodM(n, p)
<1>1. ModelOk(p)
  BY DEF ModelOk, SameFind, SameDetail, SameLine, IsList, DetailOk, FindOk
<1> QED BY <1>1 DEF GoodM, FindStep, MarksStep, SameFind, ModelOk, FindOk

(* A change of the search overlay.                                         *)
LEMMA FindGood ==
  ASSUME NEW n, ModelOk(n), NEW p, Has(p), SameList(n, p), SameDetail(n, p), SameLine(n, p),
         FindOk(p), FindStep(n, p)
  PROVE  GoodM(n, p)
<1>1. shown(p) = shown(n) /\ rows(p) = rows(n)
  BY SameRows DEF SameList
<1>2. ModelOk(p)
  BY <1>1 DEF ModelOk, SameList, SameView, SameDetail, SameLine, IsList, CursorOk, DetailOk
<1> QED BY <1>1, <1>2 DEF GoodM, MarksStep, HiddenMarks, SameList, SameView

(* A change of the detail pane.                                            *)
LEMMA DetailGood ==
  ASSUME NEW n, ModelOk(n), NEW p, Has(p), SameList(n, p), SameFind(n, p), SameLine(n, p), DetailOk(p)
  PROVE  GoodM(n, p)
<1>1. shown(p) = shown(n) /\ rows(p) = rows(n)
  BY SameRows DEF SameList
<1>2. ModelOk(p)
  BY <1>1 DEF ModelOk, SameList, SameView, SameFind, SameLine, IsList, CursorOk, FindOk
<1> QED BY <1>1, <1>2 DEF GoodM, FindStep, MarksStep, HiddenMarks, SameList, SameView, SameFind, ModelOk, FindOk

-----------------------------------------------------------------------------
(* The methods the handlers share.                                         *)

LEMMA setStatusSame ==
  ASSUME NEW n, Has(n), NEW s
  PROVE  Same(n, setStatus(n, s).m) /\ \A c \in setStatus(n, s).c : Plain(c)
<1>1. /\ setStatus(n, s).m = [n EXCEPT !.status = s, !.statusSeq = @ + 1]
      /\ setStatus(n, s).c = {Timer(n.statusSeq + 1)}
  BY DEF setStatus, Result
<1>2. \A c \in setStatus(n, s).c : Plain(c)
  BY <1>1 DEF Timer, Plain
<1> QED BY <1>1, <1>2 DEF Same, SameList, SameView, SameFind, SameDetail, SameLine, Has

LEMMA StatusGood ==
  ASSUME NEW n, NEW p, GoodM(n, p), NEW s
  PROVE  Good(n, setStatus(p, s))
<1>1. Has(p)
  BY DEF GoodM, ModelOk
<1>2. GoodM(n, setStatus(p, s).m)
  BY <1>1, setStatusSame, SameAfter
<1> QED BY <1>1, <1>2, setStatusSame, PlainOk DEF Good

LEMMA syncDetailKeeps ==
  ASSUME NEW n, Has(n), DetailOk(n)
  PROVE  LET r == syncDetail(n)
         IN  /\ Has(r.m) /\ SameList(n, r.m) /\ SameFind(n, r.m) /\ SameLine(n, r.m) /\ DetailOk(r.m)
             /\ r.m.pendingReveal = n.pendingReveal /\ \A c \in r.c : Plain(c)
<1>1. PICK t : t = cursorTorrent(n)
  OBVIOUS
<1> USE DEF Has, SameList, SameView, SameFind, SameLine
<1>2. CASE t = <<>>
  <2>1. syncDetail(n).m = [n EXCEPT !.detailLoaded = FALSE, !.detail = NoDetail, !.detailID = NoID] /\ syncDetail(n).c = {}
    BY <1>1, <1>2 DEF syncDetail, Only, Result
  <2>2. IsDetail(NoDetail)
    BY DEF IsDetail, NoDetail
  <2> QED BY <2>1, <2>2 DEF DetailOk
<1>3. CASE t # <<>> /\ t[1].id # n.detailID
  <2>1. /\ syncDetail(n).m = [n EXCEPT !.detailID = t[1].id, !.detailLoaded = FALSE, !.detailCursor = 0]
        /\ syncDetail(n).c = {LoadDetail(t[1].id)}
    BY <1>1, <1>3 DEF syncDetail, Only, Result
  <2> QED BY <2>1 DEF DetailOk, LoadDetail, Plain
<1>4. CASE t # <<>> /\ t[1].id = n.detailID
  <2>1. PICK d : d = [n.detail EXCEPT !.id = n.detailID]
    OBVIOUS
  <2>2. syncDetail(n).m = [n EXCEPT !.detail = d] /\ syncDetail(n).c = {LoadDetail(t[1].id)}
    BY <1>1, <1>4, <2>1 DEF syncDetail, Only, Result
  <2>3. IsDetail(d) /\ d.id = n.detailID /\ d.files = n.detail.files
    BY <2>1 DEF DetailOk, IsDetail
  <2> QED BY <2>2, <2>3 DEF DetailOk, LoadDetail, Plain
<1> QED BY <1>2, <1>3, <1>4

LEMMA SyncGood ==
  ASSUME NEW n, NEW p, GoodM(n, p)
  PROVE  Good(n, syncDetail(p))
<1>1. PICK r : r = syncDetail(p)
  OBVIOUS
<1>2. /\ Has(r.m) /\ SameList(p, r.m) /\ SameFind(p, r.m) /\ SameLine(p, r.m) /\ DetailOk(r.m)
      /\ \A c \in r.c : Plain(c)
  BY <1>1, syncDetailKeeps DEF GoodM, ModelOk
<1>3. GoodM(p, r.m)
  BY <1>2, DetailGood DEF GoodM
<1>4. shown(r.m) = shown(p)
  BY <1>2, SameRows DEF SameList
<1>5. GoodM(n, r.m)
  BY <1>2, <1>3, <1>4 DEF GoodM, FindStep, MarksStep, HiddenMarks, SameList, SameView, SameFind
<1> QED BY <1>1, <1>2, <1>5, PlainOk DEF Good

LEMMA clampCursorKeeps ==
  ASSUME NEW n, Has(n), IsList(n.torrents), n.cursor \in Int
  PROVE  LET p == clampCursor(n)
         IN  /\ Has(p) /\ SameView(n, p) /\ p.selected = n.selected /\ SameFind(n, p) /\ SameDetail(n, p)
             /\ SameLine(n, p) /\ CursorOk(p) /\ p.pendingReveal = n.pendingReveal
<1>1. PICK x : x = Clamped(n.cursor, rows(n))
  OBVIOUS
<1>2. PICK p : p = [n EXCEPT !.cursor = x]
  OBVIOUS
<1>3. clampCursor(n) = p
  BY <1>1, <1>2 DEF clampCursor
<1>4. /\ Has(p) /\ SameView(n, p) /\ p.selected = n.selected /\ SameFind(n, p) /\ SameDetail(n, p)
      /\ SameLine(n, p) /\ p.pendingReveal = n.pendingReveal /\ p.cursor = x
  BY <1>2 DEF Has, SameView, SameFind, SameDetail, SameLine
<1>5. rows(n) \in Nat /\ rows(p) = rows(n)
  BY <1>4, RowsNat, SameRows
<1>6. x \in 0 .. rows(n) - 1 \/ (x = 0 /\ rows(n) = 0)
  BY <1>1, <1>5, ClampedIn
<1>7. CursorOk(p)
  BY <1>4, <1>5, <1>6 DEF CursorOk
<1> QED BY <1>3, <1>4, <1>7

(* A change of the view and the cursor, clamped.                           *)
LEMMA ClampGood ==
  ASSUME NEW n, ModelOk(n), NEW p, Has(p), SameFind(n, p), SameDetail(n, p), SameLine(n, p),
         p.torrents = n.torrents, p.cursor \in Int, HiddenMarks(p) \subseteq HiddenMarks(n)
  PROVE  GoodM(n, clampCursor(p))
<1>1. PICK q : q = clampCursor(p)
  OBVIOUS
<1>2. /\ Has(q) /\ SameView(p, q) /\ q.selected = p.selected /\ SameFind(p, q) /\ SameDetail(p, q)
      /\ SameLine(p, q) /\ CursorOk(q)
  BY <1>1, clampCursorKeeps DEF ModelOk
<1>3. HiddenMarks(q) = HiddenMarks(p)
  BY <1>2, SameRows DEF HiddenMarks, SameView
<1>4. GoodM(n, q)
  BY <1>2, <1>3, ListGood DEF SameFind, SameDetail, SameLine, SameView
<1> QED BY <1>1, <1>4

LEMMA CursorInt == ASSUME NEW n, ModelOk(n) PROVE n.cursor \in Int /\ rows(n) \in Nat
<1>1. rows(n) \in Nat
  BY RowsNat DEF ModelOk
<1> QED BY <1>1 DEF ModelOk, CursorOk

LEMMA NoMarks == ASSUME NEW n, n.selected = {} PROVE HiddenMarks(n) = {}
BY DEF HiddenMarks

(* The cursor moves to a row.                                              *)
LEMMA CursorGood ==
  ASSUME NEW n, ModelOk(n), NEW x, x \in 0 .. rows(n) - 1 \/ (x = 0 /\ rows(n) = 0) \/ x = n.cursor
  PROVE  GoodM(n, [n EXCEPT !.cursor = x])
<1>1. PICK p : p = [n EXCEPT !.cursor = x]
  OBVIOUS
<1>2. /\ Has(p) /\ SameView(n, p) /\ p.selected = n.selected /\ SameFind(n, p) /\ SameDetail(n, p)
      /\ SameLine(n, p) /\ p.cursor = x
  BY <1>1 DEF ModelOk, Has, SameView, SameFind, SameDetail, SameLine
<1>3. rows(p) = rows(n) /\ HiddenMarks(p) = HiddenMarks(n)
  BY <1>2, SameRows DEF HiddenMarks, SameView
<1>4. CursorOk(p)
  BY <1>2, <1>3 DEF CursorOk, ModelOk
<1>5. GoodM(n, p)
  BY <1>2, <1>3, <1>4, ListGood DEF SameView
<1> QED BY <1>1, <1>5

-----------------------------------------------------------------------------
(* The rows.                                                               *)

(* The order of the rows.                                                  *)
RowOrder(n) == {e \in shown(n) \X shown(n) : precedes(n, e[1], e[2])}

LEMMA RowOrders ==
  ASSUME TuiAssumption, NEW n, IsList(n.torrents)
  PROVE  Orders2(RowOrder(n), shown(n))
<1>1. \A k \in shown(n) : k \in Nat /\ n.torrents[k] \in Snapshots
  <2>1. DOMAIN n.torrents = 1 .. Len(n.torrents) /\ Len(n.torrents) \in Nat /\ n.torrents \in Seq(Snapshots)
    BY DEF IsList
  <2>2. \A k \in DOMAIN n.torrents : k \in Nat /\ n.torrents[k] \in Snapshots
    BY <2>1
  <2> QED BY <2>2, RowsNat
<1>2. \A k \in shown(n) : n.torrents[k].rank \in Nat /\ NameRank[n.torrents[k].id] \in Nat
  BY <1>1 DEF Snapshots, TuiAssumption
<1> DEFINE key(k) == IF n.sortBy = "name" THEN NameRank[n.torrents[k].id] ELSE n.torrents[k].rank
<1>3. \A k \in shown(n) : key(k) \in Nat
  BY <1>2
<1>4. \A j, i \in shown(n) : <<j, i>> \in RowOrder(n) <=>
        IF n.sortDesc THEN key(j) > key(i) \/ (key(j) = key(i) /\ j > i)
                      ELSE key(j) < key(i) \/ (key(j) = key(i) /\ j < i)
  <2> HIDE DEF key
  <2>1. \A j, i : precedes(n, j, i) <=>
          IF n.sortDesc THEN key(j) > key(i) \/ (key(j) = key(i) /\ j > i)
                        ELSE key(j) < key(i) \/ (key(j) = key(i) /\ j < i)
    BY DEF precedes, key
  <2>2. \A j, i \in shown(n) : <<j, i>> \in RowOrder(n) <=> precedes(n, j, i)
    BY DEF RowOrder
  <2> QED BY <2>1, <2>2
<1> HIDE DEF key
<1>5. ASSUME NEW i \in shown(n), <<i, i>> \in RowOrder(n) PROVE FALSE
  <2>1. i \in Nat /\ key(i) \in Nat
    BY <1>1, <1>3
  <2>2. IF n.sortDesc THEN key(i) > key(i) \/ i > i ELSE key(i) < key(i) \/ i < i
    BY <1>4, <1>5
  <2> QED BY <2>1, <2>2
<1>6. ASSUME NEW i \in shown(n), NEW j \in shown(n), i # j, <<i, j>> \notin RowOrder(n), <<j, i>> \notin RowOrder(n)
      PROVE  FALSE
  <2>1. i \in Nat /\ j \in Nat /\ key(i) \in Nat /\ key(j) \in Nat
    BY <1>1, <1>3
  <2>2. /\ ~ IF n.sortDesc THEN key(i) > key(j) \/ (key(i) = key(j) /\ i > j)
                            ELSE key(i) < key(j) \/ (key(i) = key(j) /\ i < j)
        /\ ~ IF n.sortDesc THEN key(j) > key(i) \/ (key(j) = key(i) /\ j > i)
                            ELSE key(j) < key(i) \/ (key(j) = key(i) /\ j < i)
    BY <1>4, <1>6
  <2> QED BY <1>6, <2>1, <2>2
<1>7. ASSUME NEW i \in shown(n), NEW j \in shown(n), NEW k \in shown(n),
             <<i, j>> \in RowOrder(n), <<j, k>> \in RowOrder(n)
      PROVE  <<i, k>> \in RowOrder(n)
  <2>1. /\ i \in Nat /\ j \in Nat /\ k \in Nat
        /\ key(i) \in Nat /\ key(j) \in Nat /\ key(k) \in Nat
    BY <1>1, <1>3
  <2>2. /\ IF n.sortDesc THEN key(i) > key(j) \/ (key(i) = key(j) /\ i > j)
                          ELSE key(i) < key(j) \/ (key(i) = key(j) /\ i < j)
        /\ IF n.sortDesc THEN key(j) > key(k) \/ (key(j) = key(k) /\ j > k)
                          ELSE key(j) < key(k) \/ (key(j) = key(k) /\ j < k)
    BY <1>4, <1>7
  <2>3. IF n.sortDesc THEN key(i) > key(k) \/ (key(i) = key(k) /\ i > k)
                      ELSE key(i) < key(k) \/ (key(i) = key(k) /\ i < k)
    BY <2>1, <2>2
  <2> QED BY <1>4, <2>3
<1> QED BY <1>5, <1>6, <1>7 DEF Orders2

(* Each row is one of the torrents shown.                                  *)
LEMMA RowShown ==
  ASSUME TuiAssumption, NEW n, IsList(n.torrents), NEW x \in 0 .. rows(n) - 1
  PROVE  \E i \in shown(n) : visibleTorrents(n)[x + 1] = n.torrents[i]
<1>1. rows(n) \in Nat /\ IsFiniteSet(shown(n)) /\ rows(n) = Cardinality(shown(n))
  BY RowsNat DEF rows
<1>2. PICK k \in 1 .. Cardinality(shown(n)) : k = x + 1
  BY <1>1
<1>3. \E i \in shown(n) : Cardinality(Before(RowOrder(n), shown(n), i)) = k - 1
  BY <1>1, RowOrders, Ranks
<1>4. \A i \in shown(n) : Before(RowOrder(n), shown(n), i) = {j \in shown(n) : precedes(n, j, i)}
  BY DEF Before, RowOrder
<1>5. PICK i : i = CHOOSE a \in shown(n) : Cardinality({j \in shown(n) : precedes(n, j, a)}) = k - 1
  OBVIOUS
<1>6. i \in shown(n)
  BY <1>3, <1>4, <1>5
<1>7. visibleTorrents(n)[k] = n.torrents[i]
  BY <1>5 DEF visibleTorrents, Arranged
<1> QED BY <1>2, <1>6, <1>7

(* A wider view of the same list hides no more.                            *)
Wider(n, p) ==
  /\ p.torrents = n.torrents /\ p.filter \in {n.filter, "All"}
  /\ p.labelFilter \in {n.labelFilter, NoLabel} /\ p.searchQuery \in {n.searchQuery, 0}

LEMMA WiderShows ==
  ASSUME TuiAssumption, NEW n, NEW p, IsList(p.torrents), Wider(n, p)
  PROVE  shown(n) \subseteq shown(p)
<1>1. ASSUME NEW i \in DOMAIN p.torrents, inSearch(n, p.torrents[i]) PROVE inSearch(p, p.torrents[i])
  <2>1. p.torrents[i] \in Snapshots
    BY DEF IsList
  <2>2. Reach[p.torrents[i].id] \in Nat
    BY <2>1 DEF Snapshots, TuiAssumption
  <2> QED BY <1>1, <2>2 DEF Wider, inSearch
<1>2. \A t : matches(n.filter, t) => matches(p.filter, t)
  BY DEF Wider, matches
<1>3. \A t : inLabel(n, t) => inLabel(p, t)
  BY DEF Wider, inLabel
<1> QED BY <1>1, <1>2, <1>3 DEF shown, Wider

LEMMA WiderHides ==
  ASSUME TuiAssumption, NEW n, NEW p, IsList(p.torrents), Wider(n, p), p.selected \subseteq n.selected
  PROVE  HiddenMarks(p) \subseteq HiddenMarks(n)
BY WiderShows DEF HiddenMarks, Wider

-----------------------------------------------------------------------------
(* Handlers of the list.                                                   *)

LEMMA selectSidebarGood ==
  ASSUME NEW n, ModelOk(n), NEW i
  PROVE  Good(n, selectSidebar(n, i))
<1>1. PICK e, x : e = sidebarEntries(n)[(i % Len(sidebarEntries(n))) + 1] /\ x = i % Len(sidebarEntries(n))
  OBVIOUS
<1>2. PICK a : a = applyEntry(n, e)
  OBVIOUS
<1>3. /\ Has(a) /\ a.torrents = n.torrents /\ a.cursor = n.cursor /\ a.selected = n.selected
      /\ a.searchQuery = n.searchQuery /\ SameFind(n, a) /\ SameDetail(n, a) /\ SameLine(n, a)
  BY <1>2 DEF applyEntry, ModelOk, Has, SameFind, SameDetail, SameLine
<1>4. PICK sel : sel = IF a.filter = n.filter /\ a.labelFilter = n.labelFilter THEN a.selected ELSE {}
  OBVIOUS
<1>5. PICK p : p = [a EXCEPT !.selected = sel, !.sidebarCursor = x]
  OBVIOUS
<1>6. /\ Has(p) /\ p.torrents = n.torrents /\ p.cursor = n.cursor /\ p.selected = sel
      /\ p.searchQuery = n.searchQuery /\ p.filter = a.filter /\ p.labelFilter = a.labelFilter
      /\ SameFind(n, p) /\ SameDetail(n, p) /\ SameLine(n, p)
  BY <1>3, <1>5 DEF Has, SameFind, SameDetail, SameLine
<1>7. HiddenMarks(p) \subseteq HiddenMarks(n)
  <2>1. CASE a.filter = n.filter /\ a.labelFilter = n.labelFilter
    <3>1. SameView(n, p) /\ p.selected = n.selected
      BY <1>3, <1>4, <1>6, <2>1 DEF SameView
    <3> QED BY <3>1, SameRows DEF HiddenMarks, SameView
  <2>2. CASE ~(a.filter = n.filter /\ a.labelFilter = n.labelFilter)
    BY <1>4, <1>6, <2>2, NoMarks
  <2> QED BY <2>1, <2>2
<1>8. GoodM(n, clampCursor(p))
  BY <1>6, <1>7, ClampGood, CursorInt
<1>9. selectSidebar(n, i) = syncDetail(clampCursor(p))
  BY <1>1, <1>2, <1>4, <1>5 DEF selectSidebar
<1> QED BY <1>8, <1>9, SyncGood

LEMMA backGood ==
  ASSUME TuiAssumption, NEW n, ModelOk(n)
  PROVE  GoodM(n, back(n))
<1> USE DEF ModelOk, Has
<1>1. CASE n.focus # "list"
  <2>1. back(n) = [n EXCEPT !.focus = "list"]
    BY <1>1 DEF back
  <2>2. Same(n, back(n))
    BY <2>1 DEF Same, SameList, SameView, SameFind, SameDetail, SameLine
  <2> QED BY <2>2, SameGood
<1>2. CASE n.focus = "list" /\ n.selected # {}
  <2>1. PICK p : p = [n EXCEPT !.selected = {}]
    OBVIOUS
  <2>2. back(n) = p
    BY <1>2, <2>1 DEF back
  <2>3. /\ Has(p) /\ SameView(n, p) /\ p.cursor = n.cursor /\ p.selected = {} /\ SameFind(n, p) /\ SameDetail(n, p)
        /\ SameLine(n, p)
    BY <2>1 DEF SameView, SameFind, SameDetail, SameLine
  <2>4. CursorOk(p)
    BY <2>3, SameRows DEF CursorOk
  <2> QED BY <2>2, <2>3, <2>4, NoMarks, ListGood DEF SameView
<1>3. CASE n.focus = "list" /\ n.selected = {} /\ n.searchQuery # 0
  <2>1. PICK p : p = [n EXCEPT !.searchQuery = 0]
    OBVIOUS
  <2>2. back(n) = clampCursor(p)
    BY <1>3, <2>1 DEF back
  <2>3. /\ Has(p) /\ p.torrents = n.torrents /\ p.cursor = n.cursor /\ p.selected = {}
        /\ SameFind(n, p) /\ SameDetail(n, p) /\ SameLine(n, p)
    BY <1>3, <2>1 DEF SameFind, SameDetail, SameLine
  <2> QED BY <2>2, <2>3, NoMarks, ClampGood, CursorInt
<1>4. CASE n.focus = "list" /\ n.selected = {} /\ n.searchQuery = 0 /\ n.labelFilter # NoLabel
  <2>1. PICK q : q = [n EXCEPT !.labelFilter = NoLabel]
    OBVIOUS
  <2>2. PICK p : p = [q EXCEPT !.sidebarCursor = currentSidebarIndex(q)]
    OBVIOUS
  <2>3. back(n) = clampCursor(p)
    BY <1>4, <2>1, <2>2 DEF back
  <2>4. /\ Has(p) /\ p.torrents = n.torrents /\ p.cursor = n.cursor /\ p.selected = {}
        /\ SameFind(n, p) /\ SameDetail(n, p) /\ SameLine(n, p)
    BY <1>4, <2>1, <2>2 DEF SameFind, SameDetail, SameLine
  <2> QED BY <2>3, <2>4, NoMarks, ClampGood, CursorInt
<1>5. CASE n.focus = "list" /\ n.selected = {} /\ n.searchQuery = 0 /\ n.labelFilter = NoLabel
  <2>1. CASE n.filter = "All"
    <3>1. back(n) = n
      BY <1>5, <2>1 DEF back
    <3> QED BY <3>1, Reflexive
  <2>2. CASE n.filter # "All"
    <3>1. PICK q : q = [n EXCEPT !.filter = "All"]
      OBVIOUS
    <3>2. PICK p : p = [q EXCEPT !.sidebarCursor = currentSidebarIndex(q)]
      OBVIOUS
    <3>3. back(n) = clampCursor(p)
      BY <1>5, <2>2, <3>1, <3>2 DEF back
    <3>4. /\ Has(p) /\ p.torrents = n.torrents /\ p.cursor = n.cursor /\ p.selected = {}
          /\ SameFind(n, p) /\ SameDetail(n, p) /\ SameLine(n, p)
      BY <1>5, <3>1, <3>2 DEF SameFind, SameDetail, SameLine
    <3> QED BY <3>3, <3>4, NoMarks, ClampGood, CursorInt
  <2> QED BY <2>1, <2>2
<1> QED BY <1>1, <1>2, <1>3, <1>4, <1>5

(* A mark is made in sight.                                                *)
LEMMA selectRowGood ==
  ASSUME TuiAssumption, NEW n, ModelOk(n)
  PROVE  GoodM(n, selectRow(n))
<1>1. CASE rows(n) = 0
  BY <1>1, Reflexive DEF selectRow
<1>2. CASE rows(n) # 0
  <2>1. n.cursor \in 0 .. rows(n) - 1 /\ rows(n) \in Nat /\ IsList(n.torrents)
    BY <1>2, CursorInt DEF ModelOk, CursorOk
  <2>2. PICK i \in shown(n) : visibleTorrents(n)[n.cursor + 1] = n.torrents[i]
    BY <2>1, RowShown
  <2>3. PICK id : id = n.torrents[i].id
    OBVIOUS
  <2>4. PICK sel, x : /\ sel = IF id \in n.selected THEN n.selected \ {id} ELSE n.selected \cup {id}
                      /\ x = Clamped(n.cursor + 1, rows(n))
    OBVIOUS
  <2>5. PICK p : p = [n EXCEPT !.selected = sel, !.cursor = x]
    OBVIOUS
  <2>6. selectRow(n) = p
    BY <1>2, <2>2, <2>3, <2>4, <2>5 DEF selectRow
  <2>7. /\ Has(p) /\ SameView(n, p) /\ p.cursor = x /\ p.selected = sel /\ SameFind(n, p) /\ SameDetail(n, p)
        /\ SameLine(n, p)
    BY <2>5 DEF ModelOk, Has, SameView, SameFind, SameDetail, SameLine
  <2>8. n.cursor + 1 \in Int
    BY <2>1
  <2>9. x \in 0 .. rows(n) - 1 \/ (x = 0 /\ rows(n) = 0)
    BY <2>1, <2>4, <2>8, ClampedIn
  <2>10. shown(p) = shown(n) /\ rows(p) = rows(n)
    BY <2>7, SameRows
  <2>11. CursorOk(p)
    BY <2>7, <2>9, <2>10 DEF CursorOk
  <2>12. ASSUME NEW j \in HiddenMarks(p) PROVE j \in HiddenMarks(n)
    <3>1. j \in DOMAIN n.torrents /\ j \notin shown(n) /\ n.torrents[j].id \in sel
      BY <2>7, <2>10, <2>12 DEF HiddenMarks, SameView
    <3>2. i \in DOMAIN n.torrents
      BY <2>1, RowsNat
    <3>3. n.torrents[j].id # id
      BY <2>1, <2>3, <3>1, <3>2 DEF IsList
    <3> QED BY <2>4, <3>1, <3>3 DEF HiddenMarks
  <2> QED BY <2>6, <2>7, <2>11, <2>12, ListGood DEF SameView
<1> QED BY <1>1, <1>2

LEMMA handleSearchKeyGood ==
  ASSUME NEW n, ModelOk(n), NEW key
  PROVE  Good(n, handleSearchKey(n, key))
<1>1. PICK md, q : /\ md = IF key \in {"enter", "esc"} THEN "normal" ELSE n.mode
                   /\ q = CASE key = "esc" -> 0 [] key = "backspace" -> Clamped(n.searchQuery - 1, n.searchQuery + 1)
                            [] key \in Runes -> n.searchQuery + 1 [] OTHER -> n.searchQuery
  OBVIOUS
<1>2. PICK a : a = [n EXCEPT !.mode = md, !.searchQuery = q]
  OBVIOUS
<1>3. /\ Has(a) /\ a.torrents = n.torrents /\ a.cursor = n.cursor /\ a.selected = n.selected
      /\ a.searchQuery = q /\ a.filter = n.filter /\ a.labelFilter = n.labelFilter
      /\ SameFind(n, a) /\ SameDetail(n, a) /\ SameLine(n, a)
  BY <1>2 DEF ModelOk, Has, SameFind, SameDetail, SameLine
<1>4. PICK sel : sel = IF a.searchQuery = n.searchQuery THEN a.selected ELSE {}
  OBVIOUS
<1>5. PICK p : p = [a EXCEPT !.selected = sel]
  OBVIOUS
<1>6. /\ Has(p) /\ p.torrents = n.torrents /\ p.cursor = n.cursor /\ p.selected = sel
      /\ p.searchQuery = q /\ p.filter = n.filter /\ p.labelFilter = n.labelFilter
      /\ SameFind(n, p) /\ SameDetail(n, p) /\ SameLine(n, p)
  BY <1>3, <1>5 DEF Has, SameFind, SameDetail, SameLine
<1>7. HiddenMarks(p) \subseteq HiddenMarks(n)
  <2>1. CASE q = n.searchQuery
    <3>1. SameView(n, p) /\ p.selected = n.selected
      BY <1>3, <1>4, <1>6, <2>1 DEF SameView
    <3> QED BY <3>1, SameRows DEF HiddenMarks, SameView
  <2>2. CASE q # n.searchQuery
    BY <1>3, <1>4, <1>6, <2>2, NoMarks
  <2> QED BY <2>1, <2>2
<1>8. GoodM(n, clampCursor(p))
  BY <1>6, <1>7, ClampGood, CursorInt
<1>9. handleSearchKey(n, key) = Only(clampCursor(p))
  BY <1>1, <1>2, <1>4, <1>5 DEF handleSearchKey
<1> QED BY <1>8, <1>9, OnlyGood

LEMMA actOnTargetsGood ==
  ASSUME NEW n, ModelOk(n), NEW op, op.do = "label" => op.label \in LabelNames \cup {NoLabel}
  PROVE  Good(n, actOnTargets(n, op))
<1>1. GoodM(n, n)
  BY Reflexive
<1>2. PICK ids : ids = IdsOf(targets(n))
  OBVIOUS
<1>3. actOnTargets(n, op) = Only(n) \/ actOnTargets(n, op) = Result(n, {Batch(op, ids)})
  BY <1>2 DEF actOnTargets
<1>4. CmdOk(n, Batch(op, ids))
  BY DEF CmdOk, Batch
<1> QED BY <1>1, <1>3, <1>4, OnlyGood DEF Good, Result

LEMMA removeTargetsGood ==
  ASSUME NEW n, ModelOk(n)
  PROVE  Good(n, removeTargets(n))
<1>1. PICK op : op = [do |-> "remove"]
  OBVIOUS
<1>2. op.do # "label"
  BY <1>1
<1>3. Good(n, actOnTargets(n, op))
  BY <1>2, actOnTargetsGood
<1>4. PICK p : p = [n EXCEPT !.selected = {}]
  OBVIOUS
<1>5. /\ Has(p) /\ SameView(n, p) /\ p.cursor = n.cursor /\ p.selected = {} /\ SameFind(n, p) /\ SameDetail(n, p)
      /\ SameLine(n, p)
  BY <1>4 DEF ModelOk, Has, SameView, SameFind, SameDetail, SameLine
<1>6. CursorOk(p)
  BY <1>5, SameRows DEF CursorOk, ModelOk
<1>7. GoodM(n, p)
  BY <1>5, <1>6, NoMarks, ListGood DEF SameView
<1>8. CASE targets(n) = <<>>
  BY <1>8, Reflexive, OnlyGood DEF removeTargets
<1>9. CASE targets(n) # <<>>
  <2>1. removeTargets(n) = Result(p, actOnTargets(n, op).c)
    BY <1>1, <1>4, <1>9 DEF removeTargets
  <2>2. actOnTargets(n, op).m = n
    BY DEF actOnTargets, Only, Result
  <2>3. \A c \in actOnTargets(n, op).c : CmdOk(p, c)
    BY <1>3, <1>5, <2>2 DEF Good, CmdOk, SameFind
  <2> QED BY <1>7, <2>1, <2>3 DEF Good, Result
<1> QED BY <1>8, <1>9

LEMMA onCursorGood == ASSUME NEW n, ModelOk(n), NEW what PROVE Good(n, onCursor(n, what))
<1>1. GoodM(n, n) /\ Plain(Simple(what))
  BY Reflexive DEF Plain, Simple
<1>2. onCursor(n, what) = Only(n) \/ onCursor(n, what) = Result(n, {Simple(what)})
  BY DEF onCursor
<1> QED BY <1>1, <1>2, OnlyGood, PlainGood

-----------------------------------------------------------------------------
(* A push from the daemon.                                                 *)

(* What revealJustAdded and dropVanishedLabelFilter do to the view.        *)
Widened(n, p) ==
  /\ Has(p) /\ Wider(n, p) /\ p.selected = n.selected /\ p.cursor = n.cursor
  /\ SameFind(n, p) /\ SameDetail(n, p) /\ SameLine(n, p)

LEMMA dropVanishedWidens ==
  ASSUME NEW n, Has(n)
  PROVE  LET p == dropVanishedLabelFilter(n) IN Widened(n, p) /\ p.pendingReveal = n.pendingReveal
<1>1. \/ dropVanishedLabelFilter(n) = n
      \/ dropVanishedLabelFilter(n) = [n EXCEPT !.labelFilter = NoLabel, !.filter = "All", !.sidebarCursor = 0]
  BY DEF dropVanishedLabelFilter
<1> QED BY <1>1 DEF Widened, Wider, Has, SameFind, SameDetail, SameLine

(* A torrent that was waited for and has come is in sight.                 *)
Revealed(n, p) ==
  \A i \in DOMAIN p.torrents : p.torrents[i].id \in n.pendingReveal \ p.pendingReveal => i \in shown(p)

LEMMA revealJustAddedWidens ==
  ASSUME TuiAssumption, NEW n, Has(n), IsList(n.torrents)
  PROVE  LET r == revealJustAdded(n)
         IN  Widened(n, r.m) /\ Revealed(n, r.m) /\ \A c \in r.c : Plain(c)
<1>1. PICK seen : seen = {i \in DOMAIN n.torrents : n.torrents[i].id \in n.pendingReveal}
  OBVIOUS
<1>2. PICK byLabel, byStatus, bySearch :
        /\ byLabel  = \E i \in seen : ~inLabel(n, n.torrents[i])
        /\ byStatus = \E i \in seen : ~matches(n.filter, n.torrents[i])
        /\ bySearch = \E i \in seen : ~inSearch(n, n.torrents[i])
  OBVIOUS
<1>3. PICK lab, fil, sea : /\ lab = IF byLabel THEN NoLabel ELSE n.labelFilter
                           /\ fil = IF byStatus THEN "All" ELSE n.filter
                           /\ sea = IF bySearch THEN 0 ELSE n.searchQuery
  OBVIOUS
<1>4. PICK a : a = [n EXCEPT !.pendingReveal = {}, !.labelFilter = lab, !.filter = fil, !.searchQuery = sea]
  OBVIOUS
<1>5. PICK b : b = [a EXCEPT !.sidebarCursor = currentSidebarIndex(a)]
  OBVIOUS
<1>6. /\ Has(a) /\ a.torrents = n.torrents /\ a.selected = n.selected /\ a.cursor = n.cursor
      /\ SameFind(n, a) /\ SameDetail(n, a) /\ SameLine(n, a)
      /\ a.pendingReveal = {} /\ a.labelFilter = lab /\ a.filter = fil /\ a.searchQuery = sea
  BY <1>4 DEF Has, SameFind, SameDetail, SameLine
<1>7. Same(a, b)
  BY <1>5, <1>6 DEF Has, Same, SameList, SameView, SameFind, SameDetail, SameLine
<1>8. \/ seen = {} /\ revealJustAdded(n) = Only(n)
      \/ seen # {} /\ revealJustAdded(n) = setStatus(b, "ok")
      \/ seen # {} /\ revealJustAdded(n) = Only(a)
  BY <1>1, <1>2, <1>3, <1>4, <1>5 DEF revealJustAdded
<1>9. Widened(n, a)
  BY <1>3, <1>6 DEF Widened, Wider
<1>10. \A i \in seen : i \in shown(a)
  <2> SUFFICES ASSUME NEW i \in seen PROVE i \in shown(a)
    OBVIOUS
  <2>1. i \in DOMAIN n.torrents /\ n.torrents[i] \in Snapshots
    BY <1>1 DEF IsList
  <2>2. matches(a.filter, n.torrents[i])
    BY <1>2, <1>3, <1>6 DEF matches
  <2>3. inLabel(a, n.torrents[i])
    BY <1>2, <1>3, <1>6 DEF inLabel
  <2>4. Reach[n.torrents[i].id] \in Nat
    BY <2>1 DEF Snapshots, TuiAssumption
  <2>5. inSearch(a, n.torrents[i])
    BY <1>2, <1>3, <1>6, <2>4 DEF inSearch
  <2> QED BY <1>6, <2>1, <2>2, <2>3, <2>5 DEF shown
<1>11. ASSUME NEW p, Same(a, p) PROVE Widened(n, p) /\ Revealed(n, p)
  <2>1. shown(p) = shown(a) /\ p.torrents = n.torrents
    BY <1>6, <1>11, SameRows DEF Same, SameList, SameView
  <2>2. Revealed(n, p)
    BY <1>1, <1>10, <2>1 DEF Revealed
  <2> QED BY <1>9, <1>11, <2>2 DEF Widened, Wider, Same, SameList, SameView, SameFind, SameDetail, SameLine
<1>12. Same(a, a)
  BY <1>6 DEF Same, SameList, SameView, SameFind, SameDetail, SameLine
<1>13. CASE seen = {}
  <2>1. revealJustAdded(n) = Only(n)
    BY <1>8, <1>13
  <2>2. Revealed(n, n)
    BY DEF Revealed
  <2> QED BY <2>1, <2>2 DEF Only, Result, Widened, Wider, SameFind, SameDetail, SameLine
<1>14. CASE seen # {} /\ revealJustAdded(n) = Only(a)
  BY <1>11, <1>12, <1>14 DEF Only, Result
<1>15. CASE seen # {} /\ revealJustAdded(n) = setStatus(b, "ok")
  <2>1. PICK r : r = setStatus(b, "ok")
    OBVIOUS
  <2>2. Same(b, r.m) /\ \A c \in r.c : Plain(c)
    BY <1>7, <2>1, setStatusSame DEF Same
  <2>3. Same(a, r.m)
    BY <1>7, <2>2 DEF Same, SameList, SameView, SameFind, SameDetail, SameLine
  <2> QED BY <1>11, <1>15, <2>1, <2>2, <2>3
<1> QED BY <1>8, <1>13, <1>14, <1>15

LEMMA engineEventGood ==
  ASSUME TuiAssumption, NEW n, ModelOk(n), NEW list, IsList(list)
  PROVE  Good(n, engineEvent(n, list)) /\ Revealed(n, engineEvent(n, list).m)
<1>1. PICK e : e = [n EXCEPT !.torrents = list]
  OBVIOUS
<1>2. /\ Has(e) /\ e.torrents = list /\ e.filter = n.filter /\ e.labelFilter = n.labelFilter
      /\ e.searchQuery = n.searchQuery /\ e.selected = n.selected /\ e.cursor = n.cursor
      /\ e.pendingReveal = n.pendingReveal /\ SameFind(n, e) /\ SameDetail(n, e) /\ SameLine(n, e)
  BY <1>1 DEF ModelOk, Has, SameFind, SameDetail, SameLine
<1>3. PICK d : d = dropVanishedLabelFilter(e)
  OBVIOUS
<1>4. Widened(e, d) /\ d.pendingReveal = n.pendingReveal
  BY <1>2, <1>3, dropVanishedWidens
<1>5. Has(d) /\ IsList(d.torrents)
  BY <1>2, <1>4 DEF Widened, Wider
<1>6. PICK a : a = revealJustAdded(d)
  OBVIOUS
<1>7. Widened(d, a.m) /\ Revealed(d, a.m) /\ \A c \in a.c : Plain(c)
  BY <1>5, <1>6, revealJustAddedWidens
<1>8. PICK b : b = a.m
  OBVIOUS
<1>9. /\ Has(b) /\ b.torrents = list /\ b.selected = n.selected /\ b.cursor = n.cursor
      /\ SameFind(n, b) /\ SameDetail(n, b) /\ SameLine(n, b)
      /\ b.filter \in {n.filter, "All"} /\ b.labelFilter \in {n.labelFilter, NoLabel}
      /\ b.searchQuery \in {n.searchQuery, 0}
  BY <1>2, <1>4, <1>7, <1>8 DEF Widened, Wider, SameFind, SameDetail, SameLine
<1>10. PICK p : p = clampCursor(b)
  OBVIOUS
<1>11. /\ Has(p) /\ SameView(b, p) /\ p.selected = b.selected /\ SameFind(b, p) /\ SameDetail(b, p)
       /\ SameLine(b, p) /\ CursorOk(p) /\ p.pendingReveal = b.pendingReveal
  BY <1>9, <1>10, clampCursorKeeps, CursorInt
<1>12. ModelOk(p)
  BY <1>9, <1>11 DEF ModelOk, SameView, SameFind, SameDetail, SameLine, DetailOk, FindOk
<1>13. MarksStep(n, p)
  <2> SUFFICES ASSUME p.torrents = n.torrents PROVE HiddenMarks(p) \subseteq HiddenMarks(n)
    BY DEF MarksStep
  <2>1. Wider(n, p) /\ p.selected = n.selected /\ IsList(p.torrents)
    BY <1>9, <1>11 DEF Wider, SameView
  <2> QED BY <2>1, WiderHides
<1>14. GoodM(n, p)
  BY <1>9, <1>11, <1>12, <1>13 DEF GoodM, FindStep, SameFind, ModelOk, FindOk
<1>15. PICK r : r = syncDetail(p)
  OBVIOUS
<1>16. Good(n, r)
  BY <1>14, <1>15, SyncGood
<1>17. SameList(p, r.m) /\ r.m.pendingReveal = p.pendingReveal /\ \A c \in r.c : Plain(c)
  BY <1>11, <1>12, <1>15, syncDetailKeeps DEF ModelOk
<1>18. engineEvent(n, list) = Result(r.m, {Listen} \cup a.c \cup r.c)
  BY <1>1, <1>3, <1>6, <1>8, <1>10, <1>15 DEF engineEvent
<1>19. \A c \in {Listen} \cup a.c \cup r.c : Plain(c)
  BY <1>7, <1>17 DEF Listen, Plain
<1>20. Good(n, engineEvent(n, list))
  BY <1>16, <1>18, <1>19, PlainGood DEF Good
<1>21. Revealed(n, r.m)
  <2>1. shown(r.m) = shown(b) /\ r.m.torrents = b.torrents /\ r.m.pendingReveal = b.pendingReveal
    BY <1>11, <1>17, SameRows DEF SameList, SameView
  <2> QED BY <1>4, <1>7, <1>8, <2>1 DEF Revealed
<1> QED BY <1>18, <1>20, <1>21, ResultParts

-----------------------------------------------------------------------------
(* The detail pane.                                                        *)

LEMMA DetailCursorGood ==
  ASSUME NEW n, ModelOk(n), NEW x \in Nat
  PROVE  GoodM(n, [n EXCEPT !.detailCursor = x])
<1>1. PICK p : p = [n EXCEPT !.detailCursor = x]
  OBVIOUS
<1>2. /\ Has(p) /\ SameList(n, p) /\ SameFind(n, p) /\ SameLine(n, p) /\ p.detail = n.detail
      /\ p.detailLoaded = n.detailLoaded /\ p.detailID = n.detailID /\ p.detailCursor = x
  BY <1>1 DEF ModelOk, Has, SameList, SameView, SameFind, SameLine
<1>3. DetailOk(p)
  BY <1>2 DEF DetailOk, ModelOk
<1> QED BY <1>1, <1>2, <1>3, DetailGood

LEMMA FilesOk ==
  ASSUME NEW n, ModelOk(n)
  PROVE  /\ n.detail.files \in Seq(Refs) /\ Len(n.detail.files) \in Nat /\ n.detailCursor \in Nat
         /\ DOMAIN n.detail.files = 1 .. Len(n.detail.files)
         /\ \A i \in DOMAIN n.detail.files : n.detail.files[i] \in Refs
BY DEF ModelOk, DetailOk, IsDetail

(* The order of the files: the larger first, and of two the first.         *)
lengthOf(files, i) == FileLen[files[i].of][files[i].i]
Precedes(files, i, j) ==
  lengthOf(files, i) > lengthOf(files, j) \/ (lengthOf(files, i) = lengthOf(files, j) /\ i < j)
FileOrder(files) == {e \in (DOMAIN files) \X (DOMAIN files) : Precedes(files, e[1], e[2])}

LEMMA FileOrderPairs ==
  ASSUME NEW files, NEW i \in DOMAIN files, NEW j \in DOMAIN files
  PROVE  <<i, j>> \in FileOrder(files) <=> Precedes(files, i, j)
BY DEF FileOrder

(* The largest file is one of the files.                                   *)
LEMMA LargestIs ==
  ASSUME TuiAssumption, NEW files \in Seq(Refs), files # <<>>
  PROVE  \E i \in DOMAIN files : largestFile(files) = files[i]
<1>1. DOMAIN files = 1 .. Len(files) /\ Len(files) \in Nat /\ Len(files) # 0 /\ 1 \in Int
  OBVIOUS
<1>2. \A i \in DOMAIN files : lengthOf(files, i) \in Nat /\ i \in Nat
  <2> SUFFICES ASSUME NEW i \in DOMAIN files PROVE lengthOf(files, i) \in Nat /\ i \in Nat
    OBVIOUS
  <2>1. files[i] \in Refs /\ i \in Nat
    BY <1>1
  <2>2. files[i].of \in Ids /\ files[i].i \in DOMAIN FileLen[files[i].of]
    BY <2>1 DEF Refs
  <2>3. FileLen[files[i].of] \in Seq(Nat)
    BY <2>2 DEF TuiAssumption
  <2> QED BY <2>1, <2>2, <2>3 DEF lengthOf
<1>3. \A i, j \in DOMAIN files : <<i, j>> \in FileOrder(files) <=> Precedes(files, i, j)
  BY FileOrderPairs
<1>4. Orders2(FileOrder(files), DOMAIN files)
  <2>1. ASSUME NEW i \in DOMAIN files, Precedes(files, i, i) PROVE FALSE
    BY <1>2, <2>1 DEF Precedes
  <2>2. ASSUME NEW i \in DOMAIN files, NEW j \in DOMAIN files, i # j PROVE Precedes(files, i, j) \/ Precedes(files, j, i)
    BY <1>2, <2>2 DEF Precedes
  <2>3. ASSUME NEW i \in DOMAIN files, NEW j \in DOMAIN files, NEW k \in DOMAIN files,
               Precedes(files, i, j), Precedes(files, j, k)
        PROVE  Precedes(files, i, k)
    BY <1>2, <2>3 DEF Precedes
  <2>4. \A i, j, k \in DOMAIN files : <<i, j>> \in FileOrder(files) /\ <<j, k>> \in FileOrder(files)
          => <<i, k>> \in FileOrder(files)
    BY <1>3, <2>3
  <2>5. \A i, j \in DOMAIN files : i # j => <<i, j>> \in FileOrder(files) \/ <<j, i>> \in FileOrder(files)
    BY <1>3, <2>2
  <2>6. \A i \in DOMAIN files : <<i, i>> \notin FileOrder(files)
    BY <1>3, <2>1
  <2> QED BY <2>4, <2>5, <2>6 DEF Orders2
<1>5. IsFiniteSet(DOMAIN files) /\ DOMAIN files # {}
  <2>1. IsFiniteSet(1 .. Len(files))
    BY <1>1, FS_Interval
  <2>2. 1 \in 1 .. Len(files)
    BY <1>1
  <2> QED BY <1>1, <2>1, <2>2
<1>6. \E i \in DOMAIN files : \A j \in DOMAIN files : <<j, i>> \notin FileOrder(files)
  BY <1>4, <1>5, First
<1>7. \E i \in DOMAIN files : \A j \in DOMAIN files :
        lengthOf(files, i) > lengthOf(files, j) \/ (lengthOf(files, i) = lengthOf(files, j) /\ i <= j)
  <2>1. PICK i \in DOMAIN files : \A j \in DOMAIN files : ~Precedes(files, j, i)
    BY <1>3, <1>6
  <2>2. ASSUME NEW j \in DOMAIN files
        PROVE  lengthOf(files, i) > lengthOf(files, j) \/ (lengthOf(files, i) = lengthOf(files, j) /\ i <= j)
    BY <1>2, <2>1 DEF Precedes
  <2> QED BY <2>2
<1>8. PICK i : i = CHOOSE a \in DOMAIN files : \A j \in DOMAIN files :
        lengthOf(files, a) > lengthOf(files, j) \/ (lengthOf(files, a) = lengthOf(files, j) /\ a <= j)
  OBVIOUS
<1>9. i \in DOMAIN files
  BY <1>7, <1>8
<1>10. largestFile(files) = files[i]
  BY <1>8 DEF largestFile, lengthOf
<1> QED BY <1>9, <1>10

(* What is previewed is a file of the torrent that is named.               *)
LEMMA previewFileGood ==
  ASSUME TuiAssumption, NEW n, ModelOk(n)
  PROVE  Good(n, previewFile(n))
<1>1. PICK t, at : t = cursorTorrent(n) /\ at = n.detailCursor
  OBVIOUS
<1>2. GoodM(n, n)
  BY Reflexive
<1>3. CASE t = <<>>
  BY <1>1, <1>2, <1>3, OnlyGood DEF previewFile
<1>4. CASE t # <<>> /\ (~n.detailLoaded \/ n.detail.id # t[1].id \/ n.detail.files = <<>>)
  <2>1. previewFile(n) = setStatus(n, "err")
    BY <1>1, <1>4 DEF previewFile
  <2> QED BY <1>2, <2>1, StatusGood
<1>5. CASE t # <<>> /\ n.detailLoaded /\ n.detail.id = t[1].id /\ n.detail.files # <<>>
  <2>1. PICK f : f = IF n.detailTab = "Files" /\ at < Len(n.detail.files)
                     THEN n.detail.files[at + 1] ELSE largestFile(n.detail.files)
    OBVIOUS
  <2>2. previewFile(n) = Result(n, {Preview(n.detail.id, f)})
    BY <1>1, <1>5, <2>1 DEF previewFile
  <2>3. \E i \in DOMAIN n.detail.files : f = n.detail.files[i]
    <3>1. CASE at < Len(n.detail.files) /\ n.detailTab = "Files"
      <4>1. at + 1 \in DOMAIN n.detail.files
        BY <1>1, <3>1, FilesOk
      <4> QED BY <2>1, <3>1, <4>1
    <3>2. CASE ~(at < Len(n.detail.files) /\ n.detailTab = "Files")
      BY <1>5, <2>1, <3>2, FilesOk, LargestIs
    <3> QED BY <3>1, <3>2
  <2>4. f.of = n.detail.id
    BY <1>5, <2>3 DEF ModelOk, DetailOk
  <2>5. CmdOk(n, Preview(n.detail.id, f))
    BY <2>4 DEF CmdOk, Preview
  <2> QED BY <1>2, <2>2, <2>5 DEF Good, Result
<1> QED BY <1>3, <1>4, <1>5

LEMMA toggleFileWantedGood ==
  ASSUME NEW n, ModelOk(n)
  PROVE  Good(n, toggleFileWanted(n))
<1>1. PICK at, f : at = n.detailCursor /\ f = n.detail.files[at + 1]
  OBVIOUS
<1>2. at \in Nat /\ Len(n.detail.files) \in Nat
  BY <1>1, FilesOk
<1>3. CASE at >= Len(n.detail.files)
  BY <1>1, <1>3, Reflexive, OnlyGood DEF toggleFileWanted
<1>4. CASE ~(at >= Len(n.detail.files))
  <2>1. PICK x, p : x = (IF at < Len(n.detail.files) - 1 THEN at + 1 ELSE at) /\ p = IF f.prio = 0 THEN 2 ELSE 0
    OBVIOUS
  <2>2. toggleFileWanted(n) = Result([n EXCEPT !.detailCursor = x], {SetPriority(n.detail.id, f.i, p)})
    BY <1>1, <1>4, <2>1 DEF toggleFileWanted
  <2>3. x \in Nat /\ p \in 0 .. 4
    BY <1>2, <2>1
  <2>4. GoodM(n, [n EXCEPT !.detailCursor = x])
    BY <2>3, DetailCursorGood
  <2>5. \A q : CmdOk(q, SetPriority(n.detail.id, f.i, p))
    BY <2>3 DEF CmdOk, SetPriority
  <2> QED BY <2>2, <2>4, <2>5 DEF Good, Result
<1> QED BY <1>3, <1>4

LEMMA adjustFilePriorityGood ==
  ASSUME NEW n, ModelOk(n), NEW delta \in Int
  PROVE  Good(n, adjustFilePriority(n, delta))
<1>1. PICK at, f : at = n.detailCursor /\ f = n.detail.files[at + 1]
  OBVIOUS
<1>2. at \in Nat /\ Len(n.detail.files) \in Nat
  BY <1>1, FilesOk
<1>3. CASE n.detailTab # "Files" \/ at >= Len(n.detail.files)
  BY <1>1, <1>3, Reflexive, OnlyGood DEF adjustFilePriority
<1>4. CASE ~(n.detailTab # "Files" \/ at >= Len(n.detail.files))
  <2>1. at + 1 \in DOMAIN n.detail.files
    BY <1>2, <1>4, FilesOk
  <2>2. f.prio + delta \in Int
    <3>1. f \in Refs
      BY <1>1, <2>1, FilesOk
    <3>2. f.prio \in 0 .. 4
      BY <3>1 DEF Refs
    <3> QED BY <3>2
  <2>3. PICK p : p = Clamped(f.prio + delta, 5)
    OBVIOUS
  <2>4. p \in 0 .. 4
    BY <2>2, <2>3 DEF Clamped
  <2>5. adjustFilePriority(n, delta) = Result(n, {SetPriority(n.detail.id, f.i, p)})
    BY <1>1, <1>4, <2>3 DEF adjustFilePriority
  <2>6. CmdOk(n, SetPriority(n.detail.id, f.i, p))
    BY <2>4 DEF CmdOk, SetPriority
  <2> QED BY <2>5, <2>6, Reflexive DEF Good, Result
<1> QED BY <1>3, <1>4

(* The reply of a detail call: it is shown only for the torrent it is of.  *)
IsDetailReply(g) ==
  g.ok => IsDetail(g.detail) /\ \A i \in DOMAIN g.detail.files : g.detail.files[i].of = g.detail.id

LEMMA detailLoadedGood ==
  ASSUME NEW n, ModelOk(n), NEW g, IsDetailReply(g)
  PROVE  Good(n, detailLoaded(n, g))
<1>1. CASE ~g.ok
  BY <1>1, Reflexive, StatusGood DEF detailLoaded
<1>2. CASE g.ok /\ g.detail.id # n.detailID
  BY <1>2, Reflexive, OnlyGood DEF detailLoaded
<1>3. CASE g.ok /\ g.detail.id = n.detailID
  <2>1. PICK x : x = Clamped(n.detailCursor, Len(g.detail.files))
    OBVIOUS
  <2>2. PICK p : p = [n EXCEPT !.detail = g.detail, !.detailLoaded = TRUE, !.detailCursor = x]
    OBVIOUS
  <2>3. detailLoaded(n, g) = Only(p)
    BY <1>3, <2>1, <2>2 DEF detailLoaded
  <2>4. IsDetail(g.detail) /\ \A i \in DOMAIN g.detail.files : g.detail.files[i].of = g.detail.id
    BY <1>3 DEF IsDetailReply
  <2>5. n.detailCursor \in Int /\ Len(g.detail.files) \in Nat
    BY <2>4, FilesOk DEF IsDetail
  <2>6. x \in Nat
    BY <2>1, <2>5, ClampedIn
  <2>7. /\ Has(p) /\ SameList(n, p) /\ SameFind(n, p) /\ SameLine(n, p) /\ p.detail = g.detail
        /\ p.detailID = n.detailID /\ p.detailCursor = x /\ p.detailLoaded = TRUE
    BY <2>2 DEF ModelOk, Has, SameList, SameView, SameFind, SameLine
  <2>8. \A i \in DOMAIN p.detail.files : p.detail.files[i].of = p.detailID
    BY <1>3, <2>4, <2>7
  <2>9. DetailOk(p)
    BY <1>3, <2>4, <2>6, <2>7, <2>8 DEF DetailOk
  <2> QED BY <2>3, <2>7, <2>9, DetailGood, OnlyGood
<1> QED BY <1>1, <1>2, <1>3

-----------------------------------------------------------------------------
(* The search overlay.                                                     *)

LEMMA openFindGood == ASSUME NEW n, ModelOk(n) PROVE Good(n, openFind(n))
<1>1. CASE ~n.finder
  BY <1>1, Reflexive, StatusGood DEF openFind
<1>2. CASE n.finder
  <2>1. Same(n, [n EXCEPT !.mode = "find"])
    BY DEF ModelOk, Has, Same, SameList, SameView, SameFind, SameDetail, SameLine
  <2> QED BY <1>2, <2>1, SameGood, OnlyGood DEF openFind
<1> QED BY <1>1, <1>2

LEMMA startFindGood == ASSUME NEW n, ModelOk(n), NEW q PROVE Good(n, startFind(n, q))
<1>1. CASE q = 0
  BY <1>1, Reflexive, OnlyGood DEF startFind
<1>2. CASE q # 0 /\ ~n.finder
  BY <1>2, Reflexive, StatusGood DEF startFind
<1>3. CASE q # 0 /\ n.finder
  <2>1. PICK p : p = [n EXCEPT !.mode = "normal", !.findQuery = q, !.findState = "loading", !.findResults = <<>>,
                               !.findCursor = 0, !.findSeq = @ + 1]
    OBVIOUS
  <2>2. startFind(n, q) = Result(p, {FindCmd(n.findSeq + 1, q)})
    BY <1>3, <2>1 DEF startFind
  <2>3. /\ Has(p) /\ SameList(n, p) /\ SameDetail(n, p) /\ SameLine(n, p) /\ p.findQuery = q
        /\ p.findState = "loading" /\ p.findResults = <<>> /\ p.findCursor = 0 /\ p.findSeq = n.findSeq + 1
    BY <2>1 DEF ModelOk, Has, SameList, SameView, SameDetail, SameLine
  <2>4. n.findSeq \in Nat
    BY DEF ModelOk, FindOk
  <2>5. FindOk(p) /\ FindStep(n, p)
    BY <2>3, <2>4 DEF FindOk, FindStep
  <2>6. GoodM(n, p)
    BY <2>3, <2>5, FindGood
  <2>7. CmdOk(p, FindCmd(n.findSeq + 1, q))
    BY <2>3, <2>4 DEF CmdOk, FindCmd
  <2> QED BY <2>2, <2>6, <2>7 DEF Good, Result
<1> QED BY <1>1, <1>2, <1>3

(* A reply of a search is either late or of the search that is awaited.    *)
IsFindReply(n, g) ==
  /\ g.results \in Seq(Ids \cup {NoID})
  /\ g.seq = n.findSeq => n.findState # "closed" /\ g.q = n.findQuery

LEMMA applyFindResultsGood ==
  ASSUME NEW n, ModelOk(n), NEW g, IsFindReply(n, g)
  PROVE  GoodM(n, applyFindResults(n, g))
<1>1. CASE g.seq # n.findSeq
  BY <1>1, Reflexive DEF applyFindResults
<1>2. CASE g.seq = n.findSeq
  <2>1. PICK p : p = [n EXCEPT !.findState = "loaded", !.findResults = g.results, !.findFor = g.q, !.findCursor = 0]
    OBVIOUS
  <2>2. applyFindResults(n, g) = p
    BY <1>2, <2>1 DEF applyFindResults
  <2>3. /\ Has(p) /\ SameList(n, p) /\ SameDetail(n, p) /\ SameLine(n, p) /\ p.findQuery = n.findQuery
        /\ p.findState = "loaded" /\ p.findResults = g.results /\ p.findCursor = 0 /\ p.findSeq = n.findSeq
        /\ p.findFor = g.q
    BY <2>1 DEF ModelOk, Has, SameList, SameView, SameDetail, SameLine
  <2>4. FindOk(p) /\ FindStep(n, p)
    BY <1>2, <2>3 DEF FindOk, FindStep, ModelOk, IsFindReply
  <2> QED BY <2>2, <2>3, <2>4, FindGood
<1> QED BY <1>1, <1>2

LEMMA closeFindGood == ASSUME NEW n, ModelOk(n) PROVE GoodM(n, closeFind(n))
<1>1. PICK p : p = [n EXCEPT !.findState = "closed", !.findSeq = @ + 1]
  OBVIOUS
<1>2. /\ Has(p) /\ SameList(n, p) /\ SameDetail(n, p) /\ SameLine(n, p) /\ p.findQuery = n.findQuery
      /\ p.findState = "closed" /\ p.findResults = n.findResults /\ p.findCursor = n.findCursor
      /\ p.findSeq = n.findSeq + 1
  BY <1>1 DEF ModelOk, Has, SameList, SameView, SameDetail, SameLine
<1>3. FindOk(p) /\ FindStep(n, p)
  BY <1>2 DEF FindOk, FindStep, ModelOk
<1>4. closeFind(n) = p
  BY <1>1 DEF closeFind
<1> QED BY <1>2, <1>3, <1>4, FindGood

LEMMA addFindResultGood == ASSUME NEW n, ModelOk(n) PROVE Good(n, addFindResult(n))
<1>1. PICK r, s : r = n.findResults[n.findCursor + 1] /\ s = setStatus(closeFind(n), "ok")
  OBVIOUS
<1>2. n.findResults \in Seq(Ids \cup {NoID}) /\ n.findCursor \in Nat
  BY DEF ModelOk, FindOk
<1>3. CASE n.findCursor >= Len(n.findResults)
  BY <1>3, Reflexive, OnlyGood DEF addFindResult
<1>4. CASE ~(n.findCursor >= Len(n.findResults)) /\ r = NoID
  BY <1>1, <1>4, Reflexive, StatusGood DEF addFindResult
<1>5. CASE ~(n.findCursor >= Len(n.findResults)) /\ r # NoID
  <2>1. addFindResult(n) = Result(s.m, s.c \cup {AddBatch({r})})
    BY <1>1, <1>5 DEF addFindResult
  <2>2. Good(n, s)
    BY <1>1, closeFindGood, StatusGood
  <2>3. n.findCursor + 1 \in 1 .. Len(n.findResults)
    BY <1>2, <1>5
  <2>4. r \in Ids
    BY <1>1, <1>2, <1>5, <2>3
  <2>5. CmdOk(s.m, AddBatch({r}))
    BY <2>4 DEF CmdOk, AddBatch
  <2> QED BY <2>1, <2>2, <2>5 DEF Good, Result
<1> QED BY <1>3, <1>4, <1>5

-----------------------------------------------------------------------------
(* Keys.                                                                   *)

LEMMA SameTrans ==
  ASSUME NEW n, NEW p, NEW q, Same(n, p), Same(p, q)
  PROVE  Same(n, q)
BY DEF Same, SameList, SameView, SameFind, SameDetail, SameLine

LEMMA SameResults ==
  ASSUME NEW n, ModelOk(n), NEW p, Same(n, p)
  PROVE  /\ Good(n, Only(p)) /\ Good(n, Result(p, {ThemeWatch}))
         /\ \A s : Good(n, setStatus(p, s))
<1>1. GoodM(n, p)
  BY SameGood
<1>2. \A c \in {ThemeWatch} : Plain(c)
  BY DEF ThemeWatch, Plain
<1> QED BY <1>1, <1>2, OnlyGood, PlainGood, StatusGood

LEMMA ThemeSame ==
  ASSUME NEW n, Has(n), NEW th, NEW disk0
  PROVE  Same(n, applyTheme(n, th, disk0))
BY DEF applyTheme, Has, Same, SameList, SameView, SameFind, SameDetail, SameLine

LEMMA moveThemeCursorGood ==
  ASSUME NEW n, ModelOk(n), NEW key, NEW disk0
  PROVE  Good(n, moveThemeCursor(n, key, disk0))
<1>1. PICK to : to = CASE key \in Down -> Clamped(n.themeCursor + 1, Len(n.themeNames) - 1 + 1)
                       [] key \in Up   -> Clamped(n.themeCursor - 1, Len(n.themeNames) - 1 + 1)
                       [] key = "g"    -> 0
                       [] OTHER        -> Len(n.themeNames) - 1
  OBVIOUS
<1>2. PICK a : a = [n EXCEPT !.themeCursor = to]
  OBVIOUS
<1>3. PICK th : th = Load(n.themeNames[to + 1], disk0)
  OBVIOUS
<1>4. Same(n, a) /\ Has(a)
  BY <1>2 DEF ModelOk, Has, Same, SameList, SameView, SameFind, SameDetail, SameLine
<1>5. Same(n, applyTheme(a, th[1], disk0))
  BY <1>4, ThemeSame, SameTrans
<1>6. \/ moveThemeCursor(n, key, disk0) = setStatus(a, "err")
      \/ moveThemeCursor(n, key, disk0) = Only(applyTheme(a, th[1], disk0))
  BY <1>1, <1>2, <1>3 DEF moveThemeCursor
<1> QED BY <1>4, <1>5, <1>6, SameResults

LEMMA handleThemeKeyGood ==
  ASSUME NEW n, ModelOk(n), NEW key, NEW disk0
  PROVE  Good(n, handleThemeKey(n, key, disk0))
<1>1. PICK a : a = [n EXCEPT !.themePicker = FALSE]
  OBVIOUS
<1>2. Same(n, a) /\ Has(a)
  BY <1>1 DEF ModelOk, Has, Same, SameList, SameView, SameFind, SameDetail, SameLine
<1>3. Same(n, applyTheme(a, n.themeSaved, disk0))
  BY <1>2, ThemeSame, SameTrans
<1>4. \/ handleThemeKey(n, key, disk0) = Only(applyTheme(a, n.themeSaved, disk0))
      \/ handleThemeKey(n, key, disk0) = setStatus(a, "ok")
      \/ handleThemeKey(n, key, disk0) = moveThemeCursor(n, key, disk0)
      \/ handleThemeKey(n, key, disk0) = Only(n)
  BY <1>1 DEF handleThemeKey, Up, Down
<1> QED BY <1>2, <1>3, <1>4, SameResults, moveThemeCursorGood, Reflexive, OnlyGood

LEMMA setThemeByNameGood ==
  ASSUME NEW n, ModelOk(n), NEW name, NEW disk0
  PROVE  Good(n, setThemeByName(n, name, disk0))
<1>1. PICK th : th = Load(name, disk0)
  OBVIOUS
<1>2. \/ setThemeByName(n, name, disk0) = setStatus(n, "err")
      \/ setThemeByName(n, name, disk0) = setStatus(applyTheme(n, th[1], disk0), "ok")
  BY <1>1 DEF setThemeByName
<1>3. Same(n, applyTheme(n, th[1], disk0))
  BY ThemeSame DEF ModelOk
<1> QED BY <1>2, <1>3, SameResults, Reflexive, StatusGood

LEMMA checkThemeFileGood ==
  ASSUME NEW n, ModelOk(n), NEW disk0
  PROVE  Good(n, checkThemeFile(n, disk0))
<1>1. PICK th, stamp : th = Load(n.theme.name, disk0) /\ stamp = stampOf(n.theme.name, disk0)
  OBVIOUS
<1>2. PICK a : a = [n EXCEPT !.themeStamp = stamp]
  OBVIOUS
<1>3. PICK s : s = setStatus(a, "err")
  OBVIOUS
<1>4. \/ checkThemeFile(n, disk0) = Result(n, {ThemeWatch})
      \/ checkThemeFile(n, disk0) = Result(applyTheme(n, th[1], disk0), {ThemeWatch})
      \/ checkThemeFile(n, disk0) = Result(s.m, s.c \cup {ThemeWatch})
  BY <1>1, <1>2, <1>3 DEF checkThemeFile
<1>5. Same(n, applyTheme(n, th[1], disk0)) /\ Same(n, n)
  BY ThemeSame DEF ModelOk, Same, SameList, SameView, SameFind, SameDetail, SameLine
<1>6. Same(n, a) /\ Has(a)
  BY <1>2 DEF ModelOk, Has, Same, SameList, SameView, SameFind, SameDetail, SameLine
<1>7. Same(n, s.m) /\ \A c \in s.c \cup {ThemeWatch} : Plain(c)
  BY <1>3, <1>6, setStatusSame, SameTrans DEF ThemeWatch, Plain
<1>8. Good(n, Result(s.m, s.c \cup {ThemeWatch}))
  BY <1>7, SameGood, PlainGood
<1> QED BY <1>4, <1>5, <1>8, SameResults

LEMMA openThemePickerGood ==
  ASSUME NEW n, ModelOk(n), NEW disk0
  PROVE  Good(n, openThemePicker(n, disk0))
<1>1. PICK names, x : /\ names = Available(disk0)
                      /\ x = IF {i \in DOMAIN names : names[i] = n.theme.name} = {} THEN 0
                             ELSE (CHOOSE i \in {i \in DOMAIN names : names[i] = n.theme.name} : TRUE) - 1
  OBVIOUS
<1>2. PICK p : p = [n EXCEPT !.themeNames = names, !.themeSaved = n.theme, !.themePicker = TRUE, !.themeCursor = x]
  OBVIOUS
<1>3. openThemePicker(n, disk0) = Only(p)
  BY <1>1, <1>2 DEF openThemePicker
<1>4. Same(n, p)
  BY <1>2 DEF ModelOk, Has, Same, SameList, SameView, SameFind, SameDetail, SameLine
<1> QED BY <1>3, <1>4, SameResults

LEMMA handleFindKeyGood ==
  ASSUME NEW n, ModelOk(n), NEW key
  PROVE  Good(n, handleFindKey(n, key))
<1>1. CASE key = "esc"
  BY <1>1, closeFindGood, OnlyGood DEF handleFindKey, Up, Down
<1>2. CASE key = "f"
  <2>1. PICK p, q : p = closeFind(n) /\ q = [p EXCEPT !.mode = "find"]
    OBVIOUS
  <2>2. GoodM(n, p)
    BY <2>1, closeFindGood
  <2>3. Same(p, q)
    BY <2>1, <2>2 DEF GoodM, ModelOk, Has, Same, SameList, SameView, SameFind, SameDetail, SameLine
  <2>4. handleFindKey(n, key) = Only(q)
    BY <1>2, <2>1 DEF handleFindKey, Up, Down
  <2> QED BY <2>2, <2>3, <2>4, SameAfter, OnlyGood
<1>3. CASE key = "enter"
  BY <1>3, addFindResultGood DEF handleFindKey, Up, Down
<1>4. CASE key \notin {"esc", "f", "enter"}
  <2>1. n.findCursor \in Nat /\ Len(n.findResults) \in Nat
    BY DEF ModelOk, FindOk
  <2>2. ASSUME NEW x \in Nat PROVE Good(n, Only([n EXCEPT !.findCursor = x]))
    <3>1. PICK p : p = [n EXCEPT !.findCursor = x]
      OBVIOUS
    <3>2. /\ Has(p) /\ SameList(n, p) /\ SameDetail(n, p) /\ SameLine(n, p) /\ p.findQuery = n.findQuery
          /\ p.findState = n.findState /\ p.findResults = n.findResults /\ p.findCursor = x
          /\ p.findSeq = n.findSeq /\ p.findFor = n.findFor
      BY <3>1 DEF ModelOk, Has, SameList, SameView, SameDetail, SameLine
    <3>3. FindOk(p) /\ FindStep(n, p)
      BY <3>2 DEF FindOk, FindStep, ModelOk
    <3> QED BY <3>1, <3>2, <3>3, FindGood, OnlyGood
  <2>3. \E x : /\ handleFindKey(n, key) = Only([n EXCEPT !.findCursor = x])
               /\ \/ x = Clamped(n.findCursor - 1, Len(n.findResults))
                  \/ x = Clamped(n.findCursor + 1, Len(n.findResults))
                  \/ x = 0
                  \/ x = Clamped(Len(n.findResults) - 1, Len(n.findResults))
        \/ handleFindKey(n, key) = Only(n)
    BY <1>4 DEF handleFindKey, Up, Down
  <2>4. /\ n.findCursor - 1 \in Int /\ n.findCursor + 1 \in Int /\ Len(n.findResults) - 1 \in Int
    BY <2>1
  <2>5. /\ Clamped(n.findCursor - 1, Len(n.findResults)) \in Nat
        /\ Clamped(n.findCursor + 1, Len(n.findResults)) \in Nat
        /\ Clamped(Len(n.findResults) - 1, Len(n.findResults)) \in Nat
    BY <2>1, <2>4, ClampedIn
  <2> QED BY <2>2, <2>3, <2>5, Reflexive, OnlyGood
<1> QED BY <1>1, <1>2, <1>3, <1>4

(* The prompt is open only while the overlay is closed.                    *)
LEMMA handleFindPromptKeyGood ==
  ASSUME NEW n, ModelOk(n), n.findState = "closed", NEW key
  PROVE  Good(n, handleFindPromptKey(n, key))
<1>1. CASE key = "enter"
  BY <1>1, startFindGood DEF handleFindPromptKey, Runes
<1>2. ASSUME NEW x, NEW md PROVE Good(n, Only([n EXCEPT !.mode = md, !.findQuery = x]))
  <2>1. PICK p : p = [n EXCEPT !.mode = md, !.findQuery = x]
    OBVIOUS
  <2>2. /\ Has(p) /\ SameList(n, p) /\ SameDetail(n, p) /\ SameLine(n, p) /\ p.findQuery = x
        /\ p.findState = "closed" /\ p.findResults = n.findResults /\ p.findCursor = n.findCursor
        /\ p.findSeq = n.findSeq
    BY <2>1 DEF ModelOk, Has, SameList, SameView, SameDetail, SameLine
  <2>3. FindOk(p) /\ FindStep(n, p)
    BY <2>2 DEF FindOk, FindStep, ModelOk
  <2> QED BY <2>1, <2>2, <2>3, FindGood, OnlyGood
<1>3. ASSUME NEW x PROVE Good(n, Only([n EXCEPT !.findQuery = x]))
  <2>1. PICK p : p = [n EXCEPT !.findQuery = x]
    OBVIOUS
  <2>2. /\ Has(p) /\ SameList(n, p) /\ SameDetail(n, p) /\ SameLine(n, p) /\ p.findQuery = x
        /\ p.findState = "closed" /\ p.findResults = n.findResults /\ p.findCursor = n.findCursor
        /\ p.findSeq = n.findSeq
    BY <2>1 DEF ModelOk, Has, SameList, SameView, SameDetail, SameLine
  <2>3. FindOk(p) /\ FindStep(n, p)
    BY <2>2 DEF FindOk, FindStep, ModelOk
  <2> QED BY <2>1, <2>2, <2>3, FindGood, OnlyGood
<1>4. CASE key # "enter"
  <2>1. \/ handleFindPromptKey(n, key) = Only([n EXCEPT !.mode = "normal", !.findQuery = 0])
        \/ \E x : handleFindPromptKey(n, key) = Only([n EXCEPT !.findQuery = x])
        \/ handleFindPromptKey(n, key) = Only(n)
    BY <1>4 DEF handleFindPromptKey, Runes
  <2> QED BY <1>2, <1>3, <2>1, Reflexive, OnlyGood
<1> QED BY <1>1, <1>4

(* Carries on from a change of the prompt's line or of a flag.             *)
LEMMA GoodBefore ==
  ASSUME NEW n, NEW p, SameList(n, p), SameFind(n, p), NEW r, Good(p, r)
  PROVE  Good(n, r)
BY SameBefore DEF Good

LEMMA LineGood ==
  ASSUME NEW n, ModelOk(n), NEW md, NEW line, IsLine(line)
  PROVE  LET p == [n EXCEPT !.mode = md, !.commandBuf = line]
         IN  ModelOk(p) /\ GoodM(n, p) /\ SameList(n, p) /\ SameFind(n, p)
<1>1. PICK p : p = [n EXCEPT !.mode = md, !.commandBuf = line]
  OBVIOUS
<1>2. /\ Has(p) /\ SameList(n, p) /\ SameFind(n, p) /\ SameDetail(n, p) /\ p.commandBuf = line
  BY <1>1 DEF ModelOk, Has, SameList, SameView, SameFind, SameDetail
<1>3. shown(p) = shown(n) /\ rows(p) = rows(n)
  BY <1>2, SameRows DEF SameList
<1>4. ModelOk(p)
  BY <1>2, <1>3 DEF ModelOk, SameList, SameView, SameFind, SameDetail, IsList, CursorOk, DetailOk, FindOk
<1>5. GoodM(n, p)
  BY <1>2, <1>4, Reflexive, SameBefore
<1> QED BY <1>1, <1>2, <1>4, <1>5

LEMMA ComplainGood == ASSUME NEW n, ModelOk(n) PROVE Good(n, Complain(n))
<1>1. \A c \in {Simple("complain")} : Plain(c)
  BY DEF Plain, Simple
<1> QED BY <1>1, Reflexive, PlainGood DEF Complain

LEMMA FlagGood ==
  ASSUME NEW n, ModelOk(n)
  PROVE  /\ Good(n, Only([n EXCEPT !.quitting = TRUE])) /\ Good(n, Only([n EXCEPT !.showHelp = TRUE]))
         /\ Good(n, Only([n EXCEPT !.showHelp = FALSE])) /\ Good(n, toggleMouse(n))
         /\ \A tab : Good(n, setDetailTab(n, tab))
         /\ \A f : Good(n, Only([n EXCEPT !.focus = f])) /\ Good(n, Only([n EXCEPT !.mode = f]))
<1> USE DEF ModelOk, Has, Same, SameList, SameView, SameFind, SameDetail, SameLine
<1>1. Same(n, [n EXCEPT !.quitting = TRUE])
  OBVIOUS
<1>2. Same(n, [n EXCEPT !.showHelp = TRUE]) /\ Same(n, [n EXCEPT !.showHelp = FALSE])
  OBVIOUS
<1>3. Same(n, [n EXCEPT !.mouseOff = ~@])
  OBVIOUS
<1>4. \A tab : Same(n, [n EXCEPT !.detailTab = tab])
  OBVIOUS
<1>5. \A f : Same(n, [n EXCEPT !.focus = f]) /\ Same(n, [n EXCEPT !.mode = f])
  OBVIOUS
<1> HIDE DEF ModelOk, Has, Same, SameList, SameView, SameFind, SameDetail, SameLine
<1> QED BY <1>1, <1>2, <1>3, <1>4, <1>5, SameResults DEF toggleMouse, setDetailTab

LEMMA sortGood ==
  ASSUME NEW n, ModelOk(n), NEW by, NEW desc
  PROVE  GoodM(n, clampCursor([n EXCEPT !.sortBy = by, !.sortDesc = desc]))
<1>1. PICK p : p = [n EXCEPT !.sortBy = by, !.sortDesc = desc]
  OBVIOUS
<1>2. Same(n, p)
  BY <1>1 DEF ModelOk, Has, Same, SameList, SameView, SameFind, SameDetail, SameLine
<1>3. HiddenMarks(p) = HiddenMarks(n)
  BY <1>2, SameRows DEF HiddenMarks, Same, SameList, SameView
<1>4. p.cursor \in Int
  BY <1>2, CursorInt DEF Same, SameList
<1>5. GoodM(n, clampCursor(p))
  BY <1>2, <1>3, <1>4, ClampGood DEF Same, SameList, SameView
<1> QED BY <1>1, <1>5

LEMMA execCommandGood ==
  ASSUME NEW n, ModelOk(n), NEW line, IsLine(line), NEW disk0
  PROVE  Good(n, execCommand(n, line, disk0))
<1>1. CASE line.name = ""
  BY <1>1, Reflexive, OnlyGood DEF execCommand
<1>2. CASE line.name = "add"
  <2>1. CASE line.args = <<>>
    BY <1>2, <2>1, ComplainGood DEF execCommand
  <2>2. CASE line.args # <<>>
    <3>1. CmdOk(n, AddBatch(line.args[1]))
      BY <1>2, <2>2 DEF CmdOk, AddBatch, IsLine
    <3>2. execCommand(n, line, disk0) = Result(n, {AddBatch(line.args[1])})
      BY <1>2, <2>2 DEF execCommand
    <3> QED BY <3>1, <3>2, Reflexive DEF Good, Result
  <2> QED BY <2>1, <2>2
<1>3. CASE line.name \in {"rm", "rm!"}
  BY <1>3, removeTargetsGood DEF execCommand
<1>4. CASE line.name \in {"pause", "resume", "purge", "recheck"}
  <2>1. PICK op : op = [do |-> line.name]
    OBVIOUS
  <2>2. op.do # "label"
    BY <1>4, <2>1
  <2>3. execCommand(n, line, disk0) = actOnTargets(n, op)
    BY <1>4, <2>1 DEF execCommand
  <2> QED BY <2>2, <2>3, actOnTargetsGood
<1>5. CASE line.name = "limit"
  <2>1. \A c \in {Simple("limit")} : Plain(c)
    BY DEF Plain, Simple
  <2>2. execCommand(n, line, disk0) = Complain(n) \/ execCommand(n, line, disk0) = Result(n, {Simple("limit")})
    BY <1>5 DEF execCommand
  <2> QED BY <2>1, <2>2, ComplainGood, Reflexive, PlainGood
<1>6. CASE line.name = "move"
  <2>1. execCommand(n, line, disk0) = Complain(n) \/ execCommand(n, line, disk0) = onCursor(n, "move")
    BY <1>6 DEF execCommand
  <2> QED BY <2>1, ComplainGood, onCursorGood
<1>7. CASE line.name = "mouse"
  BY <1>7, FlagGood DEF execCommand
<1>8. CASE line.name = "label"
  <2>1. PICK op : op = [do |-> "label", label |-> IF line.args = <<>> THEN NoLabel ELSE line.args[1]]
    OBVIOUS
  <2>2. op.label \in LabelNames \cup {NoLabel}
    BY <1>8, <2>1 DEF IsLine
  <2>3. execCommand(n, line, disk0) = actOnTargets(n, op)
    BY <1>8, <2>1 DEF execCommand
  <2> QED BY <2>2, <2>3, actOnTargetsGood
<1>9. CASE line.name = "find"
  <2>1. execCommand(n, line, disk0) = openFind(n) \/ execCommand(n, line, disk0) = startFind(n, line.args[1])
    BY <1>9 DEF execCommand
  <2> QED BY <2>1, openFindGood, startFindGood
<1>10. CASE line.name = "theme"
  <2>1. \/ execCommand(n, line, disk0) = openThemePicker(n, disk0)
        \/ execCommand(n, line, disk0) = setThemeByName(n, line.args[1], disk0)
    BY <1>10 DEF execCommand
  <2> QED BY <2>1, openThemePickerGood, setThemeByNameGood
<1>11. CASE line.name = "sort"
  <2>1. PICK by, desc : by = line.args[1] /\ desc = (Len(line.args) > 1)
    OBVIOUS
  <2>2. \/ execCommand(n, line, disk0) = Complain(n)
        \/ execCommand(n, line, disk0) = Only(clampCursor([n EXCEPT !.sortBy = by, !.sortDesc = desc]))
    BY <1>11, <2>1 DEF execCommand
  <2> QED BY <2>2, ComplainGood, sortGood, OnlyGood
<1>12. CASE line.name = "help"
  BY <1>12, FlagGood DEF execCommand
<1>13. CASE line.name = "q"
  BY <1>13, FlagGood DEF execCommand
<1>14. CASE line.name \notin {"", "add", "rm", "rm!", "pause", "resume", "purge", "recheck", "limit", "move", "mouse",
                              "label", "find", "theme", "sort", "help", "q"}
  BY <1>14, ComplainGood DEF execCommand
<1> QED BY <1>1, <1>2, <1>3, <1>4, <1>5, <1>6, <1>7, <1>8, <1>9, <1>10, <1>11, <1>12, <1>13, <1>14

LEMMA handleCommandKeyGood ==
  ASSUME NEW n, ModelOk(n), NEW key, NEW env, IsLine(env.line)
  PROVE  Good(n, handleCommandKey(n, key, env))
<1>1. PICK empty : empty = [name |-> "", args |-> <<>>]
  OBVIOUS
<1>2. PICK shut : shut = [n EXCEPT !.mode = "normal", !.commandBuf = empty]
  OBVIOUS
<1>3. IsLine(empty)
  BY <1>1 DEF IsLine
<1>4. ModelOk(shut) /\ GoodM(n, shut) /\ SameList(n, shut) /\ SameFind(n, shut)
  BY <1>2, <1>3, LineGood
<1>5. CASE key = "enter"
  <2>1. handleCommandKey(n, key, env) = execCommand(shut, n.commandBuf, env.disk)
    BY <1>1, <1>2, <1>5 DEF handleCommandKey, Runes
  <2>2. Good(shut, execCommand(shut, n.commandBuf, env.disk))
    BY <1>4, execCommandGood DEF ModelOk
  <2> QED BY <1>4, <2>1, <2>2, GoodBefore
<1>6. CASE key = "esc"
  <2>1. handleCommandKey(n, key, env) = Only(shut)
    BY <1>1, <1>2, <1>6 DEF handleCommandKey, Runes
  <2> QED BY <1>4, <2>1, OnlyGood
<1>7. CASE key \in Runes \cup {"backspace", "tab"}
  <2>1. PICK p : p = [n EXCEPT !.commandBuf = env.line]
    OBVIOUS
  <2>2. handleCommandKey(n, key, env) = Only(p)
    BY <1>7, <2>1 DEF handleCommandKey, Runes
  <2>3. /\ Has(p) /\ SameList(n, p) /\ SameFind(n, p) /\ SameDetail(n, p) /\ p.commandBuf = env.line
    BY <2>1 DEF ModelOk, Has, SameList, SameView, SameFind, SameDetail
  <2>4. rows(p) = rows(n)
    BY <2>3, SameRows DEF SameList
  <2>5. ModelOk(p)
    BY <2>3, <2>4 DEF ModelOk, SameList, SameView, SameFind, SameDetail, IsList, CursorOk, DetailOk, FindOk
  <2> QED BY <2>2, <2>3, <2>5, Reflexive, SameBefore, OnlyGood
<1>8. CASE key \notin Runes \cup {"backspace", "tab", "enter", "esc"}
  <2>1. handleCommandKey(n, key, env) = Only(n)
    BY <1>8 DEF handleCommandKey
  <2> QED BY <2>1, Reflexive, OnlyGood
<1> QED BY <1>5, <1>6, <1>7, <1>8

LEMMA handleListKeyGood ==
  ASSUME TuiAssumption, NEW n, ModelOk(n), NEW key, NEW env
  PROVE  Good(n, handleListKey(n, key, env))
<1>1. PICK p : p = [n EXCEPT !.pendingDD = @ /\ key = "d"]
  OBVIOUS
<1>2. Same(n, p)
  BY <1>1 DEF ModelOk, Has, Same, SameList, SameView, SameFind, SameDetail, SameLine
<1>3. ModelOk(p)
  BY <1>2, SameGood DEF GoodM
<1>0. rows(p) \in Nat /\ p.cursor \in Int /\ (p.cursor \in 0 .. rows(p) - 1 \/ (p.cursor = 0 /\ rows(p) = 0))
  BY <1>3, CursorInt DEF ModelOk, CursorOk
<1>4. PICK r : r = handleListKey(n, key, env)
  OBVIOUS
<1> SUFFICES Good(p, r)
  BY <1>2, <1>4, GoodBefore DEF Same
<1> USE DEF Up, Down
<1>5. CASE key = "d"
  <2>1. PICK f, t : f = [p EXCEPT !.pendingDD = FALSE] /\ t = [p EXCEPT !.pendingDD = TRUE]
    OBVIOUS
  <2>2. Same(p, f) /\ Same(p, t)
    BY <1>3, <2>1 DEF ModelOk, Has, Same, SameList, SameView, SameFind, SameDetail, SameLine
  <2>3. ModelOk(f)
    BY <1>3, <2>2, SameGood DEF GoodM
  <2>4. Good(p, removeTargets(f))
    BY <2>2, <2>3, removeTargetsGood, GoodBefore DEF Same
  <2>5. Good(p, Only(t))
    BY <1>3, <2>2, SameGood, OnlyGood
  <2>6. r = removeTargets(f) \/ r = Only(t)
    BY <1>1, <1>4, <1>5, <2>1 DEF handleListKey
  <2> QED BY <2>4, <2>5, <2>6
<1>6. CASE key = "q"
  <2>1. r = Only([p EXCEPT !.quitting = TRUE])
    BY <1>1, <1>4, <1>6 DEF handleListKey
  <2> QED BY <1>3, <2>1, FlagGood
<1>7. CASE key \in Up \cup Down \cup {"g", "G"}
  <2>1. PICK x : x = CASE key \in Up   -> IF p.cursor > 0 THEN p.cursor - 1 ELSE p.cursor
                       [] key \in Down -> IF p.cursor < rows(p) - 1 THEN p.cursor + 1 ELSE p.cursor
                       [] key = "g"    -> 0
                       [] key = "G"    -> IF rows(p) > 0 THEN rows(p) - 1 ELSE p.cursor
    OBVIOUS
  <2>2. x \in 0 .. rows(p) - 1 \/ (x = 0 /\ rows(p) = 0) \/ x = p.cursor
    <3>1. CASE key \in Up
      BY <1>0, <2>1, <3>1
    <3>2. CASE key \in Down
      BY <1>0, <2>1, <3>2
    <3>3. CASE key = "g"
      BY <1>0, <2>1, <3>3
    <3>4. CASE key = "G"
      BY <1>0, <2>1, <3>4
    <3> QED BY <1>7, <3>1, <3>2, <3>3, <3>4
  <2>3. r = syncDetail([p EXCEPT !.cursor = x])
    <3>1. CASE key \in Up
      BY <1>1, <1>4, <2>1, <3>1 DEF handleListKey
    <3>2. CASE key \in Down
      BY <1>1, <1>4, <2>1, <3>2 DEF handleListKey
    <3>3. CASE key = "g"
      BY <1>1, <1>4, <2>1, <3>3 DEF handleListKey
    <3>4. CASE key = "G"
      BY <1>1, <1>4, <2>1, <3>4 DEF handleListKey
    <3> QED BY <1>7, <3>1, <3>2, <3>3, <3>4
  <2>4. GoodM(p, [p EXCEPT !.cursor = x])
    BY <1>3, <2>2, CursorGood
  <2> QED BY <2>3, <2>4, SyncGood
<1>8. CASE key \in {"x", "D"}
  <2>1. r = removeTargets(p)
    BY <1>1, <1>4, <1>8 DEF handleListKey
  <2> QED BY <1>3, <2>1, removeTargetsGood
<1>9. CASE key \in {"X", "p", "r"}
  <2>1. PICK op : op = [do |-> IF key = "X" THEN "purge" ELSE IF key = "p" THEN "toggle" ELSE "recheck"]
    OBVIOUS
  <2>2. op.do # "label"
    BY <1>9, <2>1
  <2>3. r = actOnTargets(p, op)
    BY <1>1, <1>4, <1>9, <2>1 DEF handleListKey
  <2> QED BY <1>3, <2>2, <2>3, actOnTargetsGood
<1>10. CASE key \in {"v", "o", "f"}
  <2>1. r = previewFile(p) \/ r = onCursor(p, "open") \/ r = openFind(p)
    BY <1>1, <1>4, <1>10 DEF handleListKey
  <2> QED BY <1>3, <2>1, previewFileGood, onCursorGood, openFindGood
<1>11. CASE key = "esc"
  <2>1. r = Only(back(p))
    BY <1>1, <1>4, <1>11 DEF handleListKey
  <2> QED BY <1>3, <2>1, backGood, OnlyGood
<1>12. CASE key \in {"enter", "/", "h", "?"}
  <2>1. \/ r = Only([p EXCEPT !.focus = "detail"]) \/ r = Only([p EXCEPT !.mode = "search"])
        \/ r = Only([p EXCEPT !.showHelp = TRUE])
    BY <1>1, <1>4, <1>12 DEF handleListKey
  <2>2. Good(p, Only([p EXCEPT !.showHelp = TRUE]))
    BY <1>3, FlagGood
  <2>3. \A x : Good(p, Only([p EXCEPT !.focus = x])) /\ Good(p, Only([p EXCEPT !.mode = x]))
    BY <1>3, FlagGood
  <2> QED BY <2>1, <2>2, <2>3
<1>13. CASE key = ":"
  <2>1. PICK line : line = [name |-> "", args |-> <<>>]
    OBVIOUS
  <2>2. IsLine(line)
    BY <2>1 DEF IsLine
  <2>3. r = Only([p EXCEPT !.mode = "command", !.commandBuf = line])
    BY <1>1, <1>4, <1>13, <2>1 DEF handleListKey
  <2>4. PICK q : q = [p EXCEPT !.mode = "command", !.commandBuf = line]
    OBVIOUS
  <2>5. GoodM(p, q)
    BY <1>3, <2>2, <2>4, LineGood
  <2>6. Good(p, Only(q))
    BY <2>5, OnlyGood
  <2> QED BY <2>3, <2>4, <2>6
<1>14. CASE key = "space"
  <2>1. r = syncDetail(selectRow(p))
    BY <1>1, <1>4, <1>14 DEF handleListKey
  <2> QED BY <1>3, <2>1, selectRowGood, SyncGood
<1>15. CASE key \notin Up \cup Down \cup {"d", "q", "g", "G", "x", "D", "X", "p", "r", "v", "o", "f", "enter", "esc",
                        "/", ":", "h", "?", "space"}
  <2>1. r = Only(p)
    BY <1>1, <1>4, <1>15 DEF handleListKey
  <2> QED BY <1>3, <2>1, Reflexive, OnlyGood
<1> QED BY <1>5, <1>6, <1>7, <1>8, <1>9, <1>10, <1>11, <1>12, <1>13, <1>14, <1>15

LEMMA handleSidebarKeyGood ==
  ASSUME TuiAssumption, NEW n, ModelOk(n), NEW key, NEW env
  PROVE  Good(n, handleSidebarKey(n, key, env))
<1>1. \/ \E i : handleSidebarKey(n, key, env) = selectSidebar(n, i)
      \/ handleSidebarKey(n, key, env) = handleListKey(n, key, env)
  <2>1. CASE key \in {"k", "up"}
    BY <2>1 DEF handleSidebarKey, Up, Down
  <2>2. CASE key \in {"j", "down"}
    BY <2>2 DEF handleSidebarKey, Up, Down
  <2>3. CASE key = "g"
    BY <2>3 DEF handleSidebarKey, Up, Down
  <2>4. CASE key = "G"
    BY <2>4 DEF handleSidebarKey, Up, Down
  <2>5. CASE key \notin {"k", "up", "j", "down", "g", "G"}
    BY <2>5 DEF handleSidebarKey, Up, Down
  <2> QED BY <2>1, <2>2, <2>3, <2>4, <2>5
<1> QED BY <1>1, selectSidebarGood, handleListKeyGood

LEMMA handleDetailKeyGood ==
  ASSUME TuiAssumption, NEW n, ModelOk(n), NEW key, NEW env
  PROVE  Good(n, handleDetailKey(n, key, env))
<1> USE DEF Up, Down
<1>0. n.detailCursor \in Nat /\ Len(n.detail.files) \in Nat
  BY FilesOk
<1>1. CASE key \in Up
  <2>1. PICK x : x = IF n.detailTab = "Files" /\ n.detailCursor > 0 THEN n.detailCursor - 1 ELSE n.detailCursor
    OBVIOUS
  <2>2. handleDetailKey(n, key, env) = Only([n EXCEPT !.detailCursor = x])
    BY <1>1, <2>1 DEF handleDetailKey
  <2>3. x \in Nat
    BY <1>0, <2>1
  <2> QED BY <2>2, <2>3, DetailCursorGood, OnlyGood
<1>2. CASE key \in Down
  <2>1. PICK x : x = IF n.detailTab = "Files" /\ n.detailCursor < Len(n.detail.files) - 1
                     THEN n.detailCursor + 1 ELSE n.detailCursor
    OBVIOUS
  <2>2. handleDetailKey(n, key, env) = Only([n EXCEPT !.detailCursor = x])
    BY <1>2, <2>1 DEF handleDetailKey
  <2>3. x \in Nat
    BY <1>0, <2>1
  <2> QED BY <2>2, <2>3, DetailCursorGood, OnlyGood
<1>3. CASE key = "space" /\ n.detailTab = "Files"
  BY <1>3, toggleFileWantedGood DEF handleDetailKey
<1>4. CASE key = "+"
  BY <1>4, adjustFilePriorityGood DEF handleDetailKey
<1>5. CASE key = "-"
  BY <1>5, adjustFilePriorityGood DEF handleDetailKey
<1>6. CASE key \notin Up \cup Down \cup {"+", "-"} /\ ~(key = "space" /\ n.detailTab = "Files")
  BY <1>6, handleListKeyGood DEF handleDetailKey
<1> QED BY <1>1, <1>2, <1>3, <1>4, <1>5, <1>6

LEMMA handlePaneKeyGood ==
  ASSUME TuiAssumption, NEW n, ModelOk(n), NEW key, NEW env
  PROVE  Good(n, handlePaneKey(n, key, env))
<1>1. CASE key = "tab"
  BY <1>1, FlagGood DEF handlePaneKey
<1>2. CASE key = "shift+tab"
  BY <1>2, FlagGood DEF handlePaneKey
<1>3. CASE key \in {"]", "["}
  BY <1>3, FlagGood DEF handlePaneKey
<1>4. CASE key = "}"
  BY <1>4, selectSidebarGood DEF handlePaneKey
<1>5. CASE key = "{"
  BY <1>5, selectSidebarGood DEF handlePaneKey
<1>6. CASE key = "m"
  BY <1>6, FlagGood DEF handlePaneKey
<1>7. CASE key \in {"1", "2", "3"}
  BY <1>7, FlagGood DEF handlePaneKey
<1>8. CASE key \notin {"tab", "shift+tab", "]", "[", "}", "{", "m", "1", "2", "3"}
  BY <1>8, handleSidebarKeyGood, handleDetailKeyGood, handleListKeyGood DEF handlePaneKey
<1> QED BY <1>1, <1>2, <1>3, <1>4, <1>5, <1>6, <1>7, <1>8

LEMMA handleKeyGood ==
  ASSUME TuiAssumption, NEW n, ModelOk(n), NEW key, NEW env, IsLine(env.line)
  PROVE  Good(n, handleKey(n, key, env))
<1>1. CASE key = "ctrl+c"
  BY <1>1, FlagGood DEF handleKey
<1>2. CASE key # "ctrl+c" /\ Overlay(n)
  <2>1. \/ handleKey(n, key, env) = Only([n EXCEPT !.showHelp = FALSE])
        \/ handleKey(n, key, env) = handleThemeKey(n, key, env.disk)
        \/ handleKey(n, key, env) = handleFindKey(n, key)
    BY <1>2 DEF handleKey, handleOverlayKey
  <2>2. Good(n, Only([n EXCEPT !.showHelp = FALSE]))
    BY FlagGood
  <2>3. Good(n, handleThemeKey(n, key, env.disk)) /\ Good(n, handleFindKey(n, key))
    BY handleThemeKeyGood, handleFindKeyGood
  <2> QED BY <2>1, <2>2, <2>3
<1>3. CASE key # "ctrl+c" /\ ~Overlay(n)
  <2>1. \/ handleKey(n, key, env) = handleSearchKey(n, key)
        \/ handleKey(n, key, env) = handleCommandKey(n, key, env)
        \/ handleKey(n, key, env) = handleFindPromptKey(n, key)
        \/ handleKey(n, key, env) = handlePaneKey(n, key, env)
    BY <1>3 DEF handleKey, handlePromptKey
  <2>2. n.findState = "closed"
    BY <1>3 DEF Overlay
  <2> QED BY <2>1, <2>2, handleSearchKeyGood, handleCommandKeyGood, handleFindPromptKeyGood, handlePaneKeyGood
<1> QED BY <1>1, <1>2, <1>3

-----------------------------------------------------------------------------
(* The mouse.                                                              *)

LEMMA SyncAt ==
  ASSUME NEW n, ModelOk(n), NEW x \in 0 .. rows(n) - 1
  PROVE  Good(n, syncDetail([n EXCEPT !.cursor = x]))
<1>1. PICK p : p = [n EXCEPT !.cursor = x]
  OBVIOUS
<1>2. GoodM(n, p)
  BY <1>1, CursorGood
<1> QED BY <1>1, <1>2, SyncGood

LEMMA scrollTargetGood ==
  ASSUME TuiAssumption, NEW n, ModelOk(n), NEW ev, ev.wheel \in {-1, 0, 1}
  PROVE  Good(n, scrollTarget(n, ev))
<1>1. CASE ev.target = "sidebar"
  <2>1. scrollTarget(n, ev) = selectSidebar(n, currentSidebarIndex(n) + ev.wheel)
    BY <1>1 DEF scrollTarget
  <2> QED BY <2>1, selectSidebarGood
<1>2. CASE ev.target = "list" /\ rows(n) > 0
  <2>1. PICK p : p = [n EXCEPT !.cursor = @ + ev.wheel]
    OBVIOUS
  <2>2. /\ Has(p) /\ SameView(n, p) /\ p.selected = n.selected /\ SameFind(n, p) /\ SameDetail(n, p)
        /\ SameLine(n, p) /\ p.cursor = n.cursor + ev.wheel
    BY <2>1 DEF ModelOk, Has, SameView, SameFind, SameDetail, SameLine
  <2>3. p.cursor \in Int
    BY <2>2, CursorInt
  <2>4. HiddenMarks(p) = HiddenMarks(n)
    BY <2>2, SameRows DEF HiddenMarks, SameView
  <2>5. GoodM(n, clampCursor(p))
    BY <2>2, <2>3, <2>4, ClampGood DEF SameView
  <2>6. scrollTarget(n, ev) = syncDetail(clampCursor(p))
    BY <1>2, <2>1 DEF scrollTarget
  <2> QED BY <2>5, <2>6, SyncGood
<1>3. CASE ev.target # "sidebar" /\ ~(ev.target = "list" /\ rows(n) > 0)
  <2>1. scrollTarget(n, ev) = Only(n)
    BY <1>3 DEF scrollTarget
  <2> QED BY <2>1, Reflexive, OnlyGood
<1> QED BY <1>1, <1>2, <1>3

(* A window starts at a row, and has the cursor in it.                     *)
LEMMA WindowHasCursor ==
  ASSUME NEW h \in Nat \ {0}, NEW n \in Nat, NEW c \in Nat, c < n \/ n = 0
  PROVE  LET start == scrollWindow(c, n, h)
         IN  /\ start \in Nat
             /\ n > 0 => c \in start .. start + h - 1 /\ (start > 0 => start + h <= n)
<1>1. PICK half : half = h \div 2
  OBVIOUS
<1>2. half \in Nat /\ half < h
  BY <1>1
<1>3. CASE n <= h
  <2>1. scrollWindow(c, n, h) = 0
    BY <1>3 DEF scrollWindow
  <2> QED BY <1>3, <2>1
<1>4. CASE n > h
  <2>1. PICK i, k : i = c - half /\ k = n - h + 1
    OBVIOUS
  <2>2. i \in Int /\ k \in Nat /\ k > 0 /\ k = n - h + 1
    BY <1>2, <1>4, <2>1
  <2>3. PICK s : s = Clamped(i, k)
    OBVIOUS
  <2>4. scrollWindow(c, n, h) = s
    BY <1>1, <1>4, <2>1, <2>3 DEF scrollWindow
  <2>5. s = IF i < 0 THEN 0 ELSE IF i >= k THEN k - 1 ELSE i
    BY <2>2, <2>3 DEF Clamped
  <2>6. s \in Nat /\ c \in s .. s + h - 1 /\ s + h <= n
    BY <1>2, <1>4, <2>1, <2>2, <2>5
  <2> QED BY <2>4, <2>6
<1> QED BY <1>3, <1>4

LEMMA FocusSame ==
  ASSUME NEW n, ModelOk(n), NEW f
  PROVE  LET p == [n EXCEPT !.focus = f]
         IN  Same(n, p) /\ ModelOk(p) /\ p.detailTab = n.detailTab
<1>1. PICK p : p = [n EXCEPT !.focus = f]
  OBVIOUS
<1>2. Same(n, p) /\ p.detailTab = n.detailTab
  BY <1>1 DEF ModelOk, Has, Same, SameList, SameView, SameFind, SameDetail, SameLine
<1>3. ModelOk(p)
  BY <1>2, SameGood DEF GoodM
<1> QED BY <1>1, <1>2, <1>3

LEMMA clickTargetGood ==
  ASSUME TuiAssumption, NEW n, ModelOk(n), NEW ev, ev.row \in Nat
  PROVE  Good(n, clickTarget(n, ev))
<1>1. CASE ev.target = "sidebar" /\ ev.row < Len(sidebarEntries(n))
  <2>1. PICK p : p = [n EXCEPT !.focus = "sidebar"]
    OBVIOUS
  <2>2. Same(n, p) /\ ModelOk(p)
    BY <2>1, FocusSame
  <2>3. Good(p, selectSidebar(p, ev.row))
    BY <2>2, selectSidebarGood
  <2>4. clickTarget(n, ev) = selectSidebar(p, ev.row)
    BY <1>1, <2>1 DEF clickTarget
  <2> QED BY <2>2, <2>3, <2>4, GoodBefore DEF Same
<1>2. CASE ev.target = "list"
  <2>1. PICK at : at = scrollWindow(n.cursor, rows(n), ListRows) + ev.row
    OBVIOUS
  <2>2. CASE at < rows(n)
    <3>1. PICK p : p = [n EXCEPT !.focus = "list"]
      OBVIOUS
    <3>2. Same(n, p) /\ ModelOk(p)
      BY <3>1, FocusSame
    <3>3. rows(n) \in Nat /\ n.cursor \in Nat /\ (n.cursor < rows(n) \/ rows(n) = 0)
      BY CursorInt DEF ModelOk, CursorOk
    <3>4. scrollWindow(n.cursor, rows(n), ListRows) \in Nat
      BY <3>3, WindowHasCursor DEF TuiAssumption
    <3>5. at \in 0 .. rows(n) - 1
      BY <2>1, <2>2, <3>3, <3>4
    <3>6. rows(p) = rows(n)
      BY <3>2, SameRows DEF Same, SameList
    <3>7. Good(p, syncDetail([p EXCEPT !.cursor = at]))
      BY <3>2, <3>5, <3>6, SyncAt
    <3>8. [p EXCEPT !.cursor = at] = [n EXCEPT !.focus = "list", !.cursor = at]
      BY <3>1 DEF ModelOk, Has
    <3>9. clickTarget(n, ev) = syncDetail([n EXCEPT !.focus = "list", !.cursor = at])
      BY <1>2, <2>1, <2>2 DEF clickTarget
    <3>10. Good(p, clickTarget(n, ev))
      BY <3>7, <3>8, <3>9
    <3> QED BY <3>2, <3>10, GoodBefore DEF Same
  <2>3. CASE ~(at < rows(n))
    <3>1. clickTarget(n, ev) = Only(n)
      BY <1>2, <2>1, <2>3 DEF clickTarget
    <3> QED BY <3>1, Reflexive, OnlyGood
  <2> QED BY <2>2, <2>3
<1>3. CASE ev.target = "tabs" /\ ev.row < Len(Tabs)
  <2>1. PICK p : p = [n EXCEPT !.focus = "detail"]
    OBVIOUS
  <2>2. Same(n, p) /\ ModelOk(p)
    BY <2>1, FocusSame
  <2>3. Good(p, setDetailTab(p, Tabs[ev.row + 1]))
    BY <2>2, FlagGood
  <2>4. clickTarget(n, ev) = setDetailTab(p, Tabs[ev.row + 1])
    BY <1>3, <2>1 DEF clickTarget
  <2> QED BY <2>2, <2>3, <2>4, GoodBefore DEF Same
<1>4. CASE ev.target = "body"
  <2>1. PICK x : x = IF n.detailTab = "Files" /\ ev.row < Len(n.detail.files) THEN ev.row ELSE n.detailCursor
    OBVIOUS
  <2>2. x \in Nat
    BY <2>1, FilesOk
  <2>3. PICK p : p = [n EXCEPT !.focus = "detail"]
    OBVIOUS
  <2>4. Same(n, p) /\ ModelOk(p)
    BY <2>3, FocusSame
  <2>5. GoodM(p, [p EXCEPT !.detailCursor = x])
    BY <2>2, <2>4, DetailCursorGood
  <2>6. PICK q : q = [n EXCEPT !.focus = "detail", !.detailCursor = x]
    OBVIOUS
  <2>7. q = [p EXCEPT !.detailCursor = x]
    BY <2>3, <2>6 DEF ModelOk, Has
  <2>8. Good(p, Only(q))
    BY <2>5, <2>7, OnlyGood
  <2>9. clickTarget(n, ev) = Only(q)
    BY <1>4, <2>1, <2>6 DEF clickTarget
  <2> QED BY <2>4, <2>8, <2>9, GoodBefore DEF Same
<1>5. CASE /\ ev.target \notin {"list", "body"}
           /\ ~(ev.target = "sidebar" /\ ev.row < Len(sidebarEntries(n)))
           /\ ~(ev.target = "tabs" /\ ev.row < Len(Tabs))
  <2>1. clickTarget(n, ev) = Only(n)
    BY <1>5 DEF clickTarget
  <2> QED BY <2>1, Reflexive, OnlyGood
<1> QED BY <1>1, <1>2, <1>3, <1>4, <1>5

LEMMA handleMouseGood ==
  ASSUME TuiAssumption, NEW n, ModelOk(n), NEW ev, ev.row \in Nat, ev.wheel \in {-1, 0, 1}
  PROVE  Good(n, handleMouse(n, ev))
<1>1. \/ handleMouse(n, ev) = Only(n) \/ handleMouse(n, ev) = scrollTarget(n, ev)
      \/ handleMouse(n, ev) = clickTarget(n, ev)
  BY DEF handleMouse
<1> QED BY <1>1, Reflexive, OnlyGood, scrollTargetGood, clickTargetGood

-----------------------------------------------------------------------------
(* Update, and the messages the commands send.                             *)

MsgOk(n, g) ==
  /\ g.k = "event"  => IsList(g.list)
  /\ g.k = "find"   => IsFindReply(n, g)
  /\ g.k = "detail" => IsDetailReply(g)

LEMMA UpdateGood ==
  ASSUME TuiAssumption, NEW n, ModelOk(n), NEW g, MsgOk(n, g)
  PROVE  Good(n, Update(n, g)) /\ (g.k = "event" => Revealed(n, Update(n, g).m))
<1>1. CASE g.k = "event"
  <2>1. Update(n, g) = engineEvent(n, g.list)
    BY <1>1 DEF Update
  <2> QED BY <1>1, <2>1, engineEventGood DEF MsgOk
<1>2. CASE g.k = "closed"
  <2>1. PICK p : p = [n EXCEPT !.status = "lost", !.daemonDown = TRUE]
    OBVIOUS
  <2>2. Same(n, p)
    BY <2>1 DEF ModelOk, Has, Same, SameList, SameView, SameFind, SameDetail, SameLine
  <2>3. Update(n, g) = Only(p)
    BY <1>2, <2>1 DEF Update
  <2> QED BY <1>2, <2>2, <2>3, SameGood, OnlyGood
<1>3. CASE g.k = "added"
  <2>1. PICK p : p = [n EXCEPT !.pendingReveal = g.ids]
    OBVIOUS
  <2>2. Same(n, p)
    BY <2>1 DEF ModelOk, Has, Same, SameList, SameView, SameFind, SameDetail, SameLine
  <2>3. Update(n, g) = setStatus(p, "ok")
    BY <1>3, <2>1 DEF Update, torrentsAdded
  <2> QED BY <1>3, <2>2, <2>3, SameGood, StatusGood
<1>4. CASE g.k = "find"
  <2>1. Update(n, g) = Only(applyFindResults(n, g))
    BY <1>4 DEF Update
  <2> QED BY <1>4, <2>1, applyFindResultsGood, OnlyGood DEF MsgOk
<1>5. CASE g.k = "detail"
  <2>1. Update(n, g) = detailLoaded(n, g)
    BY <1>5 DEF Update
  <2> QED BY <1>5, <2>1, detailLoadedGood DEF MsgOk
<1>6. CASE g.k \notin {"event", "closed", "added", "find", "detail"}
  <2>1. Update(n, g) = setStatus(n, g.s)
    BY <1>6 DEF Update
  <2> QED BY <1>6, <2>1, Reflexive, StatusGood
<1> QED BY <1>1, <1>2, <1>3, <1>4, <1>5, <1>6

(* A command that still runs keeps its invariant through every good step.  *)
LEMMA CmdKept ==
  ASSUME NEW n, NEW p, ModelOk(n), GoodM(n, p), NEW c, CmdOk(n, c)
  PROVE  CmdOk(p, c)
BY DEF CmdOk, GoodM, ModelOk, FindOk, FindStep

-----------------------------------------------------------------------------
(* The bag of commands.                                                    *)

LEMMA BagAdds == \A B, S : BagToSet(B (+) OneEach(S)) = BagToSet(B) \cup S
BY DEF BagToSet, (+), OneEach, SetToBag

LEMMA BagDrops == \A B, c : BagToSet(B (-) One(c)) \subseteq BagToSet(B)
BY DEF BagToSet, (-), One, SetToBag

-----------------------------------------------------------------------------
(* The daemon's torrents.                                                  *)

LEMMA PausedIs ==
  ASSUME NEW id, NEW t \in Torrents(id), NEW b
  PROVE  Paused(t, ~b) \in Torrents(id)
<1>1. StateOf(t, ~b) \in States
  BY DEF Torrents, States, StateOf
<1>2. (~b) \in BOOLEAN
  OBVIOUS
<1> QED BY <1>1, <1>2 DEF Paused, Torrents

LEMMA WorldWith ==
  ASSUME IsWorld(world), NEW id \in Ids, NEW t \in Torrents(id),
         NEW w, DOMAIN w = DOMAIN world \cup {id}, w[id] = t, \A j \in DOMAIN world : j # id => w[j] = world[j]
  PROVE  IsWorld(w)
BY DEF IsWorld

LEMMA WorldWithout ==
  ASSUME IsWorld(world), NEW id
  PROVE  IsWorld([j \in DOMAIN world \ {id} |-> world[j]])
BY DEF IsWorld

LEMMA ServedIs ==
  ASSUME IsWorld(world), NEW id \in DOMAIN world, NEW op, NEW was,
         op.do = "label" => op.label \in LabelNames \cup {NoLabel}
  PROVE  IsWorld(Served(op, id, was))
<1>1. PICK t : t = world[id]
  OBVIOUS
<1>2. id \in Ids /\ t \in Torrents(id)
  BY <1>1 DEF IsWorld
<1>3. CASE op.do = "remove"
  <2>1. Served(op, id, was) = [j \in DOMAIN world \ {id} |-> world[j]]
    BY <1>3 DEF Served
  <2> QED BY <2>1, WorldWithout
<1>4. ASSUME NEW p \in Torrents(id), Served(op, id, was) = [world EXCEPT ![id] = p]
      PROVE  IsWorld(Served(op, id, was))
  <2>1. PICK w : w = [world EXCEPT ![id] = p]
    OBVIOUS
  <2>2. DOMAIN w = DOMAIN world \cup {id} /\ w[id] = p /\ \A j \in DOMAIN world : j # id => w[j] = world[j]
    BY <2>1
  <2>3. IsWorld(w)
    BY <1>2, <2>2, WorldWith
  <2> QED BY <1>4, <2>1, <2>3
<1>5. CASE op.do = "purge"
  <2>1. PICK u : u = [t EXCEPT !.done = FALSE]
    OBVIOUS
  <2>2. u \in Torrents(id)
    BY <1>2, <2>1 DEF Torrents
  <2>3. PICK p : p = Paused(u, ~FALSE)
    OBVIOUS
  <2>4. p \in Torrents(id)
    BY <2>2, <2>3, PausedIs
  <2>5. Served(op, id, was) = [world EXCEPT ![id] = p]
    BY <1>1, <1>5, <2>1, <2>3 DEF Served
  <2> QED BY <1>4, <2>4, <2>5
<1>6. CASE op.do = "toggle"
  <2>1. PICK p : p = Paused(t, ~was)
    OBVIOUS
  <2>2. p \in Torrents(id)
    BY <1>2, <2>1, PausedIs
  <2>3. Served(op, id, was) = [world EXCEPT ![id] = p]
    BY <1>1, <1>6, <2>1 DEF Served
  <2> QED BY <1>4, <2>2, <2>3
<1>7. CASE op.do \in {"pause", "resume"}
  <2>1. PICK p : p = Paused(t, ~(op.do # "pause"))
    OBVIOUS
  <2>2. p \in Torrents(id)
    BY <1>2, <2>1, PausedIs
  <2>3. (~(op.do # "pause")) = (op.do = "pause")
    OBVIOUS
  <2>4. Served(op, id, was) = [world EXCEPT ![id] = p]
    BY <1>1, <1>7, <2>1, <2>3 DEF Served
  <2> QED BY <1>4, <2>2, <2>4
<1>8. CASE op.do = "label"
  <2>1. PICK p : p = [t EXCEPT !.label = op.label]
    OBVIOUS
  <2>2. p \in Torrents(id)
    BY <1>2, <1>8, <2>1 DEF Torrents
  <2>3. Served(op, id, was) = [world EXCEPT ![id] = p]
    BY <1>1, <1>8, <2>1 DEF Served
  <2> QED BY <1>4, <2>2, <2>3
<1>9. CASE op.do \notin {"remove", "purge", "toggle", "pause", "resume", "label"}
  <2>1. Served(op, id, was) = world
    BY <1>9 DEF Served
  <2> QED BY <2>1
<1> QED BY <1>3, <1>5, <1>6, <1>7, <1>8, <1>9

LEMMA NewTorrentIs ==
  ASSUME NEW id \in Ids
  PROVE  NewTorrent(id) \in Torrents(id)
BY DEF NewTorrent, Torrents, States

LEMMA SnapshotIs ==
  ASSUME IsWorld(world), NEW id \in DOMAIN world
  PROVE  SnapshotOf(id) \in Snapshots /\ SnapshotOf(id).id = id
<1>1. id \in Ids /\ world[id] \in Torrents(id)
  BY DEF IsWorld
<1> QED BY <1>1 DEF SnapshotOf, Snapshots, Torrents

LEMMA PushedIs ==
  ASSUME TuiAssumption, IsWorld(world), NEW o \in Orders(DOMAIN world)
  PROVE  IsList([i \in DOMAIN o |-> SnapshotOf(o[i])])
<1>1. IsFiniteSet(DOMAIN world)
  BY FS_Subset DEF IsWorld, TuiAssumption
<1>2. PICK k \in Nat : k = Cardinality(DOMAIN world)
  BY <1>1, FS_CardinalityType
<1>3. o \in [1 .. k -> DOMAIN world] /\ \A i, j \in DOMAIN o : i # j => o[i] # o[j]
  BY <1>2 DEF Orders
<1>4. PICK list : list = [i \in DOMAIN o |-> SnapshotOf(o[i])]
  OBVIOUS
<1>5. DOMAIN list = 1 .. k /\ \A i \in 1 .. k : list[i] = SnapshotOf(o[i]) /\ o[i] \in DOMAIN world
  BY <1>3, <1>4
<1>6. \A i \in 1 .. k : list[i] \in Snapshots /\ list[i].id = o[i]
  BY <1>5, SnapshotIs
<1>7. list \in [1 .. k -> Snapshots]
  BY <1>3, <1>4, <1>5, <1>6
<1>8. list \in Seq(Snapshots)
  BY <1>7
<1>9. \A i, j \in DOMAIN list : list[i].id = list[j].id => i = j
  BY <1>3, <1>5, <1>6
<1> QED BY <1>4, <1>8, <1>9 DEF IsList

LEMMA FilesAre ==
  ASSUME TuiAssumption, IsWorld(world), NEW id \in DOMAIN world
  PROVE  LET d == [id |-> id, files |-> [i \in DOMAIN world[id].files |->
                                          [of |-> id, i |-> i, prio |-> world[id].files[i]]]]
         IN  IsDetail(d) /\ d.id = id /\ \A i \in DOMAIN d.files : d.files[i].of = id
<1>1. id \in Ids /\ world[id] \in Torrents(id)
  BY DEF IsWorld
<1>2. world[id].files \in [DOMAIN FileLen[id] -> 0 .. 4]
  BY <1>1 DEF Torrents
<1>3. FileLen[id] \in Seq(Nat)
  BY <1>1 DEF TuiAssumption
<1>4. PICK k \in Nat : DOMAIN FileLen[id] = 1 .. k
  BY <1>3
<1>5. PICK files : files = [i \in DOMAIN world[id].files |-> [of |-> id, i |-> i, prio |-> world[id].files[i]]]
  OBVIOUS
<1>6. DOMAIN files = 1 .. k /\ \A i \in 1 .. k : files[i] = [of |-> id, i |-> i, prio |-> world[id].files[i]]
  BY <1>2, <1>4, <1>5
<1>7. \A i \in 1 .. k : files[i] \in Refs /\ files[i].of = id
  BY <1>1, <1>2, <1>4, <1>6 DEF Refs
<1>8. files \in [1 .. k -> Refs]
  BY <1>5, <1>6, <1>7
<1>9. files \in Seq(Refs)
  BY <1>8
<1>10. PICK d : d = [id |-> id, files |-> files]
  OBVIOUS
<1>11. IsDetail(d) /\ d.id = id /\ \A i \in DOMAIN d.files : d.files[i].of = id
  BY <1>6, <1>7, <1>9, <1>10 DEF IsDetail
<1> QED BY <1>5, <1>10, <1>11

LEMMA PriorityIs ==
  ASSUME IsWorld(world), NEW id \in DOMAIN world, NEW i \in DOMAIN world[id].files, NEW p \in 0 .. 4
  PROVE  IsWorld([world EXCEPT ![id].files[i] = p])
<1>1. id \in Ids /\ world[id] \in Torrents(id)
  BY DEF IsWorld
<1>2. PICK t : t = [world[id] EXCEPT !.files = [world[id].files EXCEPT ![i] = p]]
  OBVIOUS
<1>3. world[id].files \in [DOMAIN FileLen[id] -> 0 .. 4]
  BY <1>1 DEF Torrents
<1>4. [world[id].files EXCEPT ![i] = p] \in [DOMAIN FileLen[id] -> 0 .. 4]
  BY <1>3
<1>5. t \in Torrents(id)
  BY <1>1, <1>2, <1>4 DEF Torrents
<1>6. PICK w : w = [world EXCEPT ![id].files[i] = p]
  OBVIOUS
<1>7. w = [world EXCEPT ![id] = t]
  BY <1>2, <1>6
<1>8. DOMAIN w = DOMAIN world \cup {id} /\ w[id] = t /\ \A j \in DOMAIN world : j # id => w[j] = world[j]
  BY <1>7
<1>9. IsWorld(w)
  BY <1>1, <1>5, <1>8, WorldWith
<1> QED BY <1>6, <1>9

-----------------------------------------------------------------------------
(* The invariant of the system.                                            *)

CmdsOk == \A c \in BagToSet(cmds) : CmdOk(m, c)
Inv ==
  /\ ModelOk(m) /\ CmdsOk
  /\ IsWorld(world) /\ (chan # <<>> => IsList(chan[1])) /\ scene \in Scenes

(* What a step does to the Model and its commands.                         *)
ModelStep == GoodM(m, m') /\ CmdsOk'

LEMMA Taken ==
  ASSUME Inv, NEW r, Good(m, r), Take(r)
  PROVE  ModelStep
<1>1. m' = r.m /\ GoodM(m, m')
  BY DEF Take, Good
<1>2. BagToSet(cmds') = BagToSet(cmds) \cup r.c
  BY BagAdds DEF Take
<1>3. \A c \in BagToSet(cmds) : CmdOk(m', c)
  BY <1>1, CmdKept DEF Inv, CmdsOk
<1>4. \A c \in r.c : CmdOk(m', c)
  BY <1>1 DEF Good
<1> QED BY <1>1, <1>2, <1>3, <1>4 DEF ModelStep, CmdsOk

LEMMA Replied ==
  ASSUME TuiAssumption, Inv, NEW c, NEW g, MsgOk(m, g), Reply(c, g)
  PROVE  ModelStep /\ (g.k = "event" => Revealed(m, m'))
<1>1. PICK r : r = Update(m, g)
  OBVIOUS
<1>2. Good(m, r) /\ (g.k = "event" => Revealed(m, r.m))
  BY <1>1, UpdateGood DEF Inv
<1>3. m' = r.m /\ cmds' = (cmds (-) One(c)) (+) OneEach(r.c)
  BY <1>1 DEF Reply
<1>4. GoodM(m, m') /\ \A d \in r.c : CmdOk(m', d)
  BY <1>2, <1>3 DEF Good
<1>5. BagToSet(cmds') \subseteq BagToSet(cmds) \cup r.c
  BY <1>3, BagAdds, BagDrops
<1>6. \A d \in BagToSet(cmds) : CmdOk(m', d)
  BY <1>4, CmdKept DEF Inv, CmdsOk
<1> QED BY <1>2, <1>3, <1>4, <1>5, <1>6 DEF ModelStep, CmdsOk

LEMMA Became ==
  ASSUME Inv, NEW c, NEW d, CmdOk(m, d), Becomes(c, d)
  PROVE  ModelStep
<1>1. m' = m /\ BagToSet(cmds') \subseteq BagToSet(cmds) \cup {d}
  <2>1. m' = m /\ cmds' = (cmds (-) One(c)) (+) OneEach({d})
    BY DEF Becomes, One, OneEach
  <2> QED BY <2>1, BagAdds, BagDrops
<1>2. GoodM(m, m')
  BY <1>1, Reflexive DEF Inv
<1> QED BY <1>1, <1>2 DEF ModelStep, CmdsOk, Inv

LEMMA StatusIs == \A s : MsgOk(m, Status(s))
BY DEF MsgOk, Status

-----------------------------------------------------------------------------
(* The commands.                                                           *)

LEMMA BatchStep ==
  ASSUME TuiAssumption, Inv, NEW c \in BagToSet(cmds), RunBatch(c)
  PROVE  ModelStep /\ IsWorld(world')
<1>1. CmdOk(m, c) /\ IsWorld(world) /\ c.k = "batch"
  BY DEF Inv, CmdsOk, RunBatch
<1>2. CASE c.ids = <<>>
  <2>1. PICK s : s = IF c.ok THEN "ok" ELSE "err"
    OBVIOUS
  <2>2. Reply(c, Status(s)) /\ world' = world
    BY <1>2, <2>1 DEF RunBatch
  <2> QED BY <1>1, <2>2, Replied, StatusIs
<1>3. CASE c.ids # <<>>
  <2>1. PICK ok \in BOOLEAN :
          /\ MayGo(c.ids[1][1], ok)
          /\ world' = IF ok THEN Served(c.op, c.ids[1][1], c.ids[1][2]) ELSE world
          /\ Becomes(c, [c EXCEPT !.ids = Tail(@), !.ok = @ /\ ok])
    BY <1>3 DEF RunBatch
  <2>2. PICK d : d = [c EXCEPT !.ids = Tail(@), !.ok = @ /\ ok]
    OBVIOUS
  <2>3. d.k = "batch" /\ d.op = c.op /\ "k" \in DOMAIN d /\ "op" \in DOMAIN d
    BY <1>1, <2>2 DEF CmdOk
  <2>4. CmdOk(m, d)
    BY <1>1, <2>3 DEF CmdOk
  <2>5. ModelStep
    BY <2>1, <2>2, <2>4, Became
  <2>6. IsWorld(world')
    <3>1. CASE ok
      <4>1. c.ids[1][1] \in DOMAIN world
        BY <2>1, <3>1 DEF MayGo
      <4>2. c.op.do = "label" => c.op.label \in LabelNames \cup {NoLabel}
        BY <1>1 DEF CmdOk
      <4>3. IsWorld(Served(c.op, c.ids[1][1], c.ids[1][2]))
        BY <1>1, <4>1, <4>2, ServedIs
      <4> QED BY <2>1, <3>1, <4>3
    <3>2. CASE ~ok
      BY <1>1, <2>1, <3>2
    <3> QED BY <3>1, <3>2
  <2> QED BY <2>5, <2>6
<1> QED BY <1>2, <1>3

LEMMA AddStep ==
  ASSUME TuiAssumption, Inv, NEW c \in BagToSet(cmds), RunAdd(c)
  PROVE  ModelStep /\ IsWorld(world')
<1>1. CmdOk(m, c) /\ IsWorld(world) /\ c.k = "add"
  BY DEF Inv, CmdsOk, RunAdd
<1>2. ASSUME NEW id \in c.links,
             world' = IF id \in DOMAIN world THEN world
                      ELSE [j \in DOMAIN world \cup {id} |-> IF j = id THEN NewTorrent(id) ELSE world[j]],
             Becomes(c, [c EXCEPT !.links = @ \ {id}, !.ids = @ \cup {id}])
      PROVE  ModelStep /\ IsWorld(world')
  <2>1. PICK d : d = [c EXCEPT !.links = @ \ {id}, !.ids = @ \cup {id}]
    OBVIOUS
  <2>2. d.k = "add" /\ d.links = c.links \ {id} /\ "k" \in DOMAIN d /\ "links" \in DOMAIN d
    BY <1>1, <2>1 DEF CmdOk
  <2>3. CmdOk(m, d)
    BY <1>1, <2>2 DEF CmdOk
  <2>4. ModelStep
    BY <1>2, <2>1, <2>3, Became
  <2>5. CASE id \in DOMAIN world
    BY <1>1, <1>2, <2>4, <2>5
  <2>6. CASE id \notin DOMAIN world
    <3>1. PICK w : w = [j \in DOMAIN world \cup {id} |-> IF j = id THEN NewTorrent(id) ELSE world[j]]
      OBVIOUS
    <3>2. DOMAIN w = DOMAIN world \cup {id} /\ w[id] = NewTorrent(id) /\ \A j \in DOMAIN world : j # id => w[j] = world[j]
      BY <3>1
    <3>3. id \in Ids
      BY <1>1 DEF CmdOk
    <3>4. IsWorld(w)
      BY <1>1, <3>2, <3>3, NewTorrentIs, WorldWith
    <3> QED BY <1>2, <2>4, <2>6, <3>1, <3>4
  <2> QED BY <2>5, <2>6
<1>3. ASSUME Reply(c, [k |-> "added", ids |-> c.ids]), world' = world
      PROVE  ModelStep /\ IsWorld(world')
  <2>1. MsgOk(m, [k |-> "added", ids |-> c.ids])
    BY DEF MsgOk
  <2> QED BY <1>1, <1>3, <2>1, Replied
<1>4. ASSUME Reply(c, Status("err")), world' = world
      PROVE  ModelStep /\ IsWorld(world')
  BY <1>1, <1>4, StatusIs, Replied
<1> QED BY <1>2, <1>3, <1>4 DEF RunAdd

LEMMA DetailStep ==
  ASSUME TuiAssumption, Inv, NEW c \in BagToSet(cmds), RunDetail(c)
  PROVE  ModelStep /\ IsWorld(world')
<1>1. IsWorld(world) /\ world' = world
  BY DEF Inv, RunDetail
<1>2. PICK ok \in BOOLEAN :
        /\ MayGo(c.id, ok)
        /\ Reply(c, [k |-> "detail", ok |-> ok, detail |->
             IF ~ok THEN NoDetail
             ELSE [id |-> c.id, files |-> [i \in DOMAIN world[c.id].files |->
                                            [of |-> c.id, i |-> i, prio |-> world[c.id].files[i]]]]])
  BY DEF RunDetail
<1>3. PICK d : d = IF ~ok THEN NoDetail
                   ELSE [id |-> c.id, files |-> [i \in DOMAIN world[c.id].files |->
                                                  [of |-> c.id, i |-> i, prio |-> world[c.id].files[i]]]]
  OBVIOUS
<1>4. PICK g : g = [k |-> "detail", ok |-> ok, detail |-> d]
  OBVIOUS
<1>5. ok => IsDetail(d) /\ \A i \in DOMAIN d.files : d.files[i].of = d.id
  <2> SUFFICES ASSUME ok PROVE IsDetail(d) /\ \A i \in DOMAIN d.files : d.files[i].of = d.id
    OBVIOUS
  <2>1. c.id \in DOMAIN world
    BY <1>2 DEF MayGo
  <2>2. PICK e : e = [id |-> c.id, files |-> [i \in DOMAIN world[c.id].files |->
                                               [of |-> c.id, i |-> i, prio |-> world[c.id].files[i]]]]
    OBVIOUS
  <2>3. IsDetail(e) /\ e.id = c.id /\ \A i \in DOMAIN e.files : e.files[i].of = c.id
    BY <1>1, <2>1, <2>2, FilesAre
  <2>4. d = e
    BY <1>3, <2>2
  <2> QED BY <2>3, <2>4
<1>6. MsgOk(m, g)
  BY <1>4, <1>5 DEF MsgOk, IsDetailReply
<1>7. Reply(c, g)
  BY <1>2, <1>3, <1>4
<1> QED BY <1>1, <1>6, <1>7, Replied

LEMMA FindRunStep ==
  ASSUME TuiAssumption, SceneAssumption, Inv, NEW c \in BagToSet(cmds), RunFind(c)
  PROVE  ModelStep /\ IsWorld(world')
<1>1. IsWorld(world) /\ world' = world /\ CmdOk(m, c) /\ c.k = "find" /\ scene \in Scenes
  BY DEF Inv, CmdsOk, RunFind
<1>2. PICK rs \in (IF up THEN scene.offers ELSE {}) \cup (IF up /\ ~scene.flaky THEN {} ELSE {<<>>}) :
        Reply(c, [k |-> "find", seq |-> c.seq, q |-> c.q, results |-> rs])
  BY DEF RunFind
<1>3. scene.offers \subseteq Seq(Ids \cup {NoID})
  BY <1>1 DEF SceneAssumption
<1>4. rs \in Seq(Ids \cup {NoID})
  <2>1. rs \in scene.offers \/ rs = <<>>
    OBVIOUS
  <2>2. <<>> \in Seq(Ids \cup {NoID})
    OBVIOUS
  <2> QED BY <1>3, <2>1, <2>2
<1>5. PICK g : g = [k |-> "find", seq |-> c.seq, q |-> c.q, results |-> rs]
  OBVIOUS
<1>6. MsgOk(m, g)
  BY <1>1, <1>4, <1>5 DEF MsgOk, IsFindReply, CmdOk
<1> QED BY <1>1, <1>2, <1>5, <1>6, Replied

LEMMA PriorityStep ==
  ASSUME TuiAssumption, Inv, NEW c \in BagToSet(cmds), RunPriority(c)
  PROVE  ModelStep /\ IsWorld(world')
<1>1. IsWorld(world) /\ CmdOk(m, c) /\ c.k = "prio"
  BY DEF Inv, CmdsOk, RunPriority
<1>2. ASSUME c.id \in DOMAIN world, c.i \in DOMAIN world[c.id].files,
             world' = [world EXCEPT ![c.id].files[c.i] = c.p], Becomes(c, LoadDetail(c.id))
      PROVE  ModelStep /\ IsWorld(world')
  <2>1. CmdOk(m, LoadDetail(c.id))
    BY DEF CmdOk, LoadDetail
  <2>2. c.p \in 0 .. 4
    BY <1>1 DEF CmdOk
  <2> QED BY <1>1, <1>2, <2>1, <2>2, Became, PriorityIs
<1>3. ASSUME world' = world, Reply(c, Status("err")) PROVE ModelStep /\ IsWorld(world')
  BY <1>1, <1>3, Replied, StatusIs
<1> QED BY <1>2, <1>3 DEF RunPriority

LEMMA RunStep ==
  ASSUME TuiAssumption, SceneAssumption, Inv, NEW c \in BagToSet(cmds), Run(c)
  PROVE  ModelStep /\ Inv'
<1>1. chan' = chan /\ scene' = scene
  BY DEF Run
<1>2. CASE RunOther(c)
  <2>1. PICK s \in {"ok", "err"} : Reply(c, Status(s))
    BY <1>2 DEF RunOther
  <2>2. ModelStep /\ world' = world
    BY <1>2, <2>1, Replied, StatusIs DEF RunOther
  <2> QED BY <1>1, <2>2 DEF Inv, ModelStep, GoodM
<1>3. CASE ~RunOther(c)
  <2>1. ModelStep /\ IsWorld(world')
    BY <1>3, BatchStep, AddStep, DetailStep, FindRunStep, PriorityStep DEF Run
  <2> QED BY <1>1, <2>1 DEF Inv, ModelStep, GoodM
<1> QED BY <1>2, <1>3

-----------------------------------------------------------------------------
(* The steps of the system.                                                *)

LEMMA KeyStep ==
  ASSUME TuiAssumption, SceneAssumption, Inv, NEW key, Press(key)
  PROVE  ModelStep /\ Inv'
<1>1. scene \in Scenes /\ ModelOk(m)
  BY DEF Inv
<1>2. PICK line \in IF m.mode = "command" /\ key \in Runes THEN scene.lines ELSE {m.commandBuf},
           late \in {FALSE, key = "d"} :
        Take(handleKey(m, key, [line |-> line, late |-> late, disk |-> disk]))
  BY DEF Press
<1>3. IsLine(line)
  <2>1. line \in scene.lines \/ line = m.commandBuf
    BY <1>2
  <2> QED BY <1>1, <2>1 DEF SceneAssumption, ModelOk
<1>4. PICK env : env = [line |-> line, late |-> late, disk |-> disk]
  OBVIOUS
<1>5. IsLine(env.line)
  BY <1>3, <1>4
<1>6. Good(m, handleKey(m, key, env))
  BY <1>1, <1>5, handleKeyGood
<1>7. ModelStep
  BY <1>2, <1>4, <1>6, Taken
<1>8. UNCHANGED <<world, chan, scene>>
  BY DEF Press
<1> QED BY <1>7, <1>8 DEF Inv, ModelStep, GoodM

LEMMA MouseStep ==
  ASSUME TuiAssumption, SceneAssumption, Inv, NEW ev, Mouse(ev)
  PROVE  ModelStep /\ Inv'
<1>1. ev \in scene.mice /\ Take(handleMouse(m, ev)) /\ UNCHANGED <<world, chan, scene>>
  BY DEF Mouse
<1>2. ev.row \in Nat /\ ev.wheel \in {-1, 0, 1} /\ ModelOk(m)
  BY <1>1 DEF Inv, SceneAssumption
<1>3. Good(m, handleMouse(m, ev))
  BY <1>2, handleMouseGood
<1>4. ModelStep
  BY <1>1, <1>3, Taken
<1> QED BY <1>1, <1>4 DEF Inv, ModelStep, GoodM

LEMMA ListenStep ==
  ASSUME TuiAssumption, Inv, NEW c, RunListen(c)
  PROVE  ModelStep /\ Inv' /\ (chan # <<>> => Revealed(m, m'))
<1>1. UNCHANGED <<world, scene>> /\ chan' = <<>>
  BY DEF RunListen
<1>2. PICK g : g = IF chan # <<>> THEN [k |-> "event", list |-> chan[1]] ELSE [k |-> "closed"]
  OBVIOUS
<1>3. Reply(c, g)
  BY <1>2 DEF RunListen
<1>4. MsgOk(m, g) /\ (chan # <<>> => g.k = "event")
  BY <1>2 DEF MsgOk, Inv
<1>5. ModelStep /\ (chan # <<>> => Revealed(m, m'))
  BY <1>3, <1>4, Replied
<1> QED BY <1>1, <1>5 DEF Inv, ModelStep, GoodM

LEMMA ExpireStep ==
  ASSUME Inv, NEW c, Expire(c)
  PROVE  ModelStep /\ Inv'
<1>1. m' = clearStatus(m, c.seq) /\ cmds' = cmds (-) One(c) /\ UNCHANGED <<world, chan, scene>>
  BY DEF Expire
<1>2. Same(m, clearStatus(m, c.seq))
  BY DEF Inv, ModelOk, clearStatus, Has, Same, SameList, SameView, SameFind, SameDetail, SameLine
<1>3. GoodM(m, m')
  BY <1>1, <1>2, SameGood DEF Inv
<1>4. BagToSet(cmds') \subseteq BagToSet(cmds)
  BY <1>1, BagDrops
<1>5. ModelStep
  BY <1>3, <1>4, CmdKept DEF Inv, CmdsOk, ModelStep
<1> QED BY <1>1, <1>5 DEF Inv, ModelStep, GoodM

LEMMA ThemeStep ==
  ASSUME Inv, ThemeTick
  PROVE  ModelStep /\ Inv'
<1>1. PICK r : r = checkThemeFile(m, disk)
  OBVIOUS
<1>2. m' = r.m /\ cmds' = (cmds (-) One(ThemeWatch)) (+) OneEach(r.c) /\ UNCHANGED <<world, chan, scene>>
  BY <1>1 DEF ThemeTick
<1>3. Good(m, r)
  BY <1>1, checkThemeFileGood DEF Inv
<1>4. GoodM(m, m') /\ \A d \in r.c : CmdOk(m', d)
  BY <1>2, <1>3 DEF Good
<1>5. BagToSet(cmds') \subseteq BagToSet(cmds) \cup r.c
  BY <1>2, BagAdds, BagDrops
<1>6. \A d \in BagToSet(cmds) : CmdOk(m', d)
  BY <1>4, CmdKept DEF Inv, CmdsOk
<1>7. ModelStep
  BY <1>4, <1>5, <1>6 DEF ModelStep, CmdsOk
<1> QED BY <1>2, <1>7 DEF Inv, ModelStep, GoodM

LEMMA StillStep ==
  ASSUME Inv, UNCHANGED <<m, cmds>>
  PROVE  ModelStep
<1>1. GoodM(m, m)
  BY Reflexive DEF Inv
<1> QED BY <1>1 DEF ModelStep, CmdsOk, Inv

LEMMA PushStep ==
  ASSUME TuiAssumption, Inv, Push
  PROVE  ModelStep /\ Inv'
<1>1. PICK o \in Orders(DOMAIN world) : chan' = <<[i \in DOMAIN o |-> SnapshotOf(o[i])]>>
  BY DEF Push
<1>2. IsList(chan'[1])
  BY <1>1, PushedIs DEF Inv
<1>3. UNCHANGED <<m, cmds, world, scene>>
  BY DEF Push
<1> QED BY <1>2, <1>3, StillStep DEF Inv, CmdsOk

LEMMA ElsewhereStep ==
  ASSUME TuiAssumption, SceneAssumption, Inv, NEW c, Elsewhere(c)
  PROVE  ModelStep /\ Inv'
<1>1. UNCHANGED <<m, cmds, chan, scene>> /\ c \in scene.changes /\ scene \in Scenes /\ IsWorld(world)
  BY DEF Elsewhere, Inv
<1>2. c.id \in Ids /\ (c.to = <<>> \/ c.to[1] \in Torrents(c.id))
  BY <1>1 DEF SceneAssumption
<1>3. CASE c.to = <<>>
  <2>1. world' = [j \in DOMAIN world \ {c.id} |-> world[j]]
    BY <1>3 DEF Elsewhere
  <2>2. IsWorld(world')
    BY <1>1, <2>1, WorldWithout
  <2> QED BY <1>1, <2>2, StillStep DEF Inv, CmdsOk
<1>4. CASE c.to # <<>>
  <2>1. PICK w : w = [j \in DOMAIN world \cup {c.id} |-> IF j # c.id THEN world[j] ELSE c.to[1]]
    OBVIOUS
  <2>2. DOMAIN w = DOMAIN world \cup {c.id} /\ w[c.id] = c.to[1] /\ \A j \in DOMAIN world : j # c.id => w[j] = world[j]
    BY <2>1
  <2>3. IsWorld(w)
    BY <1>1, <1>2, <1>4, <2>2, WorldWith
  <2>4. world' = w
    BY <1>4, <2>1 DEF Elsewhere
  <2> QED BY <1>1, <2>3, <2>4, StillStep DEF Inv, CmdsOk
<1> QED BY <1>3, <1>4

(* Every step keeps the invariant, is a good step of the Model, and        *)
(* reveals what was added when it receives a push.                         *)
LEMMA Step ==
  ASSUME TuiAssumption, SceneAssumption, Inv, [Next]_vars
  PROVE  ModelStep /\ Inv' /\ (Received => Revealed(m, m'))
<1>1. CASE \E key \in scene.keys : Press(key)
  <2>1. ~Received
    BY <1>1 DEF Press, Received
  <2> QED BY <1>1, <2>1, KeyStep
<1>2. CASE \E ev \in scene.mice : Mouse(ev)
  <2>1. ~Received
    BY <1>2 DEF Mouse, Received
  <2> QED BY <1>2, <2>1, MouseStep
<1>3. CASE \E c \in BagToSet(cmds) : Run(c)
  <2>1. ~Received
    BY <1>3 DEF Run, Received
  <2> QED BY <1>3, <2>1, RunStep
<1>4. CASE \E c \in BagToSet(cmds) : RunListen(c)
  BY <1>4, ListenStep DEF Received
<1>5. CASE \E c \in BagToSet(cmds) : Expire(c)
  <2>1. ~Received
    BY <1>5 DEF Expire, Received
  <2> QED BY <1>5, <2>1, ExpireStep
<1>6. CASE ThemeTick
  <2>1. ~Received
    BY <1>6 DEF ThemeTick, Received
  <2> QED BY <1>6, <2>1, ThemeStep
<1>7. CASE Push
  <2>1. ~Received
    BY <1>7 DEF Push, Received
  <2> QED BY <1>7, <2>1, PushStep
<1>8. CASE \E c \in scene.changes : Elsewhere(c)
  <2>1. ~Received
    BY <1>8 DEF Elsewhere, Received
  <2> QED BY <1>8, <2>1, ElsewhereStep
<1>9. CASE Disconnect \/ EditTheme \/ UNCHANGED vars
  <2>1. UNCHANGED <<m, cmds, world, chan, scene>>
    BY <1>9 DEF Disconnect, EditTheme, vars
  <2>2. ~Received
    BY <2>1 DEF Received
  <2> QED BY <2>1, <2>2, StillStep DEF Inv, CmdsOk
<1> QED BY <1>1, <1>2, <1>3, <1>4, <1>5, <1>6, <1>7, <1>8, <1>9 DEF Next

LEMMA NewOk ==
  ASSUME NEW finder, NEW n, n = New(finder)
  PROVE  ModelOk(n)
<1>1. Has(n)
  BY DEF New, Has
<1>2. n.torrents = <<>> /\ n.cursor = 0
  BY DEF New
<1>3. n.detail = NoDetail /\ n.detailCursor = 0 /\ n.detailLoaded = FALSE
  BY DEF New
<1>4. n.findState = "closed" /\ n.findSeq = 0 /\ n.findResults = <<>> /\ n.findCursor = 0
  BY DEF New
<1>5. n.commandBuf = [name |-> "", args |-> <<>>]
  BY DEF New
<1>6. \A S : <<>> \in Seq(S)
  OBVIOUS
<1>7. DOMAIN <<>> = {}
  OBVIOUS
<1>8. IsList(n.torrents)
  BY <1>2, <1>6, <1>7 DEF IsList
<1>9. CursorOk(n)
  <2>1. shown(n) = {}
    BY <1>2, <1>7 DEF shown
  <2>2. rows(n) = 0
    BY <1>8, <2>1, RowsNat
  <2> QED BY <1>2, <2>2 DEF CursorOk
<1>10. DetailOk(n)
  <2>1. NoDetail.files = <<>> /\ "id" \in DOMAIN NoDetail /\ "files" \in DOMAIN NoDetail
    BY DEF NoDetail
  <2> QED BY <1>3, <1>6, <2>1 DEF DetailOk, IsDetail
<1>11. FindOk(n)
  BY <1>4, <1>6 DEF FindOk
<1>12. IsLine(n.commandBuf)
  <2>1. PICK line : line = [name |-> "", args |-> <<>>]
    OBVIOUS
  <2>2. IsLine(line)
    BY <2>1 DEF IsLine
  <2> QED BY <1>5, <2>1, <2>2
<1> QED BY <1>1, <1>8, <1>9, <1>10, <1>11, <1>12 DEF ModelOk

LEMMA Start ==
  ASSUME TuiAssumption, SceneAssumption, Init
  PROVE  Inv
<1>1. scene \in Scenes /\ m = New(scene.finder) /\ cmds = OneEach({Listen, ThemeWatch}) /\ chan = <<>>
      /\ world = scene.world
  BY DEF Init
<1>2. ModelOk(m)
  BY <1>1, NewOk
<1>3. CmdsOk
  <2>1. BagToSet(cmds) = {Listen, ThemeWatch}
    BY <1>1 DEF BagToSet, OneEach, SetToBag
  <2> QED BY <2>1 DEF CmdsOk, CmdOk, Listen, ThemeWatch
<1>4. IsWorld(world)
  BY <1>1 DEF SceneAssumption
<1> QED BY <1>1, <1>2, <1>3, <1>4 DEF Inv

LEMMA Invariant == Spec => []Inv
<1>1. Init => Inv
  BY Start, TuiAssumption, SceneAssumption
<1>2. Inv /\ [Next]_vars => Inv'
  BY Step, TuiAssumption, SceneAssumption
<1> QED BY <1>1, <1>2, PTL DEF Spec

-----------------------------------------------------------------------------
(* The properties.                                                         *)

LEMMA InSight ==
  ASSUME TuiAssumption, Inv
  PROVE  CursorInSight
<1>1. IsList(m.torrents) /\ CursorOk(m)
  BY DEF Inv, ModelOk
<1>2. PICK k \in Nat : k = Len(m.torrents) /\ DOMAIN m.torrents = 1 .. k
  BY <1>1 DEF IsList
<1>3. \A i \in 1 .. k : m.torrents[i] \in Snapshots
  BY <1>1, <1>2 DEF IsList
<1>4. Cardinality({t.id : t \in Listed}) = k
  <2>1. PICK f : f = [i \in 1 .. k |-> m.torrents[i].id]
    OBVIOUS
  <2>2. PICK ids : ids = {t.id : t \in Listed}
    OBVIOUS
  <2>3. \A x : x \in ids <=> \E i \in 1 .. k : f[i] = x
    <3>1. \A t : t \in Listed <=> \E i \in 1 .. k : m.torrents[i] = t
      BY <1>2 DEF Listed
    <3>2. \A x : x \in ids <=> \E t \in Listed : t.id = x
      BY <2>2
    <3>3. \A i \in 1 .. k : f[i] = m.torrents[i].id
      BY <2>1
    <3>4. ASSUME NEW x \in ids PROVE \E i \in 1 .. k : f[i] = x
      <4>1. PICK t \in Listed : t.id = x
        BY <3>2, <3>4
      <4>2. PICK i \in 1 .. k : m.torrents[i] = t
        BY <3>1, <4>1
      <4> QED BY <3>3, <4>1, <4>2
    <3>5. ASSUME NEW i \in 1 .. k PROVE f[i] \in ids
      <4>1. m.torrents[i] \in Listed
        BY <3>1
      <4> QED BY <3>2, <3>3, <4>1
    <3> QED BY <3>4, <3>5
  <2>4. f \in [1 .. k -> ids]
    BY <2>1, <2>3
  <2>5. \A i, j \in 1 .. k : f[i] = f[j] => i = j
    BY <1>1, <1>2, <2>1 DEF IsList
  <2>6. f \in Bijection(1 .. k, ids)
    BY <2>3, <2>4, <2>5 DEF Bijection, Injection, Surjection, IsInjective
  <2>7. IsFiniteSet(1 .. k) /\ Cardinality(1 .. k) = k
    BY FS_Interval
  <2>8. Cardinality(ids) = k
    <3>1. Cardinality(ids) = Cardinality(1 .. k)
      BY <2>6, <2>7, FS_Bijection DEF ExistsBijection
    <3> QED BY <2>7, <3>1
  <2> QED BY <2>2, <2>8
<1>5. Listed \subseteq Snapshots
  BY <1>2, <1>3 DEF Listed
<1>6. rows(m) \in Nat /\ m.cursor \in Nat /\ (m.cursor < rows(m) \/ rows(m) = 0)
  BY <1>1, RowsNat DEF CursorOk
<1>7. PICK start : start = scrollWindow(m.cursor, rows(m), ListRows)
  OBVIOUS
<1>8. rows(m) > 0 => m.cursor \in start .. start + ListRows - 1 /\ (start > 0 => start + ListRows <= rows(m))
  BY <1>6, <1>7, WindowHasCursor DEF TuiAssumption
<1> QED BY <1>1, <1>2, <1>4, <1>5, <1>7, <1>8 DEF CursorInSight, CursorOk

(* Whatever removes, hides or reorders the rows, the list has snapshots of *)
(* different torrents, the cursor is on one of the rows shown, and the     *)
(* list pane draws that row (clampCursor, update.go; scrollWindow,         *)
(* list.go).                                                               *)
THEOREM ViewKept == Spec => []CursorInSight
<1>1. Inv => CursorInSight
  BY InSight, TuiAssumption
<1> QED BY <1>1, Invariant, PTL

(* However late the replies come, the detail shown as loaded, its files    *)
(* and the file a preview plays are of the torrent they name (syncDetail,  *)
(* detailLoadedMsg and previewFile).                                       *)
THEOREM DetailKept == Spec => []DetailBelongs
<1>1. Inv => DetailBelongs
  BY DEF Inv, ModelOk, DetailOk, CmdsOk, CmdOk, DetailBelongs
<1> QED BY <1>1, Invariant, PTL

(* The overlay shows the results of the search it names, and a reply that  *)
(* comes after it was closed does not open it again (findSeq, find.go).    *)
THEOREM FindAnswers == Spec => FindAnswersQuery
<1>1. Inv /\ [Next]_vars => [m'.findState = "loaded" => m'.findFor = m'.findQuery /\ m.findState # "closed"]_vars
  <2> SUFFICES ASSUME Inv, [Next]_vars, m'.findState = "loaded"
               PROVE  m'.findFor = m'.findQuery /\ m.findState # "closed"
    OBVIOUS
  <2>1. ModelStep
    BY Step, TuiAssumption, SceneAssumption
  <2> QED BY <2>1 DEF ModelStep, GoodM, ModelOk, FindOk, FindStep
<1> QED BY <1>1, Invariant, PTL DEF Spec, FindAnswersQuery

(* While the list stays the same no key, click or answer hides a marked    *)
(* row (selectSidebar and handleSearchKey, update.go).                     *)
THEOREM MarksInSight == Spec => MarksStayInSight
<1>1. Inv /\ [Next]_vars => [m'.torrents = m.torrents => HiddenMarks(m') \subseteq HiddenMarks(m)]_vars
  <2>1. Inv /\ [Next]_vars => ModelStep
    BY Step, TuiAssumption, SceneAssumption
  <2> QED BY <2>1 DEF ModelStep, GoodM, MarksStep
<1> QED BY <1>1, Invariant, PTL DEF Spec, MarksStayInSight

(* A push that carries a torrent just added leaves it in sight             *)
(* (revealJustAdded, label.go).                                            *)
THEOREM RevealsAdded == Spec => AddedInSight
<1>1. Inv /\ [Next]_vars =>
        [Received => \A i \in DOMAIN m'.torrents :
           m'.torrents[i].id \in m.pendingReveal \ m'.pendingReveal => i \in shown(m')]_vars
  <2>1. Inv /\ [Next]_vars => (Received => Revealed(m, m'))
    BY Step, TuiAssumption, SceneAssumption
  <2> QED BY <2>1 DEF Revealed
<1> QED BY <1>1, Invariant, PTL DEF Spec, AddedInSight
=============================================================================
