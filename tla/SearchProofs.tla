---------------------------- MODULE SearchProofs ----------------------------
(***************************************************************************)
(* Proofs about Search: that the caches keep within their bound and give   *)
(* up only what they must, that a source never answers with anything but   *)
(* what its tracker lists, and that a source which failed is named, for    *)
(* any number of requests, aggregators, queries, attempts, entries and any *)
(* time to live.                                                           *)
(*                                                                         *)
(* What is sorted and merged is computed by folds, so what a merged answer *)
(* contains is left to TLC.                                                *)
(***************************************************************************)
EXTENDS Search, FiniteSetTheorems, TLAPS

(***************************************************************************)
(* The types TypeOK leaves out.                                            *)
(***************************************************************************)
JobType ==
  [pc : {"idle", "get", "send", "backoff", "login", "load", "relogin", "done"},
   n : Nat, rows : {<<>>} \cup {Results[s][q] : s \in Sources, q \in Queries},
   err : BOOLEAN, ed : BOOLEAN, at : Int]

Clock ==
  /\ login \in [session: {"", "live", "expired"}, creds: BOOLEAN]
  /\ jar \in BOOLEAN /\ edition \in BOOLEAN
  /\ since \in 0 .. MaxTime /\ clock \in 0 .. MaxTime /\ left \in 0 .. setup.requests

CacheTypes ==
  /\ DOMAIN cache = Sources
  /\ cache = [s \in Sources |-> cache[s]]
  /\ \A s \in Sources :
       /\ IsFiniteSet(DOMAIN cache[s]) /\ Cardinality(DOMAIN cache[s]) <= MaxEntries
       /\ \A k \in DOMAIN cache[s] :
            k \in Queries /\ cache[s][k].expires \in 0 .. MaxTime + TTL /\ cache[s][k].ed \in BOOLEAN

CallTypes ==
  /\ call = [c \in Calls |-> call[c]]
  /\ \A c \in Calls :
       /\ call[c] = [f \in DOMAIN NoCall |-> call[c][f]]
       /\ call[c].pc \in {"idle", "running", "answered"} /\ call[c].warn \subseteq Sources
       /\ call[c].q \in Queries

JobTypes ==
  /\ job \in [Calls -> [Sources -> JobType]]
  /\ \A c \in Calls, s \in Sources : job[c][s].n <= IF s = Site THEN 2 ELSE Attempts

Types ==
  /\ setup \in Setups /\ sources = setup.sources
  /\ Clock /\ CacheTypes /\ CallTypes /\ JobTypes

(***************************************************************************)
(* What is remembered.                                                     *)
(***************************************************************************)
\* An entry holds what its tracker lists for its key, and expires within the
\* TTL of its coming, and of the change of the listing it does not show.
Entry(s, k) ==
  LET e == cache[s][k] IN
  /\ e.rows = Results[s][k]
  /\ e.expires <= clock + TTL
  /\ edition /\ ~e.ed => e.expires <= since + TTL

\* So does an answer, at the time it came.
Real(c, s) ==
  job[c][s].pc = "done" /\ ~job[c][s].err /\ ~call[c].res =>
    /\ job[c][s].rows = Results[s][call[c].q]
    /\ job[c][s].at <= clock
    /\ edition /\ ~job[c][s].ed => job[c][s].at <= since \/ job[c][s].at < since + TTL

Reality ==
  /\ since <= clock
  /\ \A s \in Sources : \A k \in DOMAIN cache[s] : Entry(s, k)
  /\ \A c \in Calls, s \in Sources : Real(c, s)

\* The goroutines of an answered request have ended, so what failed stays.
AnsweredEnded == \A c \in Calls : call[c].pc = "answered" /\ ~call[c].res /\ sources # <<>> => Ended(c)

\* Those of no request are idle.
IdleJobs == \A c \in Calls : call[c].pc = "idle" => \A s \in Sources : job[c][s].pc = "idle"

IInv == Types /\ Reality /\ AnsweredEnded /\ IdleJobs /\ FailuresNamed

(***************************************************************************)
(* Sources.                                                                *)
(***************************************************************************)
LEMMA SetupFacts ==
  ASSUME setup \in Setups, sources = setup.sources
  PROVE  /\ sources \in Seq(Sources) /\ Range(sources) \subseteq Sources
         /\ setup.queries \subseteq Queries /\ setup.requests \in Nat
         /\ sources # <<>> => 1 \in DOMAIN sources
<1>1. sources \in Seq(Sources) /\ setup.queries \subseteq Queries /\ setup.requests \in Nat
  BY SearchAssumption
<1>2. Range(sources) \subseteq Sources
  BY <1>1 DEF Range
<1>3. sources # <<>> => 1 \in DOMAIN sources
  BY <1>1
<1> QED BY <1>1, <1>2, <1>3

LEMMA Constants ==
  /\ Site \in Sources /\ Site \notin Aggregators /\ Aggregators \subseteq Sources
  /\ Attempts \in Nat \ {0} /\ MaxEntries \in Nat \ {0} /\ TTL \in Int \ {0} /\ MaxTime \in Nat
  /\ Blank \in Queries
BY SearchAssumption DEF Sources

LEMMA ClockFacts ==
  ASSUME Types
  PROVE  /\ clock \in Nat /\ clock <= MaxTime /\ since \in Nat /\ since <= MaxTime
         /\ edition \in BOOLEAN /\ jar \in BOOLEAN /\ TTL \in Int
<1>1. MaxTime \in Nat /\ TTL \in Int
  BY SearchAssumption
<1>2. since \in 0 .. MaxTime /\ clock \in 0 .. MaxTime /\ edition \in BOOLEAN /\ jar \in BOOLEAN
  BY DEF Types, Clock
<1> QED BY <1>1, <1>2

LEMMA IdleType == Idle \in JobType
BY DEF Idle, JobType

(***************************************************************************)
(* The state at the start.                                                 *)
(***************************************************************************)
LEMMA InitInv == Init => IInv
<1> SUFFICES ASSUME Init PROVE IInv
  OBVIOUS
<1>1. setup \in Setups /\ sources = setup.sources
  BY DEF Init
<1>2. setup.requests \in Nat /\ setup.session \in {"", "live"} /\ setup.creds \in BOOLEAN
  BY <1>1, SearchAssumption
<1>3. Clock
  <2>1. login = [session |-> setup.session, creds |-> setup.creds]
    BY DEF Init
  <2>2. login \in [session: {"", "live", "expired"}, creds: BOOLEAN]
    BY <1>2, <2>1
  <2>3. since = 0 /\ clock = 0 /\ left = setup.requests /\ ~jar /\ ~edition /\ jar = FALSE /\ edition = FALSE
    BY DEF Init
  <2>4. since \in 0 .. MaxTime /\ clock \in 0 .. MaxTime /\ left \in 0 .. setup.requests
    <3>1. left \in Nat /\ left = setup.requests /\ MaxTime \in Nat
      BY <1>2, <2>3, Constants
    <3> QED BY <2>3, <3>1
  <2> QED BY <2>2, <2>3, <2>4 DEF Clock
<1>4. CacheTypes
  <2>1. \A s \in Sources : cache[s] = <<>> /\ DOMAIN cache[s] = {}
    <3>1. \A s \in Sources : cache[s] = <<>>
      BY Zenon DEF Init
    <3>2. DOMAIN <<>> = {}
      OBVIOUS
    <3> QED BY <3>1, <3>2
  <2>2. DOMAIN cache = Sources /\ cache = [s \in Sources |-> cache[s]]
    BY DEF Init
  <2> QED BY <2>1, <2>2, FS_EmptySet, Constants DEF CacheTypes
<1>5. CallTypes
  BY Constants DEF Init, CallTypes, NoCall
<1>6. JobTypes
  <2>1. \A c \in Calls, s \in Sources : job[c][s] = Idle
    BY DEF Init
  <2>2. job \in [Calls -> [Sources -> JobType]]
    BY IdleType DEF Init
  <2> QED BY <2>1, <2>2, Constants DEF JobTypes, Idle
<1>7. \A c \in Calls : call[c].pc = "idle" /\ \A s \in Sources : job[c][s].pc = "idle"
  BY DEF Init, NoCall, Idle
<1>8. Reality
  <2>1. since <= clock
    BY DEF Init
  <2>2. \A s \in Sources : DOMAIN cache[s] = {}
    BY DEF Init
  <2> QED BY <1>7, <2>1, <2>2 DEF Reality, Real
<1>9. AnsweredEnded /\ IdleJobs /\ FailuresNamed
  BY <1>7 DEF AnsweredEnded, IdleJobs, FailuresNamed, Answered
<1> QED BY <1>1, <1>3, <1>4, <1>5, <1>6, <1>8, <1>9 DEF IInv, Types

(***************************************************************************)
(* A goroutine's step.                                                     *)
(***************************************************************************)
LEMMA JobKept ==
  ASSUME IInv, NEW c \in Calls, NEW s \in Sources, NEW j \in JobType,
         job[c][s].pc \notin {"idle", "done"}, SetJob(c, s, j), UNCHANGED <<call, sources>>,
         j.n <= IF s = Site THEN 2 ELSE Attempts
  PROVE  /\ JobTypes' /\ AnsweredEnded' /\ IdleJobs' /\ FailuresNamed'
         /\ job'[c][s] = j
         /\ \A d \in Calls, t \in Sources : d # c \/ t # s => job'[d][t] = job[d][t]
<1>0. JobTypes /\ Range(sources) \subseteq Sources /\ AnsweredEnded /\ FailuresNamed
  BY SetupFacts DEF IInv, Types
<1>1. job' = [job EXCEPT ![c][s] = j]
  BY DEF SetJob
<1>2. /\ job'[c][s] = j /\ job' \in [Calls -> [Sources -> JobType]]
      /\ \A d \in Calls, t \in Sources : d # c \/ t # s => job'[d][t] = job[d][t]
  BY <1>0, <1>1 DEF JobTypes
<1>3. JobTypes'
  <2> SUFFICES ASSUME NEW d \in Calls, NEW t \in Sources
               PROVE  job'[d][t].n <= IF t = Site THEN 2 ELSE Attempts
    BY <1>2 DEF JobTypes
  <2> QED BY <1>0, <1>2 DEF JobTypes
<1>4. ASSUME NEW d \in Calls, call[d].pc = "answered", ~call[d].res, sources # <<>>
      PROVE  Ended(d)' /\ FailedOf(d)' = FailedOf(d)
  <2>1. Ended(d)
    BY <1>0, <1>4 DEF AnsweredEnded
  <2>2. \A k \in DOMAIN sources : sources[k] \in Range(sources)
    BY DEF Range
  <2>3. \A t \in Range(sources) : job[d][t].pc \in {"idle", "done"}
    BY <2>1 DEF Ended, Range
  <2>4. \A t \in Range(sources) : job'[d][t] = job[d][t]
    BY <1>0, <1>2, <2>3
  <2> QED BY <2>1, <2>2, <2>4 DEF Ended, FailedOf
<1>5. AnsweredEnded'
  BY <1>4 DEF AnsweredEnded
<1>6. FailuresNamed'
  BY <1>0, <1>4 DEF FailuresNamed, Answered
<1>7. IdleJobs'
  BY <1>2 DEF IInv, IdleJobs
<1> QED BY <1>2, <1>3, <1>5, <1>6, <1>7

\* One that touches nothing but the goroutine itself.
LEMMA StepKept ==
  ASSUME IInv, NEW c \in Calls, NEW s \in Sources, NEW j \in JobType,
         job[c][s].pc \notin {"idle", "done"}, SetJob(c, s, j),
         UNCHANGED <<setup, sources, cache, call, edition, since, clock, left>>,
         login' = login, jar' \in BOOLEAN,
         j.n <= IF s = Site THEN 2 ELSE Attempts,
         j.pc = "done" /\ ~j.err => \/ call[c].res
                                    \/ /\ j.rows = Results[s][call[c].q] /\ j.at <= clock
                                       /\ edition /\ ~j.ed => j.at <= since \/ j.at < since + TTL
  PROVE  IInv'
<1>1. /\ JobTypes' /\ AnsweredEnded' /\ IdleJobs' /\ FailuresNamed'
      /\ job'[c][s] = j
      /\ \A d \in Calls, t \in Sources : d # c \/ t # s => job'[d][t] = job[d][t]
  BY JobKept
<1>2. Types'
  <2>1. Clock'
    BY DEF IInv, Types, Clock
  <2>2. CacheTypes'
    BY DEF IInv, Types, CacheTypes
  <2>3. CallTypes'
    BY DEF IInv, Types, CallTypes
  <2> QED BY <1>1, <2>1, <2>2, <2>3 DEF IInv, Types
<1>3. Reality'
  <2>1. \A t \in Sources : \A k \in DOMAIN cache'[t] : Entry(t, k)'
    BY DEF IInv, Reality, Entry
  <2>2. ASSUME NEW d \in Calls, NEW t \in Sources PROVE Real(d, t)'
    <3>1. CASE d = c /\ t = s
      BY <1>1, <3>1 DEF Real
    <3>2. CASE d # c \/ t # s
      BY <1>1, <3>2 DEF Real, IInv, Reality
    <3> QED BY <3>1, <3>2
  <2>3. since' <= clock'
    BY DEF IInv, Reality
  <2> QED BY <2>1, <2>2, <2>3 DEF Reality
<1> QED BY <1>1, <1>2, <1>3 DEF IInv

\* A goroutine that fails, and one that only goes on.
LEMMA FailedKept ==
  ASSUME IInv, NEW c \in Calls, NEW s \in Sources, Failed(c, s),
         job[c][s].pc \notin {"idle", "done"}, UNCHANGED <<cache, call, world>>
  PROVE  IInv'
<1>1. PICK j : j = [Idle EXCEPT !.pc = "done", !.err = TRUE]
  OBVIOUS
<1>0. j \in JobType
  <2>1. j = [pc |-> "done", n |-> 0, rows |-> <<>>, err |-> TRUE, ed |-> FALSE, at |-> 0]
    BY <1>1 DEF Idle
  <2> QED BY <2>1 DEF JobType
<1>2. j.n = 0 /\ j.err
  BY <1>1 DEF Idle
<1>4. SetJob(c, s, j)
  BY <1>1 DEF Idle, Failed
<1>3. jar' \in BOOLEAN
  BY DEF world, IInv, Types, Clock
<1> QED BY <1>0, <1>2, <1>3, <1>4, Constants, StepKept DEF world

LEMMA GoesOn ==
  ASSUME IInv, NEW c \in Calls, NEW s \in Sources, NEW j \in JobType, SetJob(c, s, j),
         job[c][s].pc \notin {"idle", "done"}, j.pc # "done",
         j.n <= IF s = Site THEN 2 ELSE Attempts,
         UNCHANGED <<setup, sources, cache, call, login, edition, since, clock, left>>, jar' \in BOOLEAN
  PROVE  IInv'
BY StepKept

(***************************************************************************)
(* The cache.                                                              *)
(***************************************************************************)
\* What a put does to one cache of those: the others stay, this one holds the
\* new entry, drops nothing but the victim it had to choose, and keeps its
\* bound.
LEMMA PutFacts ==
  ASSUME CacheTypes, NEW s \in Sources, NEW key \in Queries, NEW entry, put(s, key, entry)
  PROVE  /\ TTL < 0 => cache' = cache
         /\ DOMAIN cache' = Sources /\ cache' = [t \in Sources |-> cache'[t]]
         /\ \A t \in Sources : t # s => cache'[t] = cache[t]
         /\ \A k \in DOMAIN cache'[s] : \/ k = key /\ cache'[s][k] = entry /\ TTL > 0
                                        \/ k \in DOMAIN cache[s] /\ cache'[s][k] = cache[s][k]
         /\ IsFiniteSet(DOMAIN cache'[s]) /\ Cardinality(DOMAIN cache'[s]) <= MaxEntries
         /\ \A k \in DOMAIN cache[s] \ DOMAIN cache'[s] :
              /\ Cardinality(DOMAIN cache'[s]) = MaxEntries
              /\ DOMAIN cache'[s] \ DOMAIN cache[s] # {}
              /\ \A j \in DOMAIN cache[s] : cache[s][k].expires <= cache[s][j].expires
<1>0. CacheTypes /\ TTL \in Int \ {0} /\ MaxEntries \in Nat \ {0}
  BY Constants
<1>1. CASE TTL < 0
  <2>1. cache' = cache
    BY <1>1 DEF put
  <2> QED BY <1>0, <1>1, <2>1 DEF CacheTypes
<1>2. CASE TTL > 0
  <2>1. PICK gone \in Victims(s, key) :
          cache' = [cache EXCEPT ![s] =
            [k \in (DOMAIN cache[s] \ gone) \cup {key} |-> IF k = key THEN entry ELSE cache[s][k]]]
    <3>1. ~(TTL < 0)
      BY <1>0, <1>2
    <3> QED BY <3>1, Zenon DEF put
  <2>2. PICK D, G : D = DOMAIN cache[s] /\ G = (D \ gone) \cup {key}
    OBVIOUS
  <2>3. /\ cache'[s] = [k \in G |-> IF k = key THEN entry ELSE cache[s][k]]
        /\ DOMAIN cache' = Sources /\ cache' = [t \in Sources |-> cache'[t]]
        /\ \A t \in Sources : t # s => cache'[t] = cache[t]
    BY <1>0, <2>1, <2>2 DEF CacheTypes
  <2>4. DOMAIN cache'[s] = G
    BY <2>3
  <2>5. \A k \in G : \/ k = key /\ cache'[s][k] = entry
                     \/ k \in D /\ cache'[s][k] = cache[s][k]
    BY <2>2, <2>3
  <2>11. /\ TTL < 0 => cache' = cache
         /\ \A k \in DOMAIN cache'[s] : \/ k = key /\ cache'[s][k] = entry /\ TTL > 0
                                        \/ k \in DOMAIN cache[s] /\ cache'[s][k] = cache[s][k]
    <3>1. ~(TTL < 0)
      BY <1>0, <1>2
    <3>2. \A k \in DOMAIN cache'[s] : \/ k = key /\ cache'[s][k] = entry
                                      \/ k \in DOMAIN cache[s] /\ cache'[s][k] = cache[s][k]
      <4> SUFFICES ASSUME NEW k \in DOMAIN cache'[s]
                   PROVE  \/ k = key /\ cache'[s][k] = entry
                          \/ k \in DOMAIN cache[s] /\ cache'[s][k] = cache[s][k]
        OBVIOUS
      <4>1. k \in G
        BY <2>4
      <4> QED BY <2>2, <2>5, <4>1
    <3> QED BY <1>2, <3>1, <3>2, Zenon
  <2>6. IsFiniteSet(D) /\ Cardinality(D) <= MaxEntries /\ Cardinality(D) \in Nat
    BY <1>0, <2>2, FS_CardinalityType DEF CacheTypes
  <2>7. CASE gone = {} /\ (key \in D \/ ~(Cardinality(D) >= MaxEntries))
    <3>1. G = D \cup {key}
      BY <2>2, <2>7
    <3>2. IsFiniteSet(G) /\ Cardinality(G) = IF key \in D THEN Cardinality(D) ELSE Cardinality(D) + 1
      BY <2>6, <3>1, FS_AddElement
    <3>3. Cardinality(G) <= MaxEntries
      BY <1>0, <2>6, <2>7, <3>2
    <3>4. DOMAIN cache[s] \ DOMAIN cache'[s] = {}
      BY <2>2, <2>4, <3>1
    <3>5. IsFiniteSet(DOMAIN cache'[s]) /\ Cardinality(DOMAIN cache'[s]) <= MaxEntries
      BY <2>4, <3>2, <3>3
    <3> QED BY <2>3, <2>11, <3>4, <3>5
  <2>8. ASSUME NEW v \in SoonestExpiring(cache[s]), gone = {v}, key \notin D, Cardinality(D) >= MaxEntries
        PROVE  /\ IsFiniteSet(G) /\ Cardinality(G) = MaxEntries
               /\ D \ G = {v} /\ key \in G \ D
               /\ \A j \in D : cache[s][v].expires <= cache[s][j].expires
    <3>1. v \in D /\ \A j \in D : cache[s][v].expires <= cache[s][j].expires
      BY <2>2, <2>8 DEF SoonestExpiring
    <3>2. IsFiniteSet(D \ {v}) /\ Cardinality(D \ {v}) = Cardinality(D) - 1
      BY <2>6, <3>1, FS_RemoveElement
    <3>3. G = (D \ {v}) \cup {key} /\ key \notin D \ {v}
      BY <2>2, <2>8
    <3>4. IsFiniteSet(G) /\ Cardinality(G) = Cardinality(D \ {v}) + 1
      BY <3>2, <3>3, FS_AddElement
    <3>5. Cardinality(G) = MaxEntries
      BY <1>0, <2>6, <2>8, <3>2, <3>4
    <3>6. D \ G = {v} /\ key \in G \ D
      BY <2>8, <3>1, <3>3
    <3> QED BY <3>1, <3>4, <3>5, <3>6
  <2>9. CASE key \notin D /\ Cardinality(D) >= MaxEntries
    <3>1. PICK v \in SoonestExpiring(cache[s]) : gone = {v}
      BY <2>1, <2>2, <2>9 DEF Victims
    <3>2. /\ IsFiniteSet(G) /\ Cardinality(G) = MaxEntries
          /\ D \ G = {v} /\ key \in G \ D
          /\ \A j \in D : cache[s][v].expires <= cache[s][j].expires
      BY <2>8, <2>9, <3>1
    <3>3. IsFiniteSet(DOMAIN cache'[s]) /\ Cardinality(DOMAIN cache'[s]) = MaxEntries
      BY <2>4, <3>2
    <3>4. \A k \in DOMAIN cache[s] \ DOMAIN cache'[s] :
            \A j \in DOMAIN cache[s] : cache[s][k].expires <= cache[s][j].expires
      BY <2>2, <2>4, <3>2
    <3>5. DOMAIN cache'[s] \ DOMAIN cache[s] # {}
      BY <2>2, <2>4, <3>2
    <3> QED BY <1>0, <2>3, <2>11, <3>3, <3>4, <3>5
  <2>10. key \in D \/ ~(Cardinality(D) >= MaxEntries) => gone = {}
    BY <2>1, <2>2 DEF Victims
  <2> QED BY <2>7, <2>9, <2>10
<1> QED BY <1>0, <1>1, <1>2

\* A good reply: what it stores and returns is the listing of the moment.
LEMMA SucceedKept ==
  ASSUME IInv, NEW c \in Calls, NEW s \in Sources, Succeed(c, s), job[c][s].pc \notin {"idle", "done"}
  PROVE  IInv'
<1>1. PICK rows : rows = Results[s][call[c].q]
  OBVIOUS
<1>2. PICK q \in Queries : q = call[c].q
  BY DEF IInv, Types, CallTypes
<1>3. PICK entry : entry = [rows |-> rows, ed |-> edition, expires |-> clock + TTL]
  OBVIOUS
<1>4. PICK j : j = [Idle EXCEPT !.pc = "done", !.rows = rows, !.ed = edition, !.at = clock]
  OBVIOUS
<1>5. SetJob(c, s, j) /\ put(s, q, entry) /\ UNCHANGED <<call, world>>
  BY <1>1, <1>2, <1>3, <1>4, Zenon DEF Succeed
<1>6. /\ entry.rows = Results[s][q] /\ entry.ed = edition /\ entry.expires = clock + TTL
      /\ j.pc = "done" /\ j.n = 0 /\ j.rows = Results[s][q] /\ j.ed = edition /\ j.at = clock
      /\ j.err = FALSE
  BY <1>1, <1>2, <1>3, <1>4 DEF Idle
<1>7. j \in JobType
  <2>1. j = [pc |-> "done", n |-> 0, rows |-> rows, err |-> FALSE, ed |-> edition, at |-> clock]
    BY <1>4 DEF Idle
  <2>2. rows \in {<<>>} \cup {Results[t][k] : t \in Sources, k \in Queries}
    BY <1>1, <1>2
  <2>3. edition \in BOOLEAN /\ clock \in Int
    BY ClockFacts DEF IInv
  <2> QED BY <2>1, <2>2, <2>3 DEF JobType
<1>8. /\ JobTypes' /\ AnsweredEnded' /\ IdleJobs' /\ FailuresNamed'
      /\ job'[c][s] = j
      /\ \A d \in Calls, t \in Sources : d # c \/ t # s => job'[d][t] = job[d][t]
  BY <1>5, <1>6, <1>7, Constants, JobKept DEF world
<1>9. /\ DOMAIN cache' = Sources /\ cache' = [t \in Sources |-> cache'[t]]
      /\ \A t \in Sources : t # s => cache'[t] = cache[t]
      /\ \A k \in DOMAIN cache'[s] : \/ k = q /\ cache'[s][k] = entry /\ TTL > 0
                                     \/ k \in DOMAIN cache[s] /\ cache'[s][k] = cache[s][k]
      /\ IsFiniteSet(DOMAIN cache'[s]) /\ Cardinality(DOMAIN cache'[s]) <= MaxEntries
  BY <1>5, PutFacts DEF IInv, Types
<1>10. /\ clock \in 0 .. MaxTime /\ since \in 0 .. MaxTime /\ MaxTime \in Nat
       /\ TTL \in Int /\ since <= clock
  BY Constants, ClockFacts DEF IInv, Reality
<1>11. CacheTypes'
  <2>1. ASSUME NEW t \in Sources, NEW k \in DOMAIN cache'[t]
        PROVE  k \in Queries /\ cache'[t][k].expires \in 0 .. MaxTime + TTL /\ cache'[t][k].ed \in BOOLEAN
    <3>1. CASE k \in DOMAIN cache[t] /\ cache'[t][k] = cache[t][k]
      BY <3>1 DEF IInv, Types, CacheTypes
    <3>2. CASE k = q /\ cache'[t][k] = entry /\ TTL > 0
      <4>1. edition \in BOOLEAN
        BY DEF IInv, Types, Clock
      <4> QED BY <1>6, <1>10, <3>2, <4>1
    <3> QED BY <1>9, <2>1, <3>1, <3>2
  <2>2. \A t \in Sources : IsFiniteSet(DOMAIN cache'[t]) /\ Cardinality(DOMAIN cache'[t]) <= MaxEntries
    BY <1>9 DEF IInv, Types, CacheTypes
  <2> QED BY <1>9, <2>1, <2>2 DEF CacheTypes
<1>12. Types'
  BY <1>5, <1>8, <1>11 DEF IInv, Types, Clock, CallTypes, world
<1>13. ASSUME NEW t \in Sources, NEW k \in DOMAIN cache'[t] PROVE Entry(t, k)'
  <2>1. CASE k \in DOMAIN cache[t] /\ cache'[t][k] = cache[t][k]
    BY <1>5, <2>1 DEF IInv, Reality, Entry, world
  <2>2. CASE t = s /\ k = q /\ cache'[t][k] = entry /\ TTL > 0
    BY <1>5, <1>6, <1>10, <2>2 DEF Entry, world
  <2> QED BY <1>9, <1>13, <2>1, <2>2
<1>14. ASSUME NEW d \in Calls, NEW t \in Sources PROVE Real(d, t)'
  <2>1. CASE d = c /\ t = s
    BY <1>2, <1>5, <1>6, <1>8, <1>10, <2>1 DEF Real, world
  <2>2. CASE d # c \/ t # s
    BY <1>5, <1>8, <2>2 DEF Real, IInv, Reality, world
  <2> QED BY <2>1, <2>2
<1>15. Reality'
  BY <1>5, <1>10, <1>13, <1>14 DEF Reality, world
<1> QED BY <1>8, <1>12, <1>15 DEF IInv

\* An answer out of the cache.
LEMMA GetHitKept ==
  ASSUME IInv, NEW c \in Calls, NEW s \in Sources, GetHit(c, s)
  PROVE  IInv'
<1>1. PICK e : e = cache[s][call[c].q]
  OBVIOUS
<1>2. PICK q \in Queries : q = call[c].q
  BY DEF IInv, Types, CallTypes
<1>3. PICK j : j = [Idle EXCEPT !.pc = "done", !.rows = e.rows, !.ed = e.ed, !.at = clock]
  OBVIOUS
<1>4. /\ SetJob(c, s, j) /\ UNCHANGED <<cache, call, world>>
      /\ job[c][s].pc = "get" /\ q \in DOMAIN cache[s] /\ clock < e.expires
  BY <1>1, <1>2, <1>3 DEF GetHit, get
<1>5. /\ e.rows = Results[s][q] /\ e.expires <= clock + TTL
      /\ edition /\ ~e.ed => e.expires <= since + TTL
      /\ e.ed \in BOOLEAN /\ e.expires \in 0 .. MaxTime + TTL
  BY <1>1, <1>2, <1>4 DEF IInv, Types, CacheTypes, Reality, Entry
<1>6. /\ j.pc = "done" /\ j.n = 0 /\ j.rows = Results[s][q] /\ j.ed = e.ed /\ j.at = clock
      /\ j.err = FALSE
  BY <1>3, <1>5 DEF Idle
<1>7. clock \in Int /\ since \in Int /\ TTL \in Int
  BY ClockFacts DEF IInv
<1>8. j \in JobType
  <2>1. j = [pc |-> "done", n |-> 0, rows |-> e.rows, err |-> FALSE, ed |-> e.ed, at |-> clock]
    BY <1>3 DEF Idle
  <2>2. e.rows \in {<<>>} \cup {Results[t][k] : t \in Sources, k \in Queries}
    BY <1>2, <1>5
  <2> QED BY <1>5, <1>7, <2>1, <2>2 DEF JobType
<1>9. edition /\ ~j.ed => j.at < since + TTL
  BY <1>4, <1>5, <1>6, <1>7
<1>10. j.rows = Results[s][call[c].q] /\ j.at <= clock
  BY <1>2, <1>6, <1>7
<1>11. jar' \in BOOLEAN
  BY <1>4 DEF world, IInv, Types, Clock
<1> QED BY <1>4, <1>6, <1>8, <1>9, <1>10, <1>11, Constants, StepKept DEF world

Places == {"idle", "get", "send", "backoff", "login", "load", "relogin", "done"}

LEMMA JobTo ==
  ASSUME NEW j \in JobType, NEW p \in Places, NEW k, k = [j EXCEPT !.pc = p]
  PROVE  k \in JobType /\ k.pc = p /\ k.n = j.n
<1>1. k = [pc |-> p, n |-> j.n, rows |-> j.rows, err |-> j.err, ed |-> j.ed, at |-> j.at]
  BY DEF JobType
<1> QED BY <1>1 DEF JobType, Places

LEMMA JobN ==
  ASSUME NEW j \in JobType, NEW n \in Nat, NEW k, k = [j EXCEPT !.n = n]
  PROVE  k \in JobType /\ k.pc = j.pc /\ k.n = n
<1>1. k = [pc |-> j.pc, n |-> n, rows |-> j.rows, err |-> j.err, ed |-> j.ed, at |-> j.at]
  BY DEF JobType
<1> QED BY <1>1 DEF JobType

(***************************************************************************)
(* The steps of a client and of the site.                                  *)
(***************************************************************************)
LEMMA ClientKept ==
  ASSUME IInv, NEW c \in Calls, NEW s \in Sources, ClientStep(c, s)
  PROVE  IInv'
<1>0. job[c][s] \in JobType /\ job[c][s].n <= (IF s = Site THEN 2 ELSE Attempts) /\ jar \in BOOLEAN
  BY DEF IInv, Types, JobTypes, Clock
<1>1. CASE GetBlank(c, s)
  BY <1>1, FailedKept DEF GetBlank
<1>2. CASE GetHit(c, s)
  BY <1>2, GetHitKept
<1>3. CASE GetMiss(c, s)
  <2>1. PICK p : p = IF s = Site THEN "login" ELSE "send"
    OBVIOUS
  <2>2. PICK j : j = [Idle EXCEPT !.pc = p, !.n = 1]
    OBVIOUS
  <2>3. SetJob(c, s, j) /\ job[c][s].pc = "get" /\ UNCHANGED <<cache, call, world>>
    BY <1>3, <2>1, <2>2, Zenon DEF GetMiss
  <2>4. j \in JobType /\ j.pc # "done" /\ j.n = 1
    <3>1. p \in Places /\ p # "done" /\ 1 \in Nat
      BY <2>1 DEF Places
    <3>2. PICK i : i = [Idle EXCEPT !.pc = p]
      OBVIOUS
    <3>3. i \in JobType /\ i.pc = p
      BY <3>1, <3>2, IdleType, JobTo
    <3>4. j = [i EXCEPT !.n = 1]
      BY <2>2, <3>2
    <3> QED BY <3>1, <3>3, <3>4, JobN
  <2> QED BY <1>0, <2>3, <2>4, Constants, GoesOn DEF world
<1>4. CASE ReplyOK(c, s)
  BY <1>4, SucceedKept DEF ReplyOK
<1>5. CASE SendFails(c, s)
  BY <1>5, FailedKept DEF SendFails
<1>6. CASE SendTimesOut(c, s)
  <2>1. CASE Failed(c, s)
    BY <1>6, <2>1, FailedKept DEF SendTimesOut
  <2>2. CASE ~Failed(c, s)
    <3>1. PICK n : n = job[c][s].n + 1
      OBVIOUS
    <3>2. PICK j : j = [job[c][s] EXCEPT !.pc = "backoff", !.n = n]
      OBVIOUS
    <3>3. /\ SetJob(c, s, j) /\ job[c][s].n < Attempts
          /\ s \in Aggregators /\ job[c][s].pc = "send" /\ UNCHANGED <<cache, call, world>>
      BY <1>6, <2>2, <3>1, <3>2, Zenon DEF SendTimesOut
    <3>4. n \in Nat /\ n <= Attempts /\ s # Site
      <4>1. job[c][s].n \in Nat
        BY <1>0 DEF JobType
      <4> QED BY <3>1, <3>3, <4>1, Constants
    <3>5. j \in JobType /\ j.pc # "done" /\ j.n = n
      <4>1. "backoff" \in Places
        BY DEF Places
      <4>2. PICK i : i = [job[c][s] EXCEPT !.pc = "backoff"]
        OBVIOUS
      <4>3. i \in JobType /\ i.pc = "backoff"
        BY <1>0, <4>1, <4>2, JobTo
      <4>4. j = [i EXCEPT !.n = n]
        BY <3>2, <4>2
      <4> QED BY <3>4, <4>3, <4>4, JobN
    <3> QED BY <1>0, <3>3, <3>4, <3>5, GoesOn DEF world
  <2> QED BY <2>1, <2>2
<1>7. CASE Backoff(c, s)
  <2>1. PICK j : j = [job[c][s] EXCEPT !.pc = "send"]
    OBVIOUS
  <2>2. SetJob(c, s, j) /\ job[c][s].pc = "backoff" /\ UNCHANGED <<cache, call, world>>
    BY <1>7, <2>1, Zenon DEF Backoff
  <2>3. j \in JobType /\ j.pc # "done" /\ j.n = job[c][s].n
    <3>1. "send" \in Places
      BY DEF Places
    <3>2. j \in JobType /\ j.pc = "send" /\ j.n = job[c][s].n
      BY <1>0, <2>1, <3>1, JobTo
    <3> QED BY <3>2
  <2> QED BY <1>0, <2>2, <2>3, GoesOn DEF world
<1> QED BY <1>1, <1>2, <1>3, <1>4, <1>5, <1>6, <1>7 DEF ClientStep

LEMMA SiteKept ==
  ASSUME IInv, NEW c \in Calls, SiteStep(c)
  PROVE  IInv'
<1>0. job[c][Site] \in JobType /\ job[c][Site].n <= 2 /\ jar \in BOOLEAN /\ Site \in Sources
  BY Constants DEF IInv, Types, JobTypes, Clock
<1>1. ASSUME NEW p \in {"load", "login"}, SetJob(c, Site, [job[c][Site] EXCEPT !.pc = p]),
             job[c][Site].pc \in {"login", "relogin"},
             UNCHANGED <<setup, sources, cache, call, login, edition, since, clock, left>>, jar' \in BOOLEAN
      PROVE  IInv'
  <2>1. PICK j : j = [job[c][Site] EXCEPT !.pc = p]
    OBVIOUS
  <2>2. SetJob(c, Site, j)
    BY <1>1, <2>1, Zenon
  <2>3. j \in JobType /\ j.pc # "done" /\ j.n = job[c][Site].n
    <3>1. p \in Places /\ p # "done"
      BY DEF Places
    <3> QED BY <1>0, <2>1, <3>1, JobTo
  <2> QED BY <1>0, <1>1, <2>2, <2>3, GoesOn
<1>2. CASE NeedsNoLogin(c)
  BY <1>0, <1>1, <1>2 DEF NeedsNoLogin, world
<1>3. CASE LogIn(c)
  <2>1. CASE job[c][Site].pc = "login"
    BY <1>1, <1>3, <2>1 DEF LogIn
  <2>2. CASE job[c][Site].pc = "relogin"
    BY <1>1, <1>3, <2>2 DEF LogIn
  <2> QED BY <1>3, <2>1, <2>2 DEF LogIn
<1>4. CASE LogInFails(c)
  BY <1>0, <1>4, FailedKept DEF LogInFails
<1>5. CASE LoadFails(c)
  BY <1>0, <1>5, FailedKept DEF LoadFails
<1>6. CASE LoadOK(c)
  <2>1. CASE ~call[c].res
    BY <1>0, <1>6, <2>1, SucceedKept DEF LoadOK
  <2>2. CASE call[c].res
    <3>1. PICK j : j = [Idle EXCEPT !.pc = "done"]
      OBVIOUS
    <3>2. SetJob(c, Site, j) /\ job[c][Site].pc = "load" /\ UNCHANGED <<cache, call, world>>
      BY <1>6, <2>2, <3>1, Zenon DEF LoadOK
    <3>3. j \in JobType /\ j.n = 0
      <4>1. "done" \in Places /\ Idle.n = 0
        BY DEF Places, Idle
      <4> QED BY <3>1, <4>1, IdleType, JobTo, Zenon
    <3> QED BY <1>0, <2>2, <3>2, <3>3, StepKept DEF world
  <2> QED BY <2>1, <2>2
<1>7. CASE LoggedOut(c)
  <2>1. CASE Failed(c, Site)
    BY <1>0, <1>7, <2>1, FailedKept DEF LoggedOut
  <2>2. CASE ~Failed(c, Site)
    <3>1. PICK j : j = [job[c][Site] EXCEPT !.pc = "relogin", !.n = 2]
      OBVIOUS
    <3>2. SetJob(c, Site, j) /\ job[c][Site].pc = "load" /\ UNCHANGED <<cache, call, world>>
      BY <1>7, <2>2, <3>1, Zenon DEF LoggedOut
    <3>3. j \in JobType /\ j.pc # "done" /\ j.n = 2
      <4>1. "relogin" \in Places /\ 2 \in Nat
        BY DEF Places
      <4>2. PICK i : i = [job[c][Site] EXCEPT !.pc = "relogin"]
        OBVIOUS
      <4>3. i \in JobType /\ i.pc = "relogin"
        BY <1>0, <4>1, <4>2, JobTo
      <4>4. j = [i EXCEPT !.n = 2]
        BY <3>1, <4>2
      <4> QED BY <4>1, <4>3, <4>4, JobN
    <3> QED BY <1>0, <3>2, <3>3, GoesOn DEF world
  <2> QED BY <2>1, <2>2
<1> QED BY <1>2, <1>3, <1>4, <1>5, <1>6, <1>7 DEF SiteStep

(***************************************************************************)
(* The requests and the world.                                             *)
(***************************************************************************)
\* A request begins or ends: its goroutines start from Idle, the others are
\* as they were.
LEMMA NewJobs ==
  ASSUME IInv, NEW c \in Calls, NEW js \in [Sources -> JobType], job' = [job EXCEPT ![c] = js],
         \A s \in Sources : js[s].pc # "done" /\ js[s].n <= 1,
         call'[c].pc # "answered", CallTypes',
         call'[c].pc = "idle" => \A s \in Sources : js[s].pc = "idle",
         \A d \in Calls : d # c => call'[d] = call[d],
         UNCHANGED <<setup, sources, cache, login, jar, edition, since, clock>>,
         left' \in 0 .. setup.requests
  PROVE  IInv'
<1>1. /\ job' \in [Calls -> [Sources -> JobType]] /\ job'[c] = js
      /\ \A d \in Calls : d # c => job'[d] = job[d]
  BY DEF IInv, Types, JobTypes
<1>2. JobTypes'
  <2> SUFFICES ASSUME NEW d \in Calls, NEW s \in Sources
               PROVE  job'[d][s].n <= IF s = Site THEN 2 ELSE Attempts
    BY <1>1 DEF JobTypes
  <2>1. CASE d = c
    <3>1. job'[d][s].n <= 1 /\ job'[d][s].n \in Nat
      BY <1>1, <2>1 DEF JobType
    <3> QED BY <3>1, Constants
  <2>2. CASE d # c
    BY <1>1, <2>2 DEF IInv, Types, JobTypes
  <2> QED BY <2>1, <2>2
<1>3. Types'
  BY <1>2 DEF IInv, Types, Clock, CacheTypes
<1>4. Reality'
  <2>1. \A t \in Sources : \A k \in DOMAIN cache'[t] : Entry(t, k)'
    BY DEF IInv, Reality, Entry
  <2>2. \A d \in Calls, t \in Sources : Real(d, t)'
    BY <1>1 DEF Real, IInv, Reality
  <2>3. since' <= clock'
    BY DEF IInv, Reality
  <2> QED BY <2>1, <2>2, <2>3 DEF Reality
<1>5. ASSUME NEW d \in Calls, call'[d].pc = "answered", ~call'[d].res, sources' # <<>>
      PROVE  /\ d # c /\ call'[d] = call[d]
             /\ Ended(d)' = Ended(d) /\ FailedOf(d)' = FailedOf(d)
  BY <1>1, <1>5 DEF Ended, FailedOf
<1>6. AnsweredEnded'
  BY <1>5 DEF IInv, AnsweredEnded
<1>7. FailuresNamed'
  BY <1>5 DEF IInv, FailuresNamed, Answered
<1>8. IdleJobs'
  BY <1>1 DEF IInv, IdleJobs
<1> QED BY <1>3, <1>4, <1>6, <1>7, <1>8 DEF IInv

LEMMA CallShape ==
  ASSUME CallTypes, NEW c \in Calls, NEW r, r = [f \in DOMAIN NoCall |-> r[f]],
         r.pc \in {"idle", "running", "answered"}, r.warn \subseteq Sources, r.q \in Queries,
         call' = [call EXCEPT ![c] = r]
  PROVE  CallTypes' /\ call'[c] = r /\ \A d \in Calls : d # c => call'[d] = call[d]
<1>1. DOMAIN call = Calls
  BY Zenon DEF CallTypes
<1>2. /\ call'[c] = r /\ \A d \in Calls : d # c => call'[d] = call[d]
      /\ call' = [d \in Calls |-> call'[d]]
  BY <1>1
<1>3. ASSUME NEW d \in Calls
      PROVE  /\ call'[d] = [f \in DOMAIN NoCall |-> call'[d][f]]
             /\ call'[d].pc \in {"idle", "running", "answered"} /\ call'[d].warn \subseteq Sources
             /\ call'[d].q \in Queries
  <2>1. CASE d = c
    BY <1>2, <2>1
  <2>2. CASE d # c
    BY <1>2, <2>2 DEF CallTypes
  <2> QED BY <2>1, <2>2
<1> QED BY <1>2, <1>3 DEF CallTypes

\* What a step leaves of an invariant about the requests, when it changes
\* one of them and no goroutine.
LEMMA AnswerChanged ==
  ASSUME IInv, NEW c \in Calls, UNCHANGED <<setup, sources, cache, job, login, jar, edition, since, clock>>,
         left' \in 0 .. setup.requests, CallTypes',
         \A d \in Calls : d # c => call'[d] = call[d],
         call'[c].pc = "answered", \A s \in Sources : job[c][s].pc = "idle" \/ call'[c].q = call[c].q,
         call'[c].res = call[c].res \/ \A s \in Sources : job[c][s].pc = "idle",
         ~call'[c].res /\ sources # <<>> =>
           /\ Ended(c)
           /\ call'[c].err <=> FailedOf(c) = Range(sources)
           /\ ~call'[c].err => call'[c].warn = FailedOf(c)
  PROVE  IInv'
<1>1. Types'
  BY DEF IInv, Types, Clock, CacheTypes, JobTypes
<1>2. Reality'
  <2>1. \A t \in Sources : \A k \in DOMAIN cache'[t] : Entry(t, k)'
    BY DEF IInv, Reality, Entry
  <2>2. \A d \in Calls, t \in Sources : Real(d, t)'
    BY DEF Real, IInv, Reality
  <2>3. since' <= clock'
    BY DEF IInv, Reality
  <2> QED BY <2>1, <2>2, <2>3 DEF Reality
<1>3. \A d \in Calls : Ended(d)' = Ended(d) /\ FailedOf(d)' = FailedOf(d)
  BY DEF Ended, FailedOf
<1>4. AnsweredEnded' /\ FailuresNamed'
  BY <1>3 DEF IInv, AnsweredEnded, FailuresNamed, Answered
<1>5. IdleJobs'
  BY DEF IInv, IdleJobs
<1> QED BY <1>1, <1>2, <1>4, <1>5 DEF IInv

LEMMA NoCallShape ==
  /\ DOMAIN NoCall = {"pc", "q", "res", "rows", "warn", "err"}
  /\ NoCall.pc = "idle" /\ NoCall.q = Blank /\ NoCall.warn = {} /\ NoCall.res = FALSE
BY DEF NoCall

LEMMA AskKept ==
  ASSUME IInv, NEW c \in Calls, NEW q \in setup.queries, Ask(c, q)
  PROVE  IInv'
<1>0. /\ call[c].pc = "idle" /\ left > 0 /\ left' = left - 1
      /\ UNCHANGED <<setup, sources, cache, login, jar, edition, since, clock>>
  BY DEF Ask
<1>1. left' \in 0 .. setup.requests /\ q \in Queries
  <2>1. setup.requests \in Nat /\ q \in Queries /\ left \in 0 .. setup.requests
    BY SetupFacts DEF IInv, Types, Clock
  <2> QED BY <1>0, <2>1
<1>2. CallTypes
  BY DEF IInv, Types
<1>3. CASE sources = <<>>
  <2>1. PICK r : r = [NoCall EXCEPT !.pc = "answered", !.q = q, !.err = TRUE]
    OBVIOUS
  <2>2. call' = [call EXCEPT ![c] = r] /\ job' = job
    BY <1>3, <2>1, Zenon DEF Ask
  <2>3. /\ r = [pc |-> "answered", q |-> q, res |-> FALSE, rows |-> <<>>, warn |-> {}, err |-> TRUE]
        /\ r = [f \in DOMAIN NoCall |-> r[f]]
    BY <2>1 DEF NoCall
  <2>4. CallTypes' /\ call'[c] = r /\ \A d \in Calls : d # c => call'[d] = call[d]
    BY <1>1, <1>2, <2>2, <2>3, CallShape
  <2>5. \A s \in Sources : job[c][s].pc = "idle"
    BY <1>0 DEF IInv, IdleJobs
  <2>6. call'[c].pc = "answered"
    BY <2>3, <2>4
  <2> QED BY <1>0, <1>1, <1>3, <2>2, <2>4, <2>5, <2>6, AnswerChanged
<1>4. CASE sources # <<>>
  <2>1. PICK r : r = [NoCall EXCEPT !.pc = "running", !.q = q]
    OBVIOUS
  <2>2. PICK js : js = [s \in Sources |-> IF s \in Range(sources) THEN [Idle EXCEPT !.pc = "get"] ELSE Idle]
    OBVIOUS
  <2>3. call' = [call EXCEPT ![c] = r] /\ job' = [job EXCEPT ![c] = js]
    BY <1>4, <2>1, <2>2, Zenon DEF Ask
  <2>4. /\ r = [pc |-> "running", q |-> q, res |-> FALSE, rows |-> <<>>, warn |-> {}, err |-> FALSE]
        /\ r = [f \in DOMAIN NoCall |-> r[f]]
    BY <2>1 DEF NoCall
  <2>5. CallTypes' /\ call'[c] = r /\ \A d \in Calls : d # c => call'[d] = call[d]
    BY <1>1, <1>2, <2>3, <2>4, CallShape
  <2>6. js \in [Sources -> JobType] /\ \A s \in Sources : js[s].pc # "done" /\ js[s].n <= 1
    <3>1. PICK g : g = [Idle EXCEPT !.pc = "get"]
      OBVIOUS
    <3>2. "get" \in Places /\ Idle.n = 0 /\ Idle.pc = "idle"
      BY DEF Places, Idle
    <3>3. g \in JobType /\ g.pc = "get" /\ g.n = 0
      BY <3>1, <3>2, IdleType, JobTo
    <3>4. js = [s \in Sources |-> IF s \in Range(sources) THEN g ELSE Idle]
      BY <2>2, <3>1
    <3> QED BY <3>2, <3>3, <3>4, IdleType
  <2> QED BY <1>0, <1>1, <2>3, <2>4, <2>5, <2>6, NewJobs
<1> QED BY <1>3, <1>4

LEMMA ReturnKept ==
  ASSUME IInv, NEW c \in Calls, Return(c)
  PROVE  IInv'
<1>1. CallTypes' /\ call'[c] = NoCall /\ \A d \in Calls : d # c => call'[d] = call[d]
  <2>1. NoCall = [f \in DOMAIN NoCall |-> NoCall[f]]
    BY DEF NoCall
  <2>2. CallTypes /\ call' = [call EXCEPT ![c] = NoCall]
    BY DEF IInv, Types, Return
  <2> QED BY <2>1, <2>2, NoCallShape, Constants, CallShape
<1>2. PICK js : js = [s \in Sources |-> Idle]
  OBVIOUS
<1>3. job' = [job EXCEPT ![c] = js] /\ UNCHANGED <<cache, world>>
  BY <1>2, Zenon DEF Return
<1>4. js \in [Sources -> JobType] /\ \A s \in Sources : js[s].pc = "idle" /\ js[s].n = 0
  BY <1>2, IdleType DEF Idle
<1>5. left' \in 0 .. setup.requests
  BY <1>3 DEF IInv, Types, Clock, world
<1>6. call'[c].pc = "idle"
  BY <1>1, NoCallShape
<1>7. \A s \in Sources : js[s].pc # "done" /\ js[s].n <= 1
  BY <1>4
<1>8. UNCHANGED <<setup, sources, cache, login, jar, edition, since, clock>>
  BY <1>3 DEF world
<1> QED BY <1>1, <1>3, <1>4, <1>5, <1>6, <1>7, <1>8, NewJobs

LEMMA AskResolveKept ==
  ASSUME IInv, NEW c \in Calls, NEW k, AskResolve(c, k)
  PROVE  IInv'
<1>1. PICK r : r = [NoCall EXCEPT !.pc = "running", !.res = TRUE]
  OBVIOUS
<1>2. PICK js : js = [s \in Sources |->
                       IF s = call[c].rows[k].from[1] THEN [Idle EXCEPT !.pc = "login", !.n = 1] ELSE Idle]
  OBVIOUS
<1>3. /\ call' = [call EXCEPT ![c] = r] /\ job' = [job EXCEPT ![c] = js]
      /\ left > 0 /\ left' = left - 1 /\ UNCHANGED <<setup, sources, cache, login, jar, edition, since, clock>>
  BY <1>1, <1>2, Zenon DEF AskResolve
<1>4. CallTypes' /\ call'[c] = r /\ \A d \in Calls : d # c => call'[d] = call[d]
  <2>1. /\ r = [pc |-> "running", q |-> Blank, res |-> TRUE, rows |-> <<>>, warn |-> {}, err |-> FALSE]
        /\ r = [f \in DOMAIN NoCall |-> r[f]]
    BY <1>1 DEF NoCall
  <2>2. CallTypes /\ Blank \in Queries
    BY Constants DEF IInv, Types
  <2>3. r.pc = "running" /\ r.q = Blank /\ r.warn = {}
    BY <2>1
  <2> QED BY <1>3, <2>1, <2>2, <2>3, CallShape
<1>5. js \in [Sources -> JobType] /\ \A s \in Sources : js[s].pc # "done" /\ js[s].n <= 1
  <2>1. PICK i : i = [Idle EXCEPT !.pc = "login"]
    OBVIOUS
  <2>0. PICK g : g = [i EXCEPT !.n = 1]
    OBVIOUS
  <2>2. "login" \in Places /\ Idle.n = 0 /\ Idle.pc = "idle" /\ 1 \in Nat
    BY DEF Places, Idle
  <2>3. i \in JobType /\ i.pc = "login"
    BY <2>1, <2>2, IdleType, JobTo
  <2>4. g \in JobType /\ g.pc = "login" /\ g.n = 1
    BY <2>0, <2>2, <2>3, JobN
  <2>5. js = [s \in Sources |-> IF s = call[c].rows[k].from[1] THEN g ELSE Idle]
    BY <1>2, <2>0, <2>1
  <2> QED BY <2>2, <2>4, <2>5, IdleType
<1>6. left' \in 0 .. setup.requests
  <2>1. setup.requests \in Nat /\ left \in 0 .. setup.requests
    BY SetupFacts DEF IInv, Types, Clock
  <2> QED BY <1>3, <2>1
<1>7. r.pc = "running"
  BY <1>1 DEF NoCall
<1> QED BY <1>3, <1>4, <1>5, <1>6, <1>7, NewJobs

\* The answer: it names what failed, which stays as it is from here on.
LEMMA AnswerKept ==
  ASSUME IInv, NEW c \in Calls, Answer(c)
  PROVE  IInv'
<1>1. PICK m : m = IF call[c].res THEN [rows |-> <<>>, warn |-> {}, err |-> job[c][Site].err] ELSE Merge(c)
  OBVIOUS
<1>2. PICK r : r = [call[c] EXCEPT !.pc = "answered", !.rows = m.rows, !.warn = m.warn, !.err = m.err]
  OBVIOUS
<1>3. /\ call' = [call EXCEPT ![c] = r] /\ call[c].pc = "running" /\ Ended(c)
      /\ UNCHANGED <<cache, job, world>>
  BY <1>1, <1>2, Zenon DEF Answer
<1>4. FailedOf(c) \subseteq Range(sources) /\ Range(sources) \subseteq Sources
  BY SetupFacts DEF IInv, Types, FailedOf
<1>5. sources \in Seq(Sources)
  BY SetupFacts DEF IInv, Types
<1>6. m.warn \subseteq Sources
  <2>1. Merge(c).warn \subseteq Sources
    BY <1>4 DEF Merge
  <2> QED BY <1>1, <2>1
<1>7. ~call[c].res /\ sources # <<>> =>
        /\ m.err <=> FailedOf(c) = Range(sources)
        /\ ~m.err => m.warn = FailedOf(c)
  <2> SUFFICES ASSUME ~call[c].res, sources # <<>>
               PROVE  /\ m.err <=> FailedOf(c) = Range(sources)
                      /\ ~m.err => m.warn = FailedOf(c)
    OBVIOUS
  <2>1. m = Merge(c)
    BY <1>1
  <2>2. CASE Len(sources) = 1
    <3>1. Range(sources) = {sources[1]}
      BY <1>5, <2>2 DEF Range
    <3>2. m = [rows |-> Merged(c), warn |-> {}, err |-> FailedOf(c) # {}]
      BY <2>1, <2>2 DEF Merge
    <3>3. m.warn = {} /\ (m.err <=> FailedOf(c) # {})
      BY <3>2
    <3> QED BY <1>4, <3>1, <3>3
  <2>3. CASE Len(sources) # 1 /\ FailedOf(c) = Range(sources)
    BY <2>1, <2>3 DEF Merge
  <2>4. CASE Len(sources) # 1 /\ FailedOf(c) # Range(sources)
    BY <2>1, <2>4 DEF Merge
  <2> QED BY <2>2, <2>3, <2>4
<1>8. call[c] = [f \in DOMAIN NoCall |-> call[c][f]] /\ call[c].q \in Queries
  BY DEF IInv, Types, CallTypes
<1>9. DOMAIN call[c] = {"pc", "q", "res", "rows", "warn", "err"}
  BY <1>8, NoCallShape
<1>10. /\ r = [f \in DOMAIN NoCall |-> r[f]]
       /\ r.pc = "answered" /\ r.warn = m.warn /\ r.err = m.err /\ r.q = call[c].q /\ r.res = call[c].res
  BY <1>2, <1>9, NoCallShape
<1>11. CallTypes' /\ call'[c] = r /\ \A d \in Calls : d # c => call'[d] = call[d]
  <2>1. CallTypes
    BY DEF IInv, Types
  <2> QED BY <1>3, <1>6, <1>8, <1>10, <2>1, CallShape
<1>12. left' \in 0 .. setup.requests
  BY <1>3 DEF IInv, Types, Clock, world
<1> QED BY <1>3, <1>7, <1>10, <1>11, <1>12, AnswerChanged DEF world

\* Time, the trackers and the site.
LEMMA WorldKept ==
  ASSUME IInv, Tick \/ ListingChanges \/ SessionEnds \/ UNCHANGED vars
  PROVE  IInv'
<1>1. UNCHANGED <<setup, sources, cache, call, job, left>>
  BY DEF Tick, ListingChanges, SessionEnds, vars
<1>2. AnsweredEnded' /\ IdleJobs' /\ FailuresNamed'
  BY <1>1 DEF IInv, AnsweredEnded, IdleJobs, FailuresNamed, Answered, Ended, FailedOf
<1>3. /\ clock \in Nat /\ clock <= MaxTime /\ since \in Nat /\ since <= MaxTime /\ MaxTime \in Nat
      /\ TTL \in Int /\ since <= clock
  BY Constants, ClockFacts DEF IInv, Reality
<1>4. clock' \in 0 .. MaxTime /\ since' \in 0 .. MaxTime /\ clock <= clock' /\ since' <= clock'
  BY <1>3 DEF Tick, ListingChanges, SessionEnds, vars
<1>5. \/ edition' = edition /\ since' = since
      \/ edition' /\ ~edition /\ since' = clock
  BY DEF Tick, ListingChanges, SessionEnds, vars
<1>6. Types'
  <2>1. login' \in [session: {"", "live", "expired"}, creds: BOOLEAN] /\ jar' \in BOOLEAN /\ edition' \in BOOLEAN
    BY DEF IInv, Types, Clock, Tick, ListingChanges, SessionEnds, vars
  <2>2. Clock'
    BY <1>1, <1>4, <2>1 DEF IInv, Types, Clock
  <2> QED BY <1>1, <2>2 DEF IInv, Types, CacheTypes, CallTypes, JobTypes
<1>7. ASSUME NEW s \in Sources, NEW k \in DOMAIN cache'[s] PROVE Entry(s, k)'
  <2>1. Entry(s, k) /\ cache[s][k].expires \in Int
    BY <1>1, <1>7 DEF IInv, Types, CacheTypes, Reality
  <2> QED BY <1>1, <1>3, <1>4, <1>5, <2>1 DEF Entry
<1>8. ASSUME NEW c \in Calls, NEW s \in Sources PROVE Real(c, s)'
  <2>1. Real(c, s) /\ job[c][s].at \in Int
    BY DEF IInv, Types, JobTypes, JobType, Reality
  <2> QED BY <1>1, <1>3, <1>4, <1>5, <2>1 DEF Real
<1>9. Reality'
  BY <1>4, <1>7, <1>8 DEF Reality
<1> QED BY <1>2, <1>6, <1>9 DEF IInv

LEMMA NextInv == IInv /\ [Next]_vars => IInv'
<1> SUFFICES ASSUME IInv, [Next]_vars PROVE IInv'
  OBVIOUS
<1>1. ASSUME NEW c \in Calls, CallStep(c) PROVE IInv'
  BY <1>1, ClientKept, SiteKept, AnswerKept DEF CallStep
<1>2. ASSUME NEW c \in Calls, Return(c) PROVE IInv'
  BY <1>2, ReturnKept
<1>3. ASSUME NEW c \in Calls, NEW q \in setup.queries, Ask(c, q) PROVE IInv'
  BY <1>3, AskKept
<1>4. ASSUME NEW c \in Calls, NEW k \in DOMAIN call[c].rows, AskResolve(c, k) PROVE IInv'
  BY <1>4, AskResolveKept
<1>5. CASE Tick \/ ListingChanges \/ SessionEnds \/ UNCHANGED vars
  BY <1>5, WorldKept
<1> QED BY <1>1, <1>2, <1>3, <1>4, <1>5 DEF Next

LEMMA Invariance == Spec => []IInv
BY InitInv, NextInv, PTL DEF Spec

(***************************************************************************)
(* Theorems.                                                               *)
(***************************************************************************)
\* Every variable keeps its type, and no cache grows past its bound, for any
\* number of requests, sources, queries and attempts (maxCacheEntries, put).
THEOREM TypesHold == Spec => []TypeOK
<1>1. IInv => TypeOK
  <2> SUFFICES ASSUME IInv PROVE TypeOK
    OBVIOUS
  <2>1. ASSUME NEW c \in Calls, NEW s \in Sources
        PROVE  /\ job[c][s].pc \in {"idle", "get", "send", "backoff", "login", "load", "relogin", "done"}
               /\ job[c][s].n \in 0 .. IF s = Site THEN 2 ELSE Attempts
               /\ job[c][s].err \in BOOLEAN
    <3>1. job[c][s] \in JobType /\ job[c][s].n <= IF s = Site THEN 2 ELSE Attempts
      BY DEF IInv, Types, JobTypes
    <3> QED BY <3>1, Constants DEF JobType
  <2> QED BY <2>1 DEF TypeOK, IInv, Types, Clock, CacheTypes, CallTypes
<1> QED BY <1>1, Invariance, PTL

\* What a source answers, from its cache or not, is what its tracker lists
\* for that very query, and a change of the listing shows after the TTL at
\* the latest, however requests, refills and logins overlap (get, put).
THEOREM AnswersReal == Spec => []AnswersAreReal
<1>1. IInv => AnswersAreReal
  BY DEF IInv, Reality, Real, AnswersAreReal
<1> QED BY <1>1, Invariance, PTL

\* A search is an error when every source failed and only then, and otherwise
\* names each source that failed (Multi.Search).
THEOREM FailuresReported == Spec => []FailuresNamed
<1>1. IInv => FailuresNamed
  BY DEF IInv
<1> QED BY <1>1, Invariance, PTL

\* The only step that touches a cache is the put of a good reply.
LEMMA OnlyPuts ==
  ASSUME IInv, Next
  PROVE  \/ cache' = cache
         \/ \E s \in Sources, q \in Queries : \E entry : put(s, q, entry)
<1>1. ASSUME NEW c \in Calls, NEW s \in Sources, Succeed(c, s)
      PROVE  \E q \in Queries : \E entry : put(s, q, entry)
  <2>1. call[c].q \in Queries
    BY DEF IInv, Types, CallTypes
  <2> QED BY <1>1, <2>1, Zenon DEF Succeed
<1>2. ASSUME NEW c \in Calls, CallStep(c), ~UNCHANGED cache
      PROVE  \E s \in Sources : Succeed(c, s)
  <2>1. ASSUME NEW s \in Sources, ClientStep(c, s) PROVE Succeed(c, s)
    BY <1>2, <2>1 DEF ClientStep, GetBlank, GetHit, GetMiss, ReplyOK, SendFails, SendTimesOut, Backoff
  <2>2. CASE SiteStep(c)
    <3>1. Succeed(c, Site)
      BY <1>2, <2>2 DEF SiteStep, NeedsNoLogin, LogIn, LogInFails, LoadFails, LoadOK, LoggedOut
    <3> QED BY <3>1, Constants
  <2>3. ~Answer(c)
    BY <1>2 DEF Answer
  <2> QED BY <1>2, <2>1, <2>2, <2>3 DEF CallStep
<1>3. \/ \E c \in Calls : CallStep(c)
      \/ cache' = cache
  BY DEF Next, Return, Ask, AskResolve, Tick, ListingChanges, SessionEnds, world
<1> QED BY <1>1, <1>2, <1>3

\* A cache gives up an entry only for a key it does not have, when it is full,
\* and then one with least left to give, for any size and any number of
\* requests that refill it (put).
THEOREM CacheKept == Spec => CacheKeeps
<1> DEFINE Keeps == \A s \in Sources : \A k \in DOMAIN cache[s] \ DOMAIN cache'[s] :
              /\ Cardinality(DOMAIN cache'[s]) = MaxEntries
              /\ DOMAIN cache'[s] \ DOMAIN cache[s] # {}
              /\ \A j \in DOMAIN cache[s] : cache[s][k].expires <= cache[s][j].expires
<1>1. IInv /\ [Next]_vars => [Keeps]_vars
  <2> SUFFICES ASSUME IInv, Next PROVE Keeps
    BY DEF vars
  <2>1. CASE cache' = cache
    BY <2>1
  <2>2. ASSUME NEW s \in Sources, NEW q \in Queries, NEW entry, put(s, q, entry) PROVE Keeps
    <3>1. CacheTypes
      BY DEF IInv, Types
    <3>2. /\ \A t \in Sources : t # s => cache'[t] = cache[t]
          /\ \A k \in DOMAIN cache[s] \ DOMAIN cache'[s] :
              /\ Cardinality(DOMAIN cache'[s]) = MaxEntries
              /\ DOMAIN cache'[s] \ DOMAIN cache[s] # {}
              /\ \A j \in DOMAIN cache[s] : cache[s][k].expires <= cache[s][j].expires
      BY <2>2, <3>1, PutFacts
    <3> QED BY <3>2
  <2> QED BY <2>1, <2>2, OnlyPuts
<1>2. [][Next]_vars /\ []IInv => [][Keeps]_vars
  BY <1>1, PTL
<1> QED BY <1>2, Invariance, PTL DEF Spec, CacheKeeps
=============================================================================
