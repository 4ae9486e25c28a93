------------------------------- MODULE Search -------------------------------
(***************************************************************************)
(* The daemon's searcher (internal/indexer): the fan-out to every source,  *)
(* the aggregator clients with their retries, the site read through a      *)
(* browser with its login, and the cache each source keeps.                *)
(*                                                                         *)
(* What a tracker lists for a query is given by a constant; a row is       *)
(* reduced to its link and its seeders. Requests run concurrently, one     *)
(* goroutine for each source of each call.                                 *)
(***************************************************************************)
EXTENDS Lists, Integers, SequencesExt

CONSTANTS Calls,        \* concurrent requests to the daemon
          Aggregators,  \* the sources that are a Client (jackett, prowlarr)
          Site,         \* the source that is a Rutracker
          Queries,      \* queries, the blank one among them
          Blank,
          Listing,      \* what each source sends for each query: a sequence of rows
          Attempts,     \* c.attempts
          MaxEntries,   \* maxCacheEntries
          TTL,          \* how long an answer stays fresh; negative: no cache
          Setups,       \* the configurations: the sources, the site's session cookie and
                        \* credentials, and (a bound) the queries and the number of requests
          MaxTime       \* bound: the clock

Sources == Aggregators \cup {Site}
NoHash  == "no hash"   \* infoHash of a link that is not a magnet
Null    == <<>>        \* a count the tracker does not publish (a nil pointer); <<n>> is n
Unknown == -1

ASSUME SearchAssumption ==
  /\ Site \notin Aggregators /\ Blank \in Queries
  /\ Attempts \in Nat \ {0} /\ MaxEntries \in Nat \ {0} /\ TTL \in Int \ {0}
  /\ MaxTime \in Nat
  /\ Setups \subseteq [sources: Seq(Sources), session: {"", "live"}, creds: BOOLEAN,
                       queries: SUBSET Queries, requests: Nat]
  /\ \A u \in Setups : u.session # "" \/ u.creds     \* NewRutracker

VARIABLES
  setup,     \* the member of Setups this behaviour is about
  sources,   \* the sources searched: a Multi, one of them, or none
  cache,     \* the cache of each source: a function on the keys it holds
  call,      \* each request
  job,       \* the goroutine of each request at each source
  login,     \* the site's options, and whether the session cookie is still good
  jar,       \* whether the browser itself is logged in
  edition,   \* whether the listing has changed
  since,     \* when it did
  clock,
  left       \* how many more requests

vars == <<setup, sources, cache, call, job, login, jar, edition, since, clock, left>>

(***************************************************************************)
(* Rows and their order.                                                   *)
(***************************************************************************)
numCount(p) == IF p = Null THEN Unknown ELSE p[1]

\* The link of an aggregator's row is its magnet before its URL; a row of
\* the site has none of both, and gets a token.
parse(s, wire) ==
  [i \in DOMAIN wire |->
    [link |-> CASE s = Site -> [kind |-> "token", hash |-> NoHash, upper |-> FALSE]
                [] s # Site /\ wire[i].magnet # NoHash ->
                     [kind |-> "magnet", hash |-> wire[i].magnet, upper |-> wire[i].upper]
                [] OTHER -> [kind |-> "url", hash |-> NoHash, upper |-> FALSE],
     seeders |-> numCount(wire[i].seeders), from |-> <<s, i>>]]

infoHashAsWritten(link) == IF link.upper THEN "HASH" ELSE link.hash
infoHash(link) == link.hash

dedupe(rows) ==
  FoldLeft(LAMBDA out, r : IF infoHash(r.link) # NoHash
                              /\ \E k \in DOMAIN out : infoHash(out[k].link) = infoHash(r.link)
                           THEN out ELSE Append(out, r), <<>>, rows)

sortResults(rows) == StableSorted(rows, LAMBDA r, t : r.seeders > t.seeders)

\* What a source's Search makes of a good reply.
Results == [s \in Sources |-> [q \in Queries |-> sortResults(parse(s, Listing[s][q]))]]

(***************************************************************************)
(* The cache of a source.                                                  *)
(***************************************************************************)
getExpired(s, key) == key \in DOMAIN cache[s]
get(s, key) == key \in DOMAIN cache[s] /\ clock < cache[s][key].expires

SoonestExpiring(c) == {k \in DOMAIN c : \A j \in DOMAIN c : c[k].expires <= c[j].expires}

\* What is dropped to make room for key: any of the entries expiring
\* soonest, when the cache is full and key is not in it.
VictimsNever(s, key) == {{}}
VictimsAlways(s, key) ==
  IF Cardinality(DOMAIN cache[s]) >= MaxEntries THEN {{k} : k \in SoonestExpiring(cache[s])} ELSE {{}}
Victims(s, key) ==
  IF key \notin DOMAIN cache[s] /\ Cardinality(DOMAIN cache[s]) >= MaxEntries
  THEN {{k} : k \in SoonestExpiring(cache[s])}
  ELSE {{}}

put(s, key, entry) ==
  IF TTL < 0 THEN UNCHANGED cache
  ELSE \E gone \in Victims(s, key) :
         cache' = [cache EXCEPT ![s] =
           [k \in (DOMAIN cache[s] \ gone) \cup {key} |-> IF k = key THEN entry ELSE cache[s][k]]]

(***************************************************************************)
(* State.                                                                  *)
(***************************************************************************)
\* n: the attempt of an aggregator, the round of the site's page; err: an
\* error of any kind (package errors only words them differently); ed: the edition the answer is from; at: when it came.
Idle == [pc |-> "idle", n |-> 0, rows |-> <<>>, err |-> FALSE, ed |-> FALSE, at |-> 0]

\* A request: a search for q, or (res) the resolving of a row's token.
NoCall == [pc |-> "idle", q |-> Blank, res |-> FALSE, rows |-> <<>>, warn |-> {}, err |-> FALSE]

TypeOK ==
  /\ setup \in Setups /\ sources = setup.sources
  /\ \A s \in Sources : Cardinality(DOMAIN cache[s]) <= MaxEntries
  /\ \A s \in Sources : \A k \in DOMAIN cache[s] :
       k \in Queries /\ cache[s][k].expires \in 0 .. MaxTime + TTL
  /\ \A c \in Calls : call[c].pc \in {"idle", "running", "answered"} /\ call[c].warn \subseteq Sources
  /\ \A c \in Calls, s \in Sources :
       /\ job[c][s].pc \in {"idle", "get", "send", "backoff", "login", "load", "relogin", "done"}
       /\ job[c][s].n \in 0 .. IF s = Site THEN 2 ELSE Attempts
       /\ job[c][s].err \in BOOLEAN
  /\ login \in [session: {"", "live", "expired"}, creds: BOOLEAN]
  /\ jar \in BOOLEAN /\ edition \in BOOLEAN
  /\ since \in 0 .. MaxTime /\ clock \in 0 .. MaxTime /\ left \in 0 .. setup.requests

Init ==
  /\ setup \in Setups /\ sources = setup.sources
  /\ cache = [s \in Sources |-> <<>>]
  /\ call = [c \in Calls |-> NoCall]
  /\ job = [c \in Calls |-> [s \in Sources |-> Idle]]
  /\ login = [session |-> setup.session, creds |-> setup.creds]
  /\ jar = FALSE /\ edition = FALSE
  /\ since = 0 /\ clock = 0
  /\ left = setup.requests

world == <<setup, sources, login, jar, edition, since, clock, left>>

SetJob(c, s, j) == job' = [job EXCEPT ![c][s] = j]
Failed(c, s) == SetJob(c, s, [Idle EXCEPT !.pc = "done", !.err = TRUE])

(***************************************************************************)
(* Multi.Search: a goroutine for each source, and the merge when all have  *)
(* ended. With no source at all the server answers by itself.              *)
(***************************************************************************)
Ask(c, q) ==
  /\ call[c].pc = "idle" /\ left > 0
  /\ left' = left - 1
  /\ IF sources = <<>>
     THEN /\ call' = [call EXCEPT ![c] = [NoCall EXCEPT !.pc = "answered", !.q = q, !.err = TRUE]]
          /\ UNCHANGED job
     ELSE /\ call' = [call EXCEPT ![c] = [NoCall EXCEPT !.pc = "running", !.q = q]]
          /\ job' = [job EXCEPT ![c] = [s \in Sources |->
               IF s \in Range(sources) THEN [Idle EXCEPT !.pc = "get"] ELSE Idle]]
  /\ UNCHANGED <<setup, sources, cache, login, jar, edition, since, clock>>

Ended(c) == \A k \in DOMAIN sources : job[c][sources[k]].pc \in {"done", "idle"}
FailedOf(c) == {s \in Range(sources) : job[c][s].err}

Merged(c) ==
  FoldLeft(LAMBDA rows, s : rows \o job[c][s].rows, <<>>, sources)

\* One source alone is not wrapped in a Multi: its answer is the answer.
Merge(c) ==
  LET failed == FailedOf(c) IN
  IF Len(sources) = 1 THEN [rows |-> Merged(c), warn |-> {}, err |-> failed # {}]
  ELSE IF failed = Range(sources) THEN [rows |-> <<>>, warn |-> {}, err |-> TRUE]
  ELSE [rows |-> sortResults(dedupe(Merged(c))), warn |-> failed, err |-> FALSE]

Answer(c) ==
  /\ call[c].pc = "running" /\ Ended(c)
  /\ LET m == IF call[c].res THEN [rows |-> <<>>, warn |-> {}, err |-> job[c][Site].err] ELSE Merge(c) IN
     call' = [call EXCEPT ![c] = [@ EXCEPT !.pc = "answered", !.rows = m.rows, !.warn = m.warn, !.err = m.err]]
  /\ UNCHANGED <<cache, job, world>>

\* The caller has its answer and may ask again.
Return(c) ==
  /\ call[c].pc = "answered"
  /\ call' = [call EXCEPT ![c] = NoCall]
  /\ job' = [job EXCEPT ![c] = [s \in Sources |-> Idle]]
  /\ UNCHANGED <<cache, world>>

\* ResolveToken routes the token of a row to the source that issued it,
\* which reads the topic's page. Every other source has real links.
AskResolve(c, k) ==
  /\ call[c].pc = "answered" /\ ~call[c].res /\ left > 0
  /\ k \in DOMAIN call[c].rows /\ call[c].rows[k].link.kind = "token"
  /\ left' = left - 1
  /\ call' = [call EXCEPT ![c] = [NoCall EXCEPT !.pc = "running", !.res = TRUE]]
  /\ job' = [job EXCEPT ![c] = [s \in Sources |->
       IF s = call[c].rows[k].from[1] THEN [Idle EXCEPT !.pc = "login", !.n = 1] ELSE Idle]]
  /\ UNCHANGED <<setup, sources, cache, login, jar, edition, since, clock>>

(***************************************************************************)
(* What every source's Search begins and ends with.                        *)
(***************************************************************************)
GetBlank(c, s) ==
  /\ job[c][s].pc = "get" /\ call[c].q = Blank
  /\ Failed(c, s)
  /\ UNCHANGED <<cache, call, world>>

GetHit(c, s) ==
  /\ job[c][s].pc = "get" /\ call[c].q # Blank /\ get(s, call[c].q)
  /\ LET e == cache[s][call[c].q] IN
     SetJob(c, s, [Idle EXCEPT !.pc = "done", !.rows = e.rows, !.ed = e.ed, !.at = clock])
  /\ UNCHANGED <<cache, call, world>>

GetMiss(c, s) ==
  /\ job[c][s].pc = "get" /\ call[c].q # Blank /\ ~get(s, call[c].q)
  /\ SetJob(c, s, [Idle EXCEPT !.pc = IF s = Site THEN "login" ELSE "send", !.n = 1])
  /\ UNCHANGED <<cache, call, world>>

\* A good reply: parsed, sorted and cached.
Succeed(c, s) ==
  LET rows == Results[s][call[c].q] IN
  /\ SetJob(c, s, [Idle EXCEPT !.pc = "done", !.rows = rows, !.ed = edition, !.at = clock])
  /\ put(s, call[c].q, [rows |-> rows, ed |-> edition, expires |-> clock + TTL])
  /\ UNCHANGED <<call, world>>

(***************************************************************************)
(* Client.do: only a timeout is tried again, after a pause.                *)
(***************************************************************************)
ReplyOK(c, s) ==
  /\ s \in Aggregators /\ job[c][s].pc = "send"
  /\ Succeed(c, s)

\* Unreachable, an API key refused, another status, a reply that does not
\* parse: reported at once.
SendFails(c, s) ==
  /\ s \in Aggregators /\ job[c][s].pc = "send"
  /\ Failed(c, s)
  /\ UNCHANGED <<cache, call, world>>

SendTimesOutForever(c, s) ==
  /\ s \in Aggregators /\ job[c][s].pc = "send"
  /\ SetJob(c, s, [job[c][s] EXCEPT !.pc = "backoff"])
  /\ UNCHANGED <<cache, call, world>>
SendTimesOut(c, s) ==
  /\ s \in Aggregators /\ job[c][s].pc = "send"
  /\ IF job[c][s].n < Attempts THEN SetJob(c, s, [job[c][s] EXCEPT !.pc = "backoff", !.n = @ + 1])
                               ELSE Failed(c, s)
  /\ UNCHANGED <<cache, call, world>>

Backoff(c, s) ==
  /\ job[c][s].pc = "backoff"
  /\ SetJob(c, s, [job[c][s] EXCEPT !.pc = "send"])
  /\ UNCHANGED <<cache, call, world>>

(***************************************************************************)
(* Rutracker.page, in at most two rounds: fetchAs logs in when there is no *)
(* session cookie (login does not store one), and a page that turns out to *)
(* be the login page is read once more after another login.                *)
(***************************************************************************)
NeedsNoLogin(c) ==
  /\ job[c][Site].pc = "login" /\ login.session # ""
  /\ SetJob(c, Site, [job[c][Site] EXCEPT !.pc = "load"])
  /\ UNCHANGED <<cache, call, world>>

\* The form, submitted in the browser.
LogIn(c) ==
  /\ \/ job[c][Site].pc = "login" /\ login.session = ""
     \/ job[c][Site].pc = "relogin"
  /\ login.creds
  /\ SetJob(c, Site, IF job[c][Site].pc = "login" THEN [job[c][Site] EXCEPT !.pc = "load"]
                                                  ELSE [job[c][Site] EXCEPT !.pc = "login"])
  /\ jar' = TRUE
  /\ UNCHANGED <<cache, call, setup, sources, login, edition, since, clock, left>>

\* FlareSolverr fails, a captcha, or the login is rejected.
LogInFails(c) ==
  /\ \/ job[c][Site].pc = "login" /\ login.session = ""
     \/ job[c][Site].pc = "relogin"
  /\ Failed(c, Site)
  /\ UNCHANGED <<cache, call, world>>

\* The browser sends the session cookie it is given; when that one has
\* expired, or is empty, its own may or may not survive it.
LoadsLoggedIn == {login.session = "live"} \cup {jar \/ login.session = "live"}

\* FlareSolverr fails, or the page has no result table, the topic no magnet.
LoadFails(c) ==
  /\ job[c][Site].pc = "load"
  /\ Failed(c, Site)
  /\ UNCHANGED <<cache, call, world>>

LoadOK(c) ==
  /\ job[c][Site].pc = "load" /\ TRUE \in LoadsLoggedIn
  /\ IF call[c].res THEN /\ SetJob(c, Site, [Idle EXCEPT !.pc = "done"])
                         /\ UNCHANGED <<cache, call, world>>
                    ELSE Succeed(c, Site)

\* The login page came instead.
LoggedOut(c) ==
  /\ job[c][Site].pc = "load" /\ FALSE \in LoadsLoggedIn
  /\ IF job[c][Site].n = 1 /\ login.creds
     THEN SetJob(c, Site, [job[c][Site] EXCEPT !.pc = "relogin", !.n = 2])
     ELSE Failed(c, Site)
  /\ UNCHANGED <<cache, call, world>>

(***************************************************************************)
(* The world: time passes, a tracker's listing changes, a session ends.    *)
(***************************************************************************)
Tick ==
  /\ clock < MaxTime /\ clock' = clock + 1
  /\ UNCHANGED <<setup, sources, cache, call, job, login, jar, edition, since, left>>

ListingChanges ==
  /\ ~edition /\ edition' = TRUE /\ since' = clock
  /\ UNCHANGED <<setup, sources, cache, call, job, login, jar, clock, left>>

SessionEnds ==
  /\ \/ login.session = "live" /\ login' = [login EXCEPT !.session = "expired"] /\ UNCHANGED jar
     \/ jar /\ jar' = FALSE /\ UNCHANGED login
  /\ UNCHANGED <<setup, sources, cache, call, job, edition, since, clock, left>>

ClientStep(c, s) ==
  \/ GetBlank(c, s) \/ GetHit(c, s) \/ GetMiss(c, s) \/ ReplyOK(c, s)
  \/ SendFails(c, s) \/ SendTimesOut(c, s) \/ Backoff(c, s)

SiteStep(c) ==
  \/ NeedsNoLogin(c) \/ LogIn(c) \/ LogInFails(c)
  \/ LoadFails(c) \/ LoadOK(c) \/ LoggedOut(c)

CallStep(c) == (\E s \in Sources : ClientStep(c, s)) \/ SiteStep(c) \/ Answer(c)

Next ==
  \/ \E c \in Calls : CallStep(c) \/ Return(c)
  \/ \E c \in Calls, q \in setup.queries : Ask(c, q)
  \/ \E c \in Calls : \E k \in DOMAIN call[c].rows : AskResolve(c, k)
  \/ Tick \/ ListingChanges \/ SessionEnds

Spec == Init /\ [][Next]_vars

\* A goroutine goes on: every request of an http.Client ends by its timeout
\* at the latest. CallStep(c) is enabled exactly while c is running, so this
\* is WF_vars(CallStep(c)) with ENABLED written out.
Progress(c) == <>[](call[c].pc = "running") => []<><<CallStep(c)>>_vars
FairSpec == Spec /\ \A c \in Calls : Progress(c)

(***************************************************************************)
(* Properties.                                                             *)
(***************************************************************************)
Answered(c) == call[c].pc = "answered" /\ ~call[c].res /\ sources # <<>>

\* What the sources that answered listed, each row with its source's place.
Offered(c) ==
  UNION {{<<k, i>> : i \in DOMAIN job[c][sources[k]].rows} : k \in DOMAIN sources}
RowAt(c, p) == job[c][sources[p[1]]].rows[p[2]]
Earlier(p, o) == p[1] < o[1] \/ (p[1] = o[1] /\ p[2] < o[2])

\* A search is an error when every source failed and only then; otherwise
\* each source that failed is named, so a source that is down never reads as
\* a query that matched nothing (Multi.Search).
FailuresNamed ==
  \A c \in Calls : Answered(c) =>
    /\ call[c].err <=> FailedOf(c) = Range(sources)
    /\ ~call[c].err => call[c].warn = FailedOf(c)

\* Besides, an error comes without rows, and the answer has exactly the rows
\* some source listed, less those whose infohash an earlier row has, best
\* first, ties in the order of the sources (Multi.Search, dedupe): nothing
\* is lost, nothing is twice there.
MergeComplete ==
  /\ FailuresNamed
  /\ \A c \in Calls : Answered(c) =>
    LET first == {p \in Offered(c) : \A o \in Offered(c) :
                    Earlier(o, p) => \/ RowAt(c, p).link.hash = NoHash
                                     \/ RowAt(c, o).link.hash # RowAt(c, p).link.hash}
        better(p, o) == \/ RowAt(c, p).seeders > RowAt(c, o).seeders
                        \/ RowAt(c, p).seeders = RowAt(c, o).seeders /\ Earlier(p, o)
    IN /\ call[c].err => call[c].rows = <<>>
       /\ ~call[c].err /\ Len(sources) > 1 =>
            /\ Len(call[c].rows) = Cardinality(first)
            /\ \A p \in first :
                 call[c].rows[Cardinality({o \in first : better(o, p)}) + 1] = RowAt(c, p)

\* What a source answers, from its cache or not, is what its tracker lists
\* for that very query: no failure, and no page that is not a result page,
\* is remembered as an answer, and a change of the listing shows after the
\* TTL at the latest, however requests and refills overlap (get, put).
AnswersAreReal ==
  \A c \in Calls, s \in Sources :
    job[c][s].pc = "done" /\ ~job[c][s].err /\ ~call[c].res =>
      /\ job[c][s].rows = Results[s][call[c].q]
      /\ edition /\ ~job[c][s].ed => job[c][s].at <= since \/ job[c][s].at < since + TTL

\* The cache gives up an entry only for a key it does not have, when it is
\* full, and then the one with least left to give (put).
CacheKeeps ==
  [][\A s \in Sources : \A k \in DOMAIN cache[s] \ DOMAIN cache'[s] :
       /\ Cardinality(DOMAIN cache'[s]) = MaxEntries
       /\ DOMAIN cache'[s] \ DOMAIN cache[s] # {}
       /\ \A j \in DOMAIN cache[s] : cache[s][k].expires <= cache[s][j].expires]_vars

\* Every request is answered: the retries of a client and the logins of the
\* site come to an end.
SearchEnds == \A c \in Calls : call[c].pc = "running" ~> call[c].pc = "answered"
=============================================================================
