------------------------------ MODULE MCSearch ------------------------------
(***************************************************************************)
(* Values for the constants of Search.                                     *)
(***************************************************************************)
EXTENDS Search, TLC

CONSTANTS jk, rt, q1, q2, q3, blank

Row(m, u, n) == [magnet |-> m, upper |-> u, seeders |-> n]

\* Two trackers that both have one torrent, one with its hash in capitals,
\* rows that tie, and a row without a seeder count.
TwoListings ==
  [s \in Sources |-> [q \in Queries |->
    CASE s = jk /\ q = q1 -> <<Row("h1", FALSE, Null), Row(NoHash, FALSE, <<1>>), Row("h1", TRUE, <<2>>)>>
      [] s = jk /\ q = q2 -> <<>>
      [] s = rt /\ q = q1 -> <<Row(NoHash, FALSE, <<1>>), Row(NoHash, FALSE, <<2>>)>>
      [] OTHER -> <<Row(NoHash, FALSE, <<0>>)>>]]

Setup(src, session, creds, qs, n) ==
  [sources |-> src, session |-> session, creds |-> creds, queries |-> qs, requests |-> n]

\* Nothing configured; one source and enough queries to fill its cache; the
\* two together, with a session cookie and with a login.
FourSetups ==
  {Setup(<<>>, "live", FALSE, {q1}, 1),
   Setup(<<jk>>, "live", FALSE, {q1, q2, q3}, 3),
   Setup(<<jk, rt>>, "live", TRUE, {q1, blank}, 2),
   Setup(<<jk, rt>>, "", TRUE, {q1}, 2)}
=============================================================================
