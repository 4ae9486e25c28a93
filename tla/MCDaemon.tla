------------------------------ MODULE MCDaemon ------------------------------
(***************************************************************************)
(* Values for the constants of Daemon.                                     *)
(***************************************************************************)
EXTENDS Daemon, TLC

\* The commands and the watch folder do not meet: each with two daemons.
Apart == {[who |-> {"watch"}, trouble |-> 2], [who |-> {"stop", "attach"}, trouble |-> 1]}

\* One daemon, started and stopped, with nothing going wrong.
Commands == {[who |-> {"stop"}, trouble |-> 0]}
=============================================================================
