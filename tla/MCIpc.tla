------------------------------- MODULE MCIpc -------------------------------
(***************************************************************************)
(* Values for the constants of Ipc.                                        *)
(***************************************************************************)
EXTENDS Ipc, TLC

CONSTANT c1   \* the client that every goroutine calls through

OneClient == [g \in Gos |-> c1]
OneEach   == [g \in Gos |-> 1]

Symmetry == Permutations(Gos)
=============================================================================
