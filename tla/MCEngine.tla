------------------------------- MODULE MCEngine -------------------------------
(***************************************************************************)
(* Values for the constants of Engine.                                     *)
(***************************************************************************)
EXTENDS EngineControl, TLC

(* A torrent as a previous run saved it: running, in DataDir.              *)
Saved == [NoRec EXCEPT !.saved = TRUE]

OneSaved   == [i \in Ids |-> Saved]
FirstSaved == [i \in Ids |-> IF i = CHOOSE j \in Ids : TRUE THEN Saved ELSE NoRec]
OnePaused  == [i \in Ids |-> [Saved EXCEPT !.paused = TRUE, !.label = "films"]]
NoneSaved  == [i \in Ids |-> NoRec]
NoData     == [i \in Ids |-> {}]
PlainAdd   == {[dir |-> DataDir, magnet |-> FALSE, paused |-> FALSE,
                pick |-> FALSE, sel |-> {}]}
MixedAdd   == {[dir |-> DataDir, magnet |-> m, paused |-> FALSE,
                pick |-> FALSE, sel |-> {}] : m \in BOOLEAN}
PickAdd    == {[dir |-> DataDir, magnet |-> TRUE, paused |-> FALSE, pick |-> TRUE,
                sel |-> {CHOOSE f \in Files : TRUE}]}
NoLabel    == {""}
NoRate     == {0}

Symmetry == Permutations(Clients)
=============================================================================
