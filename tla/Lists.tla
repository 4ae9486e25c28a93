------------------------------- MODULE Lists -------------------------------
(***************************************************************************)
(* Stable sorting of sequences, as Go's sort.SliceStable does it.          *)
(***************************************************************************)
EXTENDS Naturals, Sequences, FiniteSets

\* The elements of s whose index is in I, in the order that precedes gives
\* to their indices: each is put at the place given by the number of
\* indices before it.
Arranged(s, I, precedes(_, _)) ==
  [k \in 1 .. Cardinality(I) |->
    s[CHOOSE i \in I : Cardinality({j \in I : precedes(j, i)}) = k - 1]]

\* s sorted by less, equal elements in the order they had.
StableSorted(s, less(_, _)) ==
  Arranged(s, DOMAIN s, LAMBDA j, i : less(s[j], s[i]) \/ (~less(s[i], s[j]) /\ j < i))
=============================================================================
