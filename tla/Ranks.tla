-------------------------------- MODULE Ranks -------------------------------
(***************************************************************************)
(* The order of ranks, where the code sorts by it: hypotheses are a sorted *)
(* list, and the maps of a match are BTreeMaps.                            *)
(***************************************************************************)
EXTENDS Naturals, Sequences

\* The terms whose ranks are compared, in the order this process interned
\* them.  Any program fixes some such order before a conversion runs.
VARIABLE order

OlderIn(ranked, s, t) == \E i, j \in DOMAIN ranked : i < j /\ ranked[i] = s /\ ranked[j] = t

Older(s, t) == OlderIn(order, s, t)
=============================================================================
