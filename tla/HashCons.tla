------------------------------ MODULE HashCons ------------------------------
(***************************************************************************)
(* What an intern table promises: a rank for every shape it is asked for,  *)
(* the same one every time, never one rank for two shapes, and no answer   *)
(* taken back.                                                             *)
(***************************************************************************)
VARIABLE known      \* the answers given: [rank |-> .., shape |-> ..]

Init == known = {}

Agrees(answer) == \A k \in known : k.rank = answer.rank <=> k.shape = answer.shape

Answer == \E answer \in known' : Agrees(answer) /\ known' = known \cup {answer}

Spec == Init /\ [][Answer]_known
=============================================================================
