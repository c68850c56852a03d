---------------------------- MODULE MCTwoKernels ----------------------------
(***************************************************************************)
(* Two kernels of one theory each, with one constant and one axiom.        *)
(***************************************************************************)
EXTENDS TwoKernels, MCTerms

LeakNames == {"c"}
LeakTerms == {c, Eqn(c, c), Eqn(Eqn(c, c), c)}
LeakInputs == {c}
LeakNewConstants == {<<"c", Bool>>}
LeakAxioms == {c}
=============================================================================
