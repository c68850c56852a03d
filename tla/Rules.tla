-------------------------------- MODULE Rules -------------------------------
(***************************************************************************)
(* The ten primitive rules of src/src/kernel/rules.rs and the one door     *)
(* into a theorem, Kernel::sequent of src/src/kernel/mod.rs.               *)
(*                                                                         *)
(* A rule answers Ok or Err, and changes nothing but the intern tables.    *)
(* Here it is the set of the theorems it may answer with: one theorem when *)
(* the code answers Ok, none when it answers Err.  Rules given sets        *)
(* compose with UNION, so a procedure written with `?' is a nested set     *)
(* that is empty as soon as one of its steps is.                           *)
(*                                                                         *)
(* The operations on terms that recurse are CONSTANTs: what a proof needs  *)
(* of them is assumed by name in KernelSoundness, and TLC runs them with   *)
(* the definitions of HolTerms.                                            *)
(***************************************************************************)
EXTENDS TermNodes

CONSTANTS
  term_abs(_, _),      \* term_abs(v, body), v a variable and body closed
  open_abs(_, _),      \* open_abs(abs, r), r closed and of the binder's type
  subst(_, _),        \* subst(theta, t)
  inst_type_term(_, _)  \* inst_type_term(theta, t)

(***************************************************************************)
(* Theorems.  The hypotheses are sorted by rank and deduplicated, that is, *)
(* a set.                                                                  *)
(***************************************************************************)
Thm(theory, hyps, concl) == [theory |-> theory, hyps |-> hyps, concl |-> concl]

Sequent(theory, hyps, concl) ==
  IF Proposition(concl) /\ \A h \in hyps : Proposition(h)
  THEN {Thm(theory, hyps, concl)}
  ELSE {}

\* A theorem of another theory is not a theorem here.
Own(theory, thm) == thm.theory = theory

DestEquation(theory, thm) == Own(theory, thm) /\ IsEqn(thm.concl)

\* A conclusion lhs = rhs, which term_eq refuses at two types.
EqSequent(theory, hyps, lhs, rhs) ==
  IF CanEquate(lhs, rhs) THEN Sequent(theory, hyps, Eqn(lhs, rhs)) ELSE {}

-----------------------------------------------------------------------------

Refl(theory, term) ==
  IF Closed(term) THEN EqSequent(theory, {}, term, term) ELSE {}

Trans(theory, left, right) ==
  IF /\ DestEquation(theory, left)
     /\ DestEquation(theory, right)
     /\ Rhs(left.concl) = Lhs(right.concl)
  THEN EqSequent(theory, left.hyps \cup right.hyps, Lhs(left.concl), Rhs(right.concl))
  ELSE {}

MkComb(theory, funThm, argThm) ==
  IF /\ DestEquation(theory, funThm)
     /\ DestEquation(theory, argThm)
     /\ CanComb(Lhs(funThm.concl), Lhs(argThm.concl))
     /\ CanComb(Rhs(funThm.concl), Rhs(argThm.concl))
  THEN EqSequent(theory, funThm.hyps \cup argThm.hyps,
                 CombRaw(Lhs(funThm.concl), Lhs(argThm.concl)),
                 CombRaw(Rhs(funThm.concl), Rhs(argThm.concl)))
  ELSE {}

\* Mutant: the side condition of ABS forgotten.
AbsCaptures(theory, v, thm) ==
  IF IsVar(v) /\ DestEquation(theory, thm) /\ Closed(Lhs(thm.concl)) /\ Closed(Rhs(thm.concl))
  THEN EqSequent(theory, thm.hyps, term_abs(v, Lhs(thm.concl)), term_abs(v, Rhs(thm.concl)))
  ELSE {}

Abs(theory, v, thm) ==
  IF /\ IsVar(v)
     /\ DestEquation(theory, thm)
     /\ \A h \in thm.hyps : ~FreeIn(v, h)
     /\ Closed(Lhs(thm.concl))
     /\ Closed(Rhs(thm.concl))
  THEN EqSequent(theory, thm.hyps, term_abs(v, Lhs(thm.concl)), term_abs(v, Rhs(thm.concl)))
  ELSE {}

\* Only the trivial redex: the argument is a variable of the binder's type.
Beta(theory, term) ==
  IF /\ IsComb(term)
     /\ IsAbs(term.rator)
     /\ IsVar(term.rand)
     /\ term.rator.binder_type = term.rand.ty
  THEN EqSequent(theory, {}, term, open_abs(term.rator, term.rand))
  ELSE {}

\* Mutant: anything is assumed, past the one door into a theorem.
AssumeAnything(theory, term) == {Thm(theory, {term}, term)}

Assume(theory, term) ==
  IF Proposition(term) THEN Sequent(theory, {term}, term) ELSE {}

\* Mutant: the second premise may be another theory's.
EqMpUnscoped(theory, eqThm, thm) ==
  IF DestEquation(theory, eqThm) /\ Lhs(eqThm.concl) = thm.concl
  THEN Sequent(theory, eqThm.hyps \cup thm.hyps, Rhs(eqThm.concl))
  ELSE {}

\* Mutant: whatever is proved will do for the left side.
EqMpAnything(theory, eqThm, thm) ==
  IF DestEquation(theory, eqThm) /\ Own(theory, thm)
  THEN Sequent(theory, eqThm.hyps \cup thm.hyps, Rhs(eqThm.concl))
  ELSE {}

EqMp(theory, eqThm, thm) ==
  IF /\ DestEquation(theory, eqThm)
     /\ Own(theory, thm)
     /\ Lhs(eqThm.concl) = thm.concl
  THEN Sequent(theory, eqThm.hyps \cup thm.hyps, Rhs(eqThm.concl))
  ELSE {}

DeductAntisymRule(theory, left, right) ==
  IF Own(theory, left) /\ Own(theory, right)
  THEN EqSequent(theory, (left.hyps \ {right.concl}) \cup (right.hyps \ {left.concl}),
                 left.concl, right.concl)
  ELSE {}

\* check_subst: closed terms of the variable's type, for variables.
CheckSubst(theta) ==
  \A v \in DOMAIN theta : IsVar(v) /\ Closed(theta[v]) /\ v.ty = theta[v].ty

Inst(theory, theta, thm) ==
  IF CheckSubst(theta) /\ Own(theory, thm)
  THEN Sequent(theory, {subst(theta, h) : h \in thm.hyps}, subst(theta, thm.concl))
  ELSE {}

CheckTySubst(theta) == \A ty \in DOMAIN theta : IsTyVar(ty)

\* Mutant: the hypotheses keep their types.
InstTypeConclusion(theory, theta, thm) ==
  IF CheckTySubst(theta) /\ Own(theory, thm)
  THEN Sequent(theory, thm.hyps, inst_type_term(theta, thm.concl))
  ELSE {}

InstType(theory, theta, thm) ==
  IF CheckTySubst(theta) /\ Own(theory, thm)
  THEN Sequent(theory, {inst_type_term(theta, h) : h \in thm.hyps},
               inst_type_term(theta, thm.concl))
  ELSE {}
=============================================================================
