------------------------------- MODULE Derived ------------------------------
(***************************************************************************)
(* The rules derived from the ten, src/src/derived.rs, but for beta        *)
(* reduction, which recurses over a term.  Like a primitive rule, each is  *)
(* the set of the theorems it may answer with; `?' is Then.                *)
(***************************************************************************)
EXTENDS Rules

Then(results, Use(_)) == UNION {Use(thm) : thm \in results}

\* b = a from a = b, with the `=' taken from the conclusion.
Sym(theory, thm) ==
  IF ~IsEqn(thm.concl) THEN {}
  ELSE Then(Refl(theory, Lhs(thm.concl)), LAMBDA reflexive :
       Then(Refl(theory, thm.concl.rator.rator), LAMBDA eqRefl :
       Then(MkComb(theory, eqRefl, thm), LAMBDA half :
       Then(MkComb(theory, half, reflexive), LAMBDA congruence :
            EqMp(theory, congruence, reflexive)))))

ApTerm(theory, func, thm) ==
  Then(Refl(theory, func), LAMBDA r : MkComb(theory, r, thm))

ApThm(theory, thm, arg) ==
  Then(Refl(theory, arg), LAMBDA r : MkComb(theory, thm, r))

ProveHyp(theory, proof, consequence) ==
  Then(DeductAntisymRule(theory, proof, consequence), LAMBDA deduced :
       EqMp(theory, deduced, proof))

EqtElim(theory, truth, thm) ==
  Then(Sym(theory, thm), LAMBDA symmetric : EqMp(theory, symmetric, truth))

\* The instance of a rule (p = T) = p at the proposition.
TrueRight(theory, trueRight, proposition) ==
  IF ~IsEqn(trueRight.concl) THEN {}
  ELSE {rule \in IF IsVar(Rhs(trueRight.concl))
                 THEN Inst(theory, [v \in {Rhs(trueRight.concl)} |-> proposition], trueRight)
                 ELSE {trueRight} :
          /\ IsEqn(rule.concl)
          /\ IsEqn(Lhs(rule.concl))
          /\ Rhs(rule.concl) = proposition
          /\ Lhs(Lhs(rule.concl)) = proposition}

EqtIntro(theory, trueRight, thm) ==
  Then(TrueRight(theory, trueRight, thm.concl), LAMBDA rule :
  Then(Sym(theory, rule), LAMBDA symmetric : EqMp(theory, symmetric, thm)))
=============================================================================
