------------------------------ MODULE Classical -----------------------------
(***************************************************************************)
(* Classical logic from ETA and SELECT, src/src/logic/classical.rs:        *)
(* excluded middle by Diaconescu's construction.  "select" stands for @.   *)
(***************************************************************************)
EXTENDS Simp

select_type(element) == Fun(Fun(element, Bool), element)
SelectConst(element) == Const("select", select_type(element))

\* !t. (\x. t x) = t
eta_axiom ==
  LET function == Var("t", Fun(TyA, TyVar("B")))
  IN  MkForall(function, Eqn(TermAbs(xVar, CombRaw(function, xVar)), function))

\* !P x. P x => P (@ P)
select_axiom ==
  LET selected == CombRaw(Predicate, CombRaw(SelectConst(TyA), Predicate))
  IN  MkForall(Predicate, MkForall(xVar, MkImp(CombRaw(Predicate, xVar), selected)))

eta_ax    == ok(Thm(Here, {}, eta_axiom))
select_ax == ok(Thm(Here, {}, select_axiom))

-----------------------------------------------------------------------------
(* SELECT_RULE: P (@ P) from ?x. P x. *)

IsExistential(t) == IsUnary("exists", t) /\ IsFun(t.rand.ty)
ElementOf(t) == t.rand.ty.args[1]

\* The function that \x. f x is.
eta_function(predicate) ==
  IF ~IsAbs(predicate) THEN {}
  ELSE LET v == AnyOpener(predicate)
           body == OpenAbs(predicate, v)
       IN  {f \in (IF IsComb(body) THEN {body.rator} ELSE {}) : body.rand = v /\ ~FreeIn(v, f)}

\* ?x. f x becomes ? f.
contract_eta(thm) ==
  LET element == ElementOf(thm.concl)
      axiom == inst_type([ty \in {TyA, TyVar("B")} |-> IF ty = TyA THEN element ELSE Bool], eta_ax)
      contracted == eta_function(thm.concl.rand)
      f == CHOOSE f \in contracted : TRUE
  IN  IF contracted = {} THEN ok(thm)
      ELSE eq_mp(ap_term(Const("exists", QuantifierType(element)), spec(axiom, f)), ok(thm))

select_axiom_for(element, predicate) ==
  spec(inst_type(Single(TyA, element), select_ax), predicate)

select_rule_steps(thm) ==
  Require(IsExistential(thm.concl), Step("select_contracted", <<contract_eta(thm)>>, <<>>))

select_contracted_steps(thm) ==
  LET element == ElementOf(thm.concl)
      predicate == thm.concl.rand
      selected == CombRaw(predicate, CombRaw(SelectConst(element), predicate))
      expanded == eq_mp(UnfoldedAt(definition("exists"), element, predicate), ok(thm))
  IN  beta_reduced(mp(spec(expanded, selected), select_axiom_for(element, predicate)))

-----------------------------------------------------------------------------
(* Excluded middle of t, from what @ selects of \x. (x = F) \/ t and of      *)
(* \x. (x = T) \/ t. *)

tVar == Var("t", Bool)
bVar == Var("x", Bool)

ChoiceBody(witness) == MkDisj(Eqn(bVar, witness), tVar)

choice(witness) ==
  Step("select_rule",
       <<exists(MkExists(bVar, ChoiceBody(witness)), witness, disj1(refl(witness), tVar))>>, <<>>)

body_equals_truth(body) == sym(deduct(truth, disj2(Left(body), assume(tVar))))

\* t |- (\x. (x = F) \/ t) = (\x. (x = T) \/ t)
predicates_equal ==
  abs_rule(bVar, trans(body_equals_truth(ChoiceBody(False)),
                       sym(body_equals_truth(ChoiceBody(True)))))

\* Were t true, both predicates would select the same and F would be T.
negative_branch(falseEquality, trueEquality) ==
  LET selected == mk_comb(refl(SelectConst(Bool)), predicates_equal)
      falseIsTrue == trans(trans(sym(assume(falseEquality)), selected), assume(trueEquality))
  IN  disj2(tVar, not_intro(disch(tVar, eq_mp(sym(falseIsTrue), truth))))

positive_branch == disj1(assume(tVar), MkNeg(tVar))

combine_choices_steps(falseChoice, trueChoice) ==
  LET negative == negative_branch(Left(falseChoice.concl), Left(trueChoice.concl))
  IN  Require(IsDisj(falseChoice.concl) /\ IsDisj(trueChoice.concl),
              disj_cases(ok(falseChoice),
                         disj_cases(ok(trueChoice), negative, positive_branch),
                         positive_branch))

excluded_middle_theorem == Thm(Here, {}, MkForall(tVar, MkDisj(tVar, MkNeg(tVar))))

excluded_middle == gen(tVar, Step("combine_choices", <<choice(False), choice(True)>>, <<>>))
=============================================================================
