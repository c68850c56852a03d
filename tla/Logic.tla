-------------------------------- MODULE Logic -------------------------------
(***************************************************************************)
(* The derived rules of the connectives, src/src/logic/, each as the       *)
(* derivation the code makes out of the kernel's rules and the             *)
(* definitions: conj_steps is what conj does, given two theorems.          *)
(***************************************************************************)
EXTENDS Derivations, SequencesExt

FreesOf(terms) == UNION {t.frees : t \in terms}

\* A definition applied to its arguments and reduced: |- p op q = ...
Unfolded2(unapplied, l, r) ==
  normalised(ap_thm(normalised(ap_thm(unapplied, l)), r))

Unfolded1(unapplied, argument) == beta_reduced(ap_thm(unapplied, argument))

\* The quantifiers are defined at the type variable A.
AtElement(unapplied, element) ==
  IF element = TyA THEN unapplied ELSE inst_type(Single(TyA, element), unapplied)

UnfoldedAt(unapplied, element, predicate) == Unfolded1(AtElement(unapplied, element), predicate)

-----------------------------------------------------------------------------
(* Conjunction. *)

conjunction_unfolded(l, r) == Unfolded2(definition("and"), l, r)

conj_steps(l, r) ==
  LET f == Variant(FreesOf({l.concl, r.concl} \cup l.hyps \cup r.hyps), "f", Binary)
      encoded == abs_rule(f, mk_comb(mk_comb(refl(f), eqt_intro(true_right, ok(l))),
                                     eqt_intro(true_right, ok(r))))
  IN  eq_mp(sym(conjunction_unfolded(l.concl, r.concl)), encoded)

Selector(first) ==
  LET a == Var("x", Bool)
      b == Var("y", Bool)
  IN  Lambda2(a, b, IF first THEN a ELSE b)

project_steps(thm, selector) ==
  LET unfolded == conjunction_unfolded(Left(thm.concl), Right(thm.concl))
  IN  Require(IsConj(thm.concl),
              eqt_elim(truth, normalised(ap_thm(eq_mp(unfolded, ok(thm)), selector))))

conjunct1_steps(thm) == project_steps(thm, Selector(TRUE))
conjunct2_steps(thm) == project_steps(thm, Selector(FALSE))

-----------------------------------------------------------------------------
(* Universal quantification. *)

universal_unfolded(element, predicate) == UnfoldedAt(definition("forall"), element, predicate)

spec_steps(thm, term) ==
  LET predicate == thm.concl.rand
      unfolded == universal_unfolded(predicate.binder_type, predicate)
  IN  Require(IsForall(thm.concl),
              eqt_elim(truth, beta_reduced(ap_thm(eq_mp(unfolded, ok(thm)), term))))

\* That v is free in no hypothesis is left to ABS.
gen_steps(v, thm) ==
  Require(IsVar(v),
          eq_mp(sym(universal_unfolded(v.ty, TermAbs(v, thm.concl))),
                abs_rule(v, eqt_intro(true_right, ok(thm)))))

-----------------------------------------------------------------------------
(* Falsity. *)

contr_steps(thm, proposition) == spec(eq_mp(definition("F"), ok(thm)), proposition)

-----------------------------------------------------------------------------
(* Implication. *)

implication_unfolded(l, r) == Unfolded2(definition("imp"), l, r)

mp_steps(implication, thm) ==
  LET equality == eq_mp(implication_unfolded(Left(implication.concl), Right(implication.concl)),
                        ok(implication))
  IN  Require(IsImp(implication.concl) /\ thm.concl = Left(implication.concl),
              conjunct2(eq_mp(sym(equality), ok(thm))))

\* p and q = p, each direction from the other's assumption.
implication_equality(antecedent, thm) ==
  deduct(conj(assume(antecedent), ok(thm)),
         conjunct1(assume(MkConj(antecedent, thm.concl))))

disch_steps(antecedent, thm) ==
  Require(Proposition(antecedent),
          expect(MkImp(antecedent, thm.concl),
                 eq_mp(sym(implication_unfolded(antecedent, thm.concl)),
                       implication_equality(antecedent, thm))))

undisch_steps(thm) == Require(IsImp(thm.concl), mp(ok(thm), assume(Left(thm.concl))))

\* Every hypothesis, the last listed innermost.
disch_all_steps(hyps, thm) == FoldRight(disch, hyps, ok(thm))

\* The two implications of an equation.
disch_equality(equation, antecedent) == disch(antecedent, eq_mp(equation, assume(antecedent)))

forwards_steps(thm)  == Require(IsEqn(thm.concl), disch_equality(ok(thm), Lhs(thm.concl)))
backwards_steps(thm) == Require(IsEqn(thm.concl), disch_equality(sym(ok(thm)), Rhs(thm.concl)))

imp_antisym_rule_steps(l, r) == deduct(undisch(ok(r)), undisch(ok(l)))

imp_trans_steps(l, r) ==
  Require(IsImp(l.concl), disch(Left(l.concl), mp(ok(r), undisch(ok(l)))))

-----------------------------------------------------------------------------
(* Disjunction. *)

disjunction_unfolded(l, r) == Unfolded2(definition("or"), l, r)

\* Mutant: the variable of the encoding may be free in what is proved.
disjunction_intro_bare(l, r, thm, useLeft) ==
  LET conclusion == Var("r", Bool)
      consequent == mp(assume(MkImp(IF useLeft THEN l ELSE r, conclusion)), ok(thm))
      outer == disch(MkImp(l, conclusion), disch(MkImp(r, conclusion), consequent))
  IN  eq_mp(sym(disjunction_unfolded(l, r)), gen(conclusion, outer))

disjunction_intro(l, r, thm, useLeft) ==
  LET conclusion == Variant(FreesOf({l, r} \cup thm.hyps), "r", Bool)
      consequent == mp(assume(MkImp(IF useLeft THEN l ELSE r, conclusion)), ok(thm))
      outer == disch(MkImp(l, conclusion), disch(MkImp(r, conclusion), consequent))
  IN  eq_mp(sym(disjunction_unfolded(l, r)), gen(conclusion, outer))

disj1_steps(thm, right) ==
  Require(Proposition(right), disjunction_intro(thm.concl, right, thm, TRUE))
disj2_steps(left, thm) ==
  Require(Proposition(left), disjunction_intro(left, thm.concl, thm, FALSE))

\* |- (l => goal) => (r => goal) => goal from the disjunction assumed.
disjunction_cases_rule(l, r, goal) ==
  spec(eq_mp(disjunction_unfolded(l, r), assume(MkDisj(l, r))), goal)

disj_cases_steps(d, leftCase, rightCase) ==
  LET l == Left(d.concl)
      r == Right(d.concl)
      goal == leftCase.concl
      base == mp(mp(disjunction_cases_rule(l, r, goal), assume(MkImp(l, goal))),
                 assume(MkImp(r, goal)))
  IN  Require(IsDisj(d.concl) /\ goal = rightCase.concl,
              prove_hyp(ok(d), prove_hyp(disch(r, ok(rightCase)),
                                         prove_hyp(disch(l, ok(leftCase)), base))))

-----------------------------------------------------------------------------
(* Existential quantification. *)

existential_unfolded(element, predicate) == UnfoldedAt(definition("exists"), element, predicate)

\* The existential, from a proof of its body at the witness.
exists_steps(existential, witness, thm) ==
  LET v          == AnyOpener(existential.rand)
      body       == OpenAbs(existential.rand, v)
      conclusion == Variant(FreesOf({body, v} \cup thm.hyps), "q", Bool)
      premise    == MkForall(v, MkImp(body, conclusion))
      proved     == mp(spec(assume(premise), witness), ok(thm))
  IN  Require(/\ IsExists(existential)
              /\ CheckSubst(Single(v, witness))
              /\ thm.concl = Subst(Single(v, witness), body),
              eq_mp(sym(existential_unfolded(v.ty, existential.rand)),
                    gen(conclusion, disch(premise, proved))))

simple_exists_steps(v, thm) == Require(IsVar(v), exists(MkExists(v, thm.concl), v, ok(thm)))

\* The caller's body is proved of the variable that dest_exists gives, the
\* binder under its display name.
choose_steps(name, existential, thm) ==
  LET predicate == existential.concl.rand
      v == Opener(name, predicate)
      selected == spec(eq_mp(existential_unfolded(v.ty, predicate), ok(existential)), thm.concl)
      branch == prove_hyp(ok(existential), disch(OpenAbs(predicate, v), ok(thm)))
  IN  Require(IsExists(existential.concl) /\ ~FreeIn(v, thm.concl), mp(selected, gen(v, branch)))

-----------------------------------------------------------------------------
(* Negation. *)

negation_unfolded(proposition) == Unfolded1(definition("not"), proposition)

not_elim_steps(thm) ==
  Require(IsNeg(thm.concl), eq_mp(negation_unfolded(thm.concl.rand), ok(thm)))

not_intro_steps(thm) ==
  Require(IsImp(thm.concl) /\ Right(thm.concl) = False,
          eq_mp(sym(negation_unfolded(Left(thm.concl))), ok(thm)))

eqf_intro_steps(thm) ==
  Require(IsNeg(thm.concl),
          deduct(contr(assume(False), thm.concl.rand), undisch(not_elim(ok(thm)))))

eqf_elim_steps(thm) ==
  LET proposition == Lhs(thm.concl)
  IN  Require(IsEqn(thm.concl) /\ Rhs(thm.concl) = False,
              not_intro(disch(proposition, eq_mp(ok(thm), assume(proposition)))))
=============================================================================
