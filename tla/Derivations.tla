----------------------------- MODULE Derivations ----------------------------
(***************************************************************************)
(* A derivation: the calls a rule makes of the rules below it, as the tree *)
(* of their nested applications.  A call is given the answers of other     *)
(* calls and the terms the caller adds; it stands for the theorem it       *)
(* returns (Derive in module Bootstrap), and like `?' in the code a tree   *)
(* with a refused call in it stands for none.                              *)
(***************************************************************************)
EXTENDS Connectives

Step(rule, of, with) == [rule |-> rule, of |-> of, with |-> with]

\* A theorem there is already; no theorem.
ok(thm) == Step("ok", <<>>, <<thm>>)
err     == Step("err", <<>>, <<>>)

\* An early return of Err.
Require(condition, d) == IF condition THEN d ELSE err

\* What the LogicBootstrap holds for the rules: the definitions, truth and
\* (p = T) = p.
definition(name) == Step("definition", <<>>, <<name>>)
truth      == Step("truth", <<>>, <<>>)
true_right == Step("true_right", <<>>, <<>>)

\* The theorem derived, if it is about this proposition.
expect(concl, d) == Step("expect", <<d>>, <<concl>>)

-----------------------------------------------------------------------------
(* The rules of the kernel, and those derived from them alone.             *)

refl(term)          == Step("refl", <<>>, <<term>>)
assume(term)        == Step("assume", <<>>, <<term>>)
trans(l, r)         == Step("trans", <<l, r>>, <<>>)
mk_comb(f, x)       == Step("mk_comb", <<f, x>>, <<>>)
abs_rule(v, d)      == Step("abs", <<d>>, <<v>>)
eq_mp(e, d)         == Step("eq_mp", <<e, d>>, <<>>)
deduct(l, r)        == Step("deduct_antisym_rule", <<l, r>>, <<>>)
inst_type(theta, d) == Step("inst_type", <<d>>, <<theta>>)
sym(d)              == Step("sym", <<d>>, <<>>)
ap_thm(d, term)     == Step("ap_thm", <<d>>, <<term>>)
ap_term(f, d)       == Step("ap_term", <<d>>, <<f>>)
prove_hyp(d, c)     == Step("prove_hyp", <<d, c>>, <<>>)
eqt_elim(t, d)      == Step("eqt_elim", <<t, d>>, <<>>)
eqt_intro(r, d)     == Step("eqt_intro", <<r, d>>, <<>>)
beta_reduced(d)     == Step("beta_rule", <<d>>, <<>>)
normalised(d)       == Step("normalise", <<d>>, <<>>)

Kernel(rule, thms, with) ==
  CASE rule = "refl"      -> Refl(Here, with[1])
    [] rule = "assume"    -> Assume(Here, with[1])
    [] rule = "trans"     -> Trans(Here, thms[1], thms[2])
    [] rule = "mk_comb"   -> MkComb(Here, thms[1], thms[2])
    [] rule = "abs"       -> Abs(Here, with[1], thms[1])
    [] rule = "eq_mp"     -> EqMp(Here, thms[1], thms[2])
    [] rule = "deduct_antisym_rule" -> DeductAntisymRule(Here, thms[1], thms[2])
    [] rule = "inst_type" -> InstType(Here, with[1], thms[1])
    [] rule = "sym"       -> Sym(Here, thms[1])
    [] rule = "ap_thm"    -> ApThm(Here, thms[1], with[1])
    [] rule = "ap_term"   -> ApTerm(Here, with[1], thms[1])
    [] rule = "prove_hyp" -> ProveHyp(Here, thms[1], thms[2])
    [] rule = "eqt_elim"  -> EqtElim(Here, thms[1], thms[2])
    [] rule = "eqt_intro" -> EqtIntro(Here, thms[1], thms[2])
    [] rule = "beta_rule" -> beta_rule(thms[1])
    [] rule = "normalise" -> normalise(thms[1])
    [] rule = "definition" -> {Definition(with[1])}
    [] rule = "ok"        -> {with[1]}
    [] rule = "err"       -> {}
    [] rule = "expect"    -> {thm \in {thms[1]} : thm.concl = with[1]}

KernelRules ==
  {"refl", "assume", "trans", "mk_comb", "abs", "eq_mp", "deduct_antisym_rule", "inst_type",
   "sym", "ap_thm", "ap_term", "prove_hyp", "eqt_elim", "eqt_intro", "beta_rule", "normalise",
   "definition", "ok", "err", "expect"}

-----------------------------------------------------------------------------
(* The rules of the logic layer.                                           *)

conj(l, r)       == Step("conj", <<l, r>>, <<>>)
conjunct1(d)     == Step("conjunct1", <<d>>, <<>>)
conjunct2(d)     == Step("conjunct2", <<d>>, <<>>)
spec(d, term)    == Step("spec", <<d>>, <<term>>)
gen(v, d)        == Step("gen", <<d>>, <<v>>)
contr(d, term)   == Step("contr", <<d>>, <<term>>)
mp(i, d)         == Step("mp", <<i, d>>, <<>>)
disch(term, d)   == Step("disch", <<d>>, <<term>>)
undisch(d)       == Step("undisch", <<d>>, <<>>)
disj1(d, term)   == Step("disj1", <<d>>, <<term>>)
disj2(term, d)   == Step("disj2", <<d>>, <<term>>)
disj_cases(d, l, r) == Step("disj_cases", <<d, l, r>>, <<>>)
exists(existential, witness, d) == Step("exists", <<d>>, <<existential, witness>>)
not_elim(d)      == Step("not_elim", <<d>>, <<>>)
not_intro(d)     == Step("not_intro", <<d>>, <<>>)
eqf_intro(d)     == Step("eqf_intro", <<d>>, <<>>)

-----------------------------------------------------------------------------
(* install_booleans: what it derives from the definition of T.             *)

truth_steps == eq_mp(sym(definition("T")), refl(Identity))

refl_is_true == deduct(refl(xVar), truth)

\* (T = p) = p and (p = T) = p
true_left ==
  LET forwards  == eq_mp(assume(Eqn(True, pVar)), truth)
      backwards == sym(deduct(assume(pVar), truth))
  IN  sym(deduct(forwards, backwards))

true_right_steps ==
  LET forwards  == eq_mp(sym(assume(Eqn(pVar, True))), truth)
      backwards == deduct(assume(pVar), truth)
  IN  sym(deduct(forwards, backwards))
=============================================================================
