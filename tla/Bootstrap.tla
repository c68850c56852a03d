------------------------------ MODULE Bootstrap -----------------------------
(***************************************************************************)
(* What a derivation derives, and the theorems that installing the logic   *)
(* layer derives once and keeps: the simp set of a LogicBootstrap, and the *)
(* excluded middle of a ClassicalBundle.                                   *)
(***************************************************************************)
EXTENDS Classical

R == INSTANCE Conversions WITH
       order <- <<>>, Alphabet <- <<>>, Definitions <- {TruthDefinition}

\* The calls a rule of the logic layer makes, given theorems and terms.
Steps(rule, thms, with) ==
  CASE rule = "conj"      -> conj_steps(thms[1], thms[2])
    [] rule = "conjunct1" -> conjunct1_steps(thms[1])
    [] rule = "conjunct2" -> conjunct2_steps(thms[1])
    [] rule = "spec"      -> spec_steps(thms[1], with[1])
    [] rule = "gen"       -> gen_steps(with[1], thms[1])
    [] rule = "contr"     -> contr_steps(thms[1], with[1])
    [] rule = "mp"        -> mp_steps(thms[1], thms[2])
    [] rule = "disch"     -> disch_steps(with[1], thms[1])
    [] rule = "disch_all" -> disch_all_steps(with, thms[1])
    [] rule = "undisch"   -> undisch_steps(thms[1])
    [] rule = "imp_antisym_rule" -> imp_antisym_rule_steps(thms[1], thms[2])
    [] rule = "imp_trans" -> imp_trans_steps(thms[1], thms[2])
    [] rule = "disj1"     -> disj1_steps(thms[1], with[1])
    [] rule = "disj2"     -> disj2_steps(with[1], thms[1])
    [] rule = "disj_cases" -> disj_cases_steps(thms[1], thms[2], thms[3])
    [] rule = "exists"    -> exists_steps(with[1], with[2], thms[1])
    [] rule = "simple_exists" -> simple_exists_steps(with[1], thms[1])
    [] rule = "choose"    -> choose_steps(with[1], thms[1], thms[2])
    [] rule = "not_elim"  -> not_elim_steps(thms[1])
    [] rule = "not_intro" -> not_intro_steps(thms[1])
    [] rule = "eqf_intro" -> eqf_intro_steps(thms[1])
    [] rule = "eqf_elim"  -> eqf_elim_steps(thms[1])
    [] rule = "select_rule" -> select_rule_steps(thms[1])
    [] rule = "select_contracted" -> select_contracted_steps(thms[1])
    [] rule = "combine_choices" -> combine_choices_steps(thms[1], thms[2])

(***************************************************************************)
(* The theorem a derivation stands for, none if a call in it refuses.  The *)
(* calls are made in order, each with the theorems of those before it.     *)
(***************************************************************************)
RECURSIVE Derive(_), DeriveRest(_, _), Apply(_, _, _), install_truth, install_true_right

Derive(d) == DeriveRest(d, <<>>)

DeriveRest(d, thms) ==
  IF Len(thms) = Len(d.of) THEN Apply(d.rule, thms, d.with)
  ELSE UNION {DeriveRest(d, Append(thms, thm)) : thm \in Derive(d.of[Len(thms) + 1])}

Apply(rule, thms, with) ==
  CASE rule \in KernelRules -> Kernel(rule, thms, with)
    [] rule = "truth"       -> install_truth
    [] rule = "true_right"  -> install_true_right
    [] OTHER                -> Derive(Steps(rule, thms, with))

install_truth == Derive(truth_steps)
install_true_right == Derive(true_right_steps)

\* Both implications or neither.
eq_imp_rule(thm) ==
  UNION {{forwards, backwards} : forwards \in Derive(forwards_steps(thm)),
                                 backwards \in Derive(backwards_steps(thm))}

-----------------------------------------------------------------------------

\* The rule set, or none if a derivation or RuleSet::add refuses.
RECURSIVE Registered(_)
Registered(n) ==
  IF n = 0 THEN {<<>>}
  ELSE UNION {{Append(rules, R!Rule(SimpTheorems[n][1], thm)) :
                 rules \in {s \in Registered(n - 1) : R!CanAdd(s, SimpTheorems[n][1], thm)}} :
              thm \in Derive(SimpTheorems[n][2])}

SimpSet == Registered(Len(SimpTheorems))

derive_excluded_middle == Derive(excluded_middle)

\* With the rules of a bootstrap.  The first of them to use a definition of
\* another theory refuses.
middle_by(foreign) ==
  LET implication == [ImplicationDefinition EXCEPT !.theory = IF foreign THEN Here + 1 ELSE @]
  IN  IF ApThm(Here, implication, True) = {} THEN {} ELSE derive_excluded_middle

em(proposition) == UNION {Apply("spec", <<thm>>, <<proposition>>) : thm \in derive_excluded_middle}
=============================================================================
