-------------------------------- MODULE Simp --------------------------------
(***************************************************************************)
(* The logical simp set, src/src/logic/simp.rs: sixteen equations without  *)
(* hypotheses, each derived, registered in this order.                     *)
(***************************************************************************)
EXTENDS Logic

from_assumptions(leftToRight, rightToLeft) == sym(deduct(leftToRight, rightToLeft))

\* A theorem equals T.
equals_truth(d) == deduct(d, truth)

explosion == contr(assume(False), pVar)

conj_true_left ==
  from_assumptions(conjunct2(assume(MkConj(True, pVar))), conj(truth, assume(pVar)))
conj_true_right ==
  from_assumptions(conjunct1(assume(MkConj(pVar, True))), conj(assume(pVar), truth))
conj_false_left ==
  from_assumptions(conjunct1(assume(MkConj(False, pVar))), conj(assume(False), explosion))
conj_idempotent ==
  from_assumptions(conjunct1(assume(MkConj(pVar, pVar))), conj(assume(pVar), assume(pVar)))

imp_true_left ==
  from_assumptions(mp(assume(MkImp(True, pVar)), truth), disch(True, assume(pVar)))
imp_true_right == equals_truth(disch(pVar, truth))
imp_false_left == equals_truth(disch(False, explosion))

disj_true_left  == equals_truth(disj1(truth, pVar))
disj_true_right == equals_truth(disj2(pVar, truth))
disj_false_left ==
  from_assumptions(disj_cases(assume(MkDisj(False, pVar)), explosion, assume(pVar)),
                   disj2(False, assume(pVar)))

neg_true ==
  from_assumptions(mp(not_elim(assume(MkNeg(True))), truth), not_intro(disch(True, assume(False))))
neg_false == equals_truth(not_intro(disch(False, assume(False))))

forall_true == equals_truth(gen(xVar, truth))

SimpTheorems ==
  << <<"refl", refl_is_true>>, <<"true_left", true_left>>, <<"true_right", true_right>>,
     <<"conj_true_left", conj_true_left>>, <<"conj_true_right", conj_true_right>>,
     <<"conj_false_left", conj_false_left>>, <<"conj_idempotent", conj_idempotent>>,
     <<"imp_true_left", imp_true_left>>, <<"imp_true_right", imp_true_right>>,
     <<"imp_false_left", imp_false_left>>, <<"disj_true_left", disj_true_left>>,
     <<"disj_true_right", disj_true_right>>, <<"disj_false_left", disj_false_left>>,
     <<"neg_true", neg_true>>, <<"neg_false", neg_false>>, <<"forall_true", forall_true>> >>
=============================================================================
