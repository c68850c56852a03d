------------------------------ MODULE Witnesses -----------------------------
(***************************************************************************)
(* The witnesses that a conversion composes, src/src/witness.rs, in the    *)
(* two algebras: "theorem", which calls the rules as it goes, and "steps", *)
(* which writes down what it did for replay to prove.  These are the       *)
(* operations that need no conversion; `rewrite', which runs one on the    *)
(* conditions of a rule, is in Conversions.                                *)
(***************************************************************************)
EXTENDS Derived

StepsWitness(term, steps, result) ==
  [term |-> term, steps |-> steps, result |-> result, thm |-> {}]

TheoremWitnesses(thms) ==
  {[term |-> Lhs(thm.concl), steps |-> <<>>, result |-> Rhs(thm.concl), thm |-> {thm}] :
     thm \in {thm \in thms : IsEqn(thm.concl)}}

ReflWitness(theory, algebra, term) ==
  IF algebra = "theorem" THEN TheoremWitnesses(Refl(theory, term))
  ELSE {StepsWitness(term, <<>>, term)}

Reflexive(w) ==
  IF w.thm # {} THEN \A thm \in w.thm : Lhs(thm.concl) = Rhs(thm.concl) ELSE w.steps = <<>>

Seq2(theory, algebra, left, right) ==
  CASE Reflexive(left) -> {right}
    [] ~Reflexive(left) /\ Reflexive(right) -> {left}
    [] OTHER ->
         IF algebra = "theorem"
         THEN TheoremWitnesses(UNION {Trans(theory, l, r) : l \in left.thm, r \in right.thm})
         ELSE {StepsWitness(left.term, left.steps \o right.steps, right.result)}

\* Mutant: the position is built from the wrong end.
Suffix(head, steps) ==
  [i \in DOMAIN steps |-> [steps[i] EXCEPT !.path = Append(@, head)]]

Prefix(head, steps) ==
  [i \in DOMAIN steps |-> [steps[i] EXCEPT !.path = <<head>> \o @]]

CombWitness(theory, algebra, rator, rand) ==
  IF algebra = "theorem"
  THEN TheoremWitnesses(UNION {MkComb(theory, f, x) : f \in rator.thm, x \in rand.thm})
  ELSE IF CanComb(rator.term, rand.term) /\ CanComb(rator.result, rand.result)
       THEN {StepsWitness(CombRaw(rator.term, rand.term),
                          Prefix("rator", rator.steps) \o Prefix("rand", rand.steps),
                          CombRaw(rator.result, rand.result))}
       ELSE {}

UnderWitness(theory, algebra, abs, var, w) ==
  IF algebra = "theorem"
  THEN TheoremWitnesses(UNION {Abs(theory, var, thm) : thm \in w.thm})
  ELSE IF Closed(w.result)
       THEN {StepsWitness(abs, Prefix("body", w.steps), term_abs(var, w.result))}
       ELSE {}
=============================================================================
