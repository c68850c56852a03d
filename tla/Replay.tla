------------------------------- MODULE Replay -------------------------------
(***************************************************************************)
(* Certificates and rule sets (src/src/certificate.rs) and their replay    *)
(* through the ten rules (src/src/replay.rs).  Everything here happens in  *)
(* one theory; an operation that may answer Err answers with a set of at   *)
(* most one value.                                                         *)
(***************************************************************************)
EXTENDS Paths, Matching

CONSTANT Definitions    \* the definitions of the theory, its ledger

K == INSTANCE Derived WITH
       term_abs <- TermAbs, open_abs <- OpenAbs, subst <- Subst, inst_type_term <- InstTypeTerm

Here == 1               \* the theory

-----------------------------------------------------------------------------
(* Certificates. *)

Step(path, rule, m, conditions) ==
  [path |-> path, rule |-> rule, match |-> m, conditions |-> conditions]

Certificate(term, steps, result, complete) ==
  [term |-> term, steps |-> steps, result |-> result, complete |-> complete]

Assumed == [kind |-> "assumed"]
Discharged(certificate) == [kind |-> "discharged", certificate |-> certificate]

(* Rule sets: named theorems in the order they were registered. *)

Rule(name, thm) ==
  [name |-> name, thm |-> thm, lhs |-> Lhs(thm.concl), rhs |-> Rhs(thm.concl),
   variables |-> {Var(v[1], v[2]) : v \in Lhs(thm.concl).frees}]

Fetch(rules, name) == {rule \in ToSet(rules) : rule.name = name}

\* What the left side does not determine may stand nowhere else.
CanAdd(rules, name, thm) ==
  /\ Fetch(rules, name) = {}
  /\ IsEqn(thm.concl)
  /\ ~IsVar(Lhs(thm.concl))
  /\ \A side \in {Rhs(thm.concl)} \cup thm.hyps :
       /\ side.frees \subseteq Lhs(thm.concl).frees
       /\ TermTypeVars(side) \subseteq TermTypeVars(Lhs(thm.concl))

-----------------------------------------------------------------------------
(* Replay. *)

\* |- T from the definition of T as some equation w = w.
Truth == Const("T", Bool)

TruthTheorem ==
  UNION {IF ~IsEqn(Rhs(definition.concl)) THEN {}
         ELSE K!Then(K!Sym(Here, definition), LAMBDA symmetric :
              K!Then(K!Refl(Here, Lhs(Rhs(definition.concl))), LAMBDA reflexive :
                     K!EqMp(Here, symmetric, reflexive))) :
         definition \in {d \in Definitions : Lhs(d.concl) = Truth}}

\* The rule at the substitutions of a match, by INST_TYPE and INST.
InstantiateIn(ranked, thm, m) ==
  K!Then(IF m.types = NoTypes THEN {thm} ELSE K!InstType(Here, m.types, thm), LAMBDA typed :
         IF m.terms = NoTypes THEN {typed} ELSE K!Inst(Here, RetypedIn(ranked, m), typed))

Instantiate(thm, m) == InstantiateIn(order, thm, m)

InstancesIn(ranked, rules, step) ==
  UNION {InstantiateIn(ranked, rule.thm, step.match) : rule \in Fetch(rules, step.rule)}

\* A proof about the subterm at the path, carried up to the whole term.
RECURSIVE Congruence(_, _, _, _)
Congruence(term, path, depth, proof) ==
  CASE path = <<>> -> {proof}
    [] path # <<>> /\ Head(path) = "rator" ->
         K!Then(Congruence(term.rator, Tail(path), depth, proof), LAMBDA inner :
                K!ApThm(Here, inner, term.rand))
    [] path # <<>> /\ Head(path) = "rand" ->
         K!Then(Congruence(term.rand, Tail(path), depth, proof), LAMBDA inner :
                K!ApTerm(Here, term.rator, inner))
    [] path # <<>> /\ Head(path) = "body" ->
         LET var == PathOpener(term, depth)
         IN  K!Then(Congruence(OpenAbs(term, var), Tail(path), depth + 1, proof), LAMBDA inner :
                    K!Abs(Here, var, inner))

RECURSIVE ProveCertificate(_, _), Chain(_, _, _), DischargeConditions(_, _, _, _)

OneStep(term, step, rules) ==
  UNION {Congruence(term, step.path, 0, instance) :
           instance \in
             {t \in UNION {K!Then(Instantiate(rule.thm, step.match), LAMBDA thm :
                                  IF Cardinality(thm.hyps) = Len(step.conditions)
                                  THEN DischargeConditions(thm, ByRank(thm.hyps), step.conditions, rules)
                                  ELSE {}) :
                             rule \in Fetch(rules, step.rule)} :
                IsEqn(t.concl) /\ Lhs(t.concl) \in SubtermAt(term, step.path, 0)}}

Chain(proof, steps, rules) ==
  IF steps = <<>> THEN {proof}
  ELSE K!Then(OneStep(Rhs(proof.concl), Head(steps), rules), LAMBDA next :
       K!Then(K!Trans(Here, proof, next), LAMBDA longer :
              Chain(longer, Tail(steps), rules)))

\* The theorem term = result, if every step holds and they lead there.
ProveCertificate(certificate, rules) ==
  K!Then(K!Refl(Here, certificate.term), LAMBDA start :
         {proof \in Chain(start, certificate.steps, rules) :
            Rhs(proof.concl) = certificate.result})

DischargeCondition(thm, hyp, certificate, rules) ==
  IF certificate.term # hyp \/ certificate.result # Truth THEN {}
  ELSE K!Then(ProveCertificate(certificate, rules), LAMBDA proof :
       K!Then(TruthTheorem, LAMBDA truth :
       K!Then(K!EqtElim(Here, truth, proof), LAMBDA discharged :
              K!ProveHyp(Here, discharged, thm))))

\* The conditions go with the hypotheses of the instance, in rank order.
DischargeConditions(thm, hyps, conditions, rules) ==
  IF conditions = <<>> THEN {thm}
  ELSE K!Then(IF Head(conditions).kind = "assumed" THEN {thm}
              ELSE DischargeCondition(thm, Head(hyps), Head(conditions).certificate, rules),
              LAMBDA acc : DischargeConditions(acc, Tail(hyps), Tail(conditions), rules))
=============================================================================
