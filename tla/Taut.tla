-------------------------------- MODULE Taut --------------------------------
(***************************************************************************)
(* What the search of src/src/logic/taut.rs does at its ends and at each   *)
(* branch.  The search itself is in module TautSearch.                     *)
(***************************************************************************)
EXTENDS Bootstrap

\* Split in this order; a quantified proposition is an atom.
logical_parts(t) ==
  IF IsConj(t) \/ IsImp(t) \/ IsDisj(t) THEN <<Left(t), Right(t)>>
  ELSE IF IsNeg(t) THEN <<t.rand>> ELSE <<>>

\* Mutant: the sides need not be propositions.
any_equality(t) == IF IsEqn(t) THEN <<Lhs(t), Rhs(t)>> ELSE <<>>

boolean_equality(t) == IF IsEqn(t) /\ Lhs(t).ty = Bool THEN <<Lhs(t), Rhs(t)>> ELSE <<>>

Parts(t) == logical_parts(t) \o (IF logical_parts(t) = <<>> THEN boolean_equality(t) ELSE <<>>)

RECURSIVE collect_atoms(_, _), CollectParts(_, _)
collect_atoms(t, found) ==
  CASE t \in {True, False} -> found
    [] t \notin {True, False} /\ Parts(t) # <<>> -> CollectParts(Parts(t), found)
    [] OTHER -> IF \E i \in DOMAIN found : found[i] = t THEN found ELSE Append(found, t)

CollectParts(parts, found) ==
  IF parts = <<>> THEN found ELSE CollectParts(Tail(parts), collect_atoms(Head(parts), found))

\* Maximal boolean atoms in first-occurrence order.
atoms(t) == collect_atoms(t, <<>>)

\* Beta reduction until nothing changes: |- t = t'.
RECURSIVE BetaFrom(_)
BetaFrom(proof) ==
  UNION {IF Rhs(step.concl) = Rhs(proof.concl) THEN {proof}
         ELSE UNION {BetaFrom(longer) : longer \in Trans(Here, proof, step)} :
           step \in beta_reduce(Rhs(proof.concl))}

beta_normalize(t) == UNION {BetaFrom(proof) : proof \in Refl(Here, t)}

-----------------------------------------------------------------------------
(* What a branch assumes of an atom: atom |- atom = T, ~atom |- atom = F. *)

truth_assignment(atom) == Derive(eqt_intro(true_right, assume(atom)))
false_assignment(atom) == Derive(eqf_intro(assume(MkNeg(atom))))

\* |- t = t' with every occurrence of the atom replaced, below binders too: a
\* binder is opened with the variable of its display name.
RECURSIVE contextual_substitution(_, _, _)
contextual_substitution(name, equality, t) ==
  CASE t = Lhs(equality.concl) -> ok(equality)
    [] t # Lhs(equality.concl) /\ IsComb(t) ->
         mk_comb(contextual_substitution(name, equality, t.rator),
                 contextual_substitution(name, equality, t.rand))
    [] t # Lhs(equality.concl) /\ IsAbs(t) ->
         LET v == Opener(name, t)
         IN  abs_rule(v, contextual_substitution(name, equality, OpenAbs(t, v)))
    [] OTHER -> refl(t)

SubstitutedOnce(name, equality, proof) ==
  Derive(trans(ok(proof), contextual_substitution(name, equality, Rhs(proof.concl))))

\* Mutant: only the first assignment is used.
SubstitutedFirst(name, assignments, proof) ==
  IF assignments = <<>> THEN {proof} ELSE SubstitutedOnce(name, Head(assignments), proof)

\* Mutant: the assignments of the inner splits come first.
RECURSIVE SubstitutedBackwards(_, _, _)
SubstitutedBackwards(name, assignments, proof) ==
  IF assignments = <<>> THEN {proof}
  ELSE UNION {SubstitutedBackwards(name, Front(assignments), longer) :
                longer \in SubstitutedOnce(name, Last(assignments), proof)}

RECURSIVE Substituted(_, _, _)
Substituted(name, assignments, proof) ==
  IF assignments = <<>> THEN {proof}
  ELSE UNION {Substituted(name, Tail(assignments), longer) :
                longer \in SubstitutedOnce(name, Head(assignments), proof)}

simplify(t, limit) ==
  UNION {UNION {R!ProveCertificate(certificate, rules) :
                  certificate \in R!Rewrite(t, rules, limit, FALSE)} : rules \in SimpSet}

\* Some(theorem) is {{theorem}}, None is {{}} and Err is {}.
prove_leaf(name, t, assignments, limit) ==
  UNION {{IF Rhs(simplified.concl) # True THEN {}
          ELSE Derive(eqt_elim(truth, trans(ok(substituted), ok(simplified)))) :
            simplified \in simplify(Rhs(substituted.concl), limit)} :
         substituted \in UNION {Substituted(name, assignments, start) : start \in Refl(Here, t)}}
=============================================================================
