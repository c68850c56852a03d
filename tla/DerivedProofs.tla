---------------------------- MODULE DerivedProofs ---------------------------
(***************************************************************************)
(* What the derived rules of src/src/derived.rs answer with: each one is a *)
(* composition of primitives that may refuse at any step, and each answers *)
(* with exactly the sequent its comment names, for every well-formed       *)
(* premise of the theory.  Nothing is assumed of the term operations.      *)
(***************************************************************************)
EXTENDS Derived, TLAPS

\* A theorem value as sequent makes it.
IsThm(theory, thm) ==
  /\ thm = Thm(theory, thm.hyps, thm.concl)
  /\ Proposition(thm.concl)
  /\ \A h \in thm.hyps : Proposition(h)

\* Two closed terms of one type, which term_eq equates.
Equable(l, r) == Closed(l) /\ Closed(r) /\ l.ty = r.ty

-----------------------------------------------------------------------------
(***************************************************************************)
(* Terms.                                                                  *)
(***************************************************************************)

\* dest_eq takes apart what term_eq builds, and finds the `=' at the type of
\* the operands.
LEMMA EqnShape ==
  ASSUME NEW l, NEW r
  PROVE  /\ IsEqn(Eqn(l, r)) /\ Lhs(Eqn(l, r)) = l /\ Rhs(Eqn(l, r)) = r
         /\ Eqn(l, r).rator.rator = EqConst(l.ty)
         /\ Eqn(l, r) = CombRaw(CombRaw(EqConst(l.ty), l), r)
  BY DEF IsEqn, Eqn, Lhs, Rhs, CombRaw, EqConst, Const, IsComb, IsConst, EqName

\* The type constructor of functions has its two arguments.
LEMMA FunShape ==
  ASSUME NEW a, NEW b
  PROVE  IsFun(Fun(a, b)) /\ Fun(a, b).args[1] = a /\ Fun(a, b).args[2] = b
  BY DEF IsFun, Fun, TyCon

\* The constant `=' is closed and takes its first operand.
LEMMA EqConstShape ==
  ASSUME NEW ty
  PROVE  /\ Closed(EqConst(ty)) /\ EqConst(ty).ty = Fun(ty, Fun(ty, Bool))
  BY DEF EqConst, Const, Closed

\* An application of closed terms is closed, and of the result type.
LEMMA CombShape ==
  ASSUME NEW f, NEW x, NEW a, NEW b, Closed(f), Closed(x), f.ty = Fun(a, b), x.ty = a
  PROVE  CanComb(f, x) /\ Closed(CombRaw(f, x)) /\ CombRaw(f, x).ty = b
<1>1. IsFun(f.ty) /\ f.ty.args[1] = a /\ f.ty.args[2] = b
  BY FunShape
<1>2. CombRaw(f, x).loose = 0
  BY DEF CombRaw, Closed
<1> QED
  BY <1>1, <1>2 DEF CanComb, CanApply, CombRaw, Closed

\* An equation between such terms is a proposition.
LEMMA EqnProposition ==
  ASSUME NEW l, NEW r, Equable(l, r)
  PROVE  /\ Proposition(Eqn(l, r))
         /\ CanComb(EqConst(l.ty), l) /\ CanComb(CombRaw(EqConst(l.ty), l), r)
         /\ Closed(CombRaw(EqConst(l.ty), l))
         /\ CombRaw(EqConst(l.ty), l).ty = Fun(l.ty, Bool)
<1> DEFINE half == CombRaw(EqConst(l.ty), l)
<1>1. CanComb(EqConst(l.ty), l) /\ Closed(half) /\ half.ty = Fun(l.ty, Bool)
  <2>1. Closed(EqConst(l.ty)) /\ EqConst(l.ty).ty = Fun(l.ty, Fun(l.ty, Bool)) /\ Closed(l)
    BY EqConstShape DEF Equable
  <2> HIDE DEF Equable
  <2> QED
    BY <2>1, CombShape
<1> HIDE DEF half
<1>2. CanComb(half, r) /\ Closed(CombRaw(half, r)) /\ CombRaw(half, r).ty = Bool
  BY <1>1, CombShape DEF Equable
<1> QED
  BY <1>1, <1>2, EqnShape DEF half, Proposition

\* sequent lets an equation through.
LEMMA EqSequentAnswers ==
  ASSUME NEW theory, NEW hyps, \A h \in hyps : Proposition(h), NEW l, NEW r, Equable(l, r)
  PROVE  /\ EqSequent(theory, hyps, l, r) = {Thm(theory, hyps, Eqn(l, r))}
         /\ IsThm(theory, Thm(theory, hyps, Eqn(l, r)))
  BY EqnProposition DEF EqSequent, Sequent, CanEquate, Equable, IsThm, Thm

-----------------------------------------------------------------------------
(***************************************************************************)
(* The primitives the derived rules call, where they answer Ok.            *)
(***************************************************************************)

LEMMA ReflAnswers ==
  ASSUME NEW theory, NEW t, Closed(t)
  PROVE  /\ Refl(theory, t) = {Thm(theory, {}, Eqn(t, t))}
         /\ IsThm(theory, Thm(theory, {}, Eqn(t, t)))
  BY EqSequentAnswers DEF Refl, Equable

\* MK_COMB on two equations of this theory whose sides apply.
LEMMA MkCombAnswers ==
  ASSUME NEW theory, NEW hf, NEW hx, NEW f, NEW g, NEW x, NEW y,
         \A h \in hf \cup hx : Proposition(h),
         CanComb(f, x), CanComb(g, y), Equable(CombRaw(f, x), CombRaw(g, y))
  PROVE  MkComb(theory, Thm(theory, hf, Eqn(f, g)), Thm(theory, hx, Eqn(x, y))) =
           {Thm(theory, hf \cup hx, Eqn(CombRaw(f, x), CombRaw(g, y)))}
<1> DEFINE left == Thm(theory, hf, Eqn(f, g))
           right == Thm(theory, hx, Eqn(x, y))
<1>1. /\ DestEquation(theory, left) /\ left.hyps = hf
      /\ Lhs(left.concl) = f /\ Rhs(left.concl) = g
      /\ DestEquation(theory, right) /\ right.hyps = hx
      /\ Lhs(right.concl) = x /\ Rhs(right.concl) = y
  BY EqnShape DEF DestEquation, Own, Thm
<1>2. MkComb(theory, left, right) =
        EqSequent(theory, hf \cup hx, CombRaw(f, x), CombRaw(g, y))
  <2> HIDE DEF left, right
  <2> QED
    BY <1>1 DEF MkComb
<1> QED
  BY <1>2, EqSequentAnswers

\* EQ_MP on an equation whose left side is what the other theorem says.
LEMMA EqMpAnswers ==
  ASSUME NEW theory, NEW he, NEW hp, NEW p, NEW q,
         \A h \in he \cup hp : Proposition(h), Proposition(q)
  PROVE  /\ EqMp(theory, Thm(theory, he, Eqn(p, q)), Thm(theory, hp, p)) =
              {Thm(theory, he \cup hp, q)}
         /\ IsThm(theory, Thm(theory, he \cup hp, q))
<1>1. EqMp(theory, Thm(theory, he, Eqn(p, q)), Thm(theory, hp, p)) =
        Sequent(theory, he \cup hp, q)
  BY EqnShape DEF EqMp, DestEquation, Own, Thm
<1> QED
  BY <1>1 DEF Sequent, IsThm, Thm

-----------------------------------------------------------------------------
(***************************************************************************)
(* The derived rules.                                                      *)
(***************************************************************************)

(***************************************************************************)
(* From G |- a = b, sym proves G |- b = a (derived.rs:14): it finds the    *)
(* `=' of the operands in the conclusion, and none of its five steps       *)
(* refuses.                                                                *)
(***************************************************************************)
THEOREM SymAnswers ==
  ASSUME NEW theory, NEW hyps, \A h \in hyps : Proposition(h),
         NEW l, NEW r, Equable(l, r)
  PROVE  /\ Sym(theory, Thm(theory, hyps, Eqn(l, r))) = {Thm(theory, hyps, Eqn(r, l))}
         /\ IsThm(theory, Thm(theory, hyps, Eqn(r, l)))
<1> DEFINE eq == EqConst(l.ty)
           thm == Thm(theory, hyps, Eqn(l, r))
           reflexive == Thm(theory, {}, Eqn(l, l))
           eqRefl == Thm(theory, {}, Eqn(eq, eq))
           half == Thm(theory, hyps, Eqn(CombRaw(eq, l), CombRaw(eq, r)))
           congruence == Thm(theory, hyps, Eqn(Eqn(l, l), Eqn(r, l)))
<1>1. /\ IsEqn(thm.concl) /\ Lhs(thm.concl) = l /\ thm.concl.rator.rator = eq
  BY EqnShape DEF Thm
<1>2. /\ Closed(l) /\ Closed(r) /\ l.ty = r.ty
      /\ Closed(eq) /\ eq.ty = Fun(l.ty, Fun(l.ty, Bool))
      /\ Equable(eq, eq) /\ Equable(l, l) /\ Equable(r, l)
  BY EqConstShape DEF Equable
<1>3. Refl(theory, l) = {reflexive} /\ Refl(theory, eq) = {eqRefl}
  BY <1>2, ReflAnswers
<1>4. /\ CanComb(eq, l) /\ CanComb(eq, r)
      /\ Equable(CombRaw(eq, l), CombRaw(eq, r))
      /\ CombRaw(eq, l).ty = Fun(l.ty, Bool) /\ CombRaw(eq, r).ty = Fun(l.ty, Bool)
  <2> HIDE DEF eq
  <2> QED
    BY <1>2, CombShape DEF Equable
<1>5. MkComb(theory, eqRefl, thm) = {half}
  <2>1. \A h \in {} \cup hyps : Proposition(h)
    OBVIOUS
  <2> HIDE DEF eq
  <2>2. MkComb(theory, eqRefl, thm) =
          {Thm(theory, {} \cup hyps, Eqn(CombRaw(eq, l), CombRaw(eq, r)))}
    BY <1>4, <2>1, MkCombAnswers
  <2> QED
    BY <2>2
<1>6. /\ CombRaw(CombRaw(eq, l), l) = Eqn(l, l)
      /\ CombRaw(CombRaw(eq, r), l) = Eqn(r, l)
      /\ CanComb(CombRaw(eq, l), l) /\ CanComb(CombRaw(eq, r), l)
      /\ Equable(Eqn(l, l), Eqn(r, l))
  <2>1. /\ CombRaw(CombRaw(eq, l), l) = Eqn(l, l)
        /\ CombRaw(CombRaw(eq, r), l) = Eqn(r, l)
    BY <1>2, EqnShape
  <2>2. CanComb(CombRaw(eq, l), l) /\ CanComb(CombRaw(eq, r), l)
    <3> HIDE DEF eq
    <3> QED
      BY <1>2, <1>4, CombShape DEF Equable
  <2>3. Equable(Eqn(l, l), Eqn(r, l))
    BY <1>2, EqnProposition DEF Equable, Proposition
  <2> QED
    BY <2>1, <2>2, <2>3
<1>7. MkComb(theory, half, reflexive) = {congruence}
  <2>1. \A h \in hyps \cup {} : Proposition(h)
    OBVIOUS
  <2> HIDE DEF eq
  <2>2. MkComb(theory, half, reflexive) =
          {Thm(theory, hyps \cup {}, Eqn(CombRaw(CombRaw(eq, l), l), CombRaw(CombRaw(eq, r), l)))}
    BY <1>6, <2>1, MkCombAnswers
  <2> QED
    BY <1>6, <2>2
<1>8. Proposition(Eqn(r, l))
  BY <1>2, EqnProposition
<1>9. /\ EqMp(theory, congruence, reflexive) = {Thm(theory, hyps, Eqn(r, l))}
      /\ IsThm(theory, Thm(theory, hyps, Eqn(r, l)))
  <2>1. /\ EqMp(theory, congruence, reflexive) = {Thm(theory, hyps \cup {}, Eqn(r, l))}
        /\ IsThm(theory, Thm(theory, hyps \cup {}, Eqn(r, l)))
    BY <1>8, EqMpAnswers
  <2> QED
    BY <2>1
<1> HIDE DEF eq, thm, reflexive, eqRefl, half, congruence
<1>10. Sym(theory, thm) = EqMp(theory, congruence, reflexive)
  BY <1>1, <1>3, <1>5, <1>7 DEF Sym, Then
<1> QED
  BY <1>9, <1>10 DEF thm

(***************************************************************************)
(* From G |- p and D |- q, prove_hyp proves G u (D - p) |- q: p is         *)
(* discharged, and a hypothesis q of the first is not lost on the way      *)
(* through DEDUCT_ANTISYM_RULE (derived.rs:51-54).                         *)
(***************************************************************************)
THEOREM ProveHypAnswers ==
  ASSUME NEW theory, NEW gamma, NEW p, NEW delta, NEW q,
         IsThm(theory, Thm(theory, gamma, p)), IsThm(theory, Thm(theory, delta, q))
  PROVE  ProveHyp(theory, Thm(theory, gamma, p), Thm(theory, delta, q)) =
           {Thm(theory, gamma \cup (delta \ {p}), q)}
<1> DEFINE proof == Thm(theory, gamma, p)
           consequence == Thm(theory, delta, q)
           kept == (gamma \ {q}) \cup (delta \ {p})
           deduced == Thm(theory, kept, Eqn(p, q))
<1>1. /\ Proposition(p) /\ Proposition(q)
      /\ \A h \in gamma \cup delta : Proposition(h)
  BY DEF IsThm, Thm
<1>2. Equable(p, q)
  BY <1>1 DEF Equable, Proposition
<1>3. DeductAntisymRule(theory, proof, consequence) = EqSequent(theory, kept, p, q)
  BY DEF DeductAntisymRule, Own, Thm
<1>4. EqSequent(theory, kept, p, q) = {deduced}
  BY <1>1, <1>2, EqSequentAnswers
<1>5. EqMp(theory, deduced, proof) = {Thm(theory, kept \cup gamma, q)}
  BY <1>1, EqMpAnswers
<1>6. kept \cup gamma = gamma \cup (delta \ {p})
  OBVIOUS
<1> HIDE DEF proof, consequence, kept, deduced
<1>7. ProveHyp(theory, proof, consequence) = EqMp(theory, deduced, proof)
  BY <1>3, <1>4 DEF ProveHyp, Then
<1> QED
  BY <1>5, <1>6, <1>7 DEF proof, consequence

(***************************************************************************)
(* From G |- p = T and D |- T, eqt_elim proves G u D |- p                  *)
(* (derived.rs:55-60).                                                     *)
(***************************************************************************)
THEOREM EqtElimAnswers ==
  ASSUME NEW theory, NEW gamma, NEW delta, NEW p, NEW t,
         IsThm(theory, Thm(theory, delta, t)),
         IsThm(theory, Thm(theory, gamma, Eqn(p, t))),
         Proposition(p)
  PROVE  EqtElim(theory, Thm(theory, delta, t), Thm(theory, gamma, Eqn(p, t))) =
           {Thm(theory, gamma \cup delta, p)}
<1> DEFINE truth == Thm(theory, delta, t)
           thm == Thm(theory, gamma, Eqn(p, t))
           symmetric == Thm(theory, gamma, Eqn(t, p))
<1>1. /\ Proposition(t) /\ \A h \in gamma \cup delta : Proposition(h)
  BY DEF IsThm, Thm
<1>2. Equable(p, t)
  BY <1>1 DEF Equable, Proposition
<1>3. Sym(theory, thm) = {symmetric}
  BY <1>1, <1>2, SymAnswers
<1>4. EqMp(theory, symmetric, truth) = {Thm(theory, gamma \cup delta, p)}
  BY <1>1, EqMpAnswers
<1> HIDE DEF truth, thm, symmetric
<1>5. EqtElim(theory, truth, thm) = EqMp(theory, symmetric, truth)
  BY <1>3 DEF EqtElim, Then
<1> QED
  BY <1>4, <1>5 DEF truth, thm

(***************************************************************************)
(* From G |- x = y, ap_term proves G |- f x = f y for every closed f that  *)
(* takes x (derived.rs:42): REFL and MK_COMB do not refuse.                *)
(***************************************************************************)
THEOREM ApTermAnswers ==
  ASSUME NEW theory, NEW hyps, \A h \in hyps : Proposition(h),
         NEW x, NEW y, Equable(x, y), NEW f, NEW b, Closed(f), f.ty = Fun(x.ty, b)
  PROVE  /\ ApTerm(theory, f, Thm(theory, hyps, Eqn(x, y))) =
              {Thm(theory, hyps, Eqn(CombRaw(f, x), CombRaw(f, y)))}
         /\ IsThm(theory, Thm(theory, hyps, Eqn(CombRaw(f, x), CombRaw(f, y))))
<1> DEFINE thm == Thm(theory, hyps, Eqn(x, y))
           reflexive == Thm(theory, {}, Eqn(f, f))
           applied == Thm(theory, hyps, Eqn(CombRaw(f, x), CombRaw(f, y)))
<1>1. Refl(theory, f) = {reflexive}
  BY ReflAnswers
<1>2. Closed(x) /\ Closed(y) /\ y.ty = x.ty
  BY DEF Equable
<1>3. /\ CanComb(f, x) /\ CanComb(f, y)
      /\ Equable(CombRaw(f, x), CombRaw(f, y))
  BY <1>2, CombShape DEF Equable
<1>4. MkComb(theory, reflexive, thm) = {applied}
  <2>1. \A h \in {} \cup hyps : Proposition(h)
    OBVIOUS
  <2>2. MkComb(theory, reflexive, thm) =
          {Thm(theory, {} \cup hyps, Eqn(CombRaw(f, x), CombRaw(f, y)))}
    BY <1>3, <2>1, MkCombAnswers
  <2> QED
    BY <2>2
<1>5. IsThm(theory, applied)
  BY <1>3, EqSequentAnswers
<1> HIDE DEF thm, reflexive, applied
<1>6. ApTerm(theory, f, thm) = MkComb(theory, reflexive, thm)
  BY <1>1 DEF ApTerm, Then
<1> QED
  BY <1>4, <1>5, <1>6 DEF thm, applied

(***************************************************************************)
(* From G |- f = g, ap_thm proves G |- f x = g x for every closed x that   *)
(* they take (derived.rs:48).                                              *)
(***************************************************************************)
THEOREM ApThmAnswers ==
  ASSUME NEW theory, NEW hyps, \A h \in hyps : Proposition(h),
         NEW f, NEW g, Equable(f, g), NEW x, NEW b, Closed(x), f.ty = Fun(x.ty, b)
  PROVE  /\ ApThm(theory, Thm(theory, hyps, Eqn(f, g)), x) =
              {Thm(theory, hyps, Eqn(CombRaw(f, x), CombRaw(g, x)))}
         /\ IsThm(theory, Thm(theory, hyps, Eqn(CombRaw(f, x), CombRaw(g, x))))
<1> DEFINE thm == Thm(theory, hyps, Eqn(f, g))
           reflexive == Thm(theory, {}, Eqn(x, x))
           applied == Thm(theory, hyps, Eqn(CombRaw(f, x), CombRaw(g, x)))
<1>1. Refl(theory, x) = {reflexive}
  BY ReflAnswers
<1>2. Closed(f) /\ Closed(g) /\ g.ty = Fun(x.ty, b)
  BY DEF Equable
<1>3. /\ CanComb(f, x) /\ CanComb(g, x)
      /\ Equable(CombRaw(f, x), CombRaw(g, x))
  BY <1>2, CombShape DEF Equable
<1>4. MkComb(theory, thm, reflexive) = {applied}
  <2>1. \A h \in hyps \cup {} : Proposition(h)
    OBVIOUS
  <2>2. MkComb(theory, thm, reflexive) =
          {Thm(theory, hyps \cup {}, Eqn(CombRaw(f, x), CombRaw(g, x)))}
    BY <1>3, <2>1, MkCombAnswers
  <2> QED
    BY <2>2
<1>5. IsThm(theory, applied)
  BY <1>3, EqSequentAnswers
<1> HIDE DEF thm, reflexive, applied
<1>6. ApThm(theory, thm, x) = MkComb(theory, thm, reflexive)
  BY <1>1 DEF ApThm, Then
<1> QED
  BY <1>4, <1>5, <1>6 DEF thm, applied

(***************************************************************************)
(* From |- (v = T) = v and G |- p, eqt_intro proves G |- p = T for every   *)
(* p, by the instance of the rule at p (derived.rs:130-135).               *)
(***************************************************************************)
THEOREM EqtIntroAnswers ==
  ASSUME NEW theory, NEW v, IsVar(v), Proposition(v), NEW t, Proposition(t),
         NEW gamma, NEW p, IsThm(theory, Thm(theory, gamma, p)),
         subst([w \in {v} |-> p], Eqn(Eqn(v, t), v)) = Eqn(Eqn(p, t), p)
  PROVE  /\ EqtIntro(theory, Thm(theory, {}, Eqn(Eqn(v, t), v)), Thm(theory, gamma, p)) =
              {Thm(theory, gamma, Eqn(p, t))}
         /\ IsThm(theory, Thm(theory, gamma, Eqn(p, t)))
<1> DEFINE rule == Thm(theory, {}, Eqn(Eqn(v, t), v))
           thm == Thm(theory, gamma, p)
           theta == [w \in {v} |-> p]
           instance == Thm(theory, {}, Eqn(Eqn(p, t), p))
           symmetric == Thm(theory, {}, Eqn(p, Eqn(p, t)))
           answer == Thm(theory, gamma, Eqn(p, t))
<1>1. /\ Proposition(p) /\ \A h \in gamma : Proposition(h)
      /\ rule.hyps = {} /\ rule.concl = Eqn(Eqn(v, t), v) /\ rule.theory = theory
      /\ thm.concl = p
  BY DEF IsThm, Thm
<1>2. Equable(p, t) /\ Proposition(Eqn(p, t)) /\ Equable(Eqn(p, t), p)
  <2>1. Equable(p, t)
    BY <1>1 DEF Equable, Proposition
  <2>2. Proposition(Eqn(p, t))
    BY <2>1, EqnProposition
  <2> QED
    BY <1>1, <2>1, <2>2 DEF Equable, Proposition
<1>3. Inst(theory, theta, rule) = {instance}
  <2>1. CheckSubst(theta) /\ Own(theory, rule)
    BY <1>1 DEF CheckSubst, Proposition, Own
  <2>2. {subst(theta, h) : h \in rule.hyps} = {}
    BY <1>1
  <2>3. subst(theta, rule.concl) = Eqn(Eqn(p, t), p)
    BY <1>1
  <2>4. Proposition(Eqn(Eqn(p, t), p))
    BY <1>2, EqnProposition
  <2> HIDE DEF theta, rule
  <2>5. Inst(theory, theta, rule) = Sequent(theory, {}, Eqn(Eqn(p, t), p))
    BY <2>1, <2>2, <2>3 DEF Inst
  <2> QED
    BY <2>4, <2>5 DEF Sequent
<1>4. TrueRight(theory, rule, p) = {instance}
  <2>1. IsEqn(rule.concl) /\ IsVar(Rhs(rule.concl)) /\ Rhs(rule.concl) = v
    BY <1>1, EqnShape
  <2>2. /\ IsEqn(instance.concl) /\ Rhs(instance.concl) = p
        /\ IsEqn(Lhs(instance.concl)) /\ Lhs(Lhs(instance.concl)) = p
    BY EqnShape DEF Thm
  <2> HIDE DEF rule, instance
  <2> QED
    BY <1>3, <2>1, <2>2 DEF TrueRight
<1>5. Sym(theory, instance) = {symmetric}
  <2>1. \A h \in {} : Proposition(h)
    OBVIOUS
  <2> QED
    BY <1>2, <2>1, SymAnswers
<1>6. EqMp(theory, symmetric, thm) = {answer} /\ IsThm(theory, answer)
  <2>1. \A h \in {} \cup gamma : Proposition(h)
    BY <1>1
  <2>2. /\ EqMp(theory, symmetric, thm) = {Thm(theory, {} \cup gamma, Eqn(p, t))}
        /\ IsThm(theory, Thm(theory, {} \cup gamma, Eqn(p, t)))
    BY <1>2, <2>1, EqMpAnswers
  <2> QED
    BY <2>2
<1> HIDE DEF rule, thm, instance, symmetric, answer
<1>7. EqtIntro(theory, rule, thm) = EqMp(theory, symmetric, thm)
  BY <1>1, <1>4, <1>5 DEF EqtIntro, Then
<1> QED
  BY <1>6, <1>7 DEF rule, thm, answer
=============================================================================
