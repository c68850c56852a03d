---------------------------- MODULE KernelProofs ----------------------------
(***************************************************************************)
(* Every theorem value the kernel makes is well formed and true, a refused *)
(* gate asserts nothing, and a declared name keeps its meaning: for any    *)
(* number of theories and theorems, any terms and substitutions, and any   *)
(* semantics with the properties KernelSoundness assumes.                  *)
(***************************************************************************)
EXTENDS KernelSoundness, TLAPS

-----------------------------------------------------------------------------
(***************************************************************************)
(* The door.                                                               *)
(***************************************************************************)

\* sequent answers with the sequent it was asked for, and only if it is made
\* of propositions.
LEMMA SequentFacts ==
  ASSUME NEW theory, NEW hyps, NEW concl, NEW s \in Sequent(theory, hyps, concl)
  PROVE  /\ s = Thm(theory, hyps, concl)
         /\ s.theory = theory /\ s.hyps = hyps /\ s.concl = concl
         /\ Proposition(concl) /\ \A h \in hyps : Proposition(h)
  BY DEF Sequent, Thm

\* The same through term_eq.
LEMMA EqSequentFacts ==
  ASSUME NEW theory, NEW hyps, NEW lhs, NEW rhs, NEW s \in EqSequent(theory, hyps, lhs, rhs)
  PROVE  /\ s.theory = theory /\ s.hyps = hyps /\ s.concl = Eqn(lhs, rhs)
         /\ Proposition(s.concl) /\ \A h \in hyps : Proposition(h)
         /\ s \in Sequent(theory, hyps, Eqn(lhs, rhs))
  BY SequentFacts DEF EqSequent

\* term_eq builds what dest_eq takes apart.
LEMMA EqnParts ==
  ASSUME NEW lhs, NEW rhs
  PROVE  IsEqn(Eqn(lhs, rhs)) /\ Lhs(Eqn(lhs, rhs)) = lhs /\ Rhs(Eqn(lhs, rhs)) = rhs
  BY DEF IsEqn, Eqn, Lhs, Rhs, CombRaw, EqConst, Const, IsComb, IsConst, EqName

\* An equation in scope is true exactly when its sides, which are in scope too,
\* denote the same value.
LEMMA EqnTrue ==
  ASSUME NEW i \in Interp, NEW v \in Val(i), NEW lhs, NEW rhs, Eqn(lhs, rhs) \in Term
  PROVE  /\ lhs \in Term /\ rhs \in Term
         /\ Holds(i, v, Eqn(lhs, rhs)) <=> Den(i, v, lhs) = Den(i, v, rhs)
  BY EqnParts, TermClosed, EqnMeaning

-----------------------------------------------------------------------------
(***************************************************************************)
(* One lemma a rule: what it answers with is well formed, and true in any  *)
(* interpretation its premises are true in.                                *)
(***************************************************************************)

\* A premise, and an answer, as the lemmas below speak of them.
Premise(i, theory, thm) ==
  /\ thm.theory = theory => Satisfies(i, thm)
  /\ thm.concl \in Term
  /\ \A h \in thm.hyps : h \in Term /\ Proposition(h)

LEMMA ReflSound ==
  ASSUME NEW i \in Interp, NEW theory, NEW t, NEW s \in Refl(theory, t), InScope(s)
  PROVE  Satisfies(i, s)
<1>1. s \in EqSequent(theory, {}, t, t)
  BY DEF Refl
<1>2. s.concl = Eqn(t, t)
  BY <1>1, EqSequentFacts
<1> QED
  BY <1>2, EqnTrue DEF Satisfies, InScope

LEMMA TransSound ==
  ASSUME NEW i \in Interp, NEW theory, NEW left, NEW right,
         Premise(i, theory, left), Premise(i, theory, right),
         NEW s \in Trans(theory, left, right), InScope(s)
  PROVE  Satisfies(i, s)
<1> DEFINE l == Lhs(left.concl)
           m == Rhs(left.concl)
           r == Rhs(right.concl)
<1>1. /\ s \in EqSequent(theory, left.hyps \cup right.hyps, l, r)
      /\ left.theory = theory /\ right.theory = theory
      /\ IsEqn(left.concl) /\ IsEqn(right.concl)
      /\ m = Lhs(right.concl)
  BY DEF Trans, DestEquation, Own
<1>2. s.hyps = left.hyps \cup right.hyps /\ s.concl = Eqn(l, r)
  BY <1>1, EqSequentFacts
<1>3. SUFFICES ASSUME NEW v \in Val(i), \A h \in s.hyps : Holds(i, v, h)
               PROVE  Holds(i, v, s.concl)
  BY DEF Satisfies
<1>4. Holds(i, v, left.concl) /\ Holds(i, v, right.concl)
  BY <1>1, <1>2, <1>3 DEF Premise, Satisfies
<1>5. Den(i, v, l) = Den(i, v, m) /\ Den(i, v, m) = Den(i, v, r)
  BY <1>1, <1>4, EqnMeaning DEF Premise
<1> QED
  BY <1>2, <1>5, EqnTrue DEF InScope

LEMMA MkCombSound ==
  ASSUME NEW i \in Interp, NEW theory, NEW funThm, NEW argThm,
         Premise(i, theory, funThm), Premise(i, theory, argThm),
         NEW s \in MkComb(theory, funThm, argThm), InScope(s)
  PROVE  Satisfies(i, s)
<1> DEFINE f == Lhs(funThm.concl)
           g == Rhs(funThm.concl)
           x == Lhs(argThm.concl)
           y == Rhs(argThm.concl)
<1>1. /\ s \in EqSequent(theory, funThm.hyps \cup argThm.hyps, CombRaw(f, x), CombRaw(g, y))
      /\ funThm.theory = theory /\ argThm.theory = theory
      /\ IsEqn(funThm.concl) /\ IsEqn(argThm.concl)
      /\ CanComb(f, x) /\ CanComb(g, y)
  BY DEF MkComb, DestEquation, Own
<1>2. /\ s.hyps = funThm.hyps \cup argThm.hyps
      /\ s.concl = Eqn(CombRaw(f, x), CombRaw(g, y))
  BY <1>1, EqSequentFacts
<1>3. SUFFICES ASSUME NEW v \in Val(i), \A h \in s.hyps : Holds(i, v, h)
               PROVE  Holds(i, v, s.concl)
  BY DEF Satisfies
<1>4. Holds(i, v, funThm.concl) /\ Holds(i, v, argThm.concl)
  BY <1>1, <1>2, <1>3 DEF Premise, Satisfies
<1>5. Den(i, v, f) = Den(i, v, g) /\ Den(i, v, x) = Den(i, v, y)
  BY <1>1, <1>4, EqnMeaning DEF Premise
<1>6. f \in Term /\ g \in Term /\ x \in Term /\ y \in Term
  BY <1>1, TermClosed DEF Premise
<1>7. CombRaw(f, x) \in Term /\ CombRaw(g, y) \in Term
  BY <1>2, EqnTrue DEF InScope
<1>8. Den(i, v, CombRaw(f, x)) = Den(i, v, CombRaw(g, y))
  BY <1>1, <1>5, <1>6, <1>7, CombMeaning
<1> QED
  BY <1>2, <1>8, EqnTrue DEF InScope

\* The side condition: the hypotheses say nothing of v, so the premise holds at
\* every value of v and the two abstractions are one function.
LEMMA AbsSound ==
  ASSUME NEW i \in Interp, NEW theory, NEW x \in Inputs, NEW thm,
         Premise(i, theory, thm), NEW s \in Abs(theory, x, thm), InScope(s)
  PROVE  Satisfies(i, s)
<1> DEFINE l == Lhs(thm.concl)
           r == Rhs(thm.concl)
<1>1. /\ s \in EqSequent(theory, thm.hyps, term_abs(x, l), term_abs(x, r))
      /\ thm.theory = theory /\ IsEqn(thm.concl) /\ IsVar(x)
      /\ Closed(l) /\ Closed(r)
      /\ \A h \in thm.hyps : ~FreeIn(x, h)
  BY DEF Abs, DestEquation, Own
<1>2. s.hyps = thm.hyps /\ s.concl = Eqn(term_abs(x, l), term_abs(x, r))
  BY <1>1, EqSequentFacts
<1>3. SUFFICES ASSUME NEW v \in Val(i), \A h \in s.hyps : Holds(i, v, h)
               PROVE  Holds(i, v, s.concl)
  BY DEF Satisfies
<1>4. l \in Term /\ r \in Term
  BY <1>1, TermClosed DEF Premise
<1>5. term_abs(x, l) \in Term /\ term_abs(x, r) \in Term
  BY <1>2, EqnTrue DEF InScope
<1>6. ASSUME NEW d \in Dom(i, v, x.ty)
      PROVE  Den(i, Update(v, x, d), l) = Den(i, Update(v, x, d), r)
  <2>1. Update(v, x, d) \in Val(i)
    BY <1>1, Coincidence
  <2>2. \A h \in thm.hyps : Holds(i, Update(v, x, d), h)
    BY <1>1, <1>2, <1>3, Coincidence DEF Premise, Holds
  <2>3. Holds(i, Update(v, x, d), thm.concl)
    BY <1>1, <2>1, <2>2 DEF Premise, Satisfies
  <2> QED
    BY <1>1, <2>1, <2>3, EqnMeaning DEF Premise
<1>7. /\ Den(i, v, term_abs(x, l)) = [d \in Dom(i, v, x.ty) |-> Den(i, Update(v, x, d), l)]
      /\ Den(i, v, term_abs(x, r)) = [d \in Dom(i, v, x.ty) |-> Den(i, Update(v, x, d), r)]
  BY <1>1, <1>4, <1>5, AbsMeaning
<1>8. Den(i, v, term_abs(x, l)) = Den(i, v, term_abs(x, r))
  BY <1>6, <1>7
<1> QED
  BY <1>2, <1>8, EqnTrue DEF InScope

LEMMA BetaSound ==
  ASSUME NEW i \in Interp, NEW theory, NEW t, NEW s \in Beta(theory, t), InScope(s)
  PROVE  Satisfies(i, s)
<1>1. /\ s \in EqSequent(theory, {}, t, open_abs(t.rator, t.rand))
      /\ IsComb(t) /\ IsAbs(t.rator) /\ IsVar(t.rand)
      /\ t.rator.binder_type = t.rand.ty
  BY DEF Beta
<1>2. s.concl = Eqn(t, open_abs(t.rator, t.rand))
  BY <1>1, EqSequentFacts
<1>3. SUFFICES ASSUME NEW v \in Val(i)
               PROVE  Holds(i, v, s.concl)
  BY DEF Satisfies
<1>4. t \in Term /\ open_abs(t.rator, t.rand) \in Term
  BY <1>2, EqnTrue DEF InScope
<1>5. Den(i, v, t) = Den(i, v, open_abs(t.rator, t.rand))
  BY <1>1, <1>4, BetaMeaning
<1> QED
  BY <1>2, <1>5, EqnTrue DEF InScope

LEMMA AssumeSound ==
  ASSUME NEW i \in Interp, NEW theory, NEW t, NEW s \in Assume(theory, t)
  PROVE  Satisfies(i, s)
<1>1. s \in Sequent(theory, {t}, t)
  BY DEF Assume
<1>2. s.hyps = {t} /\ s.concl = t
  BY <1>1, SequentFacts
<1> QED
  BY <1>2 DEF Satisfies

LEMMA EqMpSound ==
  ASSUME NEW i \in Interp, NEW theory, NEW eqThm, NEW thm,
         Premise(i, theory, eqThm), Premise(i, theory, thm),
         NEW s \in EqMp(theory, eqThm, thm), InScope(s)
  PROVE  Satisfies(i, s)
<1>1. /\ s \in Sequent(theory, eqThm.hyps \cup thm.hyps, Rhs(eqThm.concl))
      /\ eqThm.theory = theory /\ thm.theory = theory
      /\ IsEqn(eqThm.concl) /\ Lhs(eqThm.concl) = thm.concl
  BY DEF EqMp, DestEquation, Own
<1>2. s.hyps = eqThm.hyps \cup thm.hyps /\ s.concl = Rhs(eqThm.concl)
  BY <1>1, SequentFacts
<1>3. SUFFICES ASSUME NEW v \in Val(i), \A h \in s.hyps : Holds(i, v, h)
               PROVE  Holds(i, v, s.concl)
  BY DEF Satisfies
<1>4. Holds(i, v, eqThm.concl) /\ Holds(i, v, thm.concl)
  BY <1>1, <1>2, <1>3 DEF Premise, Satisfies
<1>5. Den(i, v, thm.concl) = Den(i, v, s.concl)
  BY <1>1, <1>2, <1>4, EqnMeaning DEF Premise
<1> QED
  BY <1>4, <1>5 DEF Holds

\* Under the hypotheses that are left, either conclusion discharges what the
\* other was relieved of.
LEMMA DeductSound ==
  ASSUME NEW i \in Interp, NEW theory, NEW left, NEW right,
         Premise(i, theory, left), Premise(i, theory, right),
         Proposition(left.concl), Proposition(right.concl),
         NEW s \in DeductAntisymRule(theory, left, right), InScope(s)
  PROVE  Satisfies(i, s)
<1> DEFINE p == left.concl
           q == right.concl
<1>1. /\ s \in EqSequent(theory, (left.hyps \ {q}) \cup (right.hyps \ {p}), p, q)
      /\ left.theory = theory /\ right.theory = theory
  BY DEF DeductAntisymRule, Own
<1>2. s.hyps = (left.hyps \ {q}) \cup (right.hyps \ {p}) /\ s.concl = Eqn(p, q)
  BY <1>1, EqSequentFacts
<1>3. SUFFICES ASSUME NEW v \in Val(i), \A h \in s.hyps : Holds(i, v, h)
               PROVE  Holds(i, v, s.concl)
  BY DEF Satisfies
<1>4. Holds(i, v, p) => Holds(i, v, q)
  BY <1>1, <1>2, <1>3 DEF Premise, Satisfies
<1>5. Holds(i, v, q) => Holds(i, v, p)
  BY <1>1, <1>2, <1>3 DEF Premise, Satisfies
<1>6. Den(i, v, p) \in BOOLEAN /\ Den(i, v, q) \in BOOLEAN
  BY PropositionMeaning DEF Premise
<1>7. Den(i, v, p) = Den(i, v, q)
  BY <1>4, <1>5, <1>6 DEF Holds
<1> QED
  BY <1>2, <1>7, EqnTrue DEF InScope

LEMMA InstSound ==
  ASSUME NEW i \in Interp, NEW theory, NEW theta \in Thetas, NEW thm,
         Premise(i, theory, thm), NEW s \in Inst(theory, theta, thm), InScope(s)
  PROVE  Satisfies(i, s)
<1>1. /\ s \in Sequent(theory, {subst(theta, h) : h \in thm.hyps}, subst(theta, thm.concl))
      /\ thm.theory = theory /\ CheckSubst(theta)
  BY DEF Inst, Own
<1>2. s.hyps = {subst(theta, h) : h \in thm.hyps} /\ s.concl = subst(theta, thm.concl)
  BY <1>1, SequentFacts
<1>3. SUFFICES ASSUME NEW v \in Val(i), \A h \in s.hyps : Holds(i, v, h)
               PROVE  Holds(i, v, s.concl)
  BY DEF Satisfies
<1>4. SubstVal(i, theta, v) \in Val(i)
  BY <1>1, SubstMeaning
<1>5. \A h \in thm.hyps : Holds(i, SubstVal(i, theta, v), h)
  BY <1>1, <1>2, <1>3, SubstMeaning DEF Premise, InScope, Holds
<1>6. Holds(i, SubstVal(i, theta, v), thm.concl)
  BY <1>1, <1>4, <1>5 DEF Premise, Satisfies
<1> QED
  BY <1>1, <1>2, <1>6, SubstMeaning DEF Premise, InScope, Holds

LEMMA InstTypeSound ==
  ASSUME NEW i \in Interp, NEW theory, NEW theta \in TyThetas, NEW thm,
         Premise(i, theory, thm), NEW s \in InstType(theory, theta, thm), InScope(s)
  PROVE  Satisfies(i, s)
<1>1. /\ s \in Sequent(theory, {inst_type_term(theta, h) : h \in thm.hyps},
                       inst_type_term(theta, thm.concl))
      /\ thm.theory = theory /\ CheckTySubst(theta)
  BY DEF InstType, Own
<1>2. /\ s.hyps = {inst_type_term(theta, h) : h \in thm.hyps}
      /\ s.concl = inst_type_term(theta, thm.concl)
  BY <1>1, SequentFacts
<1>3. SUFFICES ASSUME NEW v \in Val(i), \A h \in s.hyps : Holds(i, v, h)
               PROVE  Holds(i, v, s.concl)
  BY DEF Satisfies
<1>4. TySubstVal(i, theta, v) \in Val(i)
  BY <1>1, TySubstMeaning
<1>5. \A h \in thm.hyps : Holds(i, TySubstVal(i, theta, v), h)
  BY <1>1, <1>2, <1>3, TySubstMeaning DEF Premise, InScope, Holds
<1>6. Holds(i, TySubstVal(i, theta, v), thm.concl)
  BY <1>1, <1>4, <1>5 DEF Premise, Satisfies
<1> QED
  BY <1>1, <1>2, <1>6, TySubstMeaning DEF Premise, InScope, Holds

-----------------------------------------------------------------------------
(***************************************************************************)
(* The steps.  The invariant is TypeOK and Sound together: a rule is sound *)
(* because its premises are, and its premises are in scope because they    *)
(* are well formed.  Ledgers only grow, so models only disappear, and what *)
(* was true stays true.                                                    *)
(***************************************************************************)
IInv == TypeOK /\ Sound

\* A step that writes one theory's record, and keeps theorems that are either
\* recorded in the ledger or entailed by what is.
Writes(theory, new, kept) ==
  /\ theory \in DOMAIN theories
  /\ DOMAIN theories' = DOMAIN theories /\ Len(theories') = Len(theories)
  /\ \A t \in DOMAIN theories : t # theory => theories'[t] = theories[t]
  /\ DOMAIN theories'[theory] = DOMAIN Newborn
  /\ EqName \in DOMAIN theories'[theory].constants
  /\ Ledger(theory)' = Ledger(theory) \cup new
  /\ \A thm \in new : WellFormed(thm) /\ thm.theory = theory
  /\ kept \subseteq new
  /\ thms' = thms \cup kept
  /\ outcome' \in {"ok", "err"}

LEMMA WritesStep ==
  ASSUME IInv, NEW theory, NEW new, NEW kept, Writes(theory, new, kept)
  PROVE  IInv'
<1>1. \A thm : WellFormed(thm) <=> WellFormed(thm)'
  BY DEF Writes, WellFormed
<1>2. ASSUME NEW t \in DOMAIN theories
      PROVE  /\ Ledger(t) \subseteq Ledger(t)'
             /\ t # theory => Ledger(t)' = Ledger(t)
  BY DEF Writes, Ledger
<1>3. TypeOK'
  <2>1. outcome' \in {"ok", "err"} /\ Len(theories') \in Nat /\ DOMAIN theories' = 1..Len(theories')
    BY DEF Writes, IInv, TypeOK
  <2>2. ASSUME NEW t \in DOMAIN theories'
        PROVE  /\ DOMAIN theories'[t] = DOMAIN Newborn
               /\ EqName \in DOMAIN theories'[t].constants
               /\ \A thm \in Ledger(t)' : WellFormed(thm)' /\ thm.theory = t
    <3>1. CASE t = theory
      BY <1>1, <3>1 DEF Writes, IInv, TypeOK
    <3>2. CASE t # theory
      BY <1>1, <1>2, <3>2 DEF Writes, IInv, TypeOK
    <3> QED
      BY <3>1, <3>2
  <2>3. \A thm \in thms' : WellFormed(thm)'
    BY <1>1 DEF Writes, IInv, TypeOK
  <2> QED
    BY <2>1, <2>2, <2>3 DEF TypeOK
<1>4. ASSUME NEW thm \in thms', NEW i \in Models(thm.theory)'
      PROVE  Satisfies(i, thm)
  <2>1. i \in Interp /\ \A l \in Ledger(thm.theory)' : Satisfies(i, l)
    BY <1>4 DEF Models, Satisfies, Holds
  <2>2. CASE thm \in kept
    BY <2>1, <2>2 DEF Writes
  <2>3. CASE thm \in thms
    <3>1. thm.theory \in DOMAIN theories
      BY <2>3 DEF IInv, TypeOK, WellFormed
    <3>2. i \in Models(thm.theory)
      BY <1>2, <2>1, <3>1 DEF Models
    <3> QED
      BY <2>3, <3>2 DEF IInv, Sound
  <2> QED
    BY <2>2, <2>3 DEF Writes
<1>5. Sound'
  BY <1>4 DEF Sound, Satisfies, Holds
<1> QED
  BY <1>3, <1>5 DEF IInv

\* A step that leaves the theories alone, and adds a theorem that follows.
Follows(theory, s) ==
  /\ s.theory = theory
  /\ Proposition(s.concl)
  /\ \A h \in s.hyps : Proposition(h)
  /\ InScope(s) => \A i \in Models(theory) : Satisfies(i, s)

LEMMA DeriveStep ==
  ASSUME IInv, NEW theory \in DOMAIN theories, NEW results, Derive(results),
         \A s \in results : Follows(theory, s)
  PROVE  IInv'
<1>1. PICK s \in results : InScope(s) /\ thms' = thms \cup {s}
  BY DEF Derive, Keep
<1>2. theories' = theories /\ outcome' = "ok"
  BY DEF Derive
<1>3. WellFormed(s)
  BY <1>1 DEF WellFormed, InScope, Follows
<1>4. TypeOK'
  <2>1. \A thm : WellFormed(thm)' <=> WellFormed(thm)
    BY <1>2 DEF WellFormed
  <2>2. \A t \in DOMAIN theories : Ledger(t)' = Ledger(t)
    BY <1>2 DEF Ledger
  <2> QED
    BY <1>1, <1>2, <1>3, <2>1, <2>2 DEF IInv, TypeOK
<1>5. Sound'
  <2>1. ASSUME NEW thm \in thms', NEW i \in Models(thm.theory)'
        PROVE  Satisfies(i, thm)
    <3>1. i \in Models(thm.theory)
      BY <1>2 DEF Models, Ledger, Satisfies, Holds
    <3> QED
      BY <1>1, <3>1 DEF IInv, Sound, Follows
  <2> QED
    BY <2>1 DEF Sound, Satisfies, Holds
<1> QED
  BY <1>4, <1>5 DEF IInv

-----------------------------------------------------------------------------
(***************************************************************************)
(* The rules.                                                              *)
(***************************************************************************)

\* What the program holds can be a premise in any model of its theory.
LEMMA HeldPremise ==
  ASSUME IInv, NEW theory, NEW i \in Models(theory), NEW thm \in thms
  PROVE  Premise(i, theory, thm) /\ Proposition(thm.concl) /\ i \in Interp
  BY DEF IInv, TypeOK, Sound, WellFormed, Premise, Models

LEMMA RuleStepKeeps ==
  ASSUME IInv, NEW theory \in DOMAIN theories, RuleStep(theory)
  PROVE  IInv'
<1>1. CASE ReflRule(theory)
  <2>1. PICK t \in Given : Derive(Refl(theory, t))
    BY <1>1 DEF ReflRule
  <2>2. ASSUME NEW s \in Refl(theory, t) PROVE Follows(theory, s)
    BY EqSequentFacts, ReflSound DEF Refl, Follows, Models
  <2> QED
    BY <2>1, <2>2, DeriveStep
<1>2. CASE AssumeRule(theory)
  <2>1. PICK t \in Given : Derive(Assume(theory, t))
    BY <1>2 DEF AssumeRule
  <2>2. ASSUME NEW s \in Assume(theory, t) PROVE Follows(theory, s)
    BY SequentFacts, AssumeSound DEF Assume, Follows, Models
  <2> QED
    BY <2>1, <2>2, DeriveStep
<1>3. CASE BetaRule(theory)
  <2>1. PICK t \in Given : Derive(Beta(theory, t))
    BY <1>3 DEF BetaRule
  <2>2. ASSUME NEW s \in Beta(theory, t) PROVE Follows(theory, s)
    BY EqSequentFacts, BetaSound DEF Beta, Follows, Models
  <2> QED
    BY <2>1, <2>2, DeriveStep
<1>4. CASE AbsRule(theory)
  <2>1. PICK v \in Inputs, thm \in thms : Derive(Abs(theory, v, thm))
    BY <1>4 DEF AbsRule, Given
  <2>2. ASSUME NEW s \in Abs(theory, v, thm) PROVE Follows(theory, s)
    <3>1. s.theory = theory /\ Proposition(s.concl) /\ \A h \in s.hyps : Proposition(h)
      BY EqSequentFacts DEF Abs
    <3>2. ASSUME InScope(s), NEW i \in Models(theory) PROVE Satisfies(i, s)
      BY <3>2, HeldPremise, AbsSound
    <3> QED
      BY <3>1, <3>2 DEF Follows
  <2> QED
    BY <2>1, <2>2, DeriveStep
<1>5. CASE TransRule(theory)
  <2>1. PICK left \in thms, right \in thms : Derive(Trans(theory, left, right))
    BY <1>5 DEF TransRule
  <2>2. ASSUME NEW s \in Trans(theory, left, right) PROVE Follows(theory, s)
    <3>1. s.theory = theory /\ Proposition(s.concl) /\ \A h \in s.hyps : Proposition(h)
      BY EqSequentFacts DEF Trans
    <3>2. ASSUME InScope(s), NEW i \in Models(theory) PROVE Satisfies(i, s)
      BY <3>2, HeldPremise, TransSound
    <3> QED
      BY <3>1, <3>2 DEF Follows
  <2> QED
    BY <2>1, <2>2, DeriveStep
<1>6. CASE MkCombRule(theory)
  <2>1. PICK left \in thms, right \in thms : Derive(MkComb(theory, left, right))
    BY <1>6 DEF MkCombRule
  <2>2. ASSUME NEW s \in MkComb(theory, left, right) PROVE Follows(theory, s)
    <3>1. s.theory = theory /\ Proposition(s.concl) /\ \A h \in s.hyps : Proposition(h)
      BY EqSequentFacts DEF MkComb
    <3>2. ASSUME InScope(s), NEW i \in Models(theory) PROVE Satisfies(i, s)
      BY <3>2, HeldPremise, MkCombSound
    <3> QED
      BY <3>1, <3>2 DEF Follows
  <2> QED
    BY <2>1, <2>2, DeriveStep
<1>7. CASE EqMpRule(theory)
  <2>1. PICK left \in thms, right \in thms : Derive(EqMp(theory, left, right))
    BY <1>7 DEF EqMpRule
  <2>2. ASSUME NEW s \in EqMp(theory, left, right) PROVE Follows(theory, s)
    <3>1. s.theory = theory /\ Proposition(s.concl) /\ \A h \in s.hyps : Proposition(h)
      BY SequentFacts DEF EqMp
    <3>2. ASSUME InScope(s), NEW i \in Models(theory) PROVE Satisfies(i, s)
      BY <3>2, HeldPremise, EqMpSound
    <3> QED
      BY <3>1, <3>2 DEF Follows
  <2> QED
    BY <2>1, <2>2, DeriveStep
<1>8. CASE DeductRule(theory)
  <2>1. PICK left \in thms, right \in thms : Derive(DeductAntisymRule(theory, left, right))
    BY <1>8 DEF DeductRule
  <2>2. ASSUME NEW s \in DeductAntisymRule(theory, left, right) PROVE Follows(theory, s)
    <3>1. s.theory = theory /\ Proposition(s.concl) /\ \A h \in s.hyps : Proposition(h)
      BY EqSequentFacts DEF DeductAntisymRule
    <3>2. ASSUME InScope(s), NEW i \in Models(theory) PROVE Satisfies(i, s)
      BY <3>2, HeldPremise, DeductSound
    <3> QED
      BY <3>1, <3>2 DEF Follows
  <2> QED
    BY <2>1, <2>2, DeriveStep
<1>9. CASE InstRule(theory)
  <2>1. PICK theta \in Thetas, thm \in thms : Derive(Inst(theory, theta, thm))
    BY <1>9 DEF InstRule
  <2>2. ASSUME NEW s \in Inst(theory, theta, thm) PROVE Follows(theory, s)
    <3>1. s.theory = theory /\ Proposition(s.concl) /\ \A h \in s.hyps : Proposition(h)
      BY SequentFacts DEF Inst
    <3>2. ASSUME InScope(s), NEW i \in Models(theory) PROVE Satisfies(i, s)
      BY <3>2, HeldPremise, InstSound
    <3> QED
      BY <3>1, <3>2 DEF Follows
  <2> QED
    BY <2>1, <2>2, DeriveStep
<1>10. CASE InstTypeRule(theory)
  <2>1. PICK theta \in TyThetas, thm \in thms : Derive(InstType(theory, theta, thm))
    BY <1>10 DEF InstTypeRule
  <2>2. ASSUME NEW s \in InstType(theory, theta, thm) PROVE Follows(theory, s)
    <3>1. s.theory = theory /\ Proposition(s.concl) /\ \A h \in s.hyps : Proposition(h)
      BY SequentFacts DEF InstType
    <3>2. ASSUME InScope(s), NEW i \in Models(theory) PROVE Satisfies(i, s)
      BY <3>2, HeldPremise, InstTypeSound
    <3> QED
      BY <3>1, <3>2 DEF Follows
  <2> QED
    BY <2>1, <2>2, DeriveStep
<1> QED
  BY <1>1, <1>2, <1>3, <1>4, <1>5, <1>6, <1>7, <1>8, <1>9, <1>10 DEF RuleStep

-----------------------------------------------------------------------------
(***************************************************************************)
(* The gates.                                                              *)
(***************************************************************************)

\* A step that leaves the theories alone and adds no theorem.
LEMMA QuietStep ==
  ASSUME IInv, theories' = theories, thms' \subseteq thms, outcome' \in {"ok", "err"}
  PROVE  IInv'
<1>1. TypeOK'
  BY DEF IInv, TypeOK, WellFormed, Ledger
<1>2. Sound'
  BY DEF IInv, Sound, Models, Ledger, Satisfies, Holds
<1> QED
  BY <1>1, <1>2 DEF IInv

\* The record of a theory whose constants gained a name.
LEMMA ExtendKeeps ==
  ASSUME NEW f, NEW x, NEW y, EqName \in DOMAIN f
  PROVE  EqName \in DOMAIN Extend(f, x, y)
  BY DEF Extend

LEMMA NewConstantKeeps ==
  ASSUME IInv, NEW theory \in DOMAIN theories, NEW name, NEW ty,
         NewConstant(theory, name, ty)
  PROVE  IInv'
<1>1. CASE HasConstant(theory, name)
  BY <1>1, QuietStep DEF NewConstant, Refuse
<1>2. CASE ~HasConstant(theory, name)
  <2>1. /\ theories' = [theories EXCEPT ![theory].constants = Extend(@, name, ty)]
        /\ thms' = thms /\ outcome' \in {"ok", "err"}
    BY <1>2 DEF NewConstant
  <2>2. EqName \in DOMAIN Extend(theories[theory].constants, name, ty)
    BY ExtendKeeps DEF IInv, TypeOK
  <2>3. Writes(theory, {}, {})
    BY <2>1, <2>2 DEF Writes, IInv, TypeOK, Ledger, Newborn
  <2> QED
    BY <2>3, WritesStep
<1> QED
  BY <1>1, <1>2

LEMMA NewAxiomKeeps ==
  ASSUME IInv, NEW theory \in DOMAIN theories, NEW term, NewAxiom(theory, term)
  PROVE  IInv'
<1>1. CASE ~Proposition(term)
  BY <1>1, QuietStep DEF NewAxiom, Refuse
<1>2. CASE Proposition(term)
  <2>1. PICK thm \in Sequent(theory, {}, term) :
          /\ Keep({thm})
          /\ theories' = [theories EXCEPT ![theory].axioms = @ \cup {thm}]
          /\ outcome' = "ok"
    BY <1>2 DEF NewAxiom
  <2>2. WellFormed(thm) /\ thm.theory = theory
    BY <2>1, SequentFacts DEF Keep, InScope, WellFormed
  <2>3. Writes(theory, {thm}, {thm})
    BY <2>1, <2>2 DEF Writes, IInv, TypeOK, Ledger, Newborn, Keep
  <2> QED
    BY <2>3, WritesStep
<1> QED
  BY <1>1, <1>2

LEMMA NewBasicDefinitionKeeps ==
  ASSUME IInv, NEW theory \in DOMAIN theories, NEW term, NewBasicDefinition(theory, term)
  PROVE  IInv'
<1>1. CASE ~CanDefine(theory, term)
  BY <1>1, QuietStep DEF NewBasicDefinition, Refuse
<1>2. CASE CanDefine(theory, term)
  <2> DEFINE c == Const(Lhs(term).name, Lhs(term).ty)
             defined == EqSequent(theory, {}, c, Rhs(term))
  <2>1. /\ Keep(defined)
        /\ theories' = [theories EXCEPT
                          ![theory].constants = Extend(@, c.name, c.ty),
                          ![theory].definitions = @ \cup defined]
        /\ outcome' \in {"ok", "err"}
    BY <1>2 DEF NewBasicDefinition
  <2>2. EqName \in DOMAIN Extend(theories[theory].constants, c.name, c.ty)
    BY ExtendKeeps DEF IInv, TypeOK
  <2>3. \A thm \in defined : WellFormed(thm) /\ thm.theory = theory
    BY <2>1, EqSequentFacts DEF Keep, InScope, WellFormed
  <2> HIDE DEF c, defined
  <2>4. Writes(theory, defined, defined)
    BY <2>1, <2>2, <2>3 DEF Writes, IInv, TypeOK, Ledger, Newborn, Keep
  <2> QED
    BY <2>4, WritesStep
<1> QED
  BY <1>1, <1>2

\* What a type definition records.
LEMMA BijectionFacts ==
  ASSUME NEW theory, NEW typeName, NEW abs, NEW rep, NEW predicate,
         NEW d \in Bijection(theory, typeName, abs, rep, predicate),
         NEW thm, thm = d.abs_rep \/ thm = d.rep_abs
  PROVE  thm.theory = theory /\ Proposition(thm.concl) /\ thm.hyps = {}
<1> DEFINE a == Var("a", abs.ty.args[2])
           r == Var("r", abs.ty.args[1])
<1>1. PICK e \in EqSequent(theory, {}, CombRaw(abs, CombRaw(rep, a)), a),
           f \in EqSequent(theory, {}, CombRaw(predicate, r),
                           Eqn(CombRaw(rep, CombRaw(abs, r)), r)) :
        d = [type_name |-> typeName, abs_rep |-> e, rep_abs |-> f]
  BY DEF Bijection
<1>2. e.theory = theory /\ Proposition(e.concl) /\ e.hyps = {}
  BY EqSequentFacts
<1>3. f.theory = theory /\ Proposition(f.concl) /\ f.hyps = {}
  BY EqSequentFacts
<1> QED
  BY <1>1, <1>2, <1>3

\* What a type definition writes, once its checks are done.
CarveEffect(theory, typeName, absName, repName, predicate, abs, rep, minted, table) ==
  /\ minted = {} \/ minted = Bijection(theory, typeName, abs, rep, predicate)
  /\ \/ table = Extend(theories[theory].constants, absName, abs.ty)
     \/ table = Extend(Extend(theories[theory].constants, absName, abs.ty),
                       repName, rep.ty)
  /\ Keep({d.abs_rep : d \in minted} \cup {d.rep_abs : d \in minted})
  /\ theories' = [theories EXCEPT
                    ![theory].constants = table,
                    ![theory].type_definitions = @ \cup minted]
  /\ outcome' = IF minted = {} THEN "err" ELSE "ok"
  /\ \E n : registry' = Extend(registry, typeName, n)

LEMMA CarveWrites ==
  ASSUME NEW theory, NEW typeName, NEW absName, NEW repName, NEW predicate, NEW repType,
         Carve(theory, typeName, absName, repName, predicate, repType)
  PROVE  \E abs, rep, minted, table :
           CarveEffect(theory, typeName, absName, repName, predicate, abs, rep, minted, table)
<1> DEFINE abs    == AbsConst(typeName, absName, predicate, repType)
           rep    == RepConst(typeName, repName, predicate, repType)
           minted == IF absName = "" \/ repName = ""
                     THEN {}
                     ELSE Bijection(theory, typeName, abs, rep, predicate)
           table  == EnterBoth(theories[theory].constants, abs, rep)
<1>1. /\ Keep({d.abs_rep : d \in minted} \cup {d.rep_abs : d \in minted})
      /\ theories' = [theories EXCEPT
                        ![theory].constants = table,
                        ![theory].type_definitions = @ \cup minted]
      /\ outcome' = IF minted = {} THEN "err" ELSE "ok"
      /\ registry' = Extend(registry, typeName, Len(TypeArguments(predicate)))
  BY DEF Carve
<1>2. minted = {} \/ minted = Bijection(theory, typeName, abs, rep, predicate)
  OBVIOUS
<1>3. abs.name = absName /\ rep.name = repName
  BY DEF AbsConst, RepConst, Const
<1> HIDE DEF minted, abs, rep
<1>4. \/ table = Extend(theories[theory].constants, absName, abs.ty)
      \/ table = Extend(Extend(theories[theory].constants, absName, abs.ty), repName, rep.ty)
  BY <1>3 DEF EnterBoth
<1> HIDE DEF table
<1>5. CarveEffect(theory, typeName, absName, repName, predicate, abs, rep, minted, table)
  BY <1>1, <1>2, <1>4 DEF CarveEffect
<1> QED
  BY <1>5

LEMMA CarveKeeps ==
  ASSUME IInv, NEW theory \in DOMAIN theories, NEW typeName, NEW absName, NEW repName,
         NEW predicate, NEW repType,
         Carve(theory, typeName, absName, repName, predicate, repType)
  PROVE  IInv'
<1>1. PICK abs, rep, minted, table :
        CarveEffect(theory, typeName, absName, repName, predicate, abs, rep, minted, table)
  BY CarveWrites
<1> DEFINE new == {d.abs_rep : d \in minted} \cup {d.rep_abs : d \in minted}
<1>2. EqName \in DOMAIN table
  BY <1>1, ExtendKeeps DEF CarveEffect, IInv, TypeOK
<1>3. ASSUME NEW thm \in new
      PROVE  WellFormed(thm) /\ thm.theory = theory
  <2>1. PICK d \in minted : thm = d.abs_rep \/ thm = d.rep_abs
    OBVIOUS
  <2>2. thm.theory = theory /\ Proposition(thm.concl) /\ thm.hyps = {}
    BY <1>1, <2>1, BijectionFacts DEF CarveEffect
  <2>3. thm.concl \in Term
    BY <1>1 DEF CarveEffect, Keep, InScope
  <2> QED
    BY <2>2, <2>3 DEF WellFormed
<1>4. Writes(theory, new, new)
  <2>1. Ledger(theory)' = Ledger(theory) \cup new
    BY <1>1 DEF CarveEffect, IInv, TypeOK, Ledger, Newborn
  <2> HIDE DEF new
  <2>2. thms' = thms \cup new
    BY <1>1 DEF CarveEffect, Keep, new
  <2> QED
    BY <1>1, <1>2, <1>3, <2>1, <2>2 DEF CarveEffect, Writes, IInv, TypeOK, Newborn
<1> QED
  BY <1>4, WritesStep

LEMMA NewTheoryKeeps ==
  ASSUME IInv, NewTheory
  PROVE  IInv'
<1>1. PICK n \in Nat : n = Len(theories) /\ DOMAIN theories = 1..n
  BY DEF IInv, TypeOK
<1>2. theories' = Append(theories, Newborn) /\ thms' = thms /\ outcome' = "ok"
  BY DEF NewTheory
<1>3. /\ Len(theories') = n + 1 /\ DOMAIN theories' = 1..(n + 1)
      /\ theories'[n + 1] = Newborn
      /\ \A t \in DOMAIN theories : t \in DOMAIN theories' /\ theories'[t] = theories[t]
  BY <1>1, <1>2
<1>4. \A t \in DOMAIN theories : Ledger(t)' = Ledger(t)
  BY <1>3 DEF Ledger
<1>5. Ledger(n + 1)' = {} /\ EqName \in DOMAIN theories'[n + 1].constants
  BY <1>3 DEF Ledger, Newborn
<1>6. \A thm : WellFormed(thm) => WellFormed(thm)'
  BY <1>3 DEF WellFormed
<1>7. \A t \in DOMAIN theories' : t \in DOMAIN theories \/ t = n + 1
  BY <1>1, <1>3
<1>8. TypeOK'
  <2>1. ASSUME NEW t \in DOMAIN theories'
        PROVE  /\ DOMAIN theories'[t] = DOMAIN Newborn
               /\ EqName \in DOMAIN theories'[t].constants
               /\ \A thm \in Ledger(t)' : WellFormed(thm)' /\ thm.theory = t
    <3>1. CASE t \in DOMAIN theories
      BY <1>3, <1>4, <1>6, <3>1 DEF IInv, TypeOK
    <3>2. CASE t = n + 1
      BY <1>3, <1>5, <3>2
    <3> QED
      BY <1>7, <3>1, <3>2
  <2>2. \A thm \in thms' : WellFormed(thm)'
    BY <1>2, <1>6 DEF IInv, TypeOK
  <2>3. Len(theories') \in Nat /\ DOMAIN theories' = 1..Len(theories')
    BY <1>1, <1>3
  <2> QED
    BY <1>2, <2>1, <2>2, <2>3 DEF TypeOK
<1>9. Sound'
  <2>1. ASSUME NEW thm \in thms', NEW i \in Models(thm.theory)'
        PROVE  Satisfies(i, thm)
    <3>1. thm \in thms /\ thm.theory \in DOMAIN theories
      BY <1>2 DEF IInv, TypeOK, WellFormed
    <3>2. i \in Models(thm.theory)
      BY <1>4, <3>1 DEF Models, Satisfies, Holds
    <3> QED
      BY <3>1, <3>2 DEF IInv, Sound
  <2> QED
    BY <2>1 DEF Sound, Satisfies, Holds
<1> QED
  BY <1>8, <1>9 DEF IInv

LEMMA GateStepKeeps ==
  ASSUME IInv, NEW theory \in DOMAIN theories, GateStep(theory)
  PROVE  IInv'
<1>1. CASE \E c \in NewConstants : BuildableType(c[2]) /\ NewConstant(theory, c[1], c[2])
  BY <1>1, NewConstantKeeps
<1>2. CASE \E term \in Axioms : Buildable(term) /\ NewAxiom(theory, term)
  BY <1>2, NewAxiomKeeps
<1>3. CASE \E term \in Definitions : Buildable(term) /\ NewBasicDefinition(theory, term)
  BY <1>3, NewBasicDefinitionKeeps
<1>4. CASE \E names \in TypeDefinitions, witness \in thms :
             NewBasicTypeDefinition(theory, names[1], names[2], names[3], witness)
  <2>1. PICK names \in TypeDefinitions, witness \in thms :
          NewBasicTypeDefinition(theory, names[1], names[2], names[3], witness)
    BY <1>4
  <2>2. \/ Carve(theory, names[1], names[2], names[3],
                 witness.concl.rator, witness.concl.rand.ty)
        \/ Refuse
    BY <2>1 DEF NewBasicTypeDefinition
  <2> QED
    BY <2>2, CarveKeeps, QuietStep DEF Refuse
<1> QED
  BY <1>1, <1>2, <1>3, <1>4 DEF GateStep

LEMMA InitIInv ==
  ASSUME Init
  PROVE  IInv
BY DEF Init, IInv, TypeOK, Sound

LEMMA NextKeeps ==
  ASSUME IInv, [Next]_vars
  PROVE  IInv'
<1>1. CASE NewTheory
  BY <1>1, NewTheoryKeeps
<1>2. CASE \E new \in NewTypes : NewType(new[1], new[2])
  BY <1>2, QuietStep DEF NewType, Refuse
<1>3. CASE \E theory \in DOMAIN theories : GateStep(theory) \/ RuleStep(theory)
  BY <1>3, GateStepKeeps, RuleStepKeeps
<1>4. CASE Drop
  BY <1>4, QuietStep DEF Drop
<1>5. CASE UNCHANGED vars
  BY <1>5, QuietStep DEF vars, IInv, TypeOK
<1> QED
  BY <1>1, <1>2, <1>3, <1>4, <1>5 DEF Next

\* The invariant of every run.
THEOREM Invariance == Spec => []IInv
<1>1. Init => IInv
  BY InitIInv
<1>2. IInv /\ [Next]_vars => IInv'
  BY NextKeeps
<1> QED
  BY <1>1, <1>2, PTL DEF Spec

\* Every Thm that exists, and every ledger entry, is a sequent of closed
\* propositions of a theory that exists (mod.rs:109-112).
THEOREM TypeCorrect == Spec => []TypeOK
<1>1. IInv => TypeOK
  BY DEF IInv
<1> QED
  BY <1>1, Invariance, PTL

\* Every Thm that exists is true in every model of what its theory asserted,
\* whatever the program does and however many theories it has.
THEOREM Soundness == Spec => []Sound
<1>1. IInv => Sound
  BY DEF IInv
<1> QED
  BY <1>1, Invariance, PTL

-----------------------------------------------------------------------------
(***************************************************************************)
(* What one step may not do.                                               *)
(***************************************************************************)

\* Adding a fresh name changes no other.
LEMMA ExtendOld ==
  ASSUME NEW f, NEW x, NEW y, x \notin DOMAIN f, NEW z \in DOMAIN f
  PROVE  z \in DOMAIN Extend(f, x, y) /\ Extend(f, x, y)[z] = f[z]
  BY DEF Extend

\* The two halves of NamesKeepMeaning, as one step sees them.
TypesKept ==
  \A name \in DOMAIN registry :
    name \in DOMAIN registry' /\ registry'[name] = registry[name]

ConstantsKept ==
  \A theory \in DOMAIN theories :
    \A name \in DOMAIN theories[theory].constants :
      /\ name \in DOMAIN theories'[theory].constants
      /\ theories'[theory].constants[name] = theories[theory].constants[name]

\* A step that rewrites one theory's constants keeps the others'.
LEMMA TableStep ==
  ASSUME TypeOK, NEW theory \in DOMAIN theories, NEW table,
         DOMAIN theories' = DOMAIN theories,
         \A t \in DOMAIN theories : t # theory => theories'[t] = theories[t],
         theories'[theory].constants = table,
         \A name \in DOMAIN theories[theory].constants :
           name \in DOMAIN table /\ table[name] = theories[theory].constants[name]
  PROVE  ConstantsKept
  BY DEF ConstantsKept

\* A step that registers a fresh type constructor keeps the others.
LEMMA RegistryStep ==
  ASSUME NEW name, name \notin DOMAIN registry, NEW arity,
         registry' = Extend(registry, name, arity)
  PROVE  TypesKept
BY ExtendOld DEF TypesKept

LEMMA CarveNames ==
  ASSUME TypeOK, NEW theory \in DOMAIN theories, NEW typeName, NEW absName, NEW repName,
         NEW witness, NEW predicate, NEW repType,
         CanCarve(theory, typeName, absName, repName, witness),
         Carve(theory, typeName, absName, repName, predicate, repType)
  PROVE  TypesKept /\ ConstantsKept
<1>1. PICK abs, rep, minted, table :
        CarveEffect(theory, typeName, absName, repName, predicate, abs, rep, minted, table)
  BY CarveWrites
<1> DEFINE f == theories[theory].constants
<1>2. absName \notin DOMAIN f /\ repName \notin DOMAIN f /\ absName # repName
  BY DEF CanCarve, HasConstant
<1>3. repName \notin DOMAIN Extend(f, absName, abs.ty)
  BY <1>2 DEF Extend
<1>4. \A name \in DOMAIN f : name \in DOMAIN table /\ table[name] = f[name]
  BY <1>1, <1>2, <1>3, ExtendOld DEF CarveEffect
<1>5. /\ DOMAIN theories' = DOMAIN theories
      /\ \A t \in DOMAIN theories : t # theory => theories'[t] = theories[t]
      /\ theories'[theory].constants = table
  BY <1>1 DEF CarveEffect, TypeOK, Newborn
<1>6. ConstantsKept
  BY <1>4, <1>5, TableStep
<1>7. TypesKept
  <2>1. PICK n : registry' = Extend(registry, typeName, n)
    BY <1>1 DEF CarveEffect
  <2> QED
    BY <2>1, RegistryStep DEF CanCarve, CanNewType
<1> QED
  BY <1>6, <1>7

LEMMA GateNames ==
  ASSUME TypeOK, NEW theory \in DOMAIN theories, GateStep(theory)
  PROVE  TypesKept /\ ConstantsKept
<1> USE DEF Refuse
<1>1. ASSUME NEW name, NEW ty, NewConstant(theory, name, ty)
      PROVE  TypesKept /\ ConstantsKept
  <2>1. CASE HasConstant(theory, name)
    BY <1>1, <2>1 DEF NewConstant, TypesKept, ConstantsKept
  <2>2. CASE ~HasConstant(theory, name)
    <3> DEFINE table == Extend(theories[theory].constants, name, ty)
    <3>1. theories' = [theories EXCEPT ![theory].constants = table] /\ registry' = registry
      BY <1>1, <2>2 DEF NewConstant
    <3>2. \A n \in DOMAIN theories[theory].constants :
            n \in DOMAIN table /\ table[n] = theories[theory].constants[n]
      BY <2>2, ExtendOld DEF HasConstant
    <3> HIDE DEF table
    <3>3. /\ DOMAIN theories' = DOMAIN theories
          /\ \A t \in DOMAIN theories : t # theory => theories'[t] = theories[t]
          /\ theories'[theory].constants = table
      BY <3>1 DEF TypeOK, Newborn
    <3> QED
      BY <3>1, <3>2, <3>3, TableStep DEF TypesKept
  <2> QED
    BY <2>1, <2>2
<1>2. ASSUME NEW term, NewAxiom(theory, term)
      PROVE  TypesKept /\ ConstantsKept
  <2>1. registry' = registry
    BY <1>2 DEF NewAxiom
  <2>2. \/ theories' = theories
        \/ \E thm : theories' = [theories EXCEPT ![theory].axioms = @ \cup {thm}]
    BY <1>2 DEF NewAxiom
  <2> QED
    BY <2>1, <2>2 DEF TypeOK, Newborn, TypesKept, ConstantsKept
<1>3. ASSUME NEW term, NewBasicDefinition(theory, term)
      PROVE  TypesKept /\ ConstantsKept
  <2>1. CASE ~CanDefine(theory, term)
    BY <1>3, <2>1 DEF NewBasicDefinition, TypesKept, ConstantsKept
  <2>2. CASE CanDefine(theory, term)
    <3> DEFINE c == Const(Lhs(term).name, Lhs(term).ty)
               defined == EqSequent(theory, {}, c, Rhs(term))
               table == Extend(theories[theory].constants, c.name, c.ty)
    <3>1. theories' = [theories EXCEPT ![theory].constants = table,
                                       ![theory].definitions = @ \cup defined]
      BY <1>3, <2>2 DEF NewBasicDefinition
    <3>2. registry' = registry
      BY <1>3, <2>2 DEF NewBasicDefinition
    <3>3. c.name \notin DOMAIN theories[theory].constants
      BY <2>2 DEF CanDefine, HasConstant, Const
    <3>4. \A n \in DOMAIN theories[theory].constants :
            n \in DOMAIN table /\ table[n] = theories[theory].constants[n]
      BY <3>3, ExtendOld
    <3> HIDE DEF table, defined
    <3>5. /\ DOMAIN theories' = DOMAIN theories
          /\ \A t \in DOMAIN theories : t # theory => theories'[t] = theories[t]
          /\ theories'[theory].constants = table
      BY <3>1 DEF TypeOK, Newborn
    <3> QED
      BY <3>2, <3>4, <3>5, TableStep DEF TypesKept
  <2> QED
    BY <2>1, <2>2
<1>4. ASSUME NEW names, NEW witness,
             NewBasicTypeDefinition(theory, names[1], names[2], names[3], witness)
      PROVE  TypesKept /\ ConstantsKept
  <2>1. CASE CanCarve(theory, names[1], names[2], names[3], witness)
    BY <1>4, <2>1, CarveNames DEF NewBasicTypeDefinition
  <2>2. CASE ~CanCarve(theory, names[1], names[2], names[3], witness)
    BY <1>4, <2>2 DEF NewBasicTypeDefinition, TypesKept, ConstantsKept
  <2> QED
    BY <2>1, <2>2
<1> QED
  BY <1>1, <1>2, <1>3, <1>4 DEF GateStep

LEMMA NextNames ==
  ASSUME TypeOK, [Next]_vars
  PROVE  TypesKept /\ ConstantsKept
<1>1. CASE NewTheory
  <2>1. PICK n \in Nat : n = Len(theories) /\ DOMAIN theories = 1..n
    BY DEF TypeOK
  <2>2. \A t \in DOMAIN theories : theories'[t] = theories[t]
    BY <1>1, <2>1 DEF NewTheory
  <2> QED
    BY <1>1, <2>2 DEF NewTheory, TypesKept, ConstantsKept
<1>2. CASE \E new \in NewTypes : NewType(new[1], new[2])
  <2>1. PICK new \in NewTypes : NewType(new[1], new[2])
    BY <1>2
  <2>2. theories' = theories
    BY <2>1 DEF NewType, Refuse
  <2>3. TypesKept
    <3>1. CASE CanNewType(new[1])
      BY <2>1, <3>1, RegistryStep DEF NewType, CanNewType
    <3>2. CASE ~CanNewType(new[1])
      BY <2>1, <3>2 DEF NewType, Refuse, TypesKept
    <3> QED
      BY <3>1, <3>2
  <2> QED
    BY <2>2, <2>3 DEF ConstantsKept
<1>3. CASE \E theory \in DOMAIN theories : GateStep(theory)
  BY <1>3, GateNames
<1>4. CASE \E theory \in DOMAIN theories : RuleStep(theory)
  <2>1. registry' = registry /\ theories' = theories
    BY <1>4 DEF RuleStep, ReflRule, AssumeRule, BetaRule, AbsRule, TransRule, MkCombRule,
         EqMpRule, DeductRule, InstRule, InstTypeRule, Derive
  <2> QED
    BY <2>1 DEF TypesKept, ConstantsKept
<1>5. CASE Drop \/ UNCHANGED vars
  BY <1>5 DEF Drop, vars, TypesKept, ConstantsKept
<1> QED
  BY <1>1, <1>2, <1>3, <1>4, <1>5 DEF Next

\* A type constructor keeps its arity and a constant its type for ever.
THEOREM NamesKept == Spec => NamesKeepMeaning
<1>1. TypeOK /\ [Next]_vars => [TypesKept /\ ConstantsKept]_vars
  BY NextNames
<1> QED
  BY <1>1, TypeCorrect, PTL DEF Spec, NamesKeepMeaning, TypesKept, ConstantsKept

\* A step whose answer is Err asserts nothing.
AssertsNothing ==
  outcome' = "err" =>
    /\ thms' = thms
    /\ \A theory \in DOMAIN theories : Ledger(theory)' = Ledger(theory)

\* A step that at most rewrites one theory's constants asserts nothing.
LEMMA ConstantsOnly ==
  ASSUME TypeOK, NEW theory \in DOMAIN theories, NEW table, thms' = thms,
         theories' = [theories EXCEPT ![theory].constants = table]
  PROVE  AssertsNothing
<1>1. \A t \in DOMAIN theories : Ledger(t)' = Ledger(t)
  BY DEF TypeOK, Newborn, Ledger
<1> QED
  BY <1>1 DEF AssertsNothing

LEMMA RefuseAsserts ==
  ASSUME theories' = theories, thms' = thms
  PROVE  AssertsNothing
BY DEF AssertsNothing, Ledger

LEMMA GateAsserts ==
  ASSUME TypeOK, NEW theory \in DOMAIN theories, GateStep(theory)
  PROVE  AssertsNothing
<1>1. ASSUME NEW name, NEW ty, NewConstant(theory, name, ty)
      PROVE  AssertsNothing
  BY <1>1, ConstantsOnly, RefuseAsserts DEF NewConstant, Refuse
<1>2. ASSUME NEW term, NewAxiom(theory, term)
      PROVE  AssertsNothing
  BY <1>2, RefuseAsserts DEF NewAxiom, Refuse, AssertsNothing
<1>3. ASSUME NEW term, NewBasicDefinition(theory, term)
      PROVE  AssertsNothing
  <2>1. CASE ~CanDefine(theory, term)
    BY <1>3, <2>1, RefuseAsserts DEF NewBasicDefinition, Refuse
  <2>2. CASE CanDefine(theory, term)
    <3> DEFINE c == Const(Lhs(term).name, Lhs(term).ty)
               defined == EqSequent(theory, {}, c, Rhs(term))
               table == Extend(theories[theory].constants, c.name, c.ty)
    <3>1. /\ thms' = thms \cup defined
          /\ theories' = [theories EXCEPT ![theory].constants = table,
                                          ![theory].definitions = @ \cup defined]
          /\ outcome' = IF defined = {} THEN "err" ELSE "ok"
      BY <1>3, <2>2 DEF NewBasicDefinition, Keep
    <3> HIDE DEF table, defined
    <3>2. CASE defined # {}
      BY <3>1, <3>2 DEF AssertsNothing
    <3>3. CASE defined = {}
      <4>1. \A t \in DOMAIN theories : Ledger(t)' = Ledger(t)
        BY <3>1, <3>3 DEF TypeOK, Newborn, Ledger
      <4> QED
        BY <3>1, <3>3, <4>1 DEF AssertsNothing
    <3> QED
      BY <3>2, <3>3
  <2> QED
    BY <2>1, <2>2
<1>4. ASSUME NEW names, NEW witness,
             NewBasicTypeDefinition(theory, names[1], names[2], names[3], witness)
      PROVE  AssertsNothing
  <2>1. CASE ~CanCarve(theory, names[1], names[2], names[3], witness)
    BY <1>4, <2>1, RefuseAsserts DEF NewBasicTypeDefinition, Refuse
  <2>2. CASE CanCarve(theory, names[1], names[2], names[3], witness)
    <3>1. Carve(theory, names[1], names[2], names[3],
                witness.concl.rator, witness.concl.rand.ty)
      BY <1>4, <2>2 DEF NewBasicTypeDefinition
    <3>2. PICK abs, rep, minted, table :
            CarveEffect(theory, names[1], names[2], names[3], witness.concl.rator,
                        abs, rep, minted, table)
      BY <3>1, CarveWrites
    <3>3. CASE minted # {}
      BY <3>2, <3>3 DEF CarveEffect, AssertsNothing
    <3>4. CASE minted = {}
      <4>1. thms' = thms
        BY <3>2, <3>4 DEF CarveEffect, Keep
      <4>2. \A t \in DOMAIN theories : Ledger(t)' = Ledger(t)
        BY <3>2, <3>4 DEF CarveEffect, TypeOK, Newborn, Ledger
      <4> QED
        BY <4>1, <4>2 DEF AssertsNothing
    <3> QED
      BY <3>3, <3>4
  <2> QED
    BY <2>1, <2>2
<1> QED
  BY <1>1, <1>2, <1>3, <1>4 DEF GateStep

LEMMA NextAsserts ==
  ASSUME TypeOK, Next
  PROVE  AssertsNothing
<1>1. CASE NewTheory
  BY <1>1 DEF NewTheory, AssertsNothing
<1>2. CASE \E new \in NewTypes : NewType(new[1], new[2])
  BY <1>2, RefuseAsserts DEF NewType, Refuse
<1>3. CASE \E theory \in DOMAIN theories : GateStep(theory)
  BY <1>3, GateAsserts
<1>4. CASE \E theory \in DOMAIN theories : RuleStep(theory)
  BY <1>4 DEF RuleStep, ReflRule, AssumeRule, BetaRule, AbsRule, TransRule, MkCombRule,
       EqMpRule, DeductRule, InstRule, InstTypeRule, Derive, AssertsNothing
<1>5. CASE Drop
  BY <1>5 DEF Drop, AssertsNothing
<1> QED
  BY <1>1, <1>2, <1>3, <1>4, <1>5 DEF Next

\* A refused gate may leave a name behind, but no theorem and no ledger entry.
THEOREM RefusalHarmless == Spec => RefusalAssertsNothing
<1>1. TypeOK /\ [Next]_vars => [AssertsNothing]_vars
  BY NextAsserts
<1> QED
  BY <1>1, TypeCorrect, PTL DEF Spec, RefusalAssertsNothing, AssertsNothing
=============================================================================
