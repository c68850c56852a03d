------------------------ MODULE ConservativityProofs ------------------------
(***************************************************************************)
(* Nothing is proved about a name before it is declared, and definitions   *)
(* add nothing: for any terms, any number of theories and theorems, and    *)
(* any semantics with the properties KernelSoundness assumes.              *)
(*                                                                         *)
(* The second needs the theories to keep their names apart (Apart): run    *)
(* KernelCircular shows a definition that is not conservative when two     *)
(* theories share a constant.                                              *)
(***************************************************************************)
EXTENDS KernelProofs

-----------------------------------------------------------------------------
(***************************************************************************)
(* Interpretations.                                                        *)
(***************************************************************************)

\* Two steps of reinterpretation are one.
LEMMA AgreeChain ==
  ASSUME NEW i, NEW j, NEW k, NEW S, NEW T, Agree(i, j, S), Agree(j, k, T)
  PROVE  Agree(i, k, S \cup T)
  BY DEF Agree

\* Reinterpreting what a theorem does not mention leaves it true.
LEMMA UntouchedTrue ==
  ASSUME NEW symbols \in Introduced, NEW i \in Interp, NEW j \in Interp,
         Agree(i, j, symbols), NEW D, symbols \cap D = {},
         NEW thm, InScope(thm), MentionsOnly(thm, D), Satisfies(i, thm)
  PROVE  Satisfies(j, thm)
<1> SUFFICES ASSUME NEW v \in Val(j), \A h \in thm.hyps : Holds(j, v, h)
             PROVE  Holds(j, v, thm.concl)
  BY DEF Satisfies
<1> DEFINE untouched == {t \in Term : mentions(t) \cap symbols = {}}
<1>1. PICK w \in Val(i) : \A t \in untouched : Den(j, v, t) = Den(i, w, t)
  BY MentionMeaning
<1>2. thm.concl \in untouched /\ \A h \in thm.hyps : h \in untouched
  BY DEF InScope, MentionsOnly
<1>3. \A h \in thm.hyps : Holds(i, w, h)
  BY <1>1, <1>2 DEF Holds
<1>4. Holds(i, w, thm.concl)
  BY <1>3 DEF Satisfies
<1> QED
  BY <1>1, <1>2, <1>4 DEF Holds

-----------------------------------------------------------------------------
(***************************************************************************)
(* What is declared.                                                       *)
(***************************************************************************)
TypesBorn == {"bool", "fun"} \subseteq DOMAIN registry

LEMMA LogicalDeclared ==
  ASSUME TypeOK, TypesBorn, NEW theory \in DOMAIN theories
  PROVE  Logical \subseteq DeclaredSymbols
<1>1. EqName \in DOMAIN theories[theory].constants
  BY DEF TypeOK
<1> QED
  BY <1>1 DEF Logical, DeclaredSymbols, TypesBorn

LEMMA BuildableDeclared ==
  ASSUME NEW t, Buildable(t)
  PROVE  mentions(t) \subseteq DeclaredSymbols
<1>1. \A c \in consts_of(t) : \E theory \in DOMAIN theories :
        c.name \in DOMAIN theories[theory].constants
  BY DEF Buildable, HasConstant
<1>2. \A con \in ty_cons_of(t) : con[1] \in DOMAIN registry
  BY DEF Buildable
<1> QED
  BY <1>1, <1>2 DEF mentions, DeclaredSymbols

\* A step that says nothing beyond new, while names only accumulate.
Says(new) ==
  /\ DeclaredSymbols \subseteq DeclaredSymbols'
  /\ \A thm \in new : MentionsOnly(thm, DeclaredSymbols')
  /\ thms' \subseteq thms \cup new
  /\ \A t \in DOMAIN theories' :
       \/ Ledger(t)' \subseteq new
       \/ t \in DOMAIN theories /\ Ledger(t)' \subseteq Ledger(t) \cup new

LEMMA SpokenStep ==
  ASSUME NothingUndeclared, NEW new, Says(new)
  PROVE  NothingUndeclared'
<1>1. \A thm : MentionsOnly(thm, DeclaredSymbols) => MentionsOnly(thm, DeclaredSymbols')
  BY DEF MentionsOnly, Says
<1>2. \A thm \in thms' : MentionsOnly(thm, DeclaredSymbols')
  BY <1>1 DEF NothingUndeclared, Says
<1>3. \A t \in DOMAIN theories' : \A thm \in Ledger(t)' : MentionsOnly(thm, DeclaredSymbols')
  BY <1>1 DEF NothingUndeclared, Says
<1> QED
  BY <1>2, <1>3 DEF NothingUndeclared, MentionsOnly

LEMMA DeriveSpoken ==
  ASSUME NothingUndeclared, NEW results, Derive(results),
         \A s \in results : InScope(s) => MentionsOnly(s, DeclaredSymbols)
  PROVE  NothingUndeclared'
<1>1. PICK s \in results : InScope(s) /\ thms' = thms \cup {s}
  BY DEF Derive, Keep
<1>2. theories' = theories /\ registry' = registry
  BY DEF Derive
<1>3. DeclaredSymbols' = DeclaredSymbols /\ \A t \in DOMAIN theories : Ledger(t)' = Ledger(t)
  BY <1>2 DEF DeclaredSymbols, Ledger
<1>4. \A thm \in {s} : MentionsOnly(thm, DeclaredSymbols')
  BY <1>1, <1>3 DEF MentionsOnly
<1>5. \A t \in DOMAIN theories' :
        t \in DOMAIN theories /\ Ledger(t)' \subseteq Ledger(t) \cup {s}
  BY <1>2, <1>3
<1>6. thms' \subseteq thms \cup {s} /\ DeclaredSymbols \subseteq DeclaredSymbols'
  BY <1>1, <1>3
<1>7. Says({s})
  BY <1>4, <1>5, <1>6 DEF Says
<1> QED
  BY <1>7, SpokenStep

-----------------------------------------------------------------------------
(***************************************************************************)
(* The rules say nothing of what their premises and arguments do not.      *)
(***************************************************************************)
LEMMA EqnMentions ==
  ASSUME NEW lhs, NEW rhs, Eqn(lhs, rhs) \in Term
  PROVE  /\ lhs \in Term /\ rhs \in Term
         /\ mentions(Eqn(lhs, rhs)) \subseteq mentions(lhs) \cup mentions(rhs) \cup Logical
         /\ mentions(lhs) \cup mentions(rhs) \subseteq mentions(Eqn(lhs, rhs))
  BY EqnParts, TermClosed, MentionsEqn

\* An equation whose sides are declared, under declared hypotheses.
LEMMA EqSequentMentions ==
  ASSUME NEW D, Logical \subseteq D, NEW theory, NEW hyps, NEW lhs, NEW rhs,
         NEW s \in EqSequent(theory, hyps, lhs, rhs), InScope(s),
         lhs \in Term /\ rhs \in Term => mentions(lhs) \subseteq D /\ mentions(rhs) \subseteq D,
         \A h \in hyps : mentions(h) \subseteq D
  PROVE  MentionsOnly(s, D)
<1>1. s.hyps = hyps /\ s.concl = Eqn(lhs, rhs)
  BY EqSequentFacts
<1>2. Eqn(lhs, rhs) \in Term
  BY <1>1 DEF InScope
<1>3. mentions(Eqn(lhs, rhs)) \subseteq D
  BY <1>2, EqnMentions
<1> QED
  BY <1>1, <1>3 DEF MentionsOnly

\* A premise, as the lemmas below speak of it.
Declares(D, thm) == MentionsOnly(thm, D) /\ InScope(thm)

LEMMA PremiseMentions ==
  ASSUME NEW D, NEW thm, Declares(D, thm)
  PROVE  /\ \A h \in thm.hyps : mentions(h) \subseteq D
         /\ mentions(thm.concl) \subseteq D
         /\ IsEqn(thm.concl) => /\ Lhs(thm.concl) \in Term /\ Rhs(thm.concl) \in Term
                                /\ mentions(Lhs(thm.concl)) \subseteq D
                                /\ mentions(Rhs(thm.concl)) \subseteq D
  BY MentionsEqn, TermClosed DEF Declares, MentionsOnly, InScope

LEMMA ReflMentions ==
  ASSUME NEW D, Logical \subseteq D, NEW theory, NEW t, mentions(t) \subseteq D,
         NEW s \in Refl(theory, t), InScope(s)
  PROVE  MentionsOnly(s, D)
<1>1. s \in EqSequent(theory, {}, t, t)
  BY DEF Refl
<1> QED
  BY <1>1, EqSequentMentions

LEMMA AssumeMentions ==
  ASSUME NEW D, NEW theory, NEW t, mentions(t) \subseteq D, NEW s \in Assume(theory, t)
  PROVE  MentionsOnly(s, D)
<1>1. s \in Sequent(theory, {t}, t)
  BY DEF Assume
<1> QED
  BY <1>1, SequentFacts DEF MentionsOnly

LEMMA BetaMentions ==
  ASSUME NEW D, Logical \subseteq D, NEW theory, NEW t, mentions(t) \subseteq D,
         NEW s \in Beta(theory, t), InScope(s)
  PROVE  MentionsOnly(s, D)
<1>1. /\ s \in EqSequent(theory, {}, t, open_abs(t.rator, t.rand))
      /\ IsComb(t) /\ IsAbs(t.rator) /\ IsVar(t.rand)
  BY DEF Beta
<1>2. t \in Term /\ open_abs(t.rator, t.rand) \in Term =>
        mentions(open_abs(t.rator, t.rand)) \subseteq D
  BY <1>1, MentionsOpen
<1> QED
  BY <1>1, <1>2, EqSequentMentions

LEMMA AbsMentions ==
  ASSUME NEW D, Logical \subseteq D, NEW theory, NEW x \in Inputs, mentions(x) \subseteq D,
         NEW thm, Declares(D, thm), NEW s \in Abs(theory, x, thm), InScope(s)
  PROVE  MentionsOnly(s, D)
<1> DEFINE l == Lhs(thm.concl)
           r == Rhs(thm.concl)
<1>1. /\ s \in EqSequent(theory, thm.hyps, term_abs(x, l), term_abs(x, r))
      /\ IsEqn(thm.concl) /\ IsVar(x) /\ Closed(l) /\ Closed(r)
  BY DEF Abs, DestEquation
<1>2. /\ l \in Term /\ r \in Term /\ mentions(l) \subseteq D /\ mentions(r) \subseteq D
      /\ \A h \in thm.hyps : mentions(h) \subseteq D
  BY <1>1, PremiseMentions
<1>3. /\ term_abs(x, l) \in Term => mentions(term_abs(x, l)) \subseteq D
      /\ term_abs(x, r) \in Term => mentions(term_abs(x, r)) \subseteq D
  BY <1>1, <1>2, MentionsAbs
<1> HIDE DEF l, r
<1> QED
  BY <1>1, <1>2, <1>3, EqSequentMentions

LEMMA TransMentions ==
  ASSUME NEW D, Logical \subseteq D, NEW theory, NEW left, NEW right,
         Declares(D, left), Declares(D, right),
         NEW s \in Trans(theory, left, right), InScope(s)
  PROVE  MentionsOnly(s, D)
<1>1. /\ s \in EqSequent(theory, left.hyps \cup right.hyps, Lhs(left.concl), Rhs(right.concl))
      /\ IsEqn(left.concl) /\ IsEqn(right.concl)
  BY DEF Trans, DestEquation
<1>2. /\ mentions(Lhs(left.concl)) \subseteq D /\ mentions(Rhs(right.concl)) \subseteq D
      /\ \A h \in left.hyps \cup right.hyps : mentions(h) \subseteq D
  BY <1>1, PremiseMentions
<1> QED
  BY <1>1, <1>2, EqSequentMentions

LEMMA MkCombMentions ==
  ASSUME NEW D, Logical \subseteq D, NEW theory, NEW funThm, NEW argThm,
         Declares(D, funThm), Declares(D, argThm),
         NEW s \in MkComb(theory, funThm, argThm), InScope(s)
  PROVE  MentionsOnly(s, D)
<1> DEFINE f == Lhs(funThm.concl)
           g == Rhs(funThm.concl)
           x == Lhs(argThm.concl)
           y == Rhs(argThm.concl)
<1>1. /\ s \in EqSequent(theory, funThm.hyps \cup argThm.hyps, CombRaw(f, x), CombRaw(g, y))
      /\ IsEqn(funThm.concl) /\ IsEqn(argThm.concl)
      /\ CanComb(f, x) /\ CanComb(g, y)
  BY DEF MkComb, DestEquation
<1>2. /\ f \in Term /\ g \in Term /\ x \in Term /\ y \in Term
      /\ mentions(f) \subseteq D /\ mentions(g) \subseteq D
      /\ mentions(x) \subseteq D /\ mentions(y) \subseteq D
      /\ \A h \in funThm.hyps \cup argThm.hyps : mentions(h) \subseteq D
  BY <1>1, PremiseMentions
<1>3. /\ CombRaw(f, x) \in Term => mentions(CombRaw(f, x)) \subseteq D
      /\ CombRaw(g, y) \in Term => mentions(CombRaw(g, y)) \subseteq D
  BY <1>1, <1>2, MentionsComb
<1> HIDE DEF f, g, x, y
<1> QED
  BY <1>1, <1>2, <1>3, EqSequentMentions

LEMMA EqMpMentions ==
  ASSUME NEW D, NEW theory, NEW eqThm, NEW thm, Declares(D, eqThm), Declares(D, thm),
         NEW s \in EqMp(theory, eqThm, thm)
  PROVE  MentionsOnly(s, D)
<1>1. s \in Sequent(theory, eqThm.hyps \cup thm.hyps, Rhs(eqThm.concl)) /\ IsEqn(eqThm.concl)
  BY DEF EqMp, DestEquation
<1> QED
  BY <1>1, SequentFacts, PremiseMentions DEF MentionsOnly

LEMMA DeductMentions ==
  ASSUME NEW D, Logical \subseteq D, NEW theory, NEW left, NEW right,
         Declares(D, left), Declares(D, right),
         NEW s \in DeductAntisymRule(theory, left, right), InScope(s)
  PROVE  MentionsOnly(s, D)
<1> DEFINE owed == (left.hyps \ {right.concl}) \cup (right.hyps \ {left.concl})
<1>1. s \in EqSequent(theory, owed, left.concl, right.concl)
  BY DEF DeductAntisymRule
<1>2. /\ mentions(left.concl) \subseteq D /\ mentions(right.concl) \subseteq D
      /\ \A h \in owed : mentions(h) \subseteq D
  BY PremiseMentions
<1> HIDE DEF owed
<1> QED
  BY <1>1, <1>2, EqSequentMentions

LEMMA InstMentions ==
  ASSUME NEW D, NEW theory, NEW theta \in Thetas,
         \A v \in DOMAIN theta : mentions(theta[v]) \subseteq D,
         NEW thm, Declares(D, thm), NEW s \in Inst(theory, theta, thm), InScope(s)
  PROVE  MentionsOnly(s, D)
<1>1. /\ s \in Sequent(theory, {subst(theta, h) : h \in thm.hyps}, subst(theta, thm.concl))
      /\ CheckSubst(theta)
  BY DEF Inst
<1>2. s.hyps = {subst(theta, h) : h \in thm.hyps} /\ s.concl = subst(theta, thm.concl)
  BY <1>1, SequentFacts
<1>3. ASSUME NEW t \in Term, mentions(t) \subseteq D, subst(theta, t) \in Term
      PROVE  mentions(subst(theta, t)) \subseteq D
  BY <1>1, <1>3, MentionsSubst
<1>4. mentions(s.concl) \subseteq D
  BY <1>2, <1>3, PremiseMentions DEF InScope, Declares
<1>5. \A h \in s.hyps : mentions(h) \subseteq D
  BY <1>2, <1>3, PremiseMentions DEF InScope, Declares
<1> QED
  BY <1>4, <1>5 DEF MentionsOnly

LEMMA InstTypeMentions ==
  ASSUME NEW D, NEW theory, NEW theta \in TyThetas,
         \A ty \in DOMAIN theta : mentions(Var("x", theta[ty])) \subseteq D,
         NEW thm, Declares(D, thm), NEW s \in InstType(theory, theta, thm), InScope(s)
  PROVE  MentionsOnly(s, D)
<1>1. /\ s \in Sequent(theory, {inst_type_term(theta, h) : h \in thm.hyps},
                       inst_type_term(theta, thm.concl))
      /\ CheckTySubst(theta)
  BY DEF InstType
<1>2. /\ s.hyps = {inst_type_term(theta, h) : h \in thm.hyps}
      /\ s.concl = inst_type_term(theta, thm.concl)
  BY <1>1, SequentFacts
<1>3. ASSUME NEW t \in Term, mentions(t) \subseteq D, inst_type_term(theta, t) \in Term
      PROVE  mentions(inst_type_term(theta, t)) \subseteq D
  BY <1>1, <1>3, MentionsTySubst
<1>4. mentions(s.concl) \subseteq D
  BY <1>2, <1>3, PremiseMentions DEF InScope, Declares
<1>5. \A h \in s.hyps : mentions(h) \subseteq D
  BY <1>2, <1>3, PremiseMentions DEF InScope, Declares
<1> QED
  BY <1>4, <1>5 DEF MentionsOnly

\* What a step of the kernel may count on.
Grounded == TypeOK /\ TypesBorn /\ NothingUndeclared

LEMMA HeldDeclares ==
  ASSUME Grounded, NEW thm \in thms
  PROVE  Declares(DeclaredSymbols, thm)
  BY DEF Grounded, TypeOK, WellFormed, NothingUndeclared, Declares, InScope

LEMMA RuleStepSpoken ==
  ASSUME Grounded, NEW theory \in DOMAIN theories, RuleStep(theory)
  PROVE  NothingUndeclared'
<1> DEFINE D == DeclaredSymbols
<1>0. Logical \subseteq D /\ NothingUndeclared
  BY LogicalDeclared DEF Grounded
<1>g. \A t \in Given : mentions(t) \subseteq D
  BY BuildableDeclared DEF Given
<1>h. \A thm \in thms : Declares(D, thm)
  BY HeldDeclares
<1> HIDE DEF D
<1>d. ASSUME NEW results, Derive(results), \A s \in results : InScope(s) => MentionsOnly(s, D)
      PROVE  NothingUndeclared'
  BY <1>0, <1>d, DeriveSpoken DEF D
<1>1. CASE ReflRule(theory)
  <2>1. PICK t \in Given : Derive(Refl(theory, t))
    BY <1>1 DEF ReflRule
  <2> QED
    BY <1>0, <1>g, <1>d, <2>1, ReflMentions
<1>2. CASE AssumeRule(theory)
  <2>1. PICK t \in Given : Derive(Assume(theory, t))
    BY <1>2 DEF AssumeRule
  <2> QED
    BY <1>0, <1>g, <1>d, <2>1, AssumeMentions
<1>3. CASE BetaRule(theory)
  <2>1. PICK t \in Given : Derive(Beta(theory, t))
    BY <1>3 DEF BetaRule
  <2> QED
    BY <1>0, <1>g, <1>d, <2>1, BetaMentions
<1>4. CASE AbsRule(theory)
  <2>1. PICK v \in Given, thm \in thms : Derive(Abs(theory, v, thm))
    BY <1>4 DEF AbsRule
  <2>2. v \in Inputs
    BY DEF Given
  <2> QED
    BY <1>0, <1>g, <1>h, <1>d, <2>1, <2>2, AbsMentions
<1>5. CASE TransRule(theory)
  <2>1. PICK left \in thms, right \in thms : Derive(Trans(theory, left, right))
    BY <1>5 DEF TransRule
  <2> QED
    BY <1>0, <1>h, <1>d, <2>1, TransMentions
<1>6. CASE MkCombRule(theory)
  <2>1. PICK left \in thms, right \in thms : Derive(MkComb(theory, left, right))
    BY <1>6 DEF MkCombRule
  <2> QED
    BY <1>0, <1>h, <1>d, <2>1, MkCombMentions
<1>7. CASE EqMpRule(theory)
  <2>1. PICK left \in thms, right \in thms : Derive(EqMp(theory, left, right))
    BY <1>7 DEF EqMpRule
  <2> QED
    BY <1>0, <1>h, <1>d, <2>1, EqMpMentions
<1>8. CASE DeductRule(theory)
  <2>1. PICK left \in thms, right \in thms : Derive(DeductAntisymRule(theory, left, right))
    BY <1>8 DEF DeductRule
  <2> QED
    BY <1>0, <1>h, <1>d, <2>1, DeductMentions
<1>9. CASE InstRule(theory)
  <2>1. PICK theta \in Thetas, thm \in thms :
          BuildableSubst(theta) /\ Derive(Inst(theory, theta, thm))
    BY <1>9 DEF InstRule
  <2>2. \A v \in DOMAIN theta : mentions(theta[v]) \subseteq D
    BY <2>1, BuildableDeclared DEF BuildableSubst, D
  <2> QED
    BY <1>h, <1>d, <2>1, <2>2, InstMentions
<1>10. CASE InstTypeRule(theory)
  <2>1. PICK theta \in TyThetas, thm \in thms :
          BuildableTySubst(theta) /\ Derive(InstType(theory, theta, thm))
    BY <1>10 DEF InstTypeRule
  <2>2. \A ty \in DOMAIN theta : mentions(Var("x", theta[ty])) \subseteq D
    BY <2>1, BuildableDeclared DEF BuildableTySubst, BuildableType, D
  <2> QED
    BY <1>h, <1>d, <2>1, <2>2, InstTypeMentions
<1> QED
  BY <1>1, <1>2, <1>3, <1>4, <1>5, <1>6, <1>7, <1>8, <1>9, <1>10 DEF RuleStep

-----------------------------------------------------------------------------
(***************************************************************************)
(* What each gate does to the ledgers and to the names.                    *)
(***************************************************************************)

\* The parts of a theory's record that Conservative reads.
SameLedgers(theory) ==
  /\ theories'[theory].axioms = theories[theory].axioms
  /\ theories'[theory].definitions = theories[theory].definitions
  /\ theories'[theory].type_definitions = theories[theory].type_definitions

\* A gate of one theory leaves the others' records.
OthersKept(theory) ==
  /\ DOMAIN theories' = DOMAIN theories
  /\ \A t \in DOMAIN theories : t # theory => theories'[t] = theories[t]

\* A definition: the new name was not there, and what is asserted is the
\* equation that was handed in.
Defines(theory, term) ==
  /\ CanDefine(theory, term)
  /\ OthersKept(theory)
  /\ Lhs(term).name \in DOMAIN theories'[theory].constants
  /\ theories'[theory].axioms = theories[theory].axioms
  /\ theories'[theory].type_definitions = theories[theory].type_definitions
  /\ \/ SameLedgers(theory) /\ thms' = thms
     \/ \E thm : /\ thm.theory = theory /\ thm.hyps = {} /\ thm.concl = DefinitionOf(term)
                 /\ Proposition(thm.concl) /\ InScope(thm)
                 /\ thms' = thms \cup {thm}
                 /\ theories'[theory].definitions = theories[theory].definitions \cup {thm}

\* A type definition: the same of three names and two equations.
Carves(theory, names, witness) ==
  /\ CanCarve(theory, names[1], names[2], names[3], witness)
  /\ OthersKept(theory)
  /\ theories'[theory].axioms = theories[theory].axioms
  /\ theories'[theory].definitions = theories[theory].definitions
  /\ \/ SameLedgers(theory) /\ thms' = thms
     \/ \E d : /\ d.type_name = names[1]
               /\ d.abs_rep.theory = theory /\ d.abs_rep.hyps = {}
               /\ d.abs_rep.concl = AbsRepOf(names, witness.concl)
               /\ d.rep_abs.theory = theory /\ d.rep_abs.hyps = {}
               /\ d.rep_abs.concl = RepAbsOf(names, witness.concl)
               /\ InScope(d.abs_rep) /\ InScope(d.rep_abs)
               /\ thms' = thms \cup {d.abs_rep, d.rep_abs}
               /\ theories'[theory].type_definitions =
                    theories[theory].type_definitions \cup {d}
               /\ {names[2], names[3]} \subseteq DOMAIN theories'[theory].constants
               /\ names[1] \in DOMAIN registry'

LEMMA DefinitionEffect ==
  ASSUME TypeOK, NEW theory \in DOMAIN theories, NEW term,
         NewBasicDefinition(theory, term), CanDefine(theory, term)
  PROVE  Defines(theory, term)
<1> DEFINE c == Const(Lhs(term).name, Lhs(term).ty)
           defined == EqSequent(theory, {}, c, Rhs(term))
           table == Extend(theories[theory].constants, c.name, c.ty)
<1>1. /\ Keep(defined)
      /\ theories' = [theories EXCEPT ![theory].constants = table,
                                      ![theory].definitions = @ \cup defined]
  BY DEF NewBasicDefinition
<1>2. Lhs(term).name \in DOMAIN table
  BY DEF Extend, Const
<1>3. \A thm \in defined : /\ thm.theory = theory /\ thm.hyps = {}
                           /\ thm.concl = DefinitionOf(term) /\ Proposition(thm.concl)
  BY EqSequentFacts DEF DefinitionOf
<1>4. defined = {} \/ \E thm : defined = {thm}
  BY DEF EqSequent, Sequent
<1> HIDE DEF table, defined
<1>5. /\ OthersKept(theory)
      /\ theories'[theory].constants = table
      /\ theories'[theory].axioms = theories[theory].axioms
      /\ theories'[theory].type_definitions = theories[theory].type_definitions
      /\ theories'[theory].definitions = theories[theory].definitions \cup defined
  BY <1>1 DEF OthersKept, TypeOK, Newborn
<1>6. thms' = thms \cup defined /\ \A thm \in defined : InScope(thm)
  BY <1>1 DEF Keep
<1> QED
  BY <1>2, <1>3, <1>4, <1>5, <1>6 DEF Defines, SameLedgers

\* A rule answers with one theorem at most, and so does a pair of them.
LEMMA OneSequent ==
  ASSUME NEW theory, NEW hyps, NEW lhs, NEW rhs,
         NEW s \in EqSequent(theory, hyps, lhs, rhs), NEW t \in EqSequent(theory, hyps, lhs, rhs)
  PROVE  s = t
  BY DEF EqSequent, Sequent

LEMMA OneBijection ==
  ASSUME NEW theory, NEW typeName, NEW abs, NEW rep, NEW P,
         NEW c \in Bijection(theory, typeName, abs, rep, P),
         NEW d \in Bijection(theory, typeName, abs, rep, P)
  PROVE  c = d
<1> DEFINE a == Var("a", abs.ty.args[2])
           r == Var("r", abs.ty.args[1])
           E == EqSequent(theory, {}, CombRaw(abs, CombRaw(rep, a)), a)
           F == EqSequent(theory, {}, CombRaw(P, r), Eqn(CombRaw(rep, CombRaw(abs, r)), r))
<1>1. (\A s, t \in E : s = t) /\ (\A s, t \in F : s = t)
  BY OneSequent
<1>2. Bijection(theory, typeName, abs, rep, P) =
        {[type_name |-> typeName, abs_rep |-> e, rep_abs |-> f] : e \in E, f \in F}
  BY DEF Bijection
<1> HIDE DEF E, F
<1> QED
  BY <1>1, <1>2

LEMMA CarvingEffect ==
  ASSUME TypeOK, NEW theory \in DOMAIN theories, NEW names, NEW witness,
         NewBasicTypeDefinition(theory, names[1], names[2], names[3], witness),
         CanCarve(theory, names[1], names[2], names[3], witness)
  PROVE  Carves(theory, names, witness)
<1> DEFINE P   == witness.concl.rator
           abs == AbsConst(names[1], names[2], P, witness.concl.rand.ty)
           rep == RepConst(names[1], names[3], P, witness.concl.rand.ty)
           minted == IF names[2] = "" \/ names[3] = ""
                     THEN {}
                     ELSE Bijection(theory, names[1], abs, rep, P)
           new == {d.abs_rep : d \in minted} \cup {d.rep_abs : d \in minted}
           table == EnterBoth(theories[theory].constants, abs, rep)
<1>1. /\ Keep(new)
      /\ theories' = [theories EXCEPT ![theory].constants = table,
                                      ![theory].type_definitions = @ \cup minted]
      /\ registry' = Extend(registry, names[1], Len(TypeArguments(P)))
  BY DEF NewBasicTypeDefinition, Carve
<1>2. abs.name = names[2] /\ rep.name = names[3]
  BY DEF AbsConst, RepConst, Const
<1>3. minted # {} => {names[2], names[3]} \subseteq DOMAIN table
  BY <1>2 DEF EnterBoth, Extend
<1>4. names[1] \in DOMAIN registry'
  BY <1>1 DEF Extend
<1>5. ASSUME NEW d \in Bijection(theory, names[1], abs, rep, P)
      PROVE  /\ d.type_name = names[1]
             /\ d.abs_rep.theory = theory /\ d.abs_rep.hyps = {}
             /\ d.abs_rep.concl = AbsRepOf(names, witness.concl)
             /\ d.rep_abs.theory = theory /\ d.rep_abs.hyps = {}
             /\ d.rep_abs.concl = RepAbsOf(names, witness.concl)
  <2> DEFINE a == Var("a", abs.ty.args[2])
             r == Var("r", abs.ty.args[1])
  <2>1. PICK e \in EqSequent(theory, {}, CombRaw(abs, CombRaw(rep, a)), a),
             f \in EqSequent(theory, {}, CombRaw(P, r), Eqn(CombRaw(rep, CombRaw(abs, r)), r)) :
          d = [type_name |-> names[1], abs_rep |-> e, rep_abs |-> f]
    BY <1>5 DEF Bijection
  <2>2. e.theory = theory /\ e.hyps = {} /\ e.concl = AbsRepOf(names, witness.concl)
    BY EqSequentFacts DEF AbsRepOf
  <2>3. f.theory = theory /\ f.hyps = {} /\ f.concl = RepAbsOf(names, witness.concl)
    BY EqSequentFacts DEF RepAbsOf
  <2> QED
    BY <2>1, <2>2, <2>3
<1>6. minted = {} \/ \E d : minted = {d} /\ d \in Bijection(theory, names[1], abs, rep, P)
  <2>1. SUFFICES ASSUME NEW d \in minted
                 PROVE  minted = {d} /\ d \in Bijection(theory, names[1], abs, rep, P)
    OBVIOUS
  <2> HIDE DEF abs, rep, P
  <2>2. d \in Bijection(theory, names[1], abs, rep, P) /\ \A e \in minted : e = d
    BY OneBijection
  <2> HIDE DEF minted
  <2> QED
    BY <2>2
<1> HIDE DEF table, minted, abs, rep, P
<1>7. /\ OthersKept(theory)
      /\ theories'[theory].constants = table
      /\ theories'[theory].axioms = theories[theory].axioms
      /\ theories'[theory].definitions = theories[theory].definitions
      /\ theories'[theory].type_definitions = theories[theory].type_definitions \cup minted
  BY <1>1 DEF OthersKept, TypeOK, Newborn
<1>8. thms' = thms \cup new /\ \A thm \in new : InScope(thm)
  BY <1>1 DEF Keep
<1>9. CASE minted = {}
  BY <1>7, <1>8, <1>9 DEF Carves, SameLedgers
<1>10. ASSUME NEW d, minted = {d}, d \in Bijection(theory, names[1], abs, rep, P)
       PROVE  Carves(theory, names, witness)
  <2>1. new = {d.abs_rep, d.rep_abs}
    BY <1>10
  <2> HIDE DEF new
  <2> QED
    BY <1>3, <1>4, <1>5, <1>7, <1>8, <1>10, <2>1 DEF Carves
<1> QED
  BY <1>6, <1>9, <1>10

-----------------------------------------------------------------------------
(***************************************************************************)
(* Nothing undeclared.                                                     *)
(***************************************************************************)

\* Only new_theory makes a theory, and nothing takes one away.
LEMMA TheoriesMade ==
  ASSUME TypeOK, [Next]_vars, ~NewTheory
  PROVE  DOMAIN theories' = DOMAIN theories
<1>2. CASE \E new \in NewTypes : NewType(new[1], new[2])
  BY <1>2 DEF NewType, Refuse
<1>3. CASE \E theory \in DOMAIN theories : GateStep(theory)
  <2>1. PICK theory \in DOMAIN theories : GateStep(theory)
    BY <1>3
  <2>2. ASSUME NEW name, NEW ty, NewConstant(theory, name, ty)
        PROVE  DOMAIN theories' = DOMAIN theories
    BY <2>2 DEF NewConstant, Refuse
  <2>3. ASSUME NEW term, NewAxiom(theory, term)
        PROVE  DOMAIN theories' = DOMAIN theories
    BY <2>3 DEF NewAxiom, Refuse
  <2>4. ASSUME NEW term, NewBasicDefinition(theory, term)
        PROVE  DOMAIN theories' = DOMAIN theories
    BY <2>4, DefinitionEffect DEF NewBasicDefinition, Refuse, Defines, OthersKept
  <2>5. ASSUME NEW names, NEW witness,
               NewBasicTypeDefinition(theory, names[1], names[2], names[3], witness)
        PROVE  DOMAIN theories' = DOMAIN theories
    BY <2>5, CarvingEffect DEF NewBasicTypeDefinition, Refuse, Carves, OthersKept
  <2> QED
    BY <2>1, <2>2, <2>3, <2>4, <2>5 DEF GateStep
<1>4. CASE \E theory \in DOMAIN theories : RuleStep(theory)
  BY <1>4 DEF RuleStep, ReflRule, AssumeRule, BetaRule, AbsRule, TransRule, MkCombRule,
       EqMpRule, DeductRule, InstRule, InstTypeRule, Derive
<1>5. CASE Drop \/ UNCHANGED vars
  BY <1>5 DEF Drop, vars
<1> QED
  BY <1>2, <1>3, <1>4, <1>5 DEF Next

LEMMA TheoriesKept ==
  ASSUME TypeOK, [Next]_vars
  PROVE  DOMAIN theories \subseteq DOMAIN theories'
<1>1. CASE NewTheory
  BY <1>1 DEF NewTheory, TypeOK
<1> QED
  BY <1>1, TheoriesMade

\* Names only accumulate.
LEMMA SymbolsKept ==
  ASSUME TypeOK, [Next]_vars
  PROVE  DeclaredSymbols \subseteq DeclaredSymbols' /\ (TypesBorn => TypesBorn')
<1>1. TypesKept /\ ConstantsKept /\ DOMAIN theories \subseteq DOMAIN theories'
  BY NextNames, TheoriesKept
<1>2. DOMAIN registry \subseteq DOMAIN registry'
  BY <1>1 DEF TypesKept
<1>3. \A th \in DOMAIN theories :
        th \in DOMAIN theories' /\ DOMAIN theories[th].constants \subseteq DOMAIN theories'[th].constants
  BY <1>1 DEF ConstantsKept
<1> QED
  BY <1>2, <1>3 DEF DeclaredSymbols, TypesBorn

\* A step that asserts nothing.
LEMMA SilentSpoken ==
  ASSUME NothingUndeclared, DeclaredSymbols \subseteq DeclaredSymbols', thms' \subseteq thms,
         \A t \in DOMAIN theories' :
           Ledger(t)' = {} \/ (t \in DOMAIN theories /\ Ledger(t)' = Ledger(t))
  PROVE  NothingUndeclared'
<1>1. Says({})
  BY DEF Says
<1> QED
  BY <1>1, SpokenStep

LEMMA LedgersOf ==
  ASSUME NEW theory, OthersKept(theory)
  PROVE  /\ \A t \in DOMAIN theories' : t # theory => Ledger(t)' = Ledger(t)
         /\ SameLedgers(theory) => Ledger(theory)' = Ledger(theory)
  BY DEF OthersKept, SameLedgers, Ledger

LEMMA DefinesSpoken ==
  ASSUME Grounded, DeclaredSymbols \subseteq DeclaredSymbols',
         NEW theory \in DOMAIN theories, NEW term \in Definitions, Buildable(term),
         Defines(theory, term)
  PROVE  NothingUndeclared'
<1>1. CASE SameLedgers(theory) /\ thms' = thms
  <2>1. \A t \in DOMAIN theories' : t \in DOMAIN theories /\ Ledger(t)' = Ledger(t)
    BY <1>1, LedgersOf DEF Defines, OthersKept
  <2> QED
    BY <1>1, <2>1, SilentSpoken DEF Grounded
<1>2. CASE ~(SameLedgers(theory) /\ thms' = thms)
  <2>1. PICK thm : /\ thm.theory = theory /\ thm.hyps = {} /\ thm.concl = DefinitionOf(term)
                   /\ Proposition(thm.concl) /\ InScope(thm)
                   /\ thms' = thms \cup {thm}
                   /\ theories'[theory].definitions = theories[theory].definitions \cup {thm}
    BY <1>2 DEF Defines
  <2>2. IsEqn(term) /\ IsVar(Lhs(term)) /\ DefinitionOf(term) \in Term
    BY <2>1 DEF Defines, CanDefine, InScope
  <2>3. mentions(thm.concl) \subseteq mentions(term) \cup DefinedBy(term) \cup Logical
    BY <2>1, <2>2, MentionsDefinition
  <2>4. mentions(term) \subseteq DeclaredSymbols' /\ Logical \subseteq DeclaredSymbols'
    BY BuildableDeclared, LogicalDeclared DEF Grounded
  <2>5. DefinedBy(term) \subseteq DeclaredSymbols'
    BY DEF Defines, OthersKept, DefinedBy, DeclaredSymbols
  <2>6. MentionsOnly(thm, DeclaredSymbols')
    BY <2>1, <2>3, <2>4, <2>5 DEF MentionsOnly
  <2>7. Ledger(theory)' = Ledger(theory) \cup {thm}
    BY <2>1 DEF Defines, Ledger
  <2>8. \A t \in DOMAIN theories' :
          t \in DOMAIN theories /\ Ledger(t)' \subseteq Ledger(t) \cup {thm}
    BY <2>7, LedgersOf DEF Defines, OthersKept
  <2>9. Says({thm})
    BY <2>1, <2>6, <2>8 DEF Says
  <2> QED
    BY <2>9, SpokenStep DEF Grounded
<1> QED
  BY <1>1, <1>2

LEMMA CarvesSpoken ==
  ASSUME Grounded, DeclaredSymbols \subseteq DeclaredSymbols',
         NEW theory \in DOMAIN theories, NEW names \in TypeDefinitions, NEW witness \in thms,
         Carves(theory, names, witness)
  PROVE  NothingUndeclared'
<1>1. CASE SameLedgers(theory) /\ thms' = thms
  <2>1. \A t \in DOMAIN theories' : t \in DOMAIN theories /\ Ledger(t)' = Ledger(t)
    BY <1>1, LedgersOf DEF Carves, OthersKept
  <2> QED
    BY <1>1, <2>1, SilentSpoken DEF Grounded
<1>2. CASE ~(SameLedgers(theory) /\ thms' = thms)
  <2>1. PICK d : /\ d.abs_rep.hyps = {} /\ d.abs_rep.concl = AbsRepOf(names, witness.concl)
                 /\ d.rep_abs.hyps = {} /\ d.rep_abs.concl = RepAbsOf(names, witness.concl)
                 /\ InScope(d.abs_rep) /\ InScope(d.rep_abs)
                 /\ thms' = thms \cup {d.abs_rep, d.rep_abs}
                 /\ theories'[theory].type_definitions =
                      theories[theory].type_definitions \cup {d}
                 /\ {names[2], names[3]} \subseteq DOMAIN theories'[theory].constants
                 /\ names[1] \in DOMAIN registry'
    BY <1>2 DEF Carves
  <2> DEFINE new == {d.abs_rep, d.rep_abs}
  <2>2. /\ IsComb(witness.concl) /\ Proposition(witness.concl) /\ witness.concl \in Term
        /\ mentions(witness.concl) \subseteq DeclaredSymbols
    BY HeldDeclares DEF Carves, CanCarve, Grounded, TypeOK, WellFormed, Declares, MentionsOnly
  <2>3. /\ mentions(d.abs_rep.concl) \subseteq mentions(witness.concl) \cup CarvedBy(names) \cup Logical
        /\ mentions(d.rep_abs.concl) \subseteq mentions(witness.concl) \cup CarvedBy(names) \cup Logical
    BY <2>1, <2>2, MentionsBijection DEF InScope
  <2>4. mentions(witness.concl) \subseteq DeclaredSymbols' /\ Logical \subseteq DeclaredSymbols'
    BY <2>2, LogicalDeclared DEF Grounded
  <2>5. CarvedBy(names) \subseteq DeclaredSymbols'
    BY <2>1 DEF Carves, OthersKept, CarvedBy, DeclaredSymbols
  <2>6. \A thm \in new : MentionsOnly(thm, DeclaredSymbols')
    BY <2>1, <2>3, <2>4, <2>5 DEF MentionsOnly
  <2>7. Ledger(theory)' = Ledger(theory) \cup new
    BY <2>1 DEF Carves, Ledger
  <2> HIDE DEF new
  <2>8. \A t \in DOMAIN theories' :
          t \in DOMAIN theories /\ Ledger(t)' \subseteq Ledger(t) \cup new
    BY <2>7, LedgersOf DEF Carves, OthersKept
  <2>9. Says(new)
    BY <2>1, <2>6, <2>8 DEF Says, new
  <2> QED
    BY <2>9, SpokenStep DEF Grounded
<1> QED
  BY <1>1, <1>2

LEMMA GateStepSpoken ==
  ASSUME Grounded, DeclaredSymbols \subseteq DeclaredSymbols',
         NEW theory \in DOMAIN theories, GateStep(theory)
  PROVE  NothingUndeclared'
<1>r. ASSUME Refuse PROVE NothingUndeclared'
  BY <1>r, SilentSpoken DEF Refuse, Ledger, Grounded
<1>1. ASSUME NEW name, NEW ty, NewConstant(theory, name, ty)
      PROVE  NothingUndeclared'
  <2>1. CASE HasConstant(theory, name)
    BY <1>1, <1>r, <2>1 DEF NewConstant
  <2>2. CASE ~HasConstant(theory, name)
    <3>1. /\ theories' = [theories EXCEPT ![theory].constants = Extend(@, name, ty)]
          /\ thms' = thms
      BY <1>1, <2>2 DEF NewConstant
    <3>2. OthersKept(theory) /\ SameLedgers(theory)
      BY <3>1 DEF Grounded, TypeOK, Newborn, OthersKept, SameLedgers
    <3>3. \A t \in DOMAIN theories' : t \in DOMAIN theories /\ Ledger(t)' = Ledger(t)
      BY <3>2, LedgersOf DEF OthersKept
    <3> QED
      BY <3>1, <3>3, SilentSpoken DEF Grounded
  <2> QED
    BY <2>1, <2>2
<1>2. ASSUME NEW term, Buildable(term), NewAxiom(theory, term)
      PROVE  NothingUndeclared'
  <2>1. CASE ~Proposition(term)
    BY <1>2, <1>r, <2>1 DEF NewAxiom
  <2>2. CASE Proposition(term)
    <3>1. PICK thm \in Sequent(theory, {}, term) :
            /\ thms' = thms \cup {thm}
            /\ theories' = [theories EXCEPT ![theory].axioms = @ \cup {thm}]
      BY <1>2, <2>2 DEF NewAxiom, Keep
    <3>2. thm.hyps = {} /\ thm.concl = term
      BY SequentFacts
    <3>3. MentionsOnly(thm, DeclaredSymbols')
      BY <1>2, <3>2, BuildableDeclared DEF MentionsOnly
    <3>4. OthersKept(theory) /\ Ledger(theory)' = Ledger(theory) \cup {thm}
      BY <3>1 DEF Grounded, TypeOK, Newborn, OthersKept, Ledger
    <3>5. \A t \in DOMAIN theories' :
            t \in DOMAIN theories /\ Ledger(t)' \subseteq Ledger(t) \cup {thm}
      BY <3>4, LedgersOf DEF OthersKept
    <3>6. Says({thm})
      BY <3>1, <3>3, <3>5 DEF Says
    <3> QED
      BY <3>6, SpokenStep DEF Grounded
  <2> QED
    BY <2>1, <2>2
<1>3. ASSUME NEW term \in Definitions, Buildable(term), NewBasicDefinition(theory, term)
      PROVE  NothingUndeclared'
  BY <1>3, <1>r, DefinitionEffect, DefinesSpoken DEF NewBasicDefinition, Grounded
<1>4. ASSUME NEW names \in TypeDefinitions, NEW witness \in thms,
             NewBasicTypeDefinition(theory, names[1], names[2], names[3], witness)
      PROVE  NothingUndeclared'
  BY <1>4, <1>r, CarvingEffect, CarvesSpoken DEF NewBasicTypeDefinition, Grounded
<1> QED
  BY <1>1, <1>2, <1>3, <1>4 DEF GateStep

LEMMA NextSpoken ==
  ASSUME Grounded, [Next]_vars
  PROVE  NothingUndeclared'
<1>0. NothingUndeclared /\ DeclaredSymbols \subseteq DeclaredSymbols'
  BY SymbolsKept DEF Grounded
<1>s. ASSUME theories' = theories, thms' \subseteq thms
      PROVE  NothingUndeclared'
  <2>1. \A t \in DOMAIN theories' : t \in DOMAIN theories /\ Ledger(t)' = Ledger(t)
    BY <1>s DEF Ledger
  <2> QED
    BY <1>0, <1>s, <2>1, SilentSpoken
<1>1. CASE NewTheory
  <2>1. PICK n \in Nat : n = Len(theories) /\ DOMAIN theories = 1..n
    BY DEF Grounded, TypeOK
  <2>2. /\ DOMAIN theories' = 1..(n + 1) /\ theories'[n + 1] = Newborn
        /\ \A t \in DOMAIN theories : theories'[t] = theories[t]
        /\ thms' = thms
    BY <1>1, <2>1 DEF NewTheory
  <2>3. Ledger(n + 1)' = {}
    BY <2>2 DEF Ledger, Newborn
  <2>4. \A t \in DOMAIN theories : Ledger(t)' = Ledger(t)
    BY <2>2 DEF Ledger
  <2>5. \A t \in DOMAIN theories' : t = n + 1 \/ t \in DOMAIN theories
    BY <2>1, <2>2
  <2> QED
    BY <1>0, <2>2, <2>3, <2>4, <2>5, SilentSpoken
<1>2. CASE \E new \in NewTypes : NewType(new[1], new[2])
  BY <1>2, <1>s DEF NewType, Refuse
<1>3. CASE \E theory \in DOMAIN theories : GateStep(theory)
  BY <1>0, <1>3, GateStepSpoken
<1>4. CASE \E theory \in DOMAIN theories : RuleStep(theory)
  BY <1>4, RuleStepSpoken
<1>5. CASE Drop
  BY <1>5, <1>s DEF Drop
<1>6. CASE UNCHANGED vars
  BY <1>6, <1>s DEF vars
<1> QED
  BY <1>1, <1>2, <1>3, <1>4, <1>5, <1>6 DEF Next

\* Terms are built from what is declared, and no rule or gate says more than
\* the terms it was given (rules.rs:15-35, types.rs:84-91).
THEOREM SpokenOfDeclared == Spec => [](TypesBorn /\ NothingUndeclared)
<1>1. Init => TypesBorn /\ NothingUndeclared
  BY DEF Init, TypesBorn, NothingUndeclared
<1>2. TypeOK /\ TypesBorn /\ NothingUndeclared /\ [Next]_vars
        => (TypesBorn /\ NothingUndeclared)'
  BY NextSpoken, SymbolsKept DEF Grounded
<1> QED
  BY <1>1, <1>2, TypeCorrect, PTL DEF Spec

-----------------------------------------------------------------------------
(***************************************************************************)
(* Definitions add nothing.                                                *)
(***************************************************************************)

\* No two theories have a constant in common, but for equality.
Apart ==
  \A t, u \in DOMAIN theories :
    t # u => DOMAIN theories[t].constants \cap DOMAIN theories[u].constants \subseteq {EqName}

\* A name that a theory gains and that no other has then is new to all.
LEMMA FreshName ==
  ASSUME TypeOK, Apart', NEW theory \in DOMAIN theories, OthersKept(theory), NEW name,
         ~HasConstant(theory, name), name \in DOMAIN theories'[theory].constants
  PROVE  <<"const", name>> \notin DeclaredSymbols
<1>1. name # EqName
  BY DEF TypeOK, HasConstant
<1>2. ASSUME NEW th \in DOMAIN theories, name \in DOMAIN theories[th].constants
      PROVE  FALSE
  <2>1. th # theory
    BY <1>2 DEF HasConstant
  <2>2. theories'[th] = theories[th] /\ th \in DOMAIN theories' /\ theory \in DOMAIN theories'
    BY <2>1 DEF OthersKept
  <2>3. name \in DOMAIN theories'[th].constants \cap DOMAIN theories'[theory].constants
    BY <1>2, <2>2
  <2> QED
    BY <1>1, <2>1, <2>2, <2>3 DEF Apart
<1> QED
  BY <1>2 DEF DeclaredSymbols

\* A theory whose ledger gains new, about symbols that were not declared, and
\* which has a model of new agreeing with each of its models elsewhere.
Adds(theory, new, symbols) ==
  /\ symbols \in Introduced
  /\ symbols \cap DeclaredSymbols = {}
  /\ theories'[theory].axioms = theories[theory].axioms
  /\ Ledger(theory)' = Ledger(theory) \cup new
  /\ Defined(theory)' = Defined(theory) \cup symbols
  /\ \A i \in Models(theory) : \E j \in Interp :
       Agree(i, j, symbols) /\ \A thm \in new : Satisfies(j, thm)

LEMMA AddsConservative ==
  ASSUME Grounded, NEW theory \in DOMAIN theories, NEW new, NEW symbols,
         Adds(theory, new, symbols), ConservativeIn(theory)
  PROVE  ConservativeIn(theory)'
<1> SUFFICES ASSUME theories'[theory].axioms = {}, NEW i \in Interp
             PROVE  \E k \in Interp : /\ \A thm \in Ledger(theory)' : Satisfies(k, thm)
                                      /\ Agree(i, k, Defined(theory)')
  BY DEF ConservativeIn, Models, Agree, Satisfies, Holds
<1>1. PICK j \in Models(theory) : Agree(i, j, Defined(theory))
  BY DEF ConservativeIn, Adds
<1>2. PICK k \in Interp : Agree(j, k, symbols) /\ \A thm \in new : Satisfies(k, thm)
  BY DEF Adds
<1>3. Agree(i, k, Defined(theory)')
  BY <1>1, <1>2, AgreeChain DEF Adds
<1>4. ASSUME NEW thm \in Ledger(theory)
      PROVE  Satisfies(k, thm)
  <2>1. InScope(thm) /\ MentionsOnly(thm, DeclaredSymbols)
    BY DEF Grounded, TypeOK, WellFormed, NothingUndeclared, InScope
  <2>2. j \in Interp /\ Satisfies(j, thm)
    BY DEF Models
  <2>3. symbols \in Introduced /\ symbols \cap DeclaredSymbols = {}
    BY DEF Adds
  <2> QED
    BY <1>2, <2>1, <2>2, <2>3, UntouchedTrue
<1> QED
  BY <1>2, <1>3, <1>4 DEF Adds

\* A theory whose ledgers stay as they were.
LEMMA SameConservative ==
  ASSUME NEW theory, SameLedgers(theory), ConservativeIn(theory)
  PROVE  ConservativeIn(theory)'
BY DEF SameLedgers, ConservativeIn, Models, Ledger, Defined, Agree, Satisfies, Holds

\* A definition gives its new constant the value of the right side.
LEMMA DefinitionAdds ==
  ASSUME Grounded, Apart', NEW theory \in DOMAIN theories,
         NEW term \in Definitions, Buildable(term), Defines(theory, term),
         NEW thm, thm.hyps = {}, thm.concl = DefinitionOf(term),
         Proposition(thm.concl), InScope(thm),
         theories'[theory].definitions = theories[theory].definitions \cup {thm}
  PROVE  Adds(theory, {thm}, DefinedBy(term))
<1>1. /\ IsEqn(term) /\ IsVar(Lhs(term)) /\ DefinitionOf(term) \in Term
      /\ Rhs(term).frees = {} /\ term_type_vars(Rhs(term)) \subseteq Lhs(term).ty.vars
      /\ ~HasConstant(theory, Lhs(term).name)
  BY DEF Defines, CanDefine, InScope
<1>2. DefinedBy(term) \in Introduced
  BY <1>1 DEF Introduced
<1>3. DefinedBy(term) \cap DeclaredSymbols = {}
  BY <1>1, FreshName DEF Defines, DefinedBy, Grounded
<1>4. mentions(Rhs(term)) \cup Logical \subseteq DeclaredSymbols
  BY <1>1, MentionsDefinition, BuildableDeclared, LogicalDeclared DEF Grounded
<1>5. ASSUME NEW i \in Models(theory)
      PROVE  \E j \in Interp : Agree(i, j, DefinedBy(term)) /\ Satisfies(j, thm)
  <2>1. i \in Interp /\ DefinedBy(term) \cap (mentions(Rhs(term)) \cup Logical) = {}
    BY <1>3, <1>4 DEF Models
  <2>2. PICK j \in Interp : /\ Agree(i, j, DefinedBy(term))
                            /\ \A v \in Val(j) : Holds(j, v, DefinitionOf(term))
    BY <1>1, <2>1, ConstantMeaning
  <2> QED
    BY <2>2 DEF Satisfies
<1>6. Ledger(theory)' = Ledger(theory) \cup {thm}
  BY DEF Defines, Ledger
<1>7. Lhs(thm.concl).name = Lhs(term).name
  BY EqnParts DEF DefinitionOf, Const
<1>8. Defined(theory)' = Defined(theory) \cup DefinedBy(term)
  <2>1. {<<"const", Lhs(d.concl).name>> : d \in theories'[theory].definitions}
          = {<<"const", Lhs(d.concl).name>> : d \in theories[theory].definitions}
              \cup {<<"const", Lhs(term).name>>}
    BY <1>7
  <2> QED
    BY <2>1 DEF Defines, Defined, DefinedBy
<1> QED
  BY <1>2, <1>3, <1>5, <1>6, <1>8 DEF Adds, Defines

\* A type definition carves its new type out, and takes abs and rep between.
LEMMA CarvingAdds ==
  ASSUME Grounded, Sound, Apart', NEW theory \in DOMAIN theories,
         NEW names \in TypeDefinitions, NEW witness \in thms, Carves(theory, names, witness),
         NEW d, d.type_name = names[1],
         d.abs_rep.hyps = {}, d.abs_rep.concl = AbsRepOf(names, witness.concl),
         d.rep_abs.hyps = {}, d.rep_abs.concl = RepAbsOf(names, witness.concl),
         InScope(d.abs_rep), InScope(d.rep_abs),
         theories'[theory].type_definitions = theories[theory].type_definitions \cup {d},
         {names[2], names[3]} \subseteq DOMAIN theories'[theory].constants
  PROVE  Adds(theory, {d.abs_rep, d.rep_abs}, CarvedBy(names))
<1> DEFINE P == witness.concl
<1>1. /\ IsComb(P) /\ P.rator.frees = {} /\ names[2] # names[3]
      /\ witness.theory = theory /\ witness.hyps = {}
      /\ ~HasConstant(theory, names[2]) /\ ~HasConstant(theory, names[3])
      /\ names[1] \notin DOMAIN registry
  BY DEF Carves, CanCarve, Own, CanNewType
<1>2. /\ P \in Term /\ Proposition(P) /\ mentions(P) \subseteq DeclaredSymbols
      /\ AbsRepOf(names, P) \in Term /\ RepAbsOf(names, P) \in Term
  BY HeldDeclares DEF Grounded, TypeOK, WellFormed, Declares, MentionsOnly, InScope
<1>3. CarvedBy(names) \cap DeclaredSymbols = {}
  <2>1. <<"const", names[2]>> \notin DeclaredSymbols /\ <<"const", names[3]>> \notin DeclaredSymbols
    BY <1>1, FreshName DEF Carves, Grounded
  <2>2. <<"type", names[1]>> \notin DeclaredSymbols
    BY <1>1 DEF DeclaredSymbols
  <2> QED
    BY <2>1, <2>2 DEF CarvedBy
<1>4. CarvedBy(names) \cap (mentions(P) \cup Logical) = {}
  BY <1>2, <1>3, LogicalDeclared DEF Grounded
<1>5. ASSUME NEW i \in Models(theory)
      PROVE  \E j \in Interp : /\ Agree(i, j, CarvedBy(names))
                               /\ Satisfies(j, d.abs_rep) /\ Satisfies(j, d.rep_abs)
  <2>1. i \in Interp /\ \A v \in Val(i) : Holds(i, v, P)
    BY <1>1 DEF Models, Sound, Satisfies
  <2>2. PICK j \in Interp :
          /\ Agree(i, j, CarvedBy(names))
          /\ \A v \in Val(j) : Holds(j, v, AbsRepOf(names, P)) /\ Holds(j, v, RepAbsOf(names, P))
    BY <1>1, <1>2, <1>4, <2>1, CarvingMeaning
  <2> QED
    BY <2>2 DEF Satisfies
<1>6. Ledger(theory)' = Ledger(theory) \cup {d.abs_rep, d.rep_abs}
  BY DEF Carves, Ledger
<1>7. CarvedBy(<<d.type_name, Lhs(d.abs_rep.concl).rator.name,
                 Lhs(d.abs_rep.concl).rand.rator.name>>) = CarvedBy(names)
  <2> DEFINE abs == AbsConst(names[1], names[2], P.rator, P.rand.ty)
             rep == RepConst(names[1], names[3], P.rator, P.rand.ty)
             a   == Var("a", abs.ty.args[2])
  <2>1. Lhs(d.abs_rep.concl) = CombRaw(abs, CombRaw(rep, a))
    BY EqnParts DEF AbsRepOf
  <2>2. abs.name = names[2] /\ rep.name = names[3]
    BY DEF AbsConst, RepConst, Const
  <2> HIDE DEF abs, rep, a
  <2>3. Lhs(d.abs_rep.concl).rator = abs /\ Lhs(d.abs_rep.concl).rand.rator = rep
    BY <2>1 DEF CombRaw
  <2> QED
    BY <2>2, <2>3 DEF CarvedBy
<1>8. Defined(theory)' = Defined(theory) \cup CarvedBy(names)
  <2> DEFINE carved(e) == CarvedBy(<<e.type_name, Lhs(e.abs_rep.concl).rator.name,
                                     Lhs(e.abs_rep.concl).rand.rator.name>>)
  <2>1. Defined(theory) = {<<"const", Lhs(e.concl).name>> : e \in theories[theory].definitions}
                            \cup UNION {carved(e) : e \in theories[theory].type_definitions}
    BY DEF Defined
  <2>2. Defined(theory)' = {<<"const", Lhs(e.concl).name>> : e \in theories[theory].definitions}
                             \cup UNION {carved(e) : e \in theories'[theory].type_definitions}
    BY DEF Defined, Carves
  <2>3. carved(d) = CarvedBy(names)
    BY <1>7
  <2> HIDE DEF carved
  <2> QED
    BY <2>1, <2>2, <2>3
<1>9. CarvedBy(names) \in Introduced
  BY DEF Introduced
<1> QED
  BY <1>3, <1>5, <1>6, <1>8, <1>9 DEF Adds, Carves

\* One step of a theory apart from the others.
LEMMA GateConservative ==
  ASSUME Grounded, Sound, Conservative, Apart', NEW theory \in DOMAIN theories,
         GateStep(theory)
  PROVE  Conservative'
<1>o. ASSUME OthersKept(theory), ConservativeIn(theory)'
      PROVE  Conservative'
  <2>1. ASSUME NEW t \in DOMAIN theories, t # theory
        PROVE  ConservativeIn(t)'
    BY <1>o, <2>1, SameConservative DEF OthersKept, SameLedgers, Conservative
  <2>2. DOMAIN theories' = DOMAIN theories
    BY <1>o DEF OthersKept
  <2> QED
    BY <1>o, <2>1, <2>2 DEF Conservative
<1>s. ASSUME OthersKept(theory), SameLedgers(theory)
      PROVE  Conservative'
  BY <1>o, <1>s, SameConservative DEF Conservative
<1>a. ASSUME OthersKept(theory), NEW new, NEW symbols, Adds(theory, new, symbols)
      PROVE  Conservative'
  BY <1>o, <1>a, AddsConservative DEF Conservative
<1>r. ASSUME Refuse
      PROVE  Conservative'
  BY <1>r, <1>s DEF Refuse, OthersKept, SameLedgers
<1>1. ASSUME NEW name, NEW ty, NewConstant(theory, name, ty)
      PROVE  Conservative'
  <2>1. CASE HasConstant(theory, name)
    BY <1>1, <1>r, <2>1 DEF NewConstant
  <2>2. CASE ~HasConstant(theory, name)
    <3>1. theories' = [theories EXCEPT ![theory].constants = Extend(@, name, ty)]
      BY <1>1, <2>2 DEF NewConstant
    <3>2. OthersKept(theory) /\ SameLedgers(theory)
      BY <3>1 DEF Grounded, TypeOK, Newborn, OthersKept, SameLedgers
    <3> QED
      BY <3>2, <1>s
  <2> QED
    BY <2>1, <2>2
<1>2. ASSUME NEW term, NewAxiom(theory, term)
      PROVE  Conservative'
  <2>1. CASE ~Proposition(term)
    BY <1>2, <1>r, <2>1 DEF NewAxiom
  <2>2. CASE Proposition(term)
    <3>1. PICK thm : theories' = [theories EXCEPT ![theory].axioms = @ \cup {thm}]
      BY <1>2, <2>2 DEF NewAxiom
    <3>2. OthersKept(theory) /\ theories'[theory].axioms # {}
      BY <3>1 DEF Grounded, TypeOK, Newborn, OthersKept
    <3> QED
      BY <3>2, <1>o DEF ConservativeIn
  <2> QED
    BY <2>1, <2>2
<1>3. ASSUME NEW term \in Definitions, Buildable(term), NewBasicDefinition(theory, term)
      PROVE  Conservative'
  <2>1. CASE ~CanDefine(theory, term)
    BY <1>3, <1>r, <2>1 DEF NewBasicDefinition
  <2>2. CASE CanDefine(theory, term)
    <3>1. Defines(theory, term)
      BY <1>3, <2>2, DefinitionEffect DEF Grounded
    <3>2. OthersKept(theory)
      BY <3>1 DEF Defines
    <3>3. CASE SameLedgers(theory)
      BY <3>2, <3>3, <1>s
    <3>4. CASE ~SameLedgers(theory)
      <4>1. PICK thm : /\ thm.hyps = {} /\ thm.concl = DefinitionOf(term)
                       /\ Proposition(thm.concl) /\ InScope(thm)
                       /\ theories'[theory].definitions = theories[theory].definitions \cup {thm}
        BY <3>1, <3>4 DEF Defines
      <4>2. Adds(theory, {thm}, DefinedBy(term))
        BY <1>3, <3>1, <4>1, DefinitionAdds
      <4> QED
        BY <3>2, <4>2, <1>a
    <3> QED
      BY <3>3, <3>4
  <2> QED
    BY <2>1, <2>2
<1>4. ASSUME NEW names \in TypeDefinitions, NEW witness \in thms,
             NewBasicTypeDefinition(theory, names[1], names[2], names[3], witness)
      PROVE  Conservative'
  <2>1. CASE ~CanCarve(theory, names[1], names[2], names[3], witness)
    BY <1>4, <1>r, <2>1 DEF NewBasicTypeDefinition
  <2>2. CASE CanCarve(theory, names[1], names[2], names[3], witness)
    <3>1. Carves(theory, names, witness)
      BY <1>4, <2>2, CarvingEffect DEF Grounded
    <3>2. OthersKept(theory)
      BY <3>1 DEF Carves
    <3>3. CASE SameLedgers(theory)
      BY <3>2, <3>3, <1>s
    <3>4. CASE ~SameLedgers(theory)
      <4>1. PICK d : /\ d.type_name = names[1]
                     /\ d.abs_rep.hyps = {} /\ d.abs_rep.concl = AbsRepOf(names, witness.concl)
                     /\ d.rep_abs.hyps = {} /\ d.rep_abs.concl = RepAbsOf(names, witness.concl)
                     /\ InScope(d.abs_rep) /\ InScope(d.rep_abs)
                     /\ theories'[theory].type_definitions =
                          theories[theory].type_definitions \cup {d}
                     /\ {names[2], names[3]} \subseteq DOMAIN theories'[theory].constants
        BY <3>1, <3>4 DEF Carves
      <4>2. Adds(theory, {d.abs_rep, d.rep_abs}, CarvedBy(names))
        BY <3>1, <4>1, CarvingAdds
      <4> QED
        BY <3>2, <4>2, <1>a
    <3> QED
      BY <3>3, <3>4
  <2> QED
    BY <2>1, <2>2
<1> QED
  BY <1>1, <1>2, <1>3, <1>4 DEF GateStep

LEMMA NextConservative ==
  ASSUME Grounded, Sound, Conservative, Apart', [Next]_vars
  PROVE  Conservative'
<1>s. ASSUME theories' = theories
      PROVE  Conservative'
  BY <1>s, SameConservative DEF Conservative, SameLedgers
<1>1. CASE NewTheory
  <2>1. PICK n \in Nat : n = Len(theories) /\ DOMAIN theories = 1..n
    BY DEF Grounded, TypeOK
  <2>2. /\ DOMAIN theories' = 1..(n + 1) /\ theories'[n + 1] = Newborn
        /\ \A t \in DOMAIN theories : theories'[t] = theories[t]
    BY <1>1, <2>1 DEF NewTheory
  <2>3. \A t \in DOMAIN theories : ConservativeIn(t)'
    BY <2>2, SameConservative DEF SameLedgers, Conservative
  <2>4. Ledger(n + 1)' = {}
    BY <2>2 DEF Ledger, Newborn
  <2>5. ConservativeIn(n + 1)'
    <3>1. \A i \in Interp : i \in Models(n + 1)' /\ Agree(i, i, Defined(n + 1))'
      BY <2>4 DEF Models, Agree
    <3> QED
      BY <3>1 DEF ConservativeIn, Agree
  <2> QED
    BY <2>1, <2>2, <2>3, <2>5 DEF Conservative
<1>2. CASE \E new \in NewTypes : NewType(new[1], new[2])
  BY <1>2, <1>s DEF NewType, Refuse
<1>3. CASE \E theory \in DOMAIN theories : GateStep(theory)
  BY <1>3, GateConservative
<1>4. CASE \E theory \in DOMAIN theories : RuleStep(theory)
  BY <1>4, <1>s DEF RuleStep, ReflRule, AssumeRule, BetaRule, AbsRule, TransRule, MkCombRule,
       EqMpRule, DeductRule, InstRule, InstTypeRule, Derive
<1>5. CASE Drop
  BY <1>5, <1>s DEF Drop
<1>6. CASE UNCHANGED vars
  BY <1>6, <1>s DEF vars
<1> QED
  BY <1>1, <1>2, <1>3, <1>4, <1>5, <1>6 DEF Next

\* While no two theories share a constant, what a theory defines and carves is
\* a matter of reading its own new names, whatever the others are taken to
\* mean (rules.rs:78-85, 126-137).
THEOREM Conservativity == Spec /\ []Apart => []Conservative
<1>1. Init => Conservative
  BY DEF Init, Conservative
<1>2. IInv /\ TypesBorn /\ NothingUndeclared /\ Conservative /\ Apart' /\ [Next]_vars
        => Conservative'
  BY NextConservative DEF IInv, Grounded
<1> QED
  BY <1>1, <1>2, Invariance, SpokenOfDeclared, PTL DEF Spec

\* The axioms are the only way into a contradiction (rules.rs:64-65): some
\* interpretation is a model of what a theory without any has defined, and in
\* it whatever was proved there is true.
THEOREM Consistency == Spec /\ []Apart => []Consistent
<1>1. ASSUME Sound, Conservative
      PROVE  Consistent
  <2> SUFFICES ASSUME NEW theory \in DOMAIN theories, theories[theory].axioms = {}
               PROVE  \E i \in Models(theory) :
                        \A thm \in thms : thm.theory = theory => Satisfies(i, thm)
    BY DEF Consistent
  <2>1. PICK i \in Interp : TRUE
    BY SomeInterpretation
  <2>2. PICK j \in Models(theory) : Agree(i, j, Defined(theory))
    BY <1>1, <2>1 DEF Conservative, ConservativeIn
  <2>3. \A thm \in thms : thm.theory = theory => Satisfies(j, thm)
    BY <1>1, <2>2 DEF Sound
  <2> QED
    BY <2>2, <2>3
<1> QED
  BY <1>1, Conservativity, Soundness, PTL

\* In particular when there is one theory, as in KernelDefinitions and
\* KernelRefusal.
COROLLARY ConservativeAlone ==
  ASSUME MaxTheories = 1
  PROVE  Spec => [](Conservative /\ Consistent)
<1> DEFINE Alone == DOMAIN theories \subseteq {1}
<1>1. Init => Alone
  BY DEF Init
<1>2. ASSUME TypeOK, Alone, [Next]_vars
      PROVE  Alone'
  <2>1. CASE NewTheory
    <3>1. PICK n \in Nat : n = Len(theories) /\ DOMAIN theories = 1..n
      BY <1>2 DEF TypeOK
    <3>2. n = 0 /\ DOMAIN theories' = 1..(n + 1)
      BY <1>2, <2>1, <3>1 DEF NewTheory
    <3> QED
      BY <3>2
  <2> QED
    BY <1>2, <2>1, TheoriesMade
<1>3. Alone => Apart
  BY DEF Apart
<1> HIDE DEF Alone
<1> QED
  BY <1>1, <1>2, <1>3, TypeCorrect, Conservativity, Consistency, PTL DEF Spec
=============================================================================
