-------------------------- MODULE NaturalDeduction --------------------------
(***************************************************************************)
(* What the rules of src/src/logic/ promise: each answers one sequent,     *)
(* written here without a derivation, or refuses.  A hypothesis may go     *)
(* where it was proved on the way; none may come from nowhere.             *)
(*                                                                         *)
(* A call is [rule, thms, terms].  A rule may beta-reduce what it unfolds: *)
(* given a redex, it may answer the reduct instead, or find that what it   *)
(* made no longer fits and refuse.                                         *)
(***************************************************************************)
EXTENDS Connectives, SequencesExt

CONSTANT Names        \* the names a binder may have been interned with first

VARIABLES
  display,            \* the one it was: of every binder, the rules open them by it
  called,               \* the last call, {} or {c}
  answered              \* the theorems it answered, none if it refused

Gives(hyps, concl) == {Thm(Here, hyps, concl)}
When(condition, result) == IF condition THEN result ELSE {}

NotFreeIn(v, terms) == \A t \in terms : ~FreeIn(v, t)

\* A generalisation over v.
Generalises(v, hyps, concl) == When(IsVar(v) /\ NotFreeIn(v, hyps), Gives(hyps, MkForall(v, concl)))

\* The instance of a quantified proposition, beta-normal for what is called.
InstanceOf(quantified, term) == OpenAbs(quantified.rand, term)
Fits(quantified, term) == Closed(term) /\ term.ty = quantified.rand.binder_type

OneSequent(rule, a) ==
  LET c == a.concl IN
  CASE rule = "conjunct1" -> When(IsConj(c), Gives(a.hyps, Left(c)))
    [] rule = "conjunct2" -> When(IsConj(c), Gives(a.hyps, Right(c)))
    [] rule = "undisch"   -> When(IsImp(c), Gives(a.hyps \cup {Left(c)}, Right(c)))
    [] rule = "eq_imp_rule" ->
         When(IsEqn(c) /\ Lhs(c).ty = Bool,
              Gives(a.hyps \ {Lhs(c)}, MkImp(Lhs(c), Rhs(c)))
                \cup Gives(a.hyps \ {Rhs(c)}, MkImp(Rhs(c), Lhs(c))))
    [] rule = "not_elim"  -> When(IsNeg(c), Gives(a.hyps, MkImp(c.rand, False)))
    [] rule = "not_intro" -> When(IsImp(c) /\ Right(c) = False, Gives(a.hyps, MkNeg(Left(c))))
    [] rule = "eqf_intro" -> When(IsNeg(c), Gives(a.hyps \ {c.rand}, Eqn(c.rand, False)))
    [] rule = "eqf_elim"  ->
         When(IsEqn(c) /\ Rhs(c) = False, Gives(a.hyps \ {Lhs(c)}, MkNeg(Lhs(c))))

TwoSequents(rule, a, b) ==
  LET both == a.hyps \cup b.hyps IN
  CASE rule = "conj" -> Gives(both, MkConj(a.concl, b.concl))
    [] rule = "mp"   -> When(IsImp(a.concl) /\ b.concl = Left(a.concl), Gives(both, Right(a.concl)))
    [] rule = "imp_trans" ->
         When(IsImp(a.concl) /\ IsImp(b.concl) /\ Left(b.concl) = Right(a.concl),
              Gives(both \ {Left(a.concl)}, MkImp(Left(a.concl), Right(b.concl))))
    \* The two need not be converses: then the antecedents stay.
    [] rule = "imp_antisym_rule" ->
         When(IsImp(a.concl) /\ IsImp(b.concl),
              Gives(((a.hyps \cup {Left(a.concl)}) \ {Right(b.concl)})
                      \cup ((b.hyps \cup {Left(b.concl)}) \ {Right(a.concl)}),
                    Eqn(Right(b.concl), Right(a.concl))))
    \* The variable is the binder's, under its display name.
    [] rule = "choose" ->
         When(IsExists(a.concl),
              LET v == Opener(display, a.concl.rand)
                  used == b.hyps \ {InstanceOf(a.concl, v), a.concl}
              IN  When(NotFreeIn(v, a.hyps \cup used \cup {b.concl}),
                       Gives(a.hyps \cup used, b.concl)))

SequentAndTerm(rule, a, t) ==
  CASE rule = "disch" -> When(Proposition(t), Gives(a.hyps \ {t}, MkImp(t, a.concl)))
    [] rule = "contr" -> When(a.concl = False /\ Proposition(t), Gives(a.hyps, t))
    [] rule = "spec"  -> When(IsForall(a.concl) /\ Fits(a.concl, t), Gives(a.hyps, InstanceOf(a.concl, t)))
    [] rule = "gen"   -> Generalises(t, a.hyps, a.concl)
    [] rule = "disj1" -> When(Proposition(t), Gives(a.hyps, MkDisj(a.concl, t)))
    [] rule = "disj2" -> When(Proposition(t), Gives(a.hyps, MkDisj(t, a.concl)))
    [] rule = "simple_exists" -> When(IsVar(t), Gives(a.hyps, MkExists(t, a.concl)))

\* A case loses its disjunct, and the disjunction goes where it was assumed;
\* so does, in the left case, that the right one implies the goal.
Cases(d, l, r) ==
  When(IsDisj(d.concl) /\ l.concl = r.concl,
       LET proved == MkImp(Right(d.concl), l.concl)
       IN  Gives(d.hyps \cup ((((l.hyps \ {Left(d.concl)}) \ {proved})
                                 \cup (r.hyps \ {Right(d.concl)})) \ {d.concl}),
                 l.concl))

Witnessed(existential, witness, a) ==
  When(IsExists(existential) /\ Fits(existential, witness) /\ a.concl = InstanceOf(existential, witness),
       Gives(a.hyps, existential))

AllDischarged(a, hyps) == Gives({}, FoldRight(MkImp, hyps, a.concl))

\* What @ selects; \x. f x counts as f.
Selected(a) ==
  LET predicate == a.concl.rand
      v == AnyOpener(predicate)
      body == OpenAbs(predicate, v)
      expanded == IsAbs(predicate) /\ IsComb(body) /\ body.rand = v /\ ~FreeIn(v, body.rator)
      select(f) == CombRaw(Const("select", Fun(f.ty, f.ty.args[1])), f)
  IN  When(IsUnary("exists", a.concl),
           Gives(a.hyps, IF expanded THEN CombRaw(body.rator, select(body.rator))
                         ELSE IF IsAbs(predicate) THEN InstanceOf(a.concl, select(predicate))
                         ELSE CombRaw(predicate, select(predicate))))

ExcludedMiddle(t) == When(Proposition(t), Gives({}, MkDisj(t, MkNeg(t))))

Promised(c) ==
  CASE c.rule = "disch_all"   -> AllDischarged(c.thms[1], c.terms)
    [] c.rule = "disj_cases"  -> Cases(c.thms[1], c.thms[2], c.thms[3])
    [] c.rule = "exists"      -> Witnessed(c.terms[1], c.terms[2], c.thms[1])
    [] c.rule = "select_rule" -> Selected(c.thms[1])
    [] c.rule = "em"          -> ExcludedMiddle(c.terms[1])
    [] OTHER -> IF Len(c.thms) = 2 THEN TwoSequents(c.rule, c.thms[1], c.thms[2])
                ELSE IF c.terms = <<>> THEN OneSequent(c.rule, c.thms[1])
                ELSE SequentAndTerm(c.rule, c.thms[1], c.terms[1])

RECURSIVE BetaNormal(_)
BetaNormal(t) ==
  CASE IsBetaRedex(t) -> BetaNormal(OpenAbs(t.rator, t.rand))
    [] IsComb(t) /\ ~IsBetaRedex(t) ->
         LET reduced == CombRaw(BetaNormal(t.rator), BetaNormal(t.rand))
         IN  IF IsBetaRedex(reduced) THEN BetaNormal(reduced) ELSE reduced
    [] IsAbs(t) -> TermAbs(AnyOpener(t), BetaNormal(OpenAbs(t, AnyOpener(t))))
    [] OTHER -> t

HasRedex(t) == \E s \in Subterms(t) : IsBetaRedex(s)
Given(c) ==
  UNION {c.thms[i].hyps \cup {c.thms[i].concl} : i \in DOMAIN c.thms}
    \cup {c.terms[i] : i \in DOMAIN c.terms}

Init == display \in Names /\ called = {} /\ answered = {}

Call ==
  /\ UNCHANGED display
  /\ \E c \in called' :
       /\ called' = {c}
       /\ \/ answered' = Promised(c)
          \/ /\ \E t \in Given(c) : HasRedex(t)
             /\ answered' \in {{}, {[thm EXCEPT !.concl = BetaNormal(@)] : thm \in Promised(c)}}

Spec == Init /\ [][Call]_<<display, called, answered>>
=============================================================================
