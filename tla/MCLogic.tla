------------------------------- MODULE MCLogic ------------------------------
(***************************************************************************)
(* Small theorems, terms and propositions for the runs of LogicProgram.    *)
(***************************************************************************)
EXTENDS LogicProgram

p == Var("p", Bool)
q == Var("q", Bool)
x == Var("x", Bool)
App(f, a) == CombRaw(f, a)
Fn(a) == App(Var("f", Unary), a)
Q(a) == App(Var("P", Unary), a)
Redex == App(TermAbs(x, x), p)
All == MkForall(x, Q(x))

-----------------------------------------------------------------------------
(* The rules, at the type variable A and at bool. *)

At(a) == App(Predicate, a)
yVar == Var("y", TyA)
EveryA == MkForall(xVar, At(xVar))
SomeA == MkExists(xVar, At(xVar))

SmallFacts ==
  {Thm(Here, {}, MkImp(p, q)), Thm(Here, {p, MkImp(p, q)}, q), Thm(Here, {q}, p),
   Thm(Here, {q}, MkImp(q, p)), Thm(Here, {q}, MkImp(p, False)), Thm(Here, {}, MkDisj(p, q)),
   Thm(Here, {p, At(xVar)}, At(yVar)), Thm(Here, {}, SomeA), Thm(Here, {At(yVar)}, EveryA),
   Thm(Here, {p}, MkNeg(p)), Thm(Here, {q}, MkConj(p, q)), Thm(Here, {p}, Eqn(p, False)),
   Thm(Here, {}, False), Thm(Here, {}, Redex), Thm(Here, {At(xVar)}, SomeA),
   Thm(Here, {q}, MkExists(x, MkDisj(x, q))), Thm(Here, {}, CombRaw(SomeA.rator, Predicate))}

SmallTerms == {p, q, Var("r", Bool), xVar, yVar, At(xVar), MkImp(p, q), Redex}
SmallExistentials == {SomeA, MkExists(xVar, At(yVar)), p}

-----------------------------------------------------------------------------
(* The propositions for TAUT. *)

SmallPropositions ==
  {MkDisj(p, MkNeg(p)),                               \* a tautology of one atom
   MkImp(MkConj(p, q), Eqn(q, p)),                    \* of two, with an equality
   MkImp(p, q),                                       \* none
   MkDisj(Fn(p), MkDisj(MkNeg(Fn(p)), p)),            \* the outer atom first
   MkImp(p, Fn(p)),                                   \* the inner atom first
   MkImp(p, Eqn(Fn(p), Fn(True))),                    \* valid, and no tautology
   MkImp(All, MkDisj(Q(x), All)),                     \* the quantified atom first
   MkImp(Redex, p),                                   \* a redex
   MkImp(Eqn(xVar, yVar), Eqn(xVar, yVar)), xVar}     \* no equality of propositions

\* Tautologies in which an atom occurs in one that is split after it.
NestedPropositions ==
  {MkDisj(p, MkDisj(Fn(p), MkNeg(Fn(p)))),            \* replaced there: no proof
   MkImp(Q(x), MkDisj(All, MkNeg(All)))}              \* captured under x: refused

MCNames == {"x", "y"}
AllNames == {"T", "forall", "imp", "not", "select"}
SmallAtomLimits == {1, 12}
SmallBudgets == {1, 200}
=============================================================================
