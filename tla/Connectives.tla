----------------------------- MODULE Connectives ----------------------------
(***************************************************************************)
(* The connectives as terms, src/src/logic/mod.rs, and the definitions     *)
(* install_logic makes of them, src/src/logic/ and src/src/booleans.rs.    *)
(* A name is spelled out: "and" for the wedge, "forall" for the turned A.  *)
(***************************************************************************)
EXTENDS BetaReduction

LogicNames == <<"T", "and", "forall", "imp", "F", "or", "exists", "not">>

Unary  == Fun(Bool, Bool)
Binary == Fun(Bool, Unary)
QuantifierType(element) == Fun(Fun(element, Bool), Bool)

True  == Const("T", Bool)
False == Const("F", Bool)

\* Of propositions: the code refuses any other, and no rule asks for one.
MkBinary(name, l, r) == CombRaw(CombRaw(Const(name, Binary), l), r)
MkQuantified(name, v, body) == CombRaw(Const(name, QuantifierType(v.ty)), TermAbs(v, body))

MkConj(l, r) == MkBinary("and", l, r)
MkImp(l, r)  == MkBinary("imp", l, r)
MkDisj(l, r) == MkBinary("or", l, r)
MkNeg(t)     == CombRaw(Const("not", Unary), t)
MkForall(v, body) == MkQuantified("forall", v, body)
MkExists(v, body) == MkQuantified("exists", v, body)

\* The head is recognised by its name alone.
IsBinary(name, t) ==
  IsComb(t) /\ IsComb(t.rator) /\ IsConst(t.rator.rator) /\ t.rator.rator.name = name
IsUnary(name, t) == IsComb(t) /\ IsConst(t.rator) /\ t.rator.name = name

Left(t)  == t.rator.rand
Right(t) == t.rand

IsConj(t) == IsBinary("and", t)
IsImp(t)  == IsBinary("imp", t)
IsDisj(t) == IsBinary("or", t)
IsNeg(t)  == IsUnary("not", t)
IsForall(t) == IsUnary("forall", t) /\ IsAbs(t.rand)
IsExists(t) == IsUnary("exists", t) /\ IsAbs(t.rand)

-----------------------------------------------------------------------------
(***************************************************************************)
(* What new_basic_definition answers for each.                             *)
(***************************************************************************)
TyA == TyVar("A")
pVar == Var("p", Bool)
qVar == Var("q", Bool)
xVar == Var("x", TyA)
Predicate == Var("P", Fun(TyA, Bool))
Identity == TermAbs(pVar, pVar)

Defined(name, rhs) == Thm(Here, {}, Eqn(Const(name, rhs.ty), rhs))
Lambda2(v, w, body) == TermAbs(v, TermAbs(w, body))

TruthDefinition == Defined("T", Eqn(Identity, Identity))

\* (\f. f p q) = (\f. f T T)
ConjunctionDefinition ==
  LET f == Var("f", Binary)
      selected(a, b) == TermAbs(f, CombRaw(CombRaw(f, a), b))
  IN  Defined("and", Lambda2(pVar, qVar, Eqn(selected(pVar, qVar), selected(True, True))))

UniversalDefinition == Defined("forall", TermAbs(Predicate, Eqn(Predicate, TermAbs(xVar, True))))

ImplicationDefinition == Defined("imp", Lambda2(pVar, qVar, Eqn(MkConj(pVar, qVar), pVar)))

FalsityDefinition == Defined("F", MkForall(pVar, pVar))

DisjunctionDefinition ==
  LET r == Var("r", Bool)
      cases == MkImp(MkImp(pVar, r), MkImp(MkImp(qVar, r), r))
  IN  Defined("or", Lambda2(pVar, qVar, MkForall(r, cases)))

ExistentialDefinition ==
  LET every == MkForall(xVar, MkImp(CombRaw(Predicate, xVar), qVar))
  IN  Defined("exists", TermAbs(Predicate, MkForall(qVar, MkImp(every, qVar))))

NegationDefinition == Defined("not", TermAbs(pVar, MkImp(pVar, False)))

Definition(name) ==
  CASE name = "T"      -> TruthDefinition
    [] name = "and"    -> ConjunctionDefinition
    [] name = "forall" -> UniversalDefinition
    [] name = "imp"    -> ImplicationDefinition
    [] name = "F"      -> FalsityDefinition
    [] name = "or"     -> DisjunctionDefinition
    [] name = "exists" -> ExistentialDefinition
    [] name = "not"    -> NegationDefinition
=============================================================================
