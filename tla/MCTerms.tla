------------------------------ MODULE MCTerms -------------------------------
(***************************************************************************)
(* What every run of a kernel shares: the term layer of HolTerms, the      *)
(* finite model of HolSemantics, and a few terms.                          *)
(***************************************************************************)
EXTENDS TermNodes

CONSTANTS FreeVars, TypeVars, BoolConsts, Carvings

S == INSTANCE HolSemantics WITH
       CarvedType <- "part", AbsName <- "abs", RepName <- "rep"

MCTermAbs(v, body)           == S!TermAbs(v, body)
MCOpenAbs(abs, r)            == S!OpenAbs(abs, r)
MCSubst(theta, t)            == S!Subst(theta, t)
MCInstTypeTerm(theta, t)     == S!InstTypeTerm(theta, t)
MCTermTypeVars(t)            == S!TermTypeVars(t)
MCIsInstance(decl, instance) == S!IsInstance(decl, instance)
MCConstsOf(t)                == S!ConstsOf(t)
MCTyConsOf(t)                == S!TyConsOf(t)
MCInterp                     == S!StdInterp
Valuations                   == [i \in MCInterp |-> S!StdVal(i)]
MCVal(i)                     == Valuations[i]
MCDen(i, v, t)               == S!StdDen(i, v, t)
MCDom(i, v, ty)              == S!StdDom(i, v, ty)
MCUpdate(v, x, d)            == S!StdUpdate(v, x, d)
MCSubstVal(i, theta, v)      == S!StdSubstVal(i, theta, v)
MCTySubstVal(i, theta, v)    == S!StdTySubstVal(i, theta, v)
MCSymbol                     == S!StdSymbol
MCMeaning(i, symbol)         == S!StdMeaning(i, symbol)

Whole == {BOOLEAN}
Point == {{TRUE}}
Parts == {BOOLEAN, {TRUE}, {FALSE}}

Names(variables) == {<<x.name, x.ty>> : x \in variables}

\* theta with one key.
To(key, value) == [k \in {key} |-> value]

None == {}
NoNames == <<>>

-----------------------------------------------------------------------------

p == Var("p", Bool)
q == Var("q", Bool)
c == Const("c", Bool)

Id == S!TermAbs(p, p)      \* \p. p
Kq == S!TermAbs(p, q)      \* \p. q
App(f, x) == CombRaw(f, x)

\* A false closed term: (\p. p) = (\p. p = p).
Fls == Eqn(Id, S!TermAbs(p, Eqn(p, p)))
FlsSides == {Lhs(Fls), Rhs(Fls)}
=============================================================================
