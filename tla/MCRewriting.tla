----------------------------- MODULE MCRewriting ----------------------------
(***************************************************************************)
(* Small rule sets and terms over bool for the runs of Rewriting.          *)
(***************************************************************************)
EXTENDS Rewriting

p == Var("p", Bool)
q == Var("q", Bool)
BoolFun == Fun(Bool, Bool)
App(f, x) == CombRaw(f, x)
f(x) == App(Const("f", BoolFun), x)
g(x) == App(Const("g", BoolFun), x)
h(x) == App(Const("h", BoolFun), x)
c(x, y) == App(App(Const("c", Fun(Bool, BoolFun)), x), y)
Id == TermAbs(p, p)

\* The definition of T, as some equation of a term with itself.
TruthDefinition == {K!Thm(Here, {}, Eqn(Truth, Eqn(Id, Id)))}
Given(hyps, lhs, rhs) == K!Thm(Here, hyps, Eqn(lhs, rhs))

MCAlphabet == <<"=", "T", "_0", "_0'", "_1", "bool", "c", "f", "fun", "g", "h", "p", "q", "x", "y">>

-----------------------------------------------------------------------------
(* One condition, a binder, and a rule that only ordering tames. *)

SmallTheorems ==
  {<<"ff", Given({}, f(f(p)), p)>>,
   <<"gT", Given({}, g(Truth), Truth)>>,
   <<"hg", Given({g(p)}, h(p), f(p))>>,
   <<"kk", Given({}, TermAbs(q, p), App(Const("c", Fun(Bool, BoolFun)), p))>>,
   <<"comm", Given({}, c(p, q), c(q, p))>>,
   <<"swap", Given({g(p)}, c(p, q), c(q, p))>>,
   <<"var", Given({}, p, f(p))>>,
   <<"new", Given({}, f(p), c(p, q))>>,
   <<"gT", Given({}, f(Truth), Truth)>>}

Under(t) == TermAbs(p, t)

SmallTerms ==
  {f(f(h(Truth))), c(h(Truth), f(Truth)), Under(f(f(p))), Under(h(p)), Under(q),
   Under(c(Truth, h(Truth))), c(f(f(q)), g(Truth))}

SmallStrategies(rs) ==
  LET leaf == Rewrites(rs, NoConditions, FALSE)
      solver == OnceDepth(leaf)
      solving == Rewrites(rs, {solver}, FALSE)
      sorting == Rewrites(rs, {solver}, TRUE)
      ff == Rewr(rs, "ff", NoConditions, FALSE)
      comm == Rewr(rs, "comm", NoConditions, TRUE)
  IN  {FirstRedex(solving), OrElse(CombConv(solver), AbsConv(comm)), Repeat(FirstRedex(sorting), 3),
       Depth(sorting, 2), TopDown(solving, 2), ThenC(OrElse(No, Sub(solving)), All),
       ReDepth(ff)}

\* The operations on terms do what the proofs about replay ask of them.
ASSUME SmallTermsAreShaped ==
  WellShaped({t \in UNION {Subterms(term) : term \in SmallTerms} : Closed(t)} \cup {p, q}, 0..2)

NoOrder == {<<>>}
SmallResults == {Truth, f(Truth)}

-----------------------------------------------------------------------------
(* Two conditions, solved one by one, and the two orders their instances may *)
(* have been interned in. *)

SolvingOnly(rs) == {Rewrites(rs, {OnceDepth(Rewrites(rs, NoConditions, FALSE))}, FALSE)}

Solvers == {<<"gT", Given({}, g(Truth), Truth)>>, <<"hT", Given({}, h(Truth), Truth)>>}
TwoConditions == Solvers \cup {<<"two", Given({g(p), h(p)}, f(p), p)>>}
TwoTerms == {f(Truth)}
BothOrders == {<<g(p), h(p)>> \o s : s \in {<<g(Truth), h(Truth)>>, <<h(Truth), g(Truth)>>}}

(* A free variable with the name of an opener, gone after the first step. *)

OpenerTheorems == {<<"fT", Given({}, f(p), Truth)>>, <<"gp", Given({}, g(p), p)>>}
Zero == Var("_0", Bool)
OpenerTerms == {TermAbs(q, c(f(Zero), g(q)))}
OpenerStrategies(rs) == {Depth(Rewrites(rs, NoConditions, FALSE), 2)}

(* Two variables of the rule that one type substitution makes the same. *)

xA == Var("x", TyVar("A"))
xb == Var("x", Bool)
e(x, y) == App(App(Const("e", Fun(x.ty, Fun(y.ty, Bool))), x), y)
CollisionTheorems == {<<"e", Given({}, e(xA, xb), e(xb, xA))>>}
CollisionTerms == {e(p, q)}
CollisionOrders == {<<xA, xb>>, <<xb, xA>>}
LeafOnly(rs) == {Rewrites(rs, NoConditions, FALSE)}
NoResults == {}
=============================================================================
