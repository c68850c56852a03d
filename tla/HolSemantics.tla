---------------------------- MODULE HolSemantics ----------------------------
(***************************************************************************)
(* The standard finite model that TLC reads the kernel's terms in: bool is *)
(* BOOLEAN, a function type is a set of functions, a type variable is      *)
(* {TRUE} or BOOLEAN, and the one carved type is a nonempty part of        *)
(* BOOLEAN with any abs and rep between the two.                           *)
(***************************************************************************)
EXTENDS HolTerms

CONSTANTS
  FreeVars,     \* the variables <<name, type>>, at bool, a type variable or the carved type
  TypeVars,     \* the names of the type variables
  BoolConsts,   \* the names of the constants of type bool
  CarvedType,   \* the carved type's name,
  AbsName,      \* its constants' names,
  RepName,
  Carvings      \* and the parts of BOOLEAN it may be

StdInterp ==
  UNION {[consts : [BoolConsts -> BOOLEAN], carved : {part},
          abs : [BOOLEAN -> part], rep : [part -> BOOLEAN]] : part \in Carvings}

RECURSIVE TypeDom(_, _, _)
TypeDom(i, types, ty) ==
  CASE IsTyVar(ty) -> types[ty.name]
    [] IsFun(ty) -> [TypeDom(i, types, ty.args[1]) -> TypeDom(i, types, ty.args[2])]
    [] ~IsTyVar(ty) /\ ty.name = CarvedType -> i.carved
    [] OTHER -> BOOLEAN

StdDom(i, v, ty) == TypeDom(i, v.types, ty)

StdVal(i) ==
  UNION {[types : {types},
          vars  : {vars \in [FreeVars -> BOOLEAN] :
                     \A x \in FreeVars : vars[x] \in TypeDom(i, types, x[2])}] :
           types \in [TypeVars -> {{TRUE}, BOOLEAN}]}

StdUpdate(v, x, d) == [v EXCEPT !.vars[<<x.name, x.ty>>] = d]

ConstDen(i, v, c) ==
  CASE c.name = EqName  -> LET values == StdDom(i, v, c.ty.args[1])
                           IN  [a \in values |-> [b \in values |-> a = b]]
    [] c.name = AbsName -> i.abs
    [] c.name = RepName -> i.rep
    [] OTHER            -> i.consts[c.name]

RECURSIVE DenIn(_, _, _, _)
\* env holds the values of the binders passed, the innermost first.
DenIn(i, v, env, t) ==
  CASE IsVar(t)   -> v.vars[<<t.name, t.ty>>]
    [] IsConst(t) -> ConstDen(i, v, t)
    [] IsEqn(t)   -> DenIn(i, v, env, Lhs(t)) = DenIn(i, v, env, Rhs(t))
    [] IsComb(t) /\ ~IsEqn(t) -> DenIn(i, v, env, t.rator)[DenIn(i, v, env, t.rand)]
    [] IsAbs(t)   -> [d \in StdDom(i, v, t.binder_type) |-> DenIn(i, v, <<d>> \o env, t.body)]
    [] OTHER      -> env[t.index + 1]

StdDen(i, v, t) == DenIn(i, v, <<>>, t)

StdSubstVal(i, theta, v) ==
  [v EXCEPT !.vars = [x \in FreeVars |->
     IF Var(x[1], x[2]) \in DOMAIN theta THEN StdDen(i, v, theta[Var(x[1], x[2])]) ELSE @[x]]]

\* The type variable A stands for what theta(A) stands for, and x : ty has the
\* value of x : theta(ty).
StdTySubstVal(i, theta, v) ==
  [types |-> [name \in TypeVars |-> StdDom(i, v, TySubst(theta, TyVar(name)))],
   vars  |-> [x \in FreeVars |-> v.vars[<<x[1], TySubst(theta, x[2])>>]]]

StdSymbol ==
  {<<"const", name>> : name \in BoolConsts \cup {AbsName, RepName}} \cup {<<"type", CarvedType>>}

StdMeaning(i, symbol) ==
  CASE symbol = <<"type", CarvedType>>  -> i.carved
    [] symbol = <<"const", AbsName>>    -> i.abs
    [] symbol = <<"const", RepName>>    -> i.rep
    [] OTHER                            -> i.consts[symbol[2]]
=============================================================================
