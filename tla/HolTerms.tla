------------------------------ MODULE HolTerms ------------------------------
(***************************************************************************)
(* The recursive half of types.rs and term.rs: substitution of types,      *)
(* one-way matching of types, binding, opening and substitution of terms.  *)
(*                                                                         *)
(* A substitution is a function whose domain is the set of its keys.  An   *)
(* operation that may answer None answers with a set of at most one value. *)
(***************************************************************************)
EXTENDS TermNodes

RECURSIVE TySubst(_, _), TyMatch(_, _, _), TyMatchArgs(_, _, _)

TySubst(theta, ty) ==
  IF IsTyVar(ty)
  THEN IF ty \in DOMAIN theta THEN theta[ty] ELSE ty
  ELSE TyCon(ty.name, [i \in DOMAIN ty.args |-> TySubst(theta, ty.args[i])])

\* The substitutions extending acc that turn pattern into target.
TyMatch(pattern, target, acc) ==
  CASE IsTyVar(pattern) /\ pattern \in DOMAIN acc ->
         IF acc[pattern] = target THEN {acc} ELSE {}
    [] IsTyVar(pattern) /\ pattern \notin DOMAIN acc ->
         {[ty \in DOMAIN acc \cup {pattern} |-> IF ty = pattern THEN target ELSE acc[ty]]}
    [] OTHER ->
         IF /\ ~IsTyVar(target)
            /\ pattern.name = target.name
            /\ Len(pattern.args) = Len(target.args)
         THEN TyMatchArgs(pattern.args, target.args, acc)
         ELSE {}

TyMatchArgs(patterns, targets, acc) ==
  IF patterns = <<>>
  THEN {acc}
  ELSE UNION {TyMatchArgs(Tail(patterns), Tail(targets), theta) :
                theta \in TyMatch(Head(patterns), Head(targets), acc)}

NoTypes == [ty \in {} |-> ty]

IsInstance(declared, instance) == TyMatch(declared, instance, NoTypes) # {}

-----------------------------------------------------------------------------

RECURSIVE TermTypeVars(_), Bind(_, _, _), SubstBound(_, _, _), Subst(_, _),
          InstTypeTerm(_, _)

TermTypeVars(t) ==
  CASE IsComb(t) -> TermTypeVars(t.rator) \cup TermTypeVars(t.rand)
    [] IsAbs(t)  -> t.binder_type.vars \cup TermTypeVars(t.body)
    [] OTHER     -> t.ty.vars

\* Free occurrences of v become the index depth.
Bind(t, v, depth) ==
  CASE ~FreeIn(v, t) -> t
    [] FreeIn(v, t) /\ IsComb(t) ->
         CombRaw(Bind(t.rator, v, depth), Bind(t.rand, v, depth))
    [] FreeIn(v, t) /\ IsAbs(t) ->
         AbsRaw(t.binder_type, Bind(t.body, v, depth + 1))
    [] OTHER -> Bound(depth, t.ty)

\* Occurrences of the index depth become r.
SubstBound(t, r, depth) ==
  CASE t.loose <= depth -> t
    [] t.loose > depth /\ IsComb(t) ->
         CombRaw(SubstBound(t.rator, r, depth), SubstBound(t.rand, r, depth))
    [] t.loose > depth /\ IsAbs(t) ->
         AbsRaw(t.binder_type, SubstBound(t.body, r, depth + 1))
    [] OTHER -> IF t.index = depth THEN r ELSE t

\* term_abs: refused unless v is a variable and body is closed.
TermAbs(v, body) == AbsRaw(v.ty, Bind(body, v, 0))

\* open_abs: refused unless r is closed and of the binder's type.
OpenAbs(abs, r) == SubstBound(abs.body, r, 0)

Subst(theta, t) ==
  CASE ~\E v \in DOMAIN theta : FreeIn(v, t) -> t
    [] (\E v \in DOMAIN theta : FreeIn(v, t)) /\ IsComb(t) ->
         CombRaw(Subst(theta, t.rator), Subst(theta, t.rand))
    [] (\E v \in DOMAIN theta : FreeIn(v, t)) /\ IsAbs(t) ->
         AbsRaw(t.binder_type, Subst(theta, t.body))
    [] OTHER -> theta[t]

InstTypeTerm(theta, t) ==
  CASE t.node = "Var"   -> Var(t.name, TySubst(theta, t.ty))
    [] t.node = "Const" -> Const(t.name, TySubst(theta, t.ty))
    [] t.node = "Bound" -> Bound(t.index, TySubst(theta, t.ty))
    [] t.node = "Comb"  -> CombRaw(InstTypeTerm(theta, t.rator), InstTypeTerm(theta, t.rand))
    [] t.node = "Abs"   -> AbsRaw(TySubst(theta, t.binder_type), InstTypeTerm(theta, t.body))

-----------------------------------------------------------------------------
(***************************************************************************)
(* What a term mentions: the constants and the type constructors, with     *)
(* their arities, that must be declared before a caller can build it.      *)
(***************************************************************************)
RECURSIVE ConstsOf(_), TyConsOf(_), TypeConsIn(_)

ConstsOf(t) ==
  CASE IsConst(t) -> {t}
    [] IsComb(t)  -> ConstsOf(t.rator) \cup ConstsOf(t.rand)
    [] IsAbs(t)   -> ConstsOf(t.body)
    [] OTHER      -> {}

TypeConsIn(ty) ==
  IF IsTyVar(ty) THEN {}
  ELSE {<<ty.name, Len(ty.args)>>} \cup UNION {TypeConsIn(ty.args[i]) : i \in DOMAIN ty.args}

TyConsOf(t) ==
  CASE IsComb(t) -> TyConsOf(t.rator) \cup TyConsOf(t.rand)
    [] IsAbs(t)  -> TypeConsIn(t.binder_type) \cup TyConsOf(t.body)
    [] OTHER     -> TypeConsIn(t.ty)

RECURSIVE Subterms(_)
Subterms(t) ==
  CASE IsComb(t) -> {t} \cup Subterms(t.rator) \cup Subterms(t.rand)
    [] IsAbs(t)  -> {t} \cup Subterms(t.body)
    [] OTHER     -> {t}
=============================================================================
