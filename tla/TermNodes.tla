----------------------------- MODULE TermNodes -----------------------------
(***************************************************************************)
(* Types and terms as src/src/kernel/types.rs and term.rs build them: a    *)
(* node together with the data its constructor caches beside it.           *)
(*                                                                         *)
(* In the code a type or a term is its rank in an intern table and two     *)
(* equal nodes have one rank (module Interner); here it is the node        *)
(* itself, so equality of values is equality of ranks.  The binder's       *)
(* display name is no part of the intern key and is left out.  Cached      *)
(* variable lists are sets: only their elements are ever read here.        *)
(*                                                                         *)
(* Nothing in this module recurses: like the code, a constructor reads     *)
(* the cached data of its children.                                        *)
(***************************************************************************)
EXTENDS Naturals, Sequences

(***************************************************************************)
(* Types.  `vars' holds the names of the type variables.                   *)
(***************************************************************************)
TyVar(name) == [kind |-> "tyvar", name |-> name, args |-> <<>>, vars |-> {name}]

TyCon(name, args) ==
  [kind |-> "tycon", name |-> name, args |-> args,
   vars |-> UNION {args[i].vars : i \in DOMAIN args}]

Bool == TyCon("bool", <<>>)

Fun(dom, cod) == TyCon("fun", <<dom, cod>>)

IsTyVar(ty) == ty.kind = "tyvar"

IsFun(ty) == ty.kind = "tycon" /\ ty.name = "fun" /\ Len(ty.args) = 2

(***************************************************************************)
(* Terms.  ty, loose and frees are the cached Info of a node; a variable   *)
(* is named in frees by the pair that is its identity.                     *)
(***************************************************************************)
Var(name, ty) ==
  [node |-> "Var", name |-> name, ty |-> ty, loose |-> 0, frees |-> {<<name, ty>>}]

Const(name, ty) ==
  [node |-> "Const", name |-> name, ty |-> ty, loose |-> 0, frees |-> {}]

Bound(index, ty) ==
  [node |-> "Bound", index |-> index, ty |-> ty, loose |-> index + 1, frees |-> {}]

\* comb_raw: refused unless CanApply.
CanApply(rator, rand) == IsFun(rator.ty) /\ rator.ty.args[1] = rand.ty

CombRaw(rator, rand) ==
  [node |-> "Comb", rator |-> rator, rand |-> rand,
   ty |-> rator.ty.args[2],
   loose |-> IF rator.loose < rand.loose THEN rand.loose ELSE rator.loose,
   frees |-> rator.frees \cup rand.frees]

AbsRaw(binderType, body) ==
  [node |-> "Abs", binder_type |-> binderType, body |-> body,
   ty |-> Fun(binderType, body.ty),
   loose |-> IF body.loose = 0 THEN 0 ELSE body.loose - 1,
   frees |-> body.frees]

IsVar(t)   == t.node = "Var"
IsConst(t) == t.node = "Const"
IsComb(t)  == t.node = "Comb"
IsAbs(t)   == t.node = "Abs"

Closed(t) == t.loose = 0

FreeIn(v, t) == <<v.name, v.ty>> \in t.frees

(***************************************************************************)
(* Equations.  term_eq does not ask for closed operands.                   *)
(***************************************************************************)
EqName == "="

EqConst(ty) == Const(EqName, Fun(ty, Fun(ty, Bool)))

CanEquate(lhs, rhs) == lhs.ty = rhs.ty

Eqn(lhs, rhs) == CombRaw(CombRaw(EqConst(lhs.ty), lhs), rhs)

\* dest_eq: the head is recognised by its name alone.
IsEqn(t) ==
  /\ IsComb(t)
  /\ IsComb(t.rator)
  /\ IsConst(t.rator.rator)
  /\ t.rator.rator.name = EqName

Lhs(eqn) == eqn.rator.rand
Rhs(eqn) == eqn.rand

\* term_comb, unlike comb_raw, also refuses an open operand.
CanComb(rator, rand) == Closed(rator) /\ Closed(rand) /\ CanApply(rator, rand)

Proposition(t) == Closed(t) /\ t.ty = Bool
=============================================================================
