------------------------------ MODULE TermOrder -----------------------------
(***************************************************************************)
(* The structural order on terms that ordered rewriting goes down,         *)
(* src/src/order.rs: HOL Light's dynamic lexicographic order, with a       *)
(* comparison of structures where the heads differ.                        *)
(***************************************************************************)
EXTENDS HolTerms, Integers

CONSTANT Alphabet       \* every name of a run, in the order of strings

\* -1, 0 or 1.
CompareNumbers(m, n) == IF m < n THEN -1 ELSE IF m > n THEN 1 ELSE 0

Letter(name) == CHOOSE i \in DOMAIN Alphabet : Alphabet[i] = name

CompareNames(s, t) == CompareNumbers(Letter(s), Letter(t))

ThenWith(first, second) == IF first # 0 THEN first ELSE second

\* Var < Const < Comb < Abs < Bound
ClassOf(t) ==
  CASE IsVar(t) -> 0 [] IsConst(t) -> 1 [] IsComb(t) -> 2 [] IsAbs(t) -> 3 [] OTHER -> 4

RECURSIVE CompareTypes(_, _), CompareArgs(_, _)

CompareTypes(l, r) ==
  CASE l = r                         -> 0
    [] IsTyVar(l) /\ IsTyVar(r)      -> CompareNames(l.name, r.name)
    [] IsTyVar(l) /\ ~IsTyVar(r)     -> -1
    [] ~IsTyVar(l) /\ IsTyVar(r)     -> 1
    [] OTHER -> ThenWith(CompareNames(l.name, r.name),
                ThenWith(CompareArgs(l.args, r.args),
                         CompareNumbers(Len(l.args), Len(r.args))))

CompareArgs(ls, rs) ==
  IF ls = <<>> \/ rs = <<>> THEN 0
  ELSE ThenWith(CompareTypes(Head(ls), Head(rs)), CompareArgs(Tail(ls), Tail(rs)))

RECURSIVE CompareTerms(_, _)
CompareTerms(l, r) ==
  CASE l = r -> 0
    [] ClassOf(l) # ClassOf(r) -> CompareNumbers(ClassOf(l), ClassOf(r))
    [] IsComb(l) /\ IsComb(r) ->
         ThenWith(CompareTerms(l.rator, r.rator), CompareTerms(l.rand, r.rand))
    [] IsAbs(l) /\ IsAbs(r) ->
         ThenWith(CompareTypes(l.binder_type, r.binder_type), CompareTerms(l.body, r.body))
    [] l.node = "Bound" /\ r.node = "Bound" ->
         ThenWith(CompareNumbers(l.index, r.index), CompareTypes(l.ty, r.ty))
    [] OTHER -> ThenWith(CompareNames(l.name, r.name), CompareTypes(l.ty, r.ty))

-----------------------------------------------------------------------------

\* f x y as f and <<x, y>>.
RECURSIVE HeadOf(_), ArgsOf(_)
HeadOf(t) == IF IsComb(t) THEN HeadOf(t.rator) ELSE t
ArgsOf(t) == IF IsComb(t) THEN Append(ArgsOf(t.rator), t.rand) ELSE <<>>

\* top is the set of at most one head that counts as the largest.
RECURSIVE DynGreater(_, _, _), Lexify(_, _, _)

DynGreater(top, l, r) ==
  CASE HeadOf(l) = HeadOf(r) -> Lexify({HeadOf(l)}, ArgsOf(l), ArgsOf(r))
    [] HeadOf(l) # HeadOf(r) /\ HeadOf(r) \in top -> FALSE
    [] HeadOf(l) # HeadOf(r) /\ HeadOf(r) \notin top /\ HeadOf(l) \in top -> TRUE
    [] OTHER -> CompareTerms(HeadOf(l), HeadOf(r)) = 1

Lexify(top, ls, rs) ==
  /\ ls # <<>>
  /\ \/ rs = <<>>
     \/ DynGreater(top, Head(ls), Head(rs))
     \/ Head(ls) = Head(rs) /\ Lexify(top, Tail(ls), Tail(rs))

TermGreater(l, r) == DynGreater({}, l, r)
=============================================================================
