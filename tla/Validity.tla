------------------------------ MODULE Validity ------------------------------
(***************************************************************************)
(* The search with the derivations of the code, and what its answers say   *)
(* of the term: the truth table is the reference.                          *)
(***************************************************************************)
EXTENDS Taut, TautSearch

assignment(kase, atom) == IF kase = "true" THEN truth_assignment(atom) ELSE false_assignment(atom)

join_cases(atom, positive, negative) ==
  UNION {Apply("disj_cases", <<middle, positive, negative>>, <<>>) : middle \in em(atom)}

carried_back(normalized, thm) == Derive(eq_mp(sym(ok(normalized)), ok(thm)))

-----------------------------------------------------------------------------

\* The values of a closed proposition over bool, and of the functions in it:
\* v for the variables, env for the binders, the innermost first.
RECURSIVE Domain(_), Value(_, _, _)
Domain(ty) == IF IsFun(ty) THEN [Domain(ty.args[1]) -> Domain(ty.args[2])] ELSE BOOLEAN

Denotation(c) ==
  LET arg == Domain(c.ty.args[1]) IN
  CASE c.name = "="      -> [a \in arg |-> [b \in arg |-> a = b]]
    [] c.name = "not"    -> [a \in BOOLEAN |-> ~a]
    [] c.name = "and"    -> [a \in BOOLEAN |-> [b \in BOOLEAN |-> a /\ b]]
    [] c.name = "or"     -> [a \in BOOLEAN |-> [b \in BOOLEAN |-> a \/ b]]
    [] c.name = "imp"    -> [a \in BOOLEAN |-> [b \in BOOLEAN |-> a => b]]
    [] c.name = "forall" -> [f \in arg |-> \A a \in DOMAIN f : f[a]]
    [] c.name = "exists" -> [f \in arg |-> \E a \in DOMAIN f : f[a]]

Value(v, env, t) ==
  CASE IsVar(t)   -> v[t.name]
    [] IsConst(t) -> IF t = True THEN TRUE ELSE IF t = False THEN FALSE ELSE Denotation(t)
    [] IsComb(t)  -> Value(v, env, t.rator)[Value(v, env, t.rand)]
    [] IsAbs(t)   -> [d \in Domain(t.binder_type) |-> Value(v, <<d>> \o env, t.body)]
    [] OTHER      -> env[t.index + 1]

RECURSIVE Valuations(_)
Valuations(frees) ==
  IF frees = {} THEN {[n \in {} |-> TRUE]}
  ELSE LET x == CHOOSE x \in frees : TRUE
       IN  {[n \in DOMAIN v \cup {x[1]} |-> IF n = x[1] THEN d ELSE v[n]] :
              v \in Valuations(frees \ {x}), d \in Domain(x[2])}

Valid(t) == \A v \in Valuations(t.frees) : Value(v, <<>>, t)

\* The truth table: the value of t when the atoms in the set are true.
RECURSIVE Row(_, _)
Row(trues, t) ==
  CASE t = True -> TRUE
    [] t = False -> FALSE
    [] IsConj(t) -> Row(trues, Left(t)) /\ Row(trues, Right(t))
    [] IsImp(t)  -> Row(trues, Left(t)) => Row(trues, Right(t))
    [] IsDisj(t) -> Row(trues, Left(t)) \/ Row(trues, Right(t))
    [] IsNeg(t)  -> ~Row(trues, t.rand)
    [] boolean_equality(t) # <<>> -> Row(trues, Lhs(t)) = Row(trues, Rhs(t))
    [] OTHER -> t \in trues

SplitSet == {splits[i] : i \in DOMAIN splits}
Tautology == \A trues \in SUBSET SplitSet : Row(trues, Normalized)

(***************************************************************************)
(* A term that is proved holds whatever its variables stand for: no case   *)
(* of an atom was left out, and no budget ended a case early (taut.rs:1-6).*)
(***************************************************************************)
ProvedIsValid == outcome = "proved" => \A g \in asked : Valid(g.term)

\* The connectives above the atoms: a rewrite of a leaf takes one away.
RECURSIVE Skeleton(_)
Skeleton(t) ==
  IF Parts(t) = <<>> THEN 0
  ELSE 1 + Skeleton(Parts(t)[1]) + (IF Len(Parts(t)) = 2 THEN Skeleton(Parts(t)[2]) ELSE 0)

\* The call is one TAUT takes: a closed proposition within the bound on atoms.
Taken(call) == Proposition(call.term) /\ Len(splits) <= call.max_atoms

(***************************************************************************)
(* "taut proof-produces propositional tautologies by splitting at most 12  *)
(* boolean atoms" (src/README.md:220-222): a term whose truth table has no *)
(* false row is proved, unless the budget of a leaf ran out (taut.rs:212). *)
(* It is known to fail, in the run TautIncomplete, when an atom occurs in  *)
(* an atom split after it.                                                 *)
(***************************************************************************)
TautologiesAreProved ==
  (outcome \in {"none", "error"} /\ \A g \in asked : Taken(g)) =>
    ~Tautology \/ budget < Skeleton(Normalized)

(***************************************************************************)
(* "Failure is Ok(None)" (taut.rs:6): Err is an answer about the call, no  *)
(* proposition or too many atoms, never about what the search found.  It   *)
(* too is known to fail there.                                             *)
(***************************************************************************)
FailureIsNone == outcome = "error" => \A g \in asked : ~Taken(g)
=============================================================================
