------------------------------ MODULE Matching ------------------------------
(***************************************************************************)
(* First-order matching of a pattern against a term, src/src/matching.rs.  *)
(* A match has a type substitution and a term substitution; an operation   *)
(* that may answer None answers with a set of at most one match.           *)
(***************************************************************************)
EXTENDS HolTerms, Ranks, SequencesExt

\* A list kept sorted by rank: the hypotheses of a theorem, a BTreeMap.
ByRank(terms) == SetToSortSeq(terms, Older)

-----------------------------------------------------------------------------

NoMatch == [types |-> NoTypes, terms |-> NoTypes]

UnifyType(pattern, target, m) ==
  {[m EXCEPT !.types = theta] : theta \in TyMatch(pattern, target, m.types)}

Bound1(theta, v, t) == [x \in DOMAIN theta \cup {v} |-> IF x = v THEN t ELSE theta[x]]

\* Mutant: a variable takes a bound occurrence too.
MatchVarOpen(pattern, term, variables, m) ==
  IF pattern \notin variables
  THEN IF pattern = term THEN {m} ELSE {}
  ELSE {[n EXCEPT !.terms = Bound1(@, pattern, term)] :
          n \in {n \in UnifyType(pattern.ty, term.ty, m) :
                   pattern \in DOMAIN n.terms => n.terms[pattern] = term}}

\* A variable of the rule takes any closed term, the same one every time.
MatchVar(pattern, term, variables, m) ==
  IF pattern \notin variables
  THEN IF pattern = term THEN {m} ELSE {}
  ELSE {[n EXCEPT !.terms = Bound1(@, pattern, term)] :
          n \in {n \in IF Closed(term) THEN UnifyType(pattern.ty, term.ty, m) ELSE {} :
                   pattern \in DOMAIN n.terms => n.terms[pattern] = term}}

RECURSIVE MatchWalk(_, _, _, _)
MatchWalk(pattern, term, variables, m) ==
  CASE IsVar(pattern) -> MatchVar(pattern, term, variables, m)
    [] IsConst(pattern) /\ IsConst(term) ->
         IF pattern.name = term.name THEN UnifyType(pattern.ty, term.ty, m) ELSE {}
    [] pattern.node = "Bound" /\ term.node = "Bound" ->
         IF pattern.index = term.index THEN UnifyType(pattern.ty, term.ty, m) ELSE {}
    [] IsComb(pattern) /\ IsComb(term) ->
         UNION {MatchWalk(pattern.rand, term.rand, variables, n) :
                  n \in MatchWalk(pattern.rator, term.rator, variables, m)}
    [] IsAbs(pattern) /\ IsAbs(term) ->
         UNION {MatchWalk(pattern.body, term.body, variables, n) :
                  n \in UnifyType(pattern.binder_type, term.binder_type, m)}
    [] OTHER -> {}

\* The pattern's instantiable variables: those not among them occur literally.
MatchPattern(pattern, term, variables) == MatchWalk(pattern, term, variables, NoMatch)

-----------------------------------------------------------------------------

\* The term substitution keyed by the variables as the type substitution
\* leaves them.  Where it merges two, the younger variable is written last.
RetypedIn(ranked, m) ==
  LET key(v) == InstTypeTerm(m.types, v)
      last(k) == CHOOSE v \in DOMAIN m.terms :
                   /\ key(v) = k
                   /\ \A w \in DOMAIN m.terms : key(w) = k => w = v \/ OlderIn(ranked, w, v)
  IN  [k \in {key(v) : v \in DOMAIN m.terms} |-> m.terms[last(k)]]

Retyped(m) == RetypedIn(order, m)

InstantiateMatch(m, term) == Subst(Retyped(m), InstTypeTerm(m.types, term))
=============================================================================
