----------------------------- MODULE Conversions ----------------------------
(***************************************************************************)
(* Conversions and the two witness algebras they run in,                   *)
(* src/src/conversion.rs, witness.rs and rewriter.rs.                      *)
(*                                                                         *)
(* A conversion is a value: a record that names the combinator and holds   *)
(* its parts, and Call runs it.  The answer Ok(Some(w)) is {{w}}, Ok(None) *)
(* is {{}} and Err is {}.  The algebra is "theorem", which calls the       *)
(* rules as it goes, or "steps", which writes down what it did.            *)
(***************************************************************************)
EXTENDS Replay, TermOrder

\* The witnesses of both algebras, which prove or record in this theory.
W == INSTANCE Witnesses WITH
       term_abs <- TermAbs, open_abs <- OpenAbs, subst <- Subst, inst_type_term <- InstTypeTerm

Some(witnesses) == {{w} : w \in witnesses}
None == {{}}

\* The answer of IfSome on the witness of an answer, and of IfNone without.
Match(answers, IfSome(_), IfNone) ==
  UNION {IF answer = {} THEN IfNone ELSE UNION {IfSome(w) : w \in answer} : answer \in answers}

Conv(op) == [op |-> op]
All == Conv("all")
No  == Conv("no")
ThenC(first, second)  == [op |-> "then", first |-> first, second |-> second]
OrElse(first, second) == [op |-> "orelse", first |-> first, second |-> second]
Rewrites(rules, conditions, ordered) ==
  [op |-> "rewrites", rules |-> rules, conditions |-> conditions, ordered |-> ordered]
Rewr(rules, name, conditions, ordered) ==
  [op |-> "rewr", rules |-> rules, name |-> name, conditions |-> conditions,
   ordered |-> ordered]
Repeat(conv, limit)  == [op |-> "repeat", conv |-> conv, limit |-> limit]
Sub(conv)            == [op |-> "sub", conv |-> conv]
CombConv(conv)       == [op |-> "comb", conv |-> conv]
AbsConv(conv)        == [op |-> "abs", conv |-> conv]
Depth(conv, limit)   == [op |-> "depth", conv |-> conv, limit |-> limit]
TopDown(conv, limit) == [op |-> "topdown", conv |-> conv, limit |-> limit]
ReDepth(conv)        == [op |-> "redepth", conv |-> conv]
OnceDepth(conv)      == [op |-> "oncedepth", conv |-> conv]
FirstRedex(conv)     == [op |-> "firstredex", conv |-> conv]
NoConditions == {}      \* Option<Conv>: {} or {conv}

-----------------------------------------------------------------------------

\* Each side matches the other.
IsPermutative(rule) ==
  /\ MatchPattern(rule.lhs, rule.rhs, rule.variables) # {}
  /\ MatchPattern(rule.rhs, rule.lhs, rule.variables) # {}

-----------------------------------------------------------------------------

RECURSIVE Call(_, _, _, _), RewriteWitness(_, _, _, _, _), DischargeAll(_, _, _),
          RunRepeat(_, _, _, _, _)

\* certify: the conversion run in the steps algebra, and run once more to
\* see whether it has anything left to do.
Certify(conv, term) ==
  IF ~Closed(term) THEN {}
  ELSE UNION {
    {Certificate(term, w.steps, w.result, \A next \in again : next.steps = <<>>) :
       again \in Call(conv, "steps", w.result, 0)} :
    w \in UNION {IF answer = {} THEN W!ReflWitness(Here, "steps", term) ELSE answer :
                   answer \in Call(conv, "steps", term, 0)}}

\* prove: the theorem the conversion proves in the theorem algebra.
Prove(conv, term) ==
  UNION {w.thm : w \in UNION {IF answer = {} THEN W!ReflWitness(Here, "theorem", term) ELSE answer :
                                answer \in Call(conv, "theorem", term, 0)}}

\* Mutant: no condition is ever looked at.
LeftCondition(hyp, m, conditions) == {Assumed}

\* What the steps algebra says of a hypothesis of the rule.
SolvedCondition(hyp, m, conditions) ==
  {IF certificate # {} /\ \A c \in certificate : c.result = Truth
   THEN Discharged(CHOOSE c \in certificate : TRUE)
   ELSE Assumed :
     certificate \in IF conditions = {} THEN None
                     ELSE UNION {Some(Certify(conv, InstantiateMatch(m, hyp))) :
                                   conv \in conditions}}

RECURSIVE SolvedConditions(_, _, _)
SolvedConditions(hyps, m, conditions) ==
  IF hyps = <<>> THEN {<<>>}
  ELSE {<<c>> \o rest : c \in SolvedCondition(Head(hyps), m, conditions),
                        rest \in SolvedConditions(Tail(hyps), m, conditions)}

\* The theorem algebra proves what hypotheses it can, and keeps the others.
DischargeAll(thm, hyps, conditions) ==
  IF hyps = <<>> \/ conditions = {} THEN {thm}
  ELSE UNION {K!Then(
    Match(Call(conv, "theorem", Head(hyps), 0),
          LAMBDA proof :
            IF proof.result # Truth THEN {thm}
            ELSE UNION {K!Then(TruthTheorem, LAMBDA truth :
                        K!Then(K!EqtElim(Here, truth, equation), LAMBDA proved :
                               K!ProveHyp(Here, proved, thm))) : equation \in proof.thm},
          {thm}),
    LAMBDA acc : DischargeAll(acc, Tail(hyps), conditions)) : conv \in conditions}

RewriteWitness(algebra, term, rule, m, conditions) ==
  IF algebra = "theorem"
  THEN W!TheoremWitnesses(K!Then(Instantiate(rule.thm, m), LAMBDA thm :
                               DischargeAll(thm, ByRank(thm.hyps), conditions)))
  ELSE {W!StepsWitness(term, <<Step(<<>>, rule.name, m, solved)>>, InstantiateMatch(m, rule.rhs)) :
          solved \in SolvedConditions(ByRank(rule.thm.hyps), m, conditions)}

\* The rules that may fire on a term, in the order they are tried.
Fires(rule, term, ordered) ==
  \E m \in MatchPattern(rule.lhs, term, rule.variables) :
    ordered /\ IsPermutative(rule) => TermGreater(term, InstantiateMatch(m, rule.rhs))

RewriteWith(algebra, term, rule, conditions) ==
  Some(UNION {RewriteWitness(algebra, term, rule, m, conditions) :
                m \in MatchPattern(rule.lhs, term, rule.variables)})

CallRewrites(conv, algebra, term) ==
  LET firing == SelectSeq(conv.rules, LAMBDA rule : Fires(rule, term, conv.ordered))
  IN  IF firing = <<>> THEN None
      ELSE RewriteWith(algebra, term, Head(firing), conv.conditions)

\* One rule by name.  The ordered one must go down whether the rule permutes
\* or not.
CallRewr(conv, algebra, term) ==
  LET fires(rule) == \E m \in MatchPattern(rule.lhs, term, rule.variables) :
                       conv.ordered => TermGreater(term, InstantiateMatch(m, rule.rhs))
  IN  UNION {IF fires(rule) THEN RewriteWith(algebra, term, rule, conv.conditions) ELSE None :
               rule \in Fetch(conv.rules, conv.name)}

\* Both children, a child that does not convert standing for itself.
OrRefl(answers, algebra, term) ==
  UNION {IF answer = {} THEN W!ReflWitness(Here, algebra, term) ELSE answer : answer \in answers}

CombBelow(conv, algebra, term, depth) ==
  UNION {W!CombWitness(Here, algebra, rator, rand) :
           rator \in OrRefl(Call(conv, algebra, term.rator, depth), algebra, term.rator),
           rand \in OrRefl(Call(conv, algebra, term.rand, depth), algebra, term.rand)}

\* The binder is opened once, for everything the conversion does below it.
AbsBelow(conv, algebra, term, depth) ==
  LET var  == PathOpener(term, depth)
      body == OpenAbs(term, var)
  IN  UNION {W!UnderWitness(Here, algebra, term, var, w) :
               w \in OrRefl(Call(conv, algebra, body, depth + 1), algebra, body)}

CallSub(conv, algebra, term, depth) ==
  Some(CASE IsComb(term) -> CombBelow(conv, algebra, term, depth)
         [] IsAbs(term)  -> AbsBelow(conv, algebra, term, depth)
         [] OTHER        -> W!ReflWitness(Here, algebra, term))

\* Mutant: binders are passed over.
FirstBelowCombs(conv, algebra, term, depth) ==
  IF ~IsComb(term) THEN None
  ELSE Match(Call(conv, algebra, term.rator, depth),
             LAMBDA rator : Some(UNION {W!CombWitness(Here, algebra, rator, rand) :
                                          rand \in W!ReflWitness(Here, algebra, term.rand)}),
             Match(Call(conv, algebra, term.rand, depth),
                   LAMBDA rand : Some(UNION {W!CombWitness(Here, algebra, rator, rand) :
                                               rator \in W!ReflWitness(Here, algebra, term.rator)}),
                   None))

\* At most one redex below, leftmost and outermost.  A theorem with any
\* hypothesis is not taken under a binder.
FirstBelow(conv, algebra, term, depth) ==
  CASE IsComb(term) ->
         Match(Call(conv, algebra, term.rator, depth),
               LAMBDA rator : Some(UNION {W!CombWitness(Here, algebra, rator, rand) :
                                            rand \in W!ReflWitness(Here, algebra, term.rand)}),
               Match(Call(conv, algebra, term.rand, depth),
                     LAMBDA rand : Some(UNION {W!CombWitness(Here, algebra, rator, rand) :
                                                 rator \in W!ReflWitness(Here, algebra, term.rator)}),
                     None))
    [] IsAbs(term) ->
         LET var == PathOpener(term, depth)
         IN  Match(Call(conv, algebra, OpenAbs(term, var), depth + 1),
                   LAMBDA w : IF \E thm \in w.thm : thm.hyps # {} THEN {}
                              ELSE Some(W!UnderWitness(Here, algebra, term, var, w)),
                   None)
    [] OTHER -> None

\* current, converted until nothing applies or n successes are spent.
RunRepeat(conv, algebra, current, n, depth) ==
  IF n = 0 THEN {[witness |-> current, reason |-> "limit"]}
  ELSE Match(Call(conv, algebra, current.result, depth),
             LAMBDA step : UNION {RunRepeat(conv, algebra, longer, n - 1, depth) :
                                    longer \in W!Seq2(Here, algebra, current, step)},
             {[witness |-> current, reason |-> "nil"]})

Call(conv, algebra, term, depth) ==
  CASE conv.op = "all"  -> Some(W!ReflWitness(Here, algebra, term))
    [] conv.op = "no"   -> None
    [] conv.op = "rewr" -> CallRewr(conv, algebra, term)
    [] conv.op = "rewrites" -> CallRewrites(conv, algebra, term)
    [] conv.op = "then" ->
         Match(Call(conv.first, algebra, term, depth),
               LAMBDA first : Match(Call(conv.second, algebra, first.result, depth),
                                    LAMBDA second : Some(W!Seq2(Here, algebra, first, second)),
                                    None),
               None)
    [] conv.op = "orelse" ->
         Match(Call(conv.first, algebra, term, depth),
               LAMBDA first : {{first}},
               Call(conv.second, algebra, term, depth))
    [] conv.op = "repeat" ->
         Some({run.witness :
                 run \in UNION {RunRepeat(conv.conv, algebra, start, conv.limit, depth) :
                                  start \in W!ReflWitness(Here, algebra, term)}})
    [] conv.op = "sub" -> CallSub(conv.conv, algebra, term, depth)
    [] conv.op = "comb" ->
         IF IsComb(term) THEN Some(CombBelow(conv.conv, algebra, term, depth)) ELSE None
    [] conv.op = "abs" ->
         IF IsAbs(term) THEN Some(AbsBelow(conv.conv, algebra, term, depth)) ELSE None
    [] conv.op = "depth" ->
         Call(ThenC(Sub(conv), Repeat(conv.conv, conv.limit)), algebra, term, depth)
    [] conv.op = "topdown" ->
         Call(ThenC(Repeat(conv.conv, conv.limit), Sub(conv)), algebra, term, depth)
    [] conv.op = "redepth" ->
         Call(ThenC(Sub(conv), OrElse(ThenC(conv.conv, conv), All)), algebra, term, depth)
    [] conv.op = "oncedepth" ->
         Call(OrElse(conv.conv, Sub(conv)), algebra, term, depth)
    [] conv.op = "firstredex" ->
         Match(Call(conv.conv, algebra, term, depth),
               LAMBDA w : {{w}},
               FirstBelow(conv, algebra, term, depth))

-----------------------------------------------------------------------------

\* Kernel::rewrite, the default strategy in the steps algebra.
Rewrite(term, rules, limit, ordered) ==
  IF ~Closed(term) THEN {}
  ELSE {Certificate(term, run.witness.steps, run.witness.result, run.reason = "nil") :
          run \in RunRepeat(FirstRedex(Rewrites(rules, NoConditions, ordered)), "steps",
                            W!StepsWitness(term, <<>>, term), limit, 0)}
=============================================================================
