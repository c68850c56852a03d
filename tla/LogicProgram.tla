---------------------------- MODULE LogicProgram ----------------------------
(***************************************************************************)
(* A program on top of the logic layer: it installs the connectives and    *)
(* classical logic in a theory of its own, calls the derived rules, and    *)
(* has TAUT search for a proof.  A behaviour ends with one call of a rule  *)
(* or of TAUT, as each works on what it is given alone.                    *)
(***************************************************************************)
EXTENDS Installation, Validity

CONSTANTS
  Facts,              \* the theorems the program may hold
  Terms,              \* the terms it may hand over
  Existentials        \* those it may have proved by exists

VARIABLES
  called,               \* the rule called, {} or {[rule, thms, terms]}
  answered              \* the theorems it answered, none if it refused

callVars == <<called, answered>>
vars == <<installVars, searchVars, callVars>>

OneSequentRules == {"conjunct1", "conjunct2", "undisch", "eq_imp_rule", "not_elim", "not_intro",
                    "eqf_intro", "eqf_elim", "select_rule"}
TwoSequentRules == {"conj", "mp", "imp_trans", "imp_antisym_rule", "choose"}
ClassicalRules == {"select_rule", "em"}
TermRules == {"disch", "contr", "spec", "gen", "disj1", "disj2", "simple_exists"}

\* The terms of disch_all are the hypotheses, as interning has ranked them.
Calling(rule, thms, terms) == [rule |-> rule, thms |-> thms, terms |-> terms]

Calls ==
  {Calling(rule, <<a>>, <<>>) : rule \in OneSequentRules, a \in Facts}
    \cup {Calling(rule, <<a, b>>, <<>>) : rule \in TwoSequentRules, a \in Facts, b \in Facts}
    \cup {Calling(rule, <<a>>, <<t>>) : rule \in TermRules, a \in Facts, t \in Terms}
    \cup {Calling("disj_cases", <<d, l, r>>, <<>>) :
            d \in {a \in Facts : IsDisj(a.concl) \/ a.concl = False}, l \in Facts, r \in Facts}
    \cup UNION {{Calling("disch_all", <<a>>, ranked) : ranked \in SetToSeqs(a.hyps)} : a \in Facts}
    \cup {Calling("em", <<>>, <<t>>) : t \in Terms}
    \cup {Calling("exists", <<a>>, <<e, w>>) : a \in Facts, e \in Existentials, w \in Terms}

\* What the rule answers.
Answer(rule, thms, terms) ==
  CASE rule = "em"          -> em(terms[1])
    [] rule = "eq_imp_rule" -> eq_imp_rule(thms[1])
    [] rule = "choose"      -> Apply(rule, thms, <<display>>)
    [] OTHER                -> Apply(rule, thms, terms)

\* A constructive rule is called before classical logic is there: it looks at
\* nothing that is added then.
Callable ==
  {c \in Calls : /\ outcome = "idle" /\ called = {}
                 /\ IF c.rule \in ClassicalRules THEN bundle # {} ELSE boot /\ ledger = <<>>}

CallRule(c) ==
  /\ called' = {c}
  /\ answered' = Answer(c.rule, c.thms, c.terms)
  /\ UNCHANGED <<installVars, searchVars>>

ChangeTheory == outcome = "idle" /\ called = {} /\ Install /\ UNCHANGED <<searchVars, callVars>>

CallTaut == bundle # {} /\ called = {} /\ Search /\ UNCHANGED <<installVars, callVars>>

ContinueTaut == SearchStep /\ UNCHANGED <<installVars, callVars>>

Init == InstallInit /\ SearchInit /\ called = {} /\ answered = {}

Next ==
  \/ ChangeTheory
  \/ \E c \in Callable : CallRule(c)
  \/ CallTaut
  \/ ContinueTaut

\* Nothing makes the program install or call anything.
Spec == Init /\ [][Next]_vars /\ SearchFairness

-----------------------------------------------------------------------------

(***************************************************************************)
(* Type correctness: an answer, a branch's proof and an assumption are     *)
(* theorems of this theory about propositions, and what is split is one.   *)
(***************************************************************************)
IsTheorem(thm) ==
  /\ thm.theory = Here /\ Proposition(thm.concl) /\ \A h \in thm.hyps : Proposition(h)

TypeOK ==
  /\ \A n \in Declared : declaredBy[n] \in {"program", "logic"}
  /\ boot \in BOOLEAN /\ display \in DisplayNames
  /\ outcome \in {"idle", "down", "up", "proved", "none", "error"}
  /\ \A thm \in bundle \cup normalization \cup atHand \cup answered : IsTheorem(thm)
  /\ \A i \in DOMAIN splits : Proposition(splits[i])
  /\ \A i \in DOMAIN frames : /\ frames[i].kase \in {"true", "false"}
                              /\ IsTheorem(frames[i].assignment)
                              /\ \A thm \in frames[i].positive : IsTheorem(thm)

(***************************************************************************)
(* The rules answer the sequents they promise (NaturalDeduction), and      *)
(* refuse what they do not.                                                *)
(***************************************************************************)
Promises == INSTANCE NaturalDeduction WITH Names <- DisplayNames

RulesKeepTheirPromise == Promises!Spec

(***************************************************************************)
(* TAUT returns (taut.rs:16-17): a search that is let run answers.         *)
(***************************************************************************)
SearchAnswers == outcome = "down" ~> Answered
=============================================================================
