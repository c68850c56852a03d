------------------------------ MODULE Rewriting -----------------------------
(***************************************************************************)
(* A program that rewrites by certificate: it registers rules, has a       *)
(* conversion or the rewriter emit a certificate, and hands a certificate  *)
(* to replay, its own or one that something outside the process changed    *)
(* on the way (replay.rs:1-8, certificate.rs:61-68).  A behaviour makes    *)
(* one certificate: emitting another would start over with the same rules. *)
(***************************************************************************)
EXTENDS Conversions, Replayer

CONSTANTS
  Theorems,           \* <<name, theorem>>: what the program may register
  Strategies(_),      \* the conversions the program makes of a rule set
  Terms,              \* the terms it converts
  Limits,             \* the budgets it gives the rewriter
  Orders,             \* the orders it may have interned terms in
  Results,            \* what a forger may claim as a result
  MaxRules            \* bound on the rules registered

VARIABLES
  maker,              \* who made the certificate: "certify", "rewrite" or "forger", and how
  direct              \* the theorem of the theorem algebra, {} or {thm}

vars == <<order, rules, certificate, replayVars, maker, direct>>

Maker(by, ordered) == [by |-> by, ordered |-> ordered, rules |-> Len(rules)]

Init ==
  /\ order \in Orders
  /\ rules = <<>>
  /\ certificate = {} /\ maker = Maker("nobody", FALSE) /\ direct = {}
  /\ ReplayInit

-----------------------------------------------------------------------------

\* What the program may register next, and the terms it may hand over.
Addable == {t \in Theorems : Len(rules) < MaxRules /\ CanAdd(rules, t[1], t[2])}
Waiting == {term \in Terms : maker.by = "nobody"}

AddRule(name, thm) ==
  /\ rules' = Append(rules, Rule(name, thm))
  /\ NewRules
  /\ UNCHANGED <<order, maker, direct>>

Emit(certificates, by, theorem) ==
  /\ NewCertificate
  /\ certificate' = certificates
  /\ maker' = by
  /\ direct' = theorem
  /\ UNCHANGED <<order, rules>>

\* The same conversion in both algebras.
CertifyAndProve(conv, term) ==
  Emit(Certify(conv, term), Maker("certify", FALSE), Prove(conv, term))

RunRewriter(term, limit, ordered) ==
  Emit(Rewrite(term, rules, limit, ordered), Maker("rewrite", ordered), {})

ReplayIt == ReplayStep /\ UNCHANGED <<order, rules, certificate, maker, direct>>

(***************************************************************************)
(* One change to a certificate: a step lost, repeated, moved, put at       *)
(* another place, given another rule, match or conditions, or another      *)
(* result claimed.                                                         *)
(***************************************************************************)
Reversal(s) == [i \in DOMAIN s |-> s[Len(s) + 1 - i]]

ForgedSteps(s) ==
  {s[1], [s[1] EXCEPT !.match = NoMatch], [s[1] EXCEPT !.conditions = <<>>],
   [s[1] EXCEPT !.conditions = [i \in DOMAIN @ |-> Assumed]]}
    \cup {[s[1] EXCEPT !.path = path] : path \in {<<>>, <<"rand">>, <<"body">>}}
    \cup {[s[1] EXCEPT !.rule = rules[i].name] : i \in DOMAIN rules}

Forgeries(c) ==
  {[c EXCEPT !.result = t] : t \in Results}
    \cup IF c.steps = <<>> THEN {}
         ELSE {[c EXCEPT !.steps = s] :
                 s \in {Tail(c.steps), Reversal(c.steps), <<c.steps[1]>> \o c.steps}
                        \cup {<<step>> \o Tail(c.steps) : step \in ForgedSteps(c.steps)}}

Forge ==
  \E c \in certificate : \E forged \in Forgeries(c) \ {c} :
    /\ maker.by \in {"certify", "rewrite"}
    /\ Emit({forged}, Maker("forger", FALSE), {})

Next ==
  \/ \E t \in Addable : AddRule(t[1], t[2])
  \/ \E conv \in Strategies(rules), term \in Waiting : CertifyAndProve(conv, term)
  \/ \E term \in Waiting, limit \in Limits, ordered \in BOOLEAN : RunRewriter(term, limit, ordered)
  \/ ReplayIt
  \/ Forge

Spec == Init /\ [][Next]_vars

-----------------------------------------------------------------------------

(***************************************************************************)
(* Type correctness: theorems are equations between propositions, and what *)
(* a certificate equates is two closed terms of one type, although the     *)
(* pattern of a rule may have met a bound occurrence on the way            *)
(* (matching.rs:105-109).                                                  *)
(***************************************************************************)
TypeOK ==
  /\ order \in Orders /\ Len(rules) \in 0..MaxRules
  /\ Cardinality(certificate) <= 1 /\ Cardinality(direct) <= 1 /\ Cardinality(proof) <= 1
  /\ \A thm \in direct \cup proof :
       Proposition(thm.concl) /\ IsEqn(thm.concl) /\ \A h \in thm.hyps : Proposition(h)
  /\ \A c \in certificate :
       maker.by # "forger" => Closed(c.term) /\ Closed(c.result) /\ c.term.ty = c.result.ty
  /\ verdict \in {"none", "proved", "refused"}

\* The hypotheses a certificate leaves: those of its rules' instances that it
\* marks Assumed, and those its condition certificates leave, unless a later
\* condition of the same step discharges them too.
RECURSIVE Owed(_)
Owed(c) ==
  LET owedAt(condition, hyp) ==
        IF condition.kind = "assumed" THEN {hyp} ELSE Owed(condition.certificate)
      later(step, hyps, i) ==
        {hyps[j] : j \in {j \in DOMAIN hyps : j > i /\ step.conditions[j].kind = "discharged"}}
      owedBy(step, hyps) ==
        UNION {owedAt(step.conditions[i], hyps[i]) \ later(step, hyps, i) : i \in DOMAIN hyps}
      instances(step) ==
        {thm \in UNION {Instantiate(rule.thm, step.match) : rule \in Fetch(rules, step.rule)} :
           Cardinality(thm.hyps) = Len(step.conditions)}
  IN  UNION {UNION {owedBy(step, ByRank(thm.hyps)) : thm \in instances(step)} :
               step \in ToSet(c.steps)}

(***************************************************************************)
(* The hypotheses of a theorem that replay proves are those the            *)
(* certificate says it leaves (certificate.rs:52-61): none of them is lost *)
(* on the way, and none came along.                                        *)
(***************************************************************************)
HypothesesAreOwed ==
  \A thm \in proof, c \in certificate : thm.hyps = Owed(c)

(***************************************************************************)
(* A certificate that a conversion or the rewriter emitted, and nothing    *)
(* changed, is replayed (path.rs:7-13, witness.rs:1-6): its conditions     *)
(* come in the order of the hypotheses, and its positions open binders     *)
(* with the variables replay will open them with.  The one excuse is a     *)
(* condition left on such a variable, which ABS refuses (replay.rs:20-22). *)
(***************************************************************************)
HonestReplays ==
  maker.by \in {"certify", "rewrite"} /\ verdict = "refused" =>
    \E c \in certificate : \E hyp \in Owed(c) : ~(hyp.frees \subseteq c.term.frees)

\* What the first n steps of a certificate lead to.
Reached(c, n) ==
  K!Then(K!Refl(Here, c.term), LAMBDA start :
         {Rhs(thm.concl) : thm \in Chain(start, SubSeq(c.steps, 1, n), rules)})

\* A certificate, or that of a condition, comes back to where it has been.
RECURSIVE Returns(_)
Returns(c) ==
  \/ \E m, n \in 0..Len(c.steps) : m # n /\ Reached(c, m) \cap Reached(c, n) # {}
  \/ \E step \in ToSet(c.steps) : \E condition \in ToSet(step.conditions) :
       condition.kind = "discharged" /\ Returns(condition.certificate)

(***************************************************************************)
(* A conversion means the same in both algebras (conversion.rs:3-6): where *)
(* it proves a theorem and emits a certificate, they are about the same    *)
(* two terms, and replaying the one proves the other.  The theorem algebra *)
(* forgets a detour, with the conditions it left, that comes back to its   *)
(* start (witness.rs:179-192); the certificate has it still, and the       *)
(* replayed theorem then rests on those conditions too.                    *)
(***************************************************************************)
AlgebrasAgree ==
  \A thm \in direct :
    /\ \A c \in certificate : thm.concl = Eqn(c.term, c.result)
    /\ \A replayed \in proof :
         /\ replayed.concl = thm.concl /\ thm.hyps \subseteq replayed.hyps
         /\ replayed.hyps = thm.hyps \/ \E c \in certificate : Returns(c)

(***************************************************************************)
(* A complete certificate of the rewriter ends in a normal form            *)
(* (certificate.rs:69-72): no rule it was made with fires anywhere in the  *)
(* result, under binders included.                                         *)
(***************************************************************************)
CompleteIsNormal ==
  \A c \in certificate : maker.by = "rewrite" /\ c.complete =>
    \A position \in Positions(c.result, <<>>, 0), i \in 1..maker.rules :
      ~Fires(rules[i], position.subterm, maker.ordered)
=============================================================================
