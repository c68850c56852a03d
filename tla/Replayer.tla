------------------------------- MODULE Replayer ------------------------------
(***************************************************************************)
(* The replay of a certificate, src/src/replay.rs, one call of a rule at a *)
(* time.  prove_certificate calls itself for the certificate of a          *)
(* condition; calls holds what each call that is open has done so far.     *)
(*                                                                         *)
(* Whatever the certificate says, and whoever wrote it: the instances of   *)
(* the rules it names and the variables that open a binder are CONSTANTs   *)
(* of which nothing is assumed.                                            *)
(***************************************************************************)
EXTENDS Derived, Ranks, FiniteSets

CONSTANTS
  Theory,             \* the theory replay works in
  TruthConst,         \* the constant T
  Truths,             \* truth_theorem: |- T, none if T is not defined there
  InstancesOf(_, _, _),   \* (order, rules, step): the rule fetched and instantiated
  path_opener(_, _)   \* (abs, depth): the variable a binder is opened with

VARIABLES
  rules,              \* the rule set
  certificate,        \* the certificate at hand, {} or {c}
  calls,              \* the open calls of prove_certificate
  left,               \* the hypotheses that conditions marked Assumed have left:
                      \* what the code does not keep, and ProofIsClaim is about
  proof,              \* what replay proved of the certificate, {} or {thm}
  verdict             \* "none" before replay, then "proved" or "refused"

replayVars == <<calls, left, proof, verdict>>

ASSUME TruthIsProved ==
  \A thm \in Truths : thm = Thm(Theory, {}, TruthConst) /\ Proposition(TruthConst)

-----------------------------------------------------------------------------
(***************************************************************************)
(* An open call: its chain from the term of its certificate, how many      *)
(* steps are in it, and of the step at hand the frames on the way down,    *)
(* the subterm they lead to, the theorem proved of it so far, and the      *)
(* hypotheses of the instance with the number whose condition is met.      *)
(***************************************************************************)
Opened(c, chain) ==
  [certificate |-> c, chain |-> chain, taken |-> 0, phase |-> "chain",
   frames |-> <<>>, subterm |-> c.term, proving |-> chain, hyps |-> <<>>, met |-> 0]

Top == calls[Len(calls)]
Below(s) == SubSeq(s, 1, Len(s) - 1)
Running(phase) == calls # <<>> /\ Top.phase = phase

Steps == Top.certificate.steps
AtHand == Steps[Top.taken + 1]
Condition == AtHand.conditions[Top.met + 1]
Hypothesis == Top.hyps[Top.met + 1]

\* An Err leaves every open call at once.
Refuse == calls' = <<>> /\ verdict' = "refused" /\ UNCHANGED <<left, proof>>

Become(call) ==
  /\ calls' = [calls EXCEPT ![Len(calls)] = call]
  /\ UNCHANGED <<left, proof, verdict>>

\* A rule is called, and the call goes on with what it answers.
Advance(results, Use(_)) ==
  IF results = {} THEN Refuse ELSE \E thm \in results : Become(Use(thm))

Enter(c) ==
  IF Refl(Theory, c.term) = {} THEN Refuse
  ELSE /\ \E thm \in Refl(Theory, c.term) : calls' = Append(calls, Opened(c, thm))
       /\ UNCHANGED <<left, proof, verdict>>

-----------------------------------------------------------------------------

ReplayInit == calls = <<>> /\ left = {} /\ proof = {} /\ verdict = "none"

\* The program comes by another certificate, or by other rules.
NewCertificate ==
  /\ calls = <<>> /\ UNCHANGED calls
  /\ left' = {} /\ proof' = {} /\ verdict' = "none"

NewRules == calls = <<>> /\ UNCHANGED <<certificate, replayVars>>

StartReplay ==
  /\ verdict = "none" /\ calls = <<>>
  /\ \E c \in certificate : Enter(c)

\* one_step, on what the chain has reached.
TakeStep ==
  /\ Running("chain") /\ Top.taken < Len(Steps)
  /\ IF IsEqn(Top.chain.concl)
     THEN Become([Top EXCEPT !.phase = "down", !.frames = <<>>, !.subterm = Rhs(Top.chain.concl)])
     ELSE Refuse

Binders == Cardinality({i \in DOMAIN Top.frames : Top.frames[i].kind = "body"})

GoDown(frame, subterm) == [Top EXCEPT !.frames = Append(@, frame), !.subterm = subterm]

\* One step of the path: what it takes to come back is kept in a frame.
Descend ==
  LET path == AtHand.path
      turn == path[Len(Top.frames) + 1]
      term == Top.subterm
  IN  /\ Running("down") /\ Len(Top.frames) < Len(path)
      /\ \/ /\ turn = "rator" /\ IsComb(term)
            /\ Become(GoDown([kind |-> "rator", sibling |-> term.rand], term.rator))
         \/ /\ turn = "rand" /\ IsComb(term)
            /\ Advance(Refl(Theory, term.rator), LAMBDA thm :
                       GoDown([kind |-> "rand", sibling |-> thm], term.rand))
         \/ /\ turn = "body" /\ IsAbs(term)
            /\ LET var == path_opener(term, Binders)
               IN  Become(GoDown([kind |-> "body", sibling |-> var], open_abs(term, var)))
         \/ ~(turn \in {"rator", "rand"} /\ IsComb(term)) /\ ~(turn = "body" /\ IsAbs(term)) /\ Refuse

\* Hypotheses as a theorem has them, sorted by rank.
Sorted(hyps, n) ==
  {s \in [1..n -> hyps] : /\ \A h \in hyps : \E i \in 1..n : s[i] = h
                          /\ \A i, j \in 1..n : i < j => ~Older(s[j], s[i])}

\* Mutant: conditions and hypotheses are paired as far as there are both.
FetchRuleUncounted ==
  /\ Running("down") /\ Len(Top.frames) = Len(AtHand.path)
  /\ IF InstancesOf(order, rules, AtHand) = {} THEN Refuse
     ELSE \E thm \in InstancesOf(order, rules, AtHand) :
          \E hyps \in Sorted(thm.hyps, Cardinality(thm.hyps)) :
            Become([Top EXCEPT !.phase = "conditions", !.proving = thm, !.met = 0,
                               !.hyps = [i \in DOMAIN hyps \cap DOMAIN AtHand.conditions |-> hyps[i]]])

\* The rule at hand, with a condition for each of its hypotheses.
FetchRule ==
  LET instances == {thm \in InstancesOf(order, rules, AtHand) :
                      Cardinality(thm.hyps) = Len(AtHand.conditions)}
  IN  /\ Running("down") /\ Len(Top.frames) = Len(AtHand.path)
      /\ IF instances = {} THEN Refuse
         ELSE \E thm \in instances : \E hyps \in Sorted(thm.hyps, Len(AtHand.conditions)) :
                Become([Top EXCEPT !.phase = "conditions", !.proving = thm,
                                   !.hyps = hyps, !.met = 0])

Meeting == Running("conditions") /\ Top.met < Len(Top.hyps)

\* Assumed: the hypothesis stays.
LeaveCondition ==
  /\ Meeting /\ Condition.kind = "assumed"
  /\ calls' = [calls EXCEPT ![Len(calls)].met = @ + 1]
  /\ left' = left \cup {Hypothesis}
  /\ UNCHANGED <<proof, verdict>>

\* Discharged: the certificate that says so is replayed first.
EnterCondition ==
  /\ Meeting /\ Condition.kind = "discharged"
  /\ IF Condition.certificate.term = Hypothesis THEN Enter(Condition.certificate) ELSE Refuse

\* The instance must be about the subterm at the path.
TurnBack ==
  /\ Running("conditions") /\ Top.met = Len(Top.hyps)
  /\ IF IsEqn(Top.proving.concl) /\ Lhs(Top.proving.concl) = Top.subterm
     THEN Become([Top EXCEPT !.phase = "up"])
     ELSE Refuse

Rebuilt(frame, thm) ==
  CASE frame.kind = "rator" -> ApThm(Theory, thm, frame.sibling)
    [] frame.kind = "rand"  -> MkComb(Theory, frame.sibling, thm)
    [] frame.kind = "body"  -> Abs(Theory, frame.sibling, thm)

\* Mutant: back through the outermost frame first.
AscendFromOutside ==
  /\ Running("up") /\ Top.frames # <<>>
  /\ Advance(Rebuilt(Top.frames[1], Top.proving), LAMBDA thm :
             [Top EXCEPT !.frames = Tail(@), !.proving = thm])

\* Back through the innermost frame.
Ascend ==
  /\ Running("up") /\ Top.frames # <<>>
  /\ Advance(Rebuilt(Top.frames[Len(Top.frames)], Top.proving), LAMBDA thm :
             [Top EXCEPT !.frames = Below(@), !.proving = thm])

Lengthen ==
  /\ Running("up") /\ Top.frames = <<>>
  /\ Advance(Trans(Theory, Top.chain, Top.proving), LAMBDA thm :
             [Top EXCEPT !.phase = "chain", !.chain = thm, !.taken = @ + 1])

\* Mutant: what was reached is not compared with what is claimed.
Unconfirmed == IsEqn(Top.chain.concl)

\* confirm: the certificate said where its steps lead.
Confirmed == IsEqn(Top.chain.concl) /\ Rhs(Top.chain.concl) = Top.certificate.result

Done == Running("chain") /\ Top.taken = Len(Steps)

Answer ==
  /\ Done /\ Len(calls) = 1
  /\ IF Confirmed
     THEN calls' = <<>> /\ proof' = {Top.chain} /\ verdict' = "proved" /\ UNCHANGED left
     ELSE Refuse

\* The theorem with its hypothesis proved from hypothesis = T, if it is that.
Without(thm, hyp, equation) ==
  IF Lhs(equation.concl) = hyp /\ Rhs(equation.concl) = TruthConst
  THEN Then(Truths, LAMBDA truth :
       Then(EqtElim(Theory, truth, equation), LAMBDA discharged :
            ProveHyp(Theory, discharged, thm)))
  ELSE {}

\* A condition's certificate is replayed: the call below goes on.
AnswerCondition ==
  LET below == Below(calls)
      caller == below[Len(below)]
      results == IF Confirmed THEN Without(caller.proving, caller.hyps[caller.met + 1], Top.chain)
                 ELSE {}
  IN  /\ Done /\ Len(calls) > 1
      /\ IF results = {} THEN Refuse
         ELSE /\ \E thm \in results :
                   calls' = [below EXCEPT ![Len(below)] = [caller EXCEPT !.proving = thm, !.met = @ + 1]]
              /\ UNCHANGED <<left, proof, verdict>>

ReplayStep ==
  \/ StartReplay \/ TakeStep \/ Descend \/ FetchRule
  \/ LeaveCondition \/ EnterCondition \/ AnswerCondition \/ TurnBack
  \/ Ascend \/ Lengthen \/ Answer

ReplayNext ==
  \/ ReplayStep /\ UNCHANGED <<order, rules, certificate>>
  \/ NewCertificate
  \/ NewRules

ReplaySpec == ReplayInit /\ [][ReplayNext]_<<order, rules, certificate, replayVars>>

-----------------------------------------------------------------------------

(***************************************************************************)
(* What proofs need of the operations on terms: of any of the well-formed  *)
(* closed terms, and of the number of binders on the way to a position;    *)
(* and of all of them, that they are closed under the operations.          *)
(***************************************************************************)
WellShaped(terms, depths) ==
  /\ \A t \in terms : Closed(t)
  /\ \A t \in terms : IsComb(t) =>
       t = CombRaw(t.rator, t.rand) /\ t.rator.ty = Fun(t.rand.ty, t.ty)
  /\ \A t \in terms : IsConst(t) /\ t.name = EqName => t = EqConst(t.ty.args[1])
  /\ \A t \in terms, depth \in depths : IsAbs(t) =>
       LET var == path_opener(t, depth)
       IN  IsVar(var) /\ term_abs(var, open_abs(t, var)) = t
  /\ \A v, t \in terms : IsVar(v) => term_abs(v, t).ty = Fun(v.ty, t.ty)

AllBuilt(terms) ==
  /\ \A t \in terms : IsComb(t) => t.rator \in terms /\ t.rand \in terms
  /\ \A f, x \in terms : f.ty = Fun(x.ty, f.ty.args[2]) => CombRaw(f, x) \in terms
  /\ \A t \in terms, depth \in Nat : IsAbs(t) =>
       path_opener(t, depth) \in terms /\ open_abs(t, path_opener(t, depth)) \in terms
  /\ \A v, t \in terms : IsVar(v) => term_abs(v, t) \in terms

(***************************************************************************)
(* Replay proves what the certificate says or nothing (replay.rs:4-8,      *)
(* 44-46): whoever made it, a theorem that comes out equates its term and  *)
(* its result, and rests on no hypothesis but what a condition marked      *)
(* Assumed has left, in it or in a certificate inside it.                  *)
(***************************************************************************)
ProofIsClaim ==
  \A thm \in proof : \E c \in certificate :
    thm.concl = Eqn(c.term, c.result) /\ thm.hyps \subseteq left

(***************************************************************************)
(* A refusal is the certificate's fault (replay.rs:4-8).  No rule that     *)
(* replay calls balks at what replay itself has built: the chain stays an  *)
(* equation, the frames rebuild the term they took apart at the same       *)
(* types, and a condition that was proved is discharged.  The one rule     *)
(* that may refuse is ABS, at a condition that mentions the variable a     *)
(* binder was opened with (replay.rs:19-23, path.rs:38-40).                *)
(***************************************************************************)
NoSuchPosition ==
  LET turn == AtHand.path[Len(Top.frames) + 1]
  IN  /\ Running("down") /\ Len(Top.frames) < Len(AtHand.path)
      /\ ~(turn \in {"rator", "rand"} /\ IsComb(Top.subterm))
      /\ ~(turn = "body" /\ IsAbs(Top.subterm))

NoSuchInstance ==
  /\ Running("down") /\ Len(Top.frames) = Len(AtHand.path)
  /\ \A thm \in InstancesOf(order, rules, AtHand) :
       Cardinality(thm.hyps) # Len(AtHand.conditions)

OtherCondition == Meeting /\ Condition.certificate.term # Hypothesis

OtherSubterm ==
  /\ Running("conditions") /\ Top.met = Len(Top.hyps)
  /\ ~(IsEqn(Top.proving.concl) /\ Lhs(Top.proving.concl) = Top.subterm)

OtherResult == Done /\ Rhs(Top.chain.concl) # Top.certificate.result

UntrueCondition ==
  Done /\ Len(calls) > 1 /\ (Rhs(Top.chain.concl) # TruthConst \/ Truths = {})

Captured ==
  LET frame == Top.frames[Len(Top.frames)]
  IN  /\ Running("up") /\ Top.frames # <<>> /\ frame.kind = "body"
      /\ \E h \in Top.proving.hyps : FreeIn(frame.sibling, h)

RefusedForCause ==
  [][verdict' = "refused" =>
       \/ NoSuchPosition \/ NoSuchInstance \/ OtherCondition \/ OtherSubterm
       \/ OtherResult \/ UntrueCondition \/ Captured]_replayVars
=============================================================================
