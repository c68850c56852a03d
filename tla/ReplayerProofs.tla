---------------------------- MODULE ReplayerProofs ---------------------------
(***************************************************************************)
(* What replay of a certificate comes to, for any certificate, any rules   *)
(* and any instances of them.                                              *)
(*                                                                         *)
(* A theorem about the certificate needs no theorem about the frames: the  *)
(* chain is an equation from the term of the certificate because TRANS     *)
(* keeps the left side, wherever the next equation came from.  For its     *)
(* hypotheses the invariant says at each moment which are still to be      *)
(* accounted for: those of the instance whose conditions are not yet met.  *)
(***************************************************************************)
EXTENDS Replayer, Witnesses, DerivedProofs, Stacks, FiniteSetTheorems

\* The instances of the rule at hand are theorems, which have finitely many
\* hypotheses.
FiniteHypotheses ==
  Running("down") =>
    \A thm \in InstancesOf(order, rules, AtHand) : IsFiniteSet(thm.hyps)

Fields == {"certificate", "chain", "taken", "phase", "frames", "subterm", "proving", "hyps", "met"}

\* While conditions are met one by one, a hypothesis is kept or still to be met.
Accounted(call, kept) ==
  /\ call.met \in Nat /\ Len(call.hyps) \in Nat
  /\ call.proving.hyps \subseteq kept \cup {call.hyps[i] : i \in call.met + 1..Len(call.hyps)}

FrameKeeps(frame) ==
  /\ frame.kind \in {"rator", "rand", "body"}
  /\ frame.kind = "rand" => frame.sibling.hyps = {}

CallKeeps(call, kept) ==
  /\ DOMAIN call = Fields
  /\ call.chain.concl = Eqn(call.certificate.term, Rhs(call.chain.concl))
  /\ call.chain.hyps \subseteq kept
  /\ IsSeq(call.frames) /\ \A i \in 1..Len(call.frames) : FrameKeeps(call.frames[i])
  /\ call.phase = "conditions" => Accounted(call, kept)
  /\ call.phase = "up" => call.proving.hyps \subseteq kept

\* A call that waits for the certificate of a condition.
Suspended(call) == call.phase = "conditions" /\ call.met < Len(call.hyps)

IInv ==
  /\ IsSeq(calls)
  /\ \A i \in 1..Len(calls) : CallKeeps(calls[i], left)
  /\ \A i \in 1..Len(calls) - 1 : Suspended(calls[i])
  /\ calls # <<>> => calls[1].certificate \in certificate
  /\ ProofIsClaim

-----------------------------------------------------------------------------
(***************************************************************************)
(* What a rule's answer says, whatever its premises.                       *)
(***************************************************************************)

LEMMA EqSequentSays ==
  ASSUME NEW theory, NEW hyps, NEW l, NEW r, NEW thm \in EqSequent(theory, hyps, l, r)
  PROVE  /\ thm.hyps = hyps /\ thm.concl = Eqn(l, r)
         /\ IsEqn(thm.concl) /\ Lhs(thm.concl) = l /\ Rhs(thm.concl) = r
  BY EqnShape DEF EqSequent, Sequent, Thm

LEMMA ReflSays ==
  ASSUME NEW theory, NEW t, NEW thm \in Refl(theory, t)
  PROVE  thm.hyps = {} /\ thm.concl = Eqn(t, t)
<1>1. thm \in EqSequent(theory, {}, t, t)
  BY DEF Refl
<1> QED
  BY <1>1, EqSequentSays

LEMMA TransSays ==
  ASSUME NEW theory, NEW left_, NEW right, NEW thm \in Trans(theory, left_, right)
  PROVE  /\ thm.hyps = left_.hyps \cup right.hyps
         /\ thm.concl = Eqn(Lhs(left_.concl), Rhs(right.concl))
<1>1. thm \in EqSequent(theory, left_.hyps \cup right.hyps, Lhs(left_.concl), Rhs(right.concl))
  BY DEF Trans
<1> QED
  BY <1>1, EqSequentSays

LEMMA MkCombSays ==
  ASSUME NEW theory, NEW f, NEW x, NEW thm \in MkComb(theory, f, x)
  PROVE  /\ thm.hyps = f.hyps \cup x.hyps
         /\ thm.concl = Eqn(CombRaw(Lhs(f.concl), Lhs(x.concl)), CombRaw(Rhs(f.concl), Rhs(x.concl)))
<1>1. thm \in EqSequent(theory, f.hyps \cup x.hyps, CombRaw(Lhs(f.concl), Lhs(x.concl)),
                        CombRaw(Rhs(f.concl), Rhs(x.concl)))
  BY DEF MkComb
<1> QED
  BY <1>1, EqSequentSays

LEMMA AbsSays ==
  ASSUME NEW theory, NEW v, NEW premise, NEW thm \in Abs(theory, v, premise)
  PROVE  thm.hyps = premise.hyps
<1>1. thm \in EqSequent(theory, premise.hyps, term_abs(v, Lhs(premise.concl)),
                        term_abs(v, Rhs(premise.concl)))
  BY DEF Abs
<1> QED
  BY <1>1, EqSequentSays

LEMMA EqMpSays ==
  ASSUME NEW theory, NEW equation, NEW premise, NEW thm \in EqMp(theory, equation, premise)
  PROVE  /\ thm.hyps = equation.hyps \cup premise.hyps
         /\ thm.concl = Rhs(equation.concl)
         /\ Lhs(equation.concl) = premise.concl
  BY DEF EqMp, Sequent, Thm

LEMMA ApThmSays ==
  ASSUME NEW theory, NEW premise, NEW t, NEW thm \in ApThm(theory, premise, t)
  PROVE  thm.hyps = premise.hyps
<1>1. PICK reflexive \in Refl(theory, t) : thm \in MkComb(theory, premise, reflexive)
  BY DEF ApThm, Then
<1>2. reflexive.hyps = {}
  BY <1>1, ReflSays
<1>3. thm.hyps = premise.hyps \cup reflexive.hyps
  BY <1>1, MkCombSays
<1> QED
  BY <1>2, <1>3

LEMMA SymSays ==
  ASSUME NEW theory, NEW premise, NEW thm \in Sym(theory, premise)
  PROVE  thm.hyps = premise.hyps /\ Rhs(thm.concl) = Lhs(premise.concl)
<1> DEFINE l == Lhs(premise.concl)
           eq == premise.concl.rator.rator
<1>1. PICK reflexive \in Refl(theory, l) :
        \E eqRefl \in Refl(theory, eq) : \E half \in MkComb(theory, eqRefl, premise) :
        \E congruence \in MkComb(theory, half, reflexive) :
           thm \in EqMp(theory, congruence, reflexive)
  BY DEF Sym, Then
<1>2. PICK eqRefl \in Refl(theory, eq) :
        \E half \in MkComb(theory, eqRefl, premise) :
        \E congruence \in MkComb(theory, half, reflexive) :
           thm \in EqMp(theory, congruence, reflexive)
  BY <1>1
<1>3. PICK half \in MkComb(theory, eqRefl, premise) :
        \E congruence \in MkComb(theory, half, reflexive) :
           thm \in EqMp(theory, congruence, reflexive)
  BY <1>2
<1>4. PICK congruence \in MkComb(theory, half, reflexive) :
        thm \in EqMp(theory, congruence, reflexive)
  BY <1>3
<1> HIDE DEF l, eq
<1>5. /\ reflexive.hyps = {} /\ reflexive.concl = Eqn(l, l)
      /\ eqRefl.hyps = {} /\ eqRefl.concl = Eqn(eq, eq)
  BY <1>1, <1>2, ReflSays
<1>6. half.hyps = eqRefl.hyps \cup premise.hyps
  BY <1>3, MkCombSays
<1>7. /\ congruence.hyps = half.hyps \cup reflexive.hyps
      /\ congruence.concl = Eqn(CombRaw(Lhs(half.concl), l), CombRaw(Rhs(half.concl), l))
  <2>1. Lhs(reflexive.concl) = l /\ Rhs(reflexive.concl) = l
    BY <1>5, EqnShape
  <2>2. /\ congruence.hyps = half.hyps \cup reflexive.hyps
        /\ congruence.concl = Eqn(CombRaw(Lhs(half.concl), Lhs(reflexive.concl)),
                                  CombRaw(Rhs(half.concl), Rhs(reflexive.concl)))
    BY <1>4, MkCombSays
  <2> QED
    BY <2>1, <2>2
<1>8. /\ thm.hyps = congruence.hyps \cup reflexive.hyps
      /\ thm.concl = Rhs(congruence.concl)
  BY <1>4, EqMpSays
<1>9. thm.concl = CombRaw(Rhs(half.concl), l)
  BY <1>7, <1>8, EqnShape
<1>10. Rhs(thm.concl) = l
  BY <1>9 DEF Rhs, CombRaw
<1> QED
  BY <1>5, <1>6, <1>7, <1>8, <1>10 DEF l

LEMMA EqtElimSays ==
  ASSUME NEW theory, NEW truth, NEW equation, NEW thm \in EqtElim(theory, truth, equation)
  PROVE  /\ thm.hyps = equation.hyps \cup truth.hyps
         /\ thm.concl = Lhs(equation.concl)
<1>1. PICK symmetric \in Sym(theory, equation) : thm \in EqMp(theory, symmetric, truth)
  BY DEF EqtElim, Then
<1> QED
  BY <1>1, SymSays, EqMpSays

LEMMA ProveHypSays ==
  ASSUME NEW theory, NEW lemma, NEW consequence, NEW thm \in ProveHyp(theory, lemma, consequence)
  PROVE  /\ thm.hyps = lemma.hyps \cup (consequence.hyps \ {lemma.concl})
         /\ thm.concl = consequence.concl
<1>1. PICK deduced \in DeductAntisymRule(theory, lemma, consequence) :
        thm \in EqMp(theory, deduced, lemma)
  BY DEF ProveHyp, Then
<1>2. deduced \in EqSequent(theory,
        (lemma.hyps \ {consequence.concl}) \cup (consequence.hyps \ {lemma.concl}),
        lemma.concl, consequence.concl)
  BY <1>1 DEF DeductAntisymRule
<1>3. /\ deduced.hyps = (lemma.hyps \ {consequence.concl}) \cup (consequence.hyps \ {lemma.concl})
      /\ Rhs(deduced.concl) = consequence.concl
  BY <1>2, EqSequentSays
<1> QED
  BY <1>1, <1>3, EqMpSays

\* A condition that is replayed takes its hypothesis away, and brings what it
\* rests on itself.
LEMMA WithoutSays ==
  ASSUME NEW thm, NEW hyp, NEW equation, NEW shorter \in Without(thm, hyp, equation)
  PROVE  shorter.hyps = equation.hyps \cup (thm.hyps \ {hyp}) /\ shorter.concl = thm.concl
<1>1. Lhs(equation.concl) = hyp
  BY DEF Without
<1>2. PICK truth \in Truths :
        \E discharged \in EqtElim(Theory, truth, equation) :
          shorter \in ProveHyp(Theory, discharged, thm)
  BY DEF Without, Then
<1>3. PICK discharged \in EqtElim(Theory, truth, equation) :
        shorter \in ProveHyp(Theory, discharged, thm)
  BY <1>2
<1>4. /\ discharged.hyps = equation.hyps \cup truth.hyps
      /\ discharged.concl = Lhs(equation.concl)
  BY <1>3, EqtElimSays
<1>5. truth.hyps = {}
  BY <1>2, TruthIsProved DEF Thm
<1>6. /\ shorter.hyps = discharged.hyps \cup (thm.hyps \ {discharged.concl})
      /\ shorter.concl = thm.concl
  BY <1>3, ProveHypSays
<1> QED
  BY <1>1, <1>4, <1>5, <1>6

-----------------------------------------------------------------------------
(***************************************************************************)
(* The stack of open calls.                                                *)
(***************************************************************************)

LEMMA KeepsMore ==
  ASSUME NEW call, NEW kept, NEW more, kept \subseteq more, CallKeeps(call, kept)
  PROVE  CallKeeps(call, more)
  BY DEF CallKeeps, Accounted

LEMMA TopFacts ==
  ASSUME IInv, calls # <<>>
  PROVE  /\ Len(calls) \in Nat /\ Len(calls) # 0 /\ Len(calls) \in 1..Len(calls)
         /\ IsSeq(calls) /\ CallKeeps(Top, left) /\ Top = calls[Len(calls)]
<1>1. IsSeq(calls) /\ Len(calls) \in Nat /\ Len(calls) # 0
  BY SeqLen, SeqEmpty DEF IInv
<1> QED
  BY <1>1 DEF IInv, Top

LEMMA RefuseKeeps ==
  ASSUME IInv, Refuse, UNCHANGED certificate
  PROVE  IInv'
<1>1. calls' = <<>> /\ left' = left /\ proof' = proof /\ certificate' = certificate
  BY DEF Refuse
<1>2. IsSeq(calls') /\ Len(calls') = 0
  BY <1>1, EmptyIsSeq
<1> QED
  BY <1>1, <1>2 DEF IInv, ProofIsClaim

LEMMA BecomeKeeps ==
  ASSUME IInv, calls # <<>>, NEW call, CallKeeps(call, left),
         call.certificate = Top.certificate, Become(call), UNCHANGED certificate
  PROVE  IInv'
<1> DEFINE n == Len(calls)
<1>1. /\ calls' = [calls EXCEPT ![n] = call]
      /\ left' = left /\ proof' = proof /\ certificate' = certificate
  BY DEF Become
<1>2. n \in Nat /\ n # 0 /\ n \in 1..n /\ IsSeq(calls) /\ Top = calls[n]
  BY TopFacts
<1>3. /\ IsSeq(calls') /\ Len(calls') = n /\ calls'[n] = call
      /\ \A i \in 1..n : i # n => calls'[i] = calls[i]
  <2>1. \A k \in 1..Len(calls) :
          /\ IsSeq([calls EXCEPT ![k] = call]) /\ Len([calls EXCEPT ![k] = call]) = Len(calls)
          /\ [calls EXCEPT ![k] = call][k] = call
          /\ \A i \in 1..Len(calls) : i # k => [calls EXCEPT ![k] = call][i] = calls[i]
    BY <1>2, Replaced
  <2> QED
    BY <1>1, <1>2, <2>1
<1> HIDE DEF n
<1>4. \A i \in 1..n : CallKeeps(calls[i], left)
  BY DEF IInv, n
<1>5. \A i \in 1..n : CallKeeps(calls'[i], left)
  BY <1>3, <1>4
<1>6. \A i \in 1..n - 1 : Suspended(calls'[i])
  <2> SUFFICES ASSUME NEW i \in 1..n - 1 PROVE Suspended(calls'[i])
    OBVIOUS
  <2>1. i \in 1..n /\ i # n
    BY <1>2
  <2>2. Suspended(calls[i])
    BY DEF IInv, n
  <2> QED
    BY <1>3, <2>1, <2>2
<1>7. calls'[1].certificate = calls[1].certificate
  <2>1. CASE n = 1
    BY <1>2, <1>3, <2>1
  <2>2. CASE n # 1
    <3>1. 1 \in 1..n
      BY <1>2
    <3> QED
      BY <1>3, <2>2, <3>1
  <2> QED
    BY <2>1, <2>2
<1> QED
  BY <1>1, <1>3, <1>5, <1>6, <1>7 DEF IInv, ProofIsClaim

LEMMA EnterKeeps ==
  ASSUME IInv, NEW c, Enter(c), UNCHANGED <<certificate, left>>,
         \/ calls = <<>> /\ c \in certificate
         \/ calls # <<>> /\ Suspended(Top)
  PROVE  IInv'
<1> DEFINE n == Len(calls)
<1>1. CASE Refuse
  BY <1>1, RefuseKeeps
<1>2. CASE \E thm \in Refl(Theory, c.term) :
             /\ calls' = Append(calls, Opened(c, thm))
             /\ UNCHANGED <<left, proof, verdict>>
  <2>1. PICK thm \in Refl(Theory, c.term) : calls' = Append(calls, Opened(c, thm))
    BY <1>2
  <2>2. /\ IsSeq(calls) /\ n \in Nat
        /\ left' = left /\ proof' = proof /\ certificate' = certificate
    BY <1>2, SeqLen DEF IInv
  <2>3. /\ IsSeq(calls') /\ Len(calls') = n + 1 /\ calls'[n + 1] = Opened(c, thm)
        /\ \A i \in 1..n : calls'[i] = calls[i]
    BY <2>1, <2>2, Pushed
  <2>4. CallKeeps(Opened(c, thm), left)
    <3>1. thm.hyps = {} /\ thm.concl = Eqn(c.term, c.term)
      BY <2>1, ReflSays
    <3>2. Rhs(thm.concl) = c.term
      BY <3>1, EqnShape
    <3>3. IsSeq(<<>>) /\ Len(<<>>) = 0
      BY EmptyIsSeq
    <3> QED
      BY <3>1, <3>2, <3>3 DEF CallKeeps, Opened, Fields
  <2> HIDE DEF n
  <2>5. \A i \in 1..n + 1 : CallKeeps(calls'[i], left)
    <3>1. \A i \in 1..n : CallKeeps(calls[i], left)
      BY DEF IInv, n
    <3> QED
      BY <2>2, <2>3, <2>4, <3>1
  <2>6. \A i \in 1..n : Suspended(calls'[i])
    <3>1. \A i \in 1..n - 1 : Suspended(calls[i])
      BY DEF IInv, n
    <3>2. n # 0 => Suspended(calls[n])
      BY <2>2, EmptyIsSeq DEF Top, n
    <3> QED
      BY <2>2, <2>3, <3>1, <3>2
  <2>7. calls'[1].certificate \in certificate'
    <3>1. CASE n = 0
      <4>1. calls = <<>>
        BY <2>2, <3>1, SeqEmpty DEF n
      <4> QED
        BY <2>2, <2>3, <3>1, <4>1 DEF Opened
    <3>2. CASE n # 0
      <4>1. 1 \in 1..n /\ calls # <<>>
        BY <2>2, <3>2, EmptyIsSeq DEF n
      <4> QED
        BY <2>2, <2>3, <4>1 DEF IInv
    <3> QED
      BY <3>1, <3>2
  <2>8. Len(calls') - 1 = n
    BY <2>2, <2>3
  <2> QED
    BY <2>2, <2>3, <2>5, <2>6, <2>7, <2>8 DEF IInv, ProofIsClaim
<1> QED
  BY <1>1, <1>2 DEF Enter

-----------------------------------------------------------------------------
(***************************************************************************)
(* Each step keeps the invariant.                                          *)
(***************************************************************************)

LEMMA StartReplayKeeps ==
  ASSUME IInv, StartReplay, UNCHANGED certificate
  PROVE  IInv'
<1>1. PICK c \in certificate : Enter(c)
  BY DEF StartReplay
<1>2. calls = <<>> /\ left' = left
  BY <1>1 DEF StartReplay, Enter, Refuse
<1> QED
  BY <1>1, <1>2, EnterKeeps

LEMMA TakeStepKeeps ==
  ASSUME IInv, TakeStep, UNCHANGED certificate
  PROVE  IInv'
<1> DEFINE call == [Top EXCEPT !.phase = "down", !.frames = <<>>, !.subterm = Rhs(Top.chain.concl)]
<1>1. calls # <<>> /\ (Refuse \/ Become(call))
  BY DEF TakeStep, Running
<1>2. CallKeeps(Top, left)
  BY <1>1, TopFacts
<1>3. CallKeeps(call, left) /\ call.certificate = Top.certificate
  BY <1>2, EmptyIsSeq DEF CallKeeps, Fields
<1> HIDE DEF call
<1> QED
  BY <1>1, <1>3, RefuseKeeps, BecomeKeeps

\* A frame more on the way down.
LEMMA GoDownKeeps ==
  ASSUME NEW frame, FrameKeeps(frame), NEW subterm, CallKeeps(Top, left), Top.phase = "down"
  PROVE  /\ CallKeeps(GoDown(frame, subterm), left)
         /\ GoDown(frame, subterm).certificate = Top.certificate
<1> DEFINE call == GoDown(frame, subterm)
           frames == Append(Top.frames, frame)
<1>1. /\ DOMAIN call = Fields /\ call.certificate = Top.certificate
      /\ call.chain = Top.chain /\ call.phase = "down" /\ call.frames = frames
  BY DEF CallKeeps, Fields, GoDown
<1>2. /\ IsSeq(Top.frames) /\ Len(Top.frames) \in Nat
      /\ \A i \in 1..Len(Top.frames) : FrameKeeps(Top.frames[i])
  BY SeqLen DEF CallKeeps
<1>3. /\ IsSeq(frames) /\ Len(frames) = Len(Top.frames) + 1
      /\ frames[Len(Top.frames) + 1] = frame
      /\ \A i \in 1..Len(Top.frames) : frames[i] = Top.frames[i]
  BY <1>2, Pushed
<1> HIDE DEF frames, call
<1>4. \A i \in 1..Len(frames) : FrameKeeps(frames[i])
  BY <1>2, <1>3
<1>5. CallKeeps(call, left)
  BY <1>1, <1>3, <1>4 DEF CallKeeps
<1> QED
  BY <1>1, <1>5 DEF call

LEMMA DescendKeeps ==
  ASSUME IInv, Descend, UNCHANGED certificate
  PROVE  IInv'
<1> DEFINE term == Top.subterm
<1>1. calls # <<>> /\ Top.phase = "down"
  BY DEF Descend, Running
<1>2. CallKeeps(Top, left)
  BY <1>1, TopFacts
<1>3. \/ Refuse
      \/ \E frame, subterm : FrameKeeps(frame) /\ Become(GoDown(frame, subterm))
  <2>1. CASE Refuse
    BY <2>1
  <2>2. CASE Become(GoDown([kind |-> "rator", sibling |-> term.rand], term.rator))
    <3>1. FrameKeeps([kind |-> "rator", sibling |-> term.rand])
      BY DEF FrameKeeps
    <3> QED
      BY <2>2, <3>1
  <2>3. CASE \E thm \in Refl(Theory, term.rator) :
               Become(GoDown([kind |-> "rand", sibling |-> thm], term.rand))
    <3>1. PICK thm \in Refl(Theory, term.rator) :
                 Become(GoDown([kind |-> "rand", sibling |-> thm], term.rand))
      BY <2>3
    <3>2. thm.hyps = {}
      BY <3>1, ReflSays
    <3>3. FrameKeeps([kind |-> "rand", sibling |-> thm])
      BY <3>2 DEF FrameKeeps
    <3> QED
      BY <3>1, <3>3
  <2>4. CASE LET var == path_opener(term, Binders)
             IN  Become(GoDown([kind |-> "body", sibling |-> var], open_abs(term, var)))
    <3>1. \A var : FrameKeeps([kind |-> "body", sibling |-> var])
      BY DEF FrameKeeps
    <3> QED
      BY <2>4, <3>1
  <2> QED
    BY <2>1, <2>2, <2>3, <2>4 DEF Descend, Advance
<1>4. ASSUME NEW frame, NEW subterm, FrameKeeps(frame), Become(GoDown(frame, subterm))
      PROVE  IInv'
  <2>1. /\ CallKeeps(GoDown(frame, subterm), left)
        /\ GoDown(frame, subterm).certificate = Top.certificate
    BY <1>1, <1>2, <1>4, GoDownKeeps
  <2> QED
    BY <1>1, <1>4, <2>1, BecomeKeeps
<1> QED
  BY <1>3, <1>4, RefuseKeeps

LEMMA FetchRuleKeeps ==
  ASSUME FiniteHypotheses, IInv, FetchRule, UNCHANGED certificate
  PROVE  IInv'
<1> DEFINE n == Len(AtHand.conditions)
           call(thm, hyps) == [Top EXCEPT !.phase = "conditions", !.proving = thm,
                                          !.hyps = hyps, !.met = 0]
<1>1. /\ calls # <<>>
      /\ \/ Refuse
         \/ \E thm \in InstancesOf(order, rules, AtHand) :
              /\ Cardinality(thm.hyps) = n
              /\ \E hyps \in Sorted(thm.hyps, n) : Become(call(thm, hyps))
  BY DEF FetchRule, Running
<1>2. CallKeeps(Top, left)
  BY <1>1, TopFacts
<1>3. ASSUME NEW thm \in InstancesOf(order, rules, AtHand), Cardinality(thm.hyps) = n,
             NEW hyps \in Sorted(thm.hyps, n)
      PROVE  CallKeeps(call(thm, hyps), left) /\ call(thm, hyps).certificate = Top.certificate
  <2>1. n \in Nat
    <3>1. IsFiniteSet(thm.hyps)
      BY <1>3 DEF FiniteHypotheses, FetchRule
    <3> QED
      BY <1>3, <3>1, FS_CardinalityType
  <2> HIDE DEF n
  <2>2. hyps \in [1..n -> thm.hyps] /\ \A h \in thm.hyps : \E i \in 1..n : hyps[i] = h
    BY <1>3 DEF Sorted
  <2>3. Len(hyps) = n
    BY <2>1, <2>2, SeqDef, LenProperties
  <2>4. thm.hyps \subseteq left \cup {hyps[i] : i \in 0 + 1..Len(hyps)}
    BY <2>2, <2>3
  <2>5. /\ DOMAIN call(thm, hyps) = Fields
        /\ call(thm, hyps).certificate = Top.certificate
        /\ call(thm, hyps).chain = Top.chain /\ call(thm, hyps).frames = Top.frames
        /\ call(thm, hyps).phase = "conditions" /\ call(thm, hyps).proving = thm
        /\ call(thm, hyps).hyps = hyps /\ call(thm, hyps).met = 0
    BY <1>2 DEF CallKeeps, Fields
  <2> HIDE DEF call
  <2>6. Accounted(call(thm, hyps), left)
    BY <2>1, <2>3, <2>4, <2>5 DEF Accounted
  <2> QED
    BY <1>2, <2>5, <2>6 DEF CallKeeps
<1> HIDE DEF call, n
<1>4. ASSUME NEW thm, NEW hyps, Become(call(thm, hyps)), CallKeeps(call(thm, hyps), left),
             call(thm, hyps).certificate = Top.certificate
      PROVE  IInv'
  BY <1>1, <1>4, BecomeKeeps
<1> QED
  BY <1>1, <1>3, <1>4, RefuseKeeps

\* What stays is a hypothesis accounted for, in this call and in all below it.
LEMMA LeaveConditionKeeps ==
  ASSUME IInv, LeaveCondition, UNCHANGED certificate
  PROVE  IInv'
<1> DEFINE n == Len(calls)
           call == [Top EXCEPT !.met = @ + 1]
           kept == left \cup {Hypothesis}
<1>1. /\ calls # <<>> /\ Top.phase = "conditions" /\ Top.met < Len(Top.hyps)
      /\ calls' = [calls EXCEPT ![n].met = @ + 1]
      /\ left' = kept /\ proof' = proof /\ certificate' = certificate
  BY DEF LeaveCondition, Meeting, Running
<1>2. /\ n \in Nat /\ n # 0 /\ n \in 1..n /\ IsSeq(calls)
      /\ Top = calls[n] /\ CallKeeps(Top, left)
  BY <1>1, TopFacts
<1>3. CallKeeps(call, kept) /\ call.certificate = Top.certificate
  <2>1. /\ DOMAIN call = Fields /\ call.certificate = Top.certificate
        /\ call.chain = Top.chain /\ call.frames = Top.frames
        /\ call.phase = "conditions" /\ call.proving = Top.proving
        /\ call.hyps = Top.hyps /\ call.met = Top.met + 1
    BY <1>1, <1>2 DEF CallKeeps, Fields
  <2>2. Accounted(Top, left) /\ CallKeeps(Top, kept)
    BY <1>1, <1>2, KeepsMore DEF CallKeeps
  <2>3. Hypothesis = Top.hyps[Top.met + 1]
    BY DEF Hypothesis
  <2> HIDE DEF call
  <2>4. /\ call.met \in Nat /\ Len(call.hyps) \in Nat
        /\ \A h \in call.proving.hyps :
             h \in kept \/ \E i \in call.met + 1..Len(call.hyps) : h = call.hyps[i]
    <3>1. /\ Top.met \in Nat /\ Len(Top.hyps) \in Nat
          /\ \A h \in Top.proving.hyps :
               h \in left \/ \E i \in Top.met + 1..Len(Top.hyps) : h = Top.hyps[i]
      BY <2>2 DEF Accounted
    <3>2. ASSUME NEW h, NEW i \in Top.met + 1..Len(Top.hyps), h = Top.hyps[i]
          PROVE  h = Hypothesis \/ \E j \in Top.met + 1 + 1..Len(Top.hyps) : h = Top.hyps[j]
      <4>1. i = Top.met + 1 \/ i \in Top.met + 1 + 1..Len(Top.hyps)
        BY <3>1
      <4> QED
        BY <2>3, <3>2, <4>1
    <3> QED
      BY <2>1, <3>1, <3>2
  <2>5. Accounted(call, kept)
    BY <2>4 DEF Accounted
  <2> QED
    BY <2>1, <2>2, <2>5 DEF CallKeeps
<1>4. calls' = [calls EXCEPT ![n] = call]
  BY <1>1, <1>2
<1> HIDE DEF call, kept
<1>5. /\ IsSeq(calls') /\ Len(calls') = n /\ calls'[n] = call
      /\ \A i \in 1..n : i # n => calls'[i] = calls[i]
  <2>1. \A k \in 1..Len(calls) :
          /\ IsSeq([calls EXCEPT ![k] = call]) /\ Len([calls EXCEPT ![k] = call]) = Len(calls)
          /\ [calls EXCEPT ![k] = call][k] = call
          /\ \A i \in 1..Len(calls) : i # k => [calls EXCEPT ![k] = call][i] = calls[i]
    BY <1>2, Replaced
  <2> QED
    BY <1>2, <1>4, <2>1
<1> HIDE DEF n
<1>6. \A i \in 1..n : CallKeeps(calls'[i], kept)
  <2>1. left \subseteq kept
    BY DEF kept
  <2>2. \A i \in 1..n : CallKeeps(calls[i], kept)
    <3>1. \A i \in 1..n : CallKeeps(calls[i], left)
      BY DEF IInv, n
    <3>2. \A c : CallKeeps(c, left) => CallKeeps(c, kept)
      BY <2>1, KeepsMore
    <3> QED
      BY <3>1, <3>2
  <2> QED
    BY <1>3, <1>5, <2>2
<1>7. \A i \in 1..n - 1 : Suspended(calls'[i])
  <2> SUFFICES ASSUME NEW i \in 1..n - 1 PROVE Suspended(calls'[i])
    OBVIOUS
  <2>1. i \in 1..n /\ i # n
    BY <1>2
  <2>2. Suspended(calls[i])
    BY DEF IInv, n
  <2> QED
    BY <1>5, <2>1, <2>2
<1>8. calls'[1].certificate = calls[1].certificate
  BY <1>2, <1>3, <1>5
<1>9. ProofIsClaim'
  BY <1>1 DEF ProofIsClaim, IInv, kept
<1> QED
  BY <1>1, <1>5, <1>6, <1>7, <1>8, <1>9 DEF IInv

LEMMA EnterConditionKeeps ==
  ASSUME IInv, EnterCondition, UNCHANGED certificate
  PROVE  IInv'
<1>1. calls # <<>> /\ Suspended(Top)
  BY DEF EnterCondition, Meeting, Running, Suspended
<1>2. CASE Refuse
  BY <1>2, RefuseKeeps
<1>3. CASE Enter(Condition.certificate)
  <2>1. left' = left
    BY <1>3 DEF Enter, Refuse
  <2> QED
    BY <1>1, <1>3, <2>1, EnterKeeps
<1> QED
  BY <1>2, <1>3 DEF EnterCondition

LEMMA TurnBackKeeps ==
  ASSUME IInv, TurnBack, UNCHANGED certificate
  PROVE  IInv'
<1> DEFINE call == [Top EXCEPT !.phase = "up"]
<1>1. /\ calls # <<>> /\ Top.phase = "conditions" /\ Top.met = Len(Top.hyps)
      /\ Refuse \/ Become(call)
  BY DEF TurnBack, Running
<1>2. CallKeeps(Top, left)
  BY <1>1, TopFacts
<1>3. Top.proving.hyps \subseteq left
  BY <1>1, <1>2 DEF CallKeeps, Accounted
<1>4. CallKeeps(call, left) /\ call.certificate = Top.certificate
  BY <1>2, <1>3 DEF CallKeeps, Fields
<1> HIDE DEF call
<1> QED
  BY <1>1, <1>4, RefuseKeeps, BecomeKeeps

\* No frame brings a hypothesis of its own.
LEMMA RebuiltSays ==
  ASSUME NEW frame, FrameKeeps(frame), NEW premise, NEW thm \in Rebuilt(frame, premise)
  PROVE  thm.hyps = premise.hyps
<1>1. CASE frame.kind = "rator"
  <2>1. thm \in ApThm(Theory, premise, frame.sibling)
    BY <1>1 DEF Rebuilt
  <2> QED
    BY <2>1, ApThmSays
<1>2. CASE frame.kind = "rand"
  <2>1. thm \in MkComb(Theory, frame.sibling, premise) /\ frame.sibling.hyps = {}
    BY <1>2 DEF Rebuilt, FrameKeeps
  <2>2. thm.hyps = frame.sibling.hyps \cup premise.hyps
    <3>1. \A f : \A answer \in MkComb(Theory, f, premise) : answer.hyps = f.hyps \cup premise.hyps
      BY MkCombSays
    <3> QED
      BY <2>1, <3>1
  <2> QED
    BY <2>1, <2>2
<1>3. CASE frame.kind = "body"
  <2>1. thm \in Abs(Theory, frame.sibling, premise)
    BY <1>3 DEF Rebuilt
  <2> QED
    BY <2>1, AbsSays
<1> QED
  BY <1>1, <1>2, <1>3 DEF FrameKeeps

LEMMA AscendKeeps ==
  ASSUME IInv, Ascend, UNCHANGED certificate
  PROVE  IInv'
<1> DEFINE frames == Top.frames
           last == frames[Len(frames)]
           call(thm) == [Top EXCEPT !.frames = Below(@), !.proving = thm]
<1>1. /\ calls # <<>> /\ Top.phase = "up" /\ frames # <<>>
      /\ \/ Refuse
         \/ \E thm \in Rebuilt(last, Top.proving) : Become(call(thm))
  BY DEF Ascend, Running, Advance
<1>2. CallKeeps(Top, left) /\ Top.proving.hyps \subseteq left
  BY <1>1, TopFacts DEF CallKeeps
<1>3. /\ IsSeq(frames) /\ Len(frames) \in Nat /\ Len(frames) # 0
      /\ \A i \in 1..Len(frames) : FrameKeeps(frames[i])
  BY <1>1, <1>2, SeqLen, SeqEmpty DEF CallKeeps
<1>4. /\ IsSeq(Below(frames)) /\ Len(Below(frames)) = Len(frames) - 1
      /\ \A i \in 1..Len(frames) - 1 : Below(frames)[i] = frames[i]
  BY <1>3, Popped DEF Below
<1>5. ASSUME NEW thm \in Rebuilt(last, Top.proving)
      PROVE  CallKeeps(call(thm), left) /\ call(thm).certificate = Top.certificate
  <2>1. FrameKeeps(last)
    BY <1>3
  <2> HIDE DEF last
  <2>2. thm.hyps = Top.proving.hyps
    BY <1>5, <2>1, RebuiltSays
  <2>3. /\ DOMAIN call(thm) = Fields
        /\ call(thm).certificate = Top.certificate
        /\ call(thm).chain = Top.chain /\ call(thm).frames = Below(frames)
        /\ call(thm).phase = "up" /\ call(thm).proving = thm
    BY <1>1, <1>2 DEF CallKeeps, Fields
  <2> HIDE DEF call, frames
  <2>4. \A i \in 1..Len(Below(frames)) : FrameKeeps(Below(frames)[i])
    BY <1>3, <1>4
  <2> QED
    BY <1>2, <1>4, <2>2, <2>3, <2>4 DEF CallKeeps
<1> HIDE DEF call, last, frames
<1>6. ASSUME NEW thm, Become(call(thm)), CallKeeps(call(thm), left),
             call(thm).certificate = Top.certificate
      PROVE  IInv'
  BY <1>1, <1>6, BecomeKeeps
<1> QED
  BY <1>1, <1>5, <1>6, RefuseKeeps

\* TRANS keeps the left side of the chain.
LEMMA LengthenKeeps ==
  ASSUME IInv, Lengthen, UNCHANGED certificate
  PROVE  IInv'
<1> DEFINE call(thm) == [Top EXCEPT !.phase = "chain", !.chain = thm, !.taken = @ + 1]
<1>1. /\ calls # <<>> /\ Top.phase = "up"
      /\ \/ Refuse
         \/ \E thm \in Trans(Theory, Top.chain, Top.proving) : Become(call(thm))
  BY DEF Lengthen, Running, Advance
<1>2. CallKeeps(Top, left)
  BY <1>1, TopFacts
<1>3. ASSUME NEW thm \in Trans(Theory, Top.chain, Top.proving)
      PROVE  CallKeeps(call(thm), left) /\ call(thm).certificate = Top.certificate
  <2>1. /\ DOMAIN call(thm) = Fields
        /\ call(thm).certificate = Top.certificate
        /\ call(thm).chain = thm /\ call(thm).frames = Top.frames
        /\ call(thm).phase = "chain"
    BY <1>2 DEF CallKeeps, Fields
  <2> HIDE DEF call
  <2>2. /\ thm.hyps = Top.chain.hyps \cup Top.proving.hyps
        /\ thm.concl = Eqn(Lhs(Top.chain.concl), Rhs(Top.proving.concl))
    BY <1>3, TransSays
  <2>3. thm.hyps \subseteq left
    BY <1>1, <1>2, <2>2 DEF CallKeeps
  <2>4. Lhs(Top.chain.concl) = Top.certificate.term
    BY <1>2, EqnShape DEF CallKeeps
  <2>5. Rhs(thm.concl) = Rhs(Top.proving.concl)
    BY <2>2, EqnShape
  <2> QED
    BY <1>2, <2>1, <2>2, <2>3, <2>4, <2>5 DEF CallKeeps
<1> HIDE DEF call
<1>4. ASSUME NEW thm, Become(call(thm)), CallKeeps(call(thm), left),
             call(thm).certificate = Top.certificate
      PROVE  IInv'
  BY <1>1, <1>4, BecomeKeeps
<1> QED
  BY <1>1, <1>3, <1>4, RefuseKeeps

LEMMA AnswerKeeps ==
  ASSUME IInv, Answer, UNCHANGED certificate
  PROVE  IInv'
<1>1. CASE Refuse
  BY <1>1, RefuseKeeps
<1>2. CASE Confirmed /\ calls' = <<>> /\ proof' = {Top.chain} /\ left' = left
  <2>1. calls # <<>> /\ Top = calls[1]
    BY DEF Answer, Done, Running, Top
  <2>2. CallKeeps(Top, left) /\ Top.certificate \in certificate
    BY <2>1, TopFacts DEF IInv
  <2>3. Top.chain.concl = Eqn(Top.certificate.term, Top.certificate.result)
    BY <1>2, <2>2 DEF CallKeeps, Confirmed
  <2>4. Top.chain.hyps \subseteq left
    BY <2>2 DEF CallKeeps
  <2>5. ProofIsClaim'
    BY <1>2, <2>2, <2>3, <2>4 DEF ProofIsClaim
  <2> QED
    BY <1>2, <2>5, EmptyIsSeq DEF IInv
<1> QED
  BY <1>1, <1>2 DEF Answer

\* The hypothesis whose condition was replayed goes; what the replay left of
\* its own is in left already.
LEMMA AnswerConditionKeeps ==
  ASSUME IInv, AnswerCondition, UNCHANGED certificate
  PROVE  IInv'
<1> DEFINE n == Len(calls)
           m == Len(calls) - 1
           below == Below(calls)
           caller == below[Len(below)]
           hyp == caller.hyps[caller.met + 1]
           call(thm) == [caller EXCEPT !.proving = thm, !.met = @ + 1]
<1>1. /\ calls # <<>> /\ n > 1
      /\ \/ Refuse
         \/ \E thm \in Without(caller.proving, hyp, Top.chain) :
              /\ calls' = [below EXCEPT ![Len(below)] = call(thm)]
              /\ left' = left /\ proof' = proof
  BY DEF AnswerCondition, Done, Running
<1>2. n \in Nat /\ IsSeq(calls) /\ CallKeeps(Top, left)
  BY <1>1, TopFacts
<1>3. \A c : /\ m \in Nat /\ m \in 1..m /\ m \in 1..n /\ caller = calls[m]
             /\ IsSeq([below EXCEPT ![Len(below)] = c])
             /\ Len([below EXCEPT ![Len(below)] = c]) = m
             /\ [below EXCEPT ![Len(below)] = c][m] = c
             /\ \A i \in 1..m : i # m => [below EXCEPT ![Len(below)] = c][i] = calls[i]
  BY <1>1, <1>2, Returned DEF Below
<1>4. m \in Nat /\ m \in 1..m /\ m \in 1..n /\ m \in 1..n - 1 /\ caller = calls[m]
  BY <1>3
<1>5. CallKeeps(caller, left) /\ Suspended(caller)
  BY <1>4 DEF IInv
<1> HIDE DEF caller, below, m, n
<1>6. CASE Refuse
  BY <1>6, RefuseKeeps
<1>7. ASSUME NEW thm \in Without(caller.proving, hyp, Top.chain),
             calls' = [below EXCEPT ![Len(below)] = call(thm)],
             left' = left, proof' = proof
      PROVE  IInv'
  <2>1. thm.hyps = Top.chain.hyps \cup (caller.proving.hyps \ {hyp})
    BY <1>7, WithoutSays
  <2>2. /\ caller.met \in Nat /\ Len(caller.hyps) \in Nat /\ caller.met < Len(caller.hyps)
        /\ \A h \in caller.proving.hyps :
             h \in left \/ \E i \in caller.met + 1..Len(caller.hyps) : h = caller.hyps[i]
    BY <1>5 DEF CallKeeps, Suspended, Accounted
  <2>3. ASSUME NEW h \in thm.hyps
        PROVE  h \in left \/ \E i \in caller.met + 1 + 1..Len(caller.hyps) : h = caller.hyps[i]
    <3>1. CASE h \in Top.chain.hyps
      BY <1>2, <3>1 DEF CallKeeps
    <3>2. CASE h \in caller.proving.hyps /\ h # hyp /\ h \notin left
      <4>1. PICK i \in caller.met + 1..Len(caller.hyps) : h = caller.hyps[i]
        BY <2>2, <3>2
      <4>2. i \in caller.met + 1 + 1..Len(caller.hyps)
        BY <2>2, <3>2, <4>1
      <4> QED
        BY <4>1, <4>2
    <3> QED
      BY <2>1, <3>1, <3>2
  <2>4. /\ DOMAIN call(thm) = Fields
        /\ call(thm).certificate = caller.certificate
        /\ call(thm).chain = caller.chain /\ call(thm).frames = caller.frames
        /\ call(thm).phase = "conditions" /\ call(thm).proving = thm
        /\ call(thm).hyps = caller.hyps /\ call(thm).met = caller.met + 1
    BY <1>5 DEF CallKeeps, Suspended, Fields
  <2> HIDE DEF call, hyp
  <2>5. Accounted(call(thm), left)
    <3>1. \A h \in call(thm).proving.hyps :
            h \in left \/ \E i \in call(thm).met + 1..Len(call(thm).hyps) : h = call(thm).hyps[i]
      BY <2>3, <2>4
    <3>2. call(thm).met \in Nat /\ Len(call(thm).hyps) \in Nat
      BY <2>2, <2>4
    <3> QED
      BY <3>1, <3>2 DEF Accounted
  <2>6. CallKeeps(call(thm), left)
    BY <1>5, <2>4, <2>5 DEF CallKeeps
  <2>7. /\ IsSeq(calls') /\ Len(calls') = m /\ calls'[m] = call(thm)
        /\ \A i \in 1..m : i # m => calls'[i] = calls[i]
    BY <1>3, <1>7
  <2>8. \A i \in 1..m : CallKeeps(calls'[i], left)
    <3>1. \A i \in 1..m : CallKeeps(calls[i], left)
      BY <1>2, <1>4 DEF IInv, m, n
    <3> QED
      BY <2>6, <2>7, <3>1
  <2>9. \A i \in 1..m - 1 : Suspended(calls'[i])
    <3> SUFFICES ASSUME NEW i \in 1..m - 1 PROVE Suspended(calls'[i])
      OBVIOUS
    <3>1. i \in 1..m /\ i # m /\ i \in 1..n - 1
      BY <1>2, <1>4 DEF m, n
    <3>2. Suspended(calls[i])
      BY <3>1 DEF IInv, n
    <3> QED
      BY <2>7, <3>1, <3>2
  <2>10. calls'[1].certificate = calls[1].certificate
    <3>1. 1 \in 1..m
      BY <1>4
    <3>2. CASE m = 1
      BY <1>4, <2>4, <2>7, <3>2
    <3>3. CASE m # 1
      BY <2>7, <3>1, <3>3
    <3> QED
      BY <3>2, <3>3
  <2> QED
    BY <1>1, <1>7, <2>7, <2>8, <2>9, <2>10 DEF IInv, ProofIsClaim
<1> QED
  BY <1>1, <1>6, <1>7

-----------------------------------------------------------------------------

LEMMA InitKeeps == ASSUME ReplayInit PROVE IInv
<1>1. calls = <<>> /\ proof = {}
  BY DEF ReplayInit
<1>2. IsSeq(calls) /\ Len(calls) = 0
  BY <1>1, EmptyIsSeq
<1> QED
  BY <1>1, <1>2 DEF IInv, ProofIsClaim

LEMMA ReplayStepKeeps ==
  ASSUME FiniteHypotheses, IInv, ReplayStep, UNCHANGED certificate
  PROVE  IInv'
<1>1. CASE StartReplay
  BY <1>1, StartReplayKeeps
<1>2. CASE TakeStep
  BY <1>2, TakeStepKeeps
<1>3. CASE Descend
  BY <1>3, DescendKeeps
<1>4. CASE FetchRule
  BY <1>4, FetchRuleKeeps
<1>5. CASE LeaveCondition
  BY <1>5, LeaveConditionKeeps
<1>6. CASE EnterCondition
  BY <1>6, EnterConditionKeeps
<1>7. CASE AnswerCondition
  BY <1>7, AnswerConditionKeeps
<1>8. CASE TurnBack
  BY <1>8, TurnBackKeeps
<1>9. CASE Ascend
  BY <1>9, AscendKeeps
<1>10. CASE Lengthen
  BY <1>10, LengthenKeeps
<1>11. CASE Answer
  BY <1>11, AnswerKeeps
<1> QED
  BY <1>1, <1>2, <1>3, <1>4, <1>5, <1>6, <1>7, <1>8, <1>9, <1>10, <1>11 DEF ReplayStep

LEMMA ReplayNextKeeps ==
  ASSUME FiniteHypotheses, IInv, [ReplayNext]_<<order, rules, certificate, replayVars>>
  PROVE  IInv'
<1>1. CASE ReplayStep /\ UNCHANGED <<order, rules, certificate>>
  BY <1>1, ReplayStepKeeps
<1>2. CASE NewCertificate
  <2>1. calls' = <<>> /\ proof' = {}
    BY <1>2 DEF NewCertificate
  <2>2. IsSeq(calls') /\ Len(calls') = 0
    BY <2>1, EmptyIsSeq
  <2> QED
    BY <2>1, <2>2 DEF IInv, ProofIsClaim
<1>3. CASE UNCHANGED <<certificate, replayVars>>
  BY <1>3 DEF IInv, ProofIsClaim, replayVars
<1> QED
  BY <1>1, <1>2, <1>3 DEF ReplayNext, NewRules, replayVars

(***************************************************************************)
(* What is open of a replay accounts for its hypotheses: every equation of *)
(* every chain starts at the term of its certificate and rests on what     *)
(* Assumed conditions have left, and an instance on that and on the        *)
(* conditions it still has to meet (replay.rs:41-58, 196-228).             *)
(***************************************************************************)
THEOREM EveryHypothesisIsAccounted == ReplaySpec /\ []FiniteHypotheses => []IInv
<1>1. ReplayInit => IInv
  BY InitKeeps
<1>2. FiniteHypotheses /\ IInv /\ [ReplayNext]_<<order, rules, certificate, replayVars>> => IInv'
  BY ReplayNextKeeps
<1> QED
  BY <1>1, <1>2, PTL DEF ReplaySpec

(***************************************************************************)
(* Replay proves what the certificate says or nothing (replay.rs:4-8,      *)
(* 44-46), for any certificate, any rules and any instances of them.       *)
(***************************************************************************)
THEOREM ProvesWhatIsClaimed == ReplaySpec /\ []FiniteHypotheses => []ProofIsClaim
<1>1. ReplaySpec /\ []FiniteHypotheses => []IInv
  BY EveryHypothesisIsAccounted
<1>2. IInv => ProofIsClaim
  BY DEF IInv
<1> QED
  BY <1>1, <1>2, PTL

-----------------------------------------------------------------------------
(***************************************************************************)
(* Nothing but ABS refuses on the way up.                                  *)
(*                                                                         *)
(* The frames of a call are a trail: each says how one term is made of the *)
(* next, from the term the chain has reached down to the subterm.  What is *)
(* proved of a subterm is an equation whose left side is the term there,   *)
(* at the type of that term, so every rule that takes it one frame up has  *)
(* what it asks for but the side condition of ABS.                         *)
(***************************************************************************)

CONSTANT WellTyped      \* the well-formed closed terms, or as many as there are

Laws == WellShaped(WellTyped, Nat) /\ AllBuilt(WellTyped)

HypothesesOver(hyps) == \A h \in hyps : h \in WellTyped /\ Proposition(h)

TheoremOver(thm) ==
  /\ thm = Thm(Theory, thm.hyps, thm.concl)
  /\ thm.concl \in WellTyped /\ Proposition(thm.concl) /\ HypothesesOver(thm.hyps)

EquationOver(thm) ==
  /\ HypothesesOver(thm.hyps)
  /\ \E l, r \in WellTyped : l.ty = r.ty /\ thm = Thm(Theory, thm.hyps, Eqn(l, r))

\* What a program hands to replay: certificates of its terms, and rules whose
\* instances are theorems of its theory.
Supplied ==
  /\ \A c \in certificate : c.term \in WellTyped
  /\ Running("down") => \A thm \in InstancesOf(order, rules, AtHand) : TheoremOver(thm)

Made(frame, outer, inner) ==
  \/ /\ frame.kind = "rator" /\ frame.sibling \in WellTyped
     /\ outer = CombRaw(inner, frame.sibling) /\ inner.ty = Fun(frame.sibling.ty, outer.ty)
  \/ /\ frame.kind = "rand"
     /\ \E f \in WellTyped : /\ frame.sibling = Thm(Theory, {}, Eqn(f, f))
                             /\ outer = CombRaw(f, inner) /\ f.ty = Fun(inner.ty, outer.ty)
  \/ /\ frame.kind = "body" /\ frame.sibling \in WellTyped /\ IsVar(frame.sibling)
     /\ outer = term_abs(frame.sibling, inner)

Leads(frames, outer, inner) ==
  \E terms \in [0..Len(frames) -> WellTyped] :
    /\ terms[0] = outer /\ terms[Len(frames)] = inner
    /\ \A i \in 1..Len(frames) : Made(frames[i], terms[i - 1], terms[i])

Trails(call) ==
  /\ EquationOver(call.chain)
  /\ call.phase \in {"down", "conditions"} =>
       Leads(call.frames, Rhs(call.chain.concl), call.subterm)
  /\ call.phase = "conditions" =>
       TheoremOver(call.proving) /\ \A i \in 1..Len(call.hyps) : HypothesesOver({call.hyps[i]})
  /\ call.phase = "up" =>
       EquationOver(call.proving) /\ Leads(call.frames, Rhs(call.chain.concl), Lhs(call.proving.concl))

TInv ==
  /\ calls # <<>> => verdict = "none"
  /\ \A i \in 1..Len(calls) : Trails(calls[i])

-----------------------------------------------------------------------------

LEMMA LeadsNowhere ==
  ASSUME NEW t \in WellTyped
  PROVE  Leads(<<>>, t, t)
<1>1. Len(<<>>) = 0
  BY EmptyIsSeq
<1>2. PICK terms : terms = [i \in 0..0 |-> t]
  OBVIOUS
<1>3. terms \in [0..0 -> WellTyped] /\ terms[0] = t
  BY <1>2
<1> QED
  BY <1>1, <1>3 DEF Leads

LEMMA LeadsToItself ==
  ASSUME NEW outer, NEW inner, Leads(<<>>, outer, inner)
  PROVE  outer = inner
  BY EmptyIsSeq DEF Leads

LEMMA LeadsFurther ==
  ASSUME NEW frames, IsSeq(frames), NEW outer, NEW middle, Leads(frames, outer, middle),
         NEW frame, NEW inner \in WellTyped, Made(frame, middle, inner)
  PROVE  Leads(Append(frames, frame), outer, inner)
<1>1. PICK n : n = Len(frames)
  OBVIOUS
<1>2. n \in Nat
  BY <1>1, SeqLen
<1>3. PICK longer : longer = Append(frames, frame)
  OBVIOUS
<1>4. Len(longer) = n + 1 /\ longer[n + 1] = frame /\ \A i \in 1..n : longer[i] = frames[i]
  BY <1>1, <1>3, Pushed
<1>5. PICK terms \in [0..n -> WellTyped] :
        /\ terms[0] = outer /\ terms[n] = middle
        /\ \A i \in 1..n : Made(frames[i], terms[i - 1], terms[i])
  BY <1>1 DEF Leads
<1>6. PICK more : more = [i \in 0..n + 1 |-> IF i = n + 1 THEN inner ELSE terms[i]]
  OBVIOUS
<1>7. /\ more \in [0..n + 1 -> WellTyped] /\ more[n + 1] = inner
      /\ \A i \in 0..n : more[i] = terms[i]
  BY <1>2, <1>5, <1>6
<1>8. more[0] = outer
  BY <1>2, <1>5, <1>7
<1>9. ASSUME NEW i \in 1..n + 1 PROVE Made(longer[i], more[i - 1], more[i])
  <2>1. CASE i = n + 1
    <3>1. i - 1 = n /\ n \in 0..n
      BY <1>2, <2>1
    <3>2. longer[i] = frame /\ more[i - 1] = middle /\ more[i] = inner
      BY <1>4, <1>5, <1>7, <2>1, <3>1
    <3> QED
      BY <3>2
  <2>2. CASE i # n + 1
    <3>1. i \in 1..n /\ i \in 0..n /\ i - 1 \in 0..n
      BY <1>2, <1>9, <2>2
    <3>2. longer[i] = frames[i] /\ more[i - 1] = terms[i - 1] /\ more[i] = terms[i]
      BY <1>4, <1>7, <3>1
    <3> QED
      BY <1>5, <3>1, <3>2
  <2> QED
    BY <2>1, <2>2
<1>10. Leads(longer, outer, inner)
  BY <1>4, <1>7, <1>8, <1>9 DEF Leads
<1> QED
  BY <1>3, <1>10

LEMMA LeadsBack ==
  ASSUME NEW frames, IsSeq(frames), Len(frames) # 0, NEW outer, NEW inner,
         Leads(frames, outer, inner)
  PROVE  \E middle \in WellTyped :
           Made(frames[Len(frames)], middle, inner) /\ Leads(Below(frames), outer, middle)
<1>1. PICK n : n = Len(frames)
  OBVIOUS
<1>2. n \in Nat /\ n # 0 /\ n \in 1..n /\ n - 1 \in 0..n /\ n - 1 \in 0..n - 1 /\ 0 \in 0..n - 1
  BY <1>1, SeqLen
<1>3. PICK shorter : shorter = Below(frames)
  OBVIOUS
<1>4. Len(shorter) = n - 1 /\ \A i \in 1..n - 1 : shorter[i] = frames[i]
  BY <1>1, <1>3, Popped DEF Below
<1>5. PICK terms \in [0..n -> WellTyped] :
        /\ terms[0] = outer /\ terms[n] = inner
        /\ \A i \in 1..n : Made(frames[i], terms[i - 1], terms[i])
  BY <1>1 DEF Leads
<1>6. PICK fewer : fewer = [i \in 0..n - 1 |-> terms[i]]
  OBVIOUS
<1>7. fewer \in [0..n - 1 -> WellTyped] /\ \A i \in 0..n - 1 : fewer[i] = terms[i]
  <2>1. \A i \in 0..n - 1 : i \in 0..n
    BY <1>2
  <2> QED
    BY <1>5, <1>6, <2>1
<1>8. \A i \in 1..n - 1 : Made(shorter[i], fewer[i - 1], fewer[i])
  <2> SUFFICES ASSUME NEW i \in 1..n - 1 PROVE Made(shorter[i], fewer[i - 1], fewer[i])
    OBVIOUS
  <2>1. i \in 1..n /\ i \in 0..n - 1 /\ i - 1 \in 0..n - 1
    BY <1>2
  <2> QED
    BY <1>4, <1>5, <1>7, <2>1
<1>9. fewer[0] = outer /\ fewer[n - 1] = terms[n - 1] /\ terms[n - 1] \in WellTyped
  BY <1>2, <1>5, <1>7
<1>10. Leads(shorter, outer, terms[n - 1])
  BY <1>4, <1>7, <1>8, <1>9 DEF Leads
<1>11. Made(frames[n], terms[n - 1], inner)
  BY <1>2, <1>5
<1> QED
  BY <1>1, <1>3, <1>9, <1>10, <1>11

-----------------------------------------------------------------------------

LEMMA CombOver ==
  ASSUME Laws, NEW f \in WellTyped, NEW x \in WellTyped, NEW b, f.ty = Fun(x.ty, b)
  PROVE  CanComb(f, x) /\ CombRaw(f, x) \in WellTyped /\ CombRaw(f, x).ty = b
<1>1. Closed(f) /\ Closed(x)
  BY DEF Laws, WellShaped
<1>2. CanComb(f, x) /\ CombRaw(f, x).ty = b
  BY <1>1, CombShape
<1>3. f.ty = Fun(x.ty, f.ty.args[2])
  BY FunShape
<1> QED
  BY <1>2, <1>3 DEF Laws, AllBuilt

LEMMA EquationFacts ==
  ASSUME Laws, NEW thm, EquationOver(thm)
  PROVE  LET l == Lhs(thm.concl)
             r == Rhs(thm.concl)
         IN  /\ IsEqn(thm.concl) /\ l \in WellTyped /\ r \in WellTyped
             /\ l.ty = r.ty /\ Equable(l, r)
             /\ thm = Thm(Theory, thm.hyps, Eqn(l, r))
             /\ \A h \in thm.hyps : Proposition(h)
             /\ Own(Theory, thm)
<1>1. PICK l \in WellTyped, r \in WellTyped :
        l.ty = r.ty /\ thm = Thm(Theory, thm.hyps, Eqn(l, r))
  BY DEF EquationOver
<1>2. thm.concl = Eqn(l, r) /\ thm.theory = Theory
  BY <1>1 DEF Thm
<1>3. IsEqn(thm.concl) /\ Lhs(thm.concl) = l /\ Rhs(thm.concl) = r
  BY <1>2, EqnShape
<1>4. Equable(l, r)
  BY <1>1 DEF Equable, Laws, WellShaped
<1>5. \A h \in thm.hyps : Proposition(h)
  BY DEF EquationOver, HypothesesOver
<1> QED
  BY <1>1, <1>2, <1>3, <1>4, <1>5 DEF Own

\* An equation built of these terms.
LEMMA EquationBuilt ==
  ASSUME NEW hyps, HypothesesOver(hyps), NEW l \in WellTyped, NEW r \in WellTyped, l.ty = r.ty,
         NEW thm, thm = Thm(Theory, hyps, Eqn(l, r))
  PROVE  EquationOver(thm) /\ Lhs(thm.concl) = l /\ Rhs(thm.concl) = r
<1>1. thm.hyps = hyps /\ thm.concl = Eqn(l, r)
  BY DEF Thm
<1>2. Lhs(thm.concl) = l /\ Rhs(thm.concl) = r
  BY <1>1, EqnShape
<1> QED
  BY <1>1, <1>2 DEF EquationOver

\* dest_eq finds the equality at the type of what it equates.
LEMMA EquationFound ==
  ASSUME Laws, NEW thm, TheoremOver(thm), IsEqn(thm.concl)
  PROVE  EquationOver(thm)
<1> DEFINE c == thm.concl
           half == c.rator
           eq == half.rator
           l == half.rand
           r == c.rand
           ty == eq.ty.args[1]
<1>1. /\ IsComb(c) /\ c \in WellTyped /\ IsComb(half) /\ IsConst(eq) /\ eq.name = EqName
      /\ thm = Thm(Theory, thm.hyps, c) /\ HypothesesOver(thm.hyps)
  BY DEF TheoremOver, IsEqn
<1>2. /\ half \in WellTyped /\ r \in WellTyped
      /\ c = CombRaw(half, r) /\ half.ty = Fun(r.ty, c.ty)
  BY <1>1 DEF Laws, AllBuilt, WellShaped
<1>3. /\ eq \in WellTyped /\ l \in WellTyped
      /\ half = CombRaw(eq, l) /\ eq.ty = Fun(l.ty, half.ty)
  BY <1>1, <1>2 DEF Laws, AllBuilt, WellShaped
<1>4. eq = EqConst(ty)
  BY <1>1, <1>3 DEF Laws, WellShaped
<1> HIDE DEF c, half, eq, l, r, ty
<1>5. eq.ty = Fun(ty, Fun(ty, Bool))
  BY <1>4, EqConstShape
<1>6. ty = l.ty /\ Fun(ty, Bool) = half.ty
  <2>1. eq.ty.args[1] = ty /\ eq.ty.args[2] = Fun(ty, Bool)
    BY <1>5, FunShape
  <2>2. eq.ty.args[1] = l.ty /\ eq.ty.args[2] = half.ty
    BY <1>3, FunShape
  <2> QED
    BY <2>1, <2>2
<1>7. ty = r.ty
  <2>1. half.ty.args[1] = r.ty
    BY <1>2, FunShape
  <2>2. half.ty.args[1] = ty
    BY <1>6, FunShape
  <2> QED
    BY <2>1, <2>2
<1>8. c = Eqn(l, r)
  BY <1>2, <1>3, <1>4, <1>6 DEF Eqn
<1> QED
  BY <1>1, <1>2, <1>3, <1>6, <1>7, <1>8 DEF EquationOver

LEMMA ReflOver ==
  ASSUME Laws, NEW t \in WellTyped
  PROVE  Refl(Theory, t) = {Thm(Theory, {}, Eqn(t, t))}
<1>1. Closed(t)
  BY DEF Laws, WellShaped
<1> QED
  BY <1>1, ReflAnswers

LEMMA TransOver ==
  ASSUME Laws, NEW chain, EquationOver(chain), NEW next, EquationOver(next),
         Rhs(chain.concl) = Lhs(next.concl)
  PROVE  /\ Trans(Theory, chain, next) # {}
         /\ \A thm \in Trans(Theory, chain, next) : EquationOver(thm)
<1>1. PICK l, m : l = Lhs(chain.concl) /\ m = Rhs(chain.concl)
  OBVIOUS
<1>2. PICK r, hyps : r = Rhs(next.concl) /\ hyps = chain.hyps \cup next.hyps
  OBVIOUS
<1>3. /\ IsEqn(chain.concl) /\ Own(Theory, chain) /\ l \in WellTyped /\ l.ty = m.ty /\ Closed(l)
  BY <1>1, EquationFacts DEF Equable
<1>4. /\ IsEqn(next.concl) /\ Own(Theory, next) /\ r \in WellTyped /\ m.ty = r.ty /\ Closed(r)
  BY <1>1, <1>2, EquationFacts DEF Equable
<1>5. Trans(Theory, chain, next) = EqSequent(Theory, hyps, l, r)
  BY <1>1, <1>2, <1>3, <1>4 DEF Trans, DestEquation
<1>6. HypothesesOver(hyps)
  BY <1>2 DEF EquationOver, HypothesesOver
<1>7. EqSequent(Theory, hyps, l, r) = {Thm(Theory, hyps, Eqn(l, r))}
  <2>1. Equable(l, r) /\ \A h \in hyps : Proposition(h)
    BY <1>3, <1>4, <1>6 DEF Equable, HypothesesOver
  <2> QED
    BY <2>1, EqSequentAnswers
<1>8. \A thm : thm = Thm(Theory, hyps, Eqn(l, r)) => EquationOver(thm)
  <2>1. l.ty = r.ty
    BY <1>3, <1>4
  <2> QED
    BY <1>3, <1>4, <1>6, <2>1, EquationBuilt
<1> QED
  BY <1>5, <1>7, <1>8

\* A frame that made the term of an equation's left side takes the equation up:
\* an operator applied, an argument applied to, a binder bound again.
LEMMA RatorUp ==
  ASSUME Laws, NEW thm, EquationOver(thm), NEW x \in WellTyped, NEW outer,
         outer = CombRaw(Lhs(thm.concl), x), Lhs(thm.concl).ty = Fun(x.ty, outer.ty)
  PROVE  \E up : /\ ApThm(Theory, thm, x) = {up}
                 /\ EquationOver(up) /\ Lhs(up.concl) = outer
<1>1. PICK l, r : l = Lhs(thm.concl) /\ r = Rhs(thm.concl)
  OBVIOUS
<1>2. /\ l \in WellTyped /\ r \in WellTyped /\ l.ty = r.ty /\ Equable(l, r)
      /\ thm = Thm(Theory, thm.hyps, Eqn(l, r)) /\ \A h \in thm.hyps : Proposition(h)
  BY <1>1, EquationFacts
<1>3. l.ty = Fun(x.ty, outer.ty) /\ r.ty = Fun(x.ty, outer.ty) /\ outer = CombRaw(l, x)
  BY <1>1, <1>2
<1>4. PICK up : up = Thm(Theory, thm.hyps, Eqn(CombRaw(l, x), CombRaw(r, x)))
  OBVIOUS
<1>5. /\ CanComb(l, x) /\ CombRaw(l, x) \in WellTyped /\ CombRaw(l, x).ty = outer.ty
      /\ CanComb(r, x) /\ CombRaw(r, x) \in WellTyped /\ CombRaw(r, x).ty = outer.ty
  BY <1>2, <1>3, CombOver
<1>6. Equable(CombRaw(l, x), CombRaw(r, x))
  BY <1>5 DEF Equable, Laws, WellShaped
<1>7. ApThm(Theory, thm, x) = {up}
  <2>1. Refl(Theory, x) = {Thm(Theory, {}, Eqn(x, x))}
    BY ReflOver
  <2>2. ApThm(Theory, thm, x) = MkComb(Theory, thm, Thm(Theory, {}, Eqn(x, x)))
    BY <2>1 DEF ApThm, Then
  <2>3. \A h \in thm.hyps \cup {} : Proposition(h)
    BY <1>2
  <2>4. MkComb(Theory, Thm(Theory, thm.hyps, Eqn(l, r)), Thm(Theory, {}, Eqn(x, x))) =
          {Thm(Theory, thm.hyps \cup {}, Eqn(CombRaw(l, x), CombRaw(r, x)))}
    BY <1>5, <1>6, <2>3, MkCombAnswers
  <2>5. thm.hyps \cup {} = thm.hyps
    OBVIOUS
  <2> QED
    BY <1>2, <1>4, <2>2, <2>4, <2>5
<1>8. HypothesesOver(thm.hyps)
  BY DEF EquationOver
<1>9. EquationOver(up) /\ Lhs(up.concl) = CombRaw(l, x)
  <2>1. CombRaw(l, x).ty = CombRaw(r, x).ty
    BY <1>5
  <2> QED
    BY <1>4, <1>5, <1>8, <2>1, EquationBuilt
<1> QED
  BY <1>3, <1>7, <1>9

LEMMA RandUp ==
  ASSUME Laws, NEW thm, EquationOver(thm), NEW f \in WellTyped, NEW outer,
         outer = CombRaw(f, Lhs(thm.concl)), f.ty = Fun(Lhs(thm.concl).ty, outer.ty)
  PROVE  \E up : /\ MkComb(Theory, Thm(Theory, {}, Eqn(f, f)), thm) = {up}
                 /\ EquationOver(up) /\ Lhs(up.concl) = outer
<1>1. PICK l, r : l = Lhs(thm.concl) /\ r = Rhs(thm.concl)
  OBVIOUS
<1>2. /\ l \in WellTyped /\ r \in WellTyped /\ l.ty = r.ty
      /\ thm = Thm(Theory, thm.hyps, Eqn(l, r)) /\ \A h \in thm.hyps : Proposition(h)
  BY <1>1, EquationFacts
<1>3. f.ty = Fun(l.ty, outer.ty) /\ f.ty = Fun(r.ty, outer.ty) /\ outer = CombRaw(f, l)
  BY <1>1, <1>2
<1>4. /\ CanComb(f, l) /\ CombRaw(f, l) \in WellTyped /\ CombRaw(f, l).ty = outer.ty
      /\ CanComb(f, r) /\ CombRaw(f, r) \in WellTyped /\ CombRaw(f, r).ty = outer.ty
  BY <1>2, <1>3, CombOver
<1>5. Equable(CombRaw(f, l), CombRaw(f, r))
  BY <1>4 DEF Equable, Laws, WellShaped
<1>6. PICK up : up = Thm(Theory, thm.hyps, Eqn(CombRaw(f, l), CombRaw(f, r)))
  OBVIOUS
<1>7. MkComb(Theory, Thm(Theory, {}, Eqn(f, f)), thm) = {up}
  <2>1. \A h \in {} \cup thm.hyps : Proposition(h)
    BY <1>2
  <2>2. MkComb(Theory, Thm(Theory, {}, Eqn(f, f)), Thm(Theory, thm.hyps, Eqn(l, r))) =
          {Thm(Theory, {} \cup thm.hyps, Eqn(CombRaw(f, l), CombRaw(f, r)))}
    BY <1>4, <1>5, <2>1, MkCombAnswers
  <2>3. {} \cup thm.hyps = thm.hyps
    OBVIOUS
  <2> QED
    BY <1>2, <1>6, <2>2, <2>3
<1>8. HypothesesOver(thm.hyps)
  BY DEF EquationOver
<1>9. EquationOver(up) /\ Lhs(up.concl) = CombRaw(f, l)
  <2>1. CombRaw(f, l).ty = CombRaw(f, r).ty
    BY <1>4
  <2> QED
    BY <1>4, <1>6, <1>8, <2>1, EquationBuilt
<1> QED
  BY <1>3, <1>7, <1>9

LEMMA BodyUp ==
  ASSUME Laws, NEW thm, EquationOver(thm), NEW v \in WellTyped, IsVar(v),
         \A h \in thm.hyps : ~FreeIn(v, h)
  PROVE  \E up : /\ Abs(Theory, v, thm) = {up}
                 /\ EquationOver(up) /\ Lhs(up.concl) = term_abs(v, Lhs(thm.concl))
<1>1. PICK l, r : l = Lhs(thm.concl) /\ r = Rhs(thm.concl)
  OBVIOUS
<1>2. /\ IsEqn(thm.concl) /\ Own(Theory, thm) /\ l \in WellTyped /\ r \in WellTyped
      /\ l.ty = r.ty /\ Closed(l) /\ Closed(r) /\ \A h \in thm.hyps : Proposition(h)
  BY <1>1, EquationFacts DEF Equable
<1>3. /\ term_abs(v, l) \in WellTyped /\ term_abs(v, r) \in WellTyped
      /\ term_abs(v, l).ty = term_abs(v, r).ty
  BY <1>2 DEF Laws, WellShaped, AllBuilt
<1>4. Abs(Theory, v, thm) = EqSequent(Theory, thm.hyps, term_abs(v, l), term_abs(v, r))
  BY <1>1, <1>2 DEF Abs, DestEquation
<1>5. Equable(term_abs(v, l), term_abs(v, r))
  BY <1>3 DEF Equable, Laws, WellShaped
<1>6. PICK up : up = Thm(Theory, thm.hyps, Eqn(term_abs(v, l), term_abs(v, r)))
  OBVIOUS
<1>7. EqSequent(Theory, thm.hyps, term_abs(v, l), term_abs(v, r)) = {up}
  BY <1>2, <1>5, <1>6, EqSequentAnswers
<1>8. HypothesesOver(thm.hyps)
  BY DEF EquationOver
<1>9. EquationOver(up) /\ Lhs(up.concl) = term_abs(v, l)
  BY <1>3, <1>6, <1>8, EquationBuilt
<1> QED
  BY <1>1, <1>4, <1>7, <1>9

LEMMA RebuiltOver ==
  ASSUME Laws, NEW thm, EquationOver(thm), NEW frame, NEW outer,
         Made(frame, outer, Lhs(thm.concl))
  PROVE  /\ Rebuilt(frame, thm) = {} =>
              frame.kind = "body" /\ \E h \in thm.hyps : FreeIn(frame.sibling, h)
         /\ \A up \in Rebuilt(frame, thm) : EquationOver(up) /\ Lhs(up.concl) = outer
<1>1. CASE /\ frame.kind = "rator" /\ frame.sibling \in WellTyped
           /\ outer = CombRaw(Lhs(thm.concl), frame.sibling)
           /\ Lhs(thm.concl).ty = Fun(frame.sibling.ty, outer.ty)
  <2>1. Rebuilt(frame, thm) = ApThm(Theory, thm, frame.sibling)
    BY <1>1 DEF Rebuilt
  <2>2. \A x \in WellTyped :
          outer = CombRaw(Lhs(thm.concl), x) /\ Lhs(thm.concl).ty = Fun(x.ty, outer.ty) =>
            \E up : ApThm(Theory, thm, x) = {up} /\ EquationOver(up) /\ Lhs(up.concl) = outer
    BY RatorUp
  <2> QED
    BY <1>1, <2>1, <2>2
<1>2. ASSUME frame.kind = "rand",
             NEW f \in WellTyped, frame.sibling = Thm(Theory, {}, Eqn(f, f)),
             outer = CombRaw(f, Lhs(thm.concl)), f.ty = Fun(Lhs(thm.concl).ty, outer.ty)
      PROVE  \E up : /\ Rebuilt(frame, thm) = {up}
                     /\ EquationOver(up) /\ Lhs(up.concl) = outer
  <2>1. Rebuilt(frame, thm) = MkComb(Theory, Thm(Theory, {}, Eqn(f, f)), thm)
    BY <1>2 DEF Rebuilt
  <2> QED
    BY <1>2, <2>1, RandUp
<1>3. CASE /\ frame.kind = "body" /\ frame.sibling \in WellTyped /\ IsVar(frame.sibling)
           /\ outer = term_abs(frame.sibling, Lhs(thm.concl))
  <2>1. Rebuilt(frame, thm) = Abs(Theory, frame.sibling, thm)
    BY <1>3 DEF Rebuilt
  <2>2. CASE \A h \in thm.hyps : ~FreeIn(frame.sibling, h)
    <3>1. \A v \in WellTyped : IsVar(v) /\ (\A h \in thm.hyps : ~FreeIn(v, h)) =>
            \E up : /\ Abs(Theory, v, thm) = {up}
                    /\ EquationOver(up) /\ Lhs(up.concl) = term_abs(v, Lhs(thm.concl))
      BY BodyUp
    <3> QED
      BY <1>3, <2>1, <2>2, <3>1
  <2>3. CASE \E h \in thm.hyps : FreeIn(frame.sibling, h)
    <3>1. Abs(Theory, frame.sibling, thm) = {}
      BY <2>3 DEF Abs
    <3> QED
      BY <1>3, <2>1, <2>3, <3>1
  <2> QED
    BY <2>2, <2>3
<1> QED
  BY <1>1, <1>2, <1>3 DEF Made

-----------------------------------------------------------------------------

LEMMA LeadsToTyped ==
  ASSUME NEW frames, IsSeq(frames), NEW outer, NEW inner, Leads(frames, outer, inner)
  PROVE  inner \in WellTyped
<1>1. Len(frames) \in 0..Len(frames)
  BY SeqLen
<1> QED
  BY <1>1 DEF Leads

LEMMA EmptyTrails == ASSUME calls' = <<>> PROVE TInv'
  BY EmptyIsSeq DEF TInv

LEMMA TopTrails ==
  ASSUME IInv, TInv, calls # <<>>
  PROVE  Trails(Top) /\ CallKeeps(Top, left) /\ DOMAIN Top = Fields /\ IsSeq(Top.frames)
<1>1. /\ Len(calls) \in 1..Len(calls) /\ CallKeeps(Top, left) /\ Top = calls[Len(calls)]
  BY TopFacts
<1> QED
  BY <1>1 DEF TInv, CallKeeps

LEMMA BecomeTrails ==
  ASSUME IInv, TInv, calls # <<>>, NEW call, Trails(call),
         calls' = [calls EXCEPT ![Len(calls)] = call], verdict' = verdict
  PROVE  TInv'
<1> DEFINE n == Len(calls)
<1>1. n \in 1..n /\ IsSeq(calls)
  BY TopFacts
<1>2. /\ Len(calls') = n /\ calls'[n] = call
      /\ \A i \in 1..n : i # n => calls'[i] = calls[i]
  <2>1. \A k \in 1..Len(calls) :
          /\ Len([calls EXCEPT ![k] = call]) = Len(calls)
          /\ [calls EXCEPT ![k] = call][k] = call
          /\ \A i \in 1..Len(calls) : i # k => [calls EXCEPT ![k] = call][i] = calls[i]
    BY <1>1, Replaced
  <2> QED
    BY <1>1, <2>1
<1> HIDE DEF n
<1>3. \A i \in 1..n : Trails(calls[i])
  BY DEF TInv, n
<1>4. \A i \in 1..n : Trails(calls'[i])
  BY <1>2, <1>3
<1>5. verdict' = "none"
  BY DEF TInv
<1> QED
  BY <1>2, <1>4, <1>5 DEF TInv

LEMMA EnterTrails ==
  ASSUME Laws, IInv, TInv, verdict = "none", NEW c, c.term \in WellTyped, Enter(c)
  PROVE  TInv'
<1> DEFINE n == Len(calls)
<1>1. CASE Refuse
  BY <1>1, EmptyTrails DEF Refuse
<1>2. CASE \E thm \in Refl(Theory, c.term) :
             /\ calls' = Append(calls, Opened(c, thm))
             /\ UNCHANGED <<left, proof, verdict>>
  <2>1. PICK thm \in Refl(Theory, c.term) : calls' = Append(calls, Opened(c, thm))
    BY <1>2
  <2>2. IsSeq(calls) /\ n \in Nat /\ verdict' = "none"
    BY <1>2, SeqLen DEF IInv
  <2>3. /\ Len(calls') = n + 1 /\ calls'[n + 1] = Opened(c, thm)
        /\ \A i \in 1..n : calls'[i] = calls[i]
    BY <2>1, <2>2, Pushed
  <2>4. Trails(Opened(c, thm))
    <3>1. thm = Thm(Theory, {}, Eqn(c.term, c.term))
      BY <2>1, ReflOver
    <3>2. HypothesesOver({})
      BY DEF HypothesesOver
    <3>3. EquationOver(thm)
      BY <3>1, <3>2, EquationBuilt
    <3> QED
      BY <3>3 DEF Trails, Opened
  <2> HIDE DEF n
  <2>5. \A i \in 1..n : Trails(calls[i])
    BY DEF TInv, n
  <2>6. \A i \in 1..n + 1 : Trails(calls'[i])
    BY <2>2, <2>3, <2>4, <2>5
  <2> QED
    BY <2>2, <2>3, <2>6 DEF TInv
<1> QED
  BY <1>1, <1>2 DEF Enter

LEMMA StartReplayTrails ==
  ASSUME Laws, Supplied, IInv, TInv, StartReplay
  PROVE  TInv'
  BY EnterTrails DEF StartReplay, Supplied

LEMMA TakeStepTrails ==
  ASSUME Laws, IInv, TInv, TakeStep
  PROVE  TInv'
<1> DEFINE call == [Top EXCEPT !.phase = "down", !.frames = <<>>, !.subterm = Rhs(Top.chain.concl)]
<1>1. calls # <<>> /\ (Refuse \/ Become(call))
  BY DEF TakeStep, Running
<1>2. EquationOver(Top.chain) /\ DOMAIN Top = Fields
  BY <1>1, TopTrails DEF Trails
<1>3. /\ call.chain = Top.chain /\ call.phase = "down" /\ call.frames = <<>>
      /\ call.subterm = Rhs(Top.chain.concl)
  BY <1>2 DEF Fields
<1> HIDE DEF call
<1>4. Rhs(Top.chain.concl) \in WellTyped
  BY <1>2, EquationFacts
<1>5. Leads(<<>>, Rhs(Top.chain.concl), Rhs(Top.chain.concl))
  BY <1>4, LeadsNowhere
<1>6. Trails(call)
  BY <1>2, <1>3, <1>5 DEF Trails
<1>7. CASE Refuse
  BY <1>7, EmptyTrails DEF Refuse
<1>8. CASE Become(call)
  BY <1>1, <1>6, <1>8, BecomeTrails DEF Become
<1> QED
  BY <1>1, <1>7, <1>8

LEMMA GoDownTrails ==
  ASSUME NEW frame, NEW inner \in WellTyped, Made(frame, Top.subterm, inner),
         Trails(Top), DOMAIN Top = Fields, IsSeq(Top.frames), Top.phase = "down"
  PROVE  Trails(GoDown(frame, inner))
<1> DEFINE call == GoDown(frame, inner)
<1>1. /\ call.chain = Top.chain /\ call.phase = "down"
      /\ call.frames = Append(Top.frames, frame) /\ call.subterm = inner
  BY DEF Fields, GoDown
<1>2. Leads(Top.frames, Rhs(Top.chain.concl), Top.subterm) /\ EquationOver(Top.chain)
  BY DEF Trails
<1>3. Leads(Append(Top.frames, frame), Rhs(Top.chain.concl), inner)
  BY <1>2, LeadsFurther
<1> HIDE DEF call
<1>4. Trails(call)
  BY <1>1, <1>2, <1>3 DEF Trails
<1> QED
  BY <1>4 DEF call

LEMMA DescendTrails ==
  ASSUME Laws, IInv, TInv, Descend
  PROVE  TInv'
<1> DEFINE term == Top.subterm
<1>1. calls # <<>> /\ Top.phase = "down"
  BY DEF Descend, Running
<1>2. Trails(Top) /\ DOMAIN Top = Fields /\ IsSeq(Top.frames)
  BY <1>1, TopTrails
<1>3. term \in WellTyped
  <2>1. Leads(Top.frames, Rhs(Top.chain.concl), term)
    BY <1>1, <1>2 DEF Trails
  <2> QED
    BY <1>2, <2>1, LeadsToTyped
<1>4. Binders \in Nat
  <2>1. Len(Top.frames) \in Nat /\ DOMAIN Top.frames = 1..Len(Top.frames)
    BY <1>2, SeqLen
  <2>2. IsFiniteSet(1..Len(Top.frames))
    BY <2>1, FS_Interval
  <2>3. {i \in DOMAIN Top.frames : Top.frames[i].kind = "body"} \in SUBSET (1..Len(Top.frames))
    BY <2>1
  <2>4. IsFiniteSet({i \in DOMAIN Top.frames : Top.frames[i].kind = "body"})
    BY <2>2, <2>3, FS_Subset
  <2> QED
    BY <2>4, FS_CardinalityType DEF Binders
<1>5. \/ Refuse
      \/ \E frame, inner : inner \in WellTyped /\ Made(frame, term, inner) /\ Become(GoDown(frame, inner))
  <2>1. CASE Refuse
    BY <2>1
  <2>2. CASE IsComb(term) /\ Become(GoDown([kind |-> "rator", sibling |-> term.rand], term.rator))
    <3>1. /\ term.rator \in WellTyped /\ term.rand \in WellTyped
          /\ term = CombRaw(term.rator, term.rand) /\ term.rator.ty = Fun(term.rand.ty, term.ty)
      BY <1>3, <2>2 DEF Laws, WellShaped, AllBuilt
    <3>2. Made([kind |-> "rator", sibling |-> term.rand], term, term.rator)
      BY <3>1 DEF Made
    <3> QED
      BY <2>2, <3>1, <3>2
  <2>3. CASE IsComb(term) /\ \E thm \in Refl(Theory, term.rator) :
               Become(GoDown([kind |-> "rand", sibling |-> thm], term.rand))
    <3>1. /\ term.rator \in WellTyped /\ term.rand \in WellTyped
          /\ term = CombRaw(term.rator, term.rand) /\ term.rator.ty = Fun(term.rand.ty, term.ty)
      BY <1>3, <2>3 DEF Laws, WellShaped, AllBuilt
    <3>2. PICK thm \in Refl(Theory, term.rator) :
            Become(GoDown([kind |-> "rand", sibling |-> thm], term.rand))
      BY <2>3
    <3>3. thm = Thm(Theory, {}, Eqn(term.rator, term.rator))
      BY <3>1, <3>2, ReflOver
    <3>4. Made([kind |-> "rand", sibling |-> thm], term, term.rand)
      BY <3>1, <3>3 DEF Made
    <3> QED
      BY <3>1, <3>2, <3>4
  <2>4. CASE IsAbs(term) /\ LET var == path_opener(term, Binders)
             IN  Become(GoDown([kind |-> "body", sibling |-> var], open_abs(term, var)))
    <3>1. PICK var : var = path_opener(term, Binders)
      OBVIOUS
    <3>2. /\ var \in WellTyped /\ open_abs(term, var) \in WellTyped
          /\ IsVar(var) /\ term_abs(var, open_abs(term, var)) = term
      BY <1>3, <1>4, <2>4, <3>1 DEF Laws, WellShaped, AllBuilt
    <3>3. Made([kind |-> "body", sibling |-> var], term, open_abs(term, var))
      BY <3>2 DEF Made
    <3> QED
      BY <2>4, <3>1, <3>2, <3>3
  <2> QED
    BY <2>1, <2>2, <2>3, <2>4 DEF Descend, Advance
<1>6. CASE Refuse
  BY <1>6, EmptyTrails DEF Refuse
<1>7. ASSUME NEW frame, NEW inner \in WellTyped, Made(frame, term, inner), Become(GoDown(frame, inner))
      PROVE  TInv'
  <2>1. Trails(GoDown(frame, inner))
    BY <1>1, <1>2, <1>7, GoDownTrails
  <2> QED
    BY <1>1, <1>7, <2>1, BecomeTrails DEF Become
<1> QED
  BY <1>5, <1>6, <1>7

LEMMA FetchRuleTrails ==
  ASSUME FiniteHypotheses, Supplied, IInv, TInv, FetchRule
  PROVE  TInv'
<1> DEFINE n == Len(AtHand.conditions)
           call(thm, hyps) == [Top EXCEPT !.phase = "conditions", !.proving = thm,
                                          !.hyps = hyps, !.met = 0]
<1>1. /\ calls # <<>> /\ Top.phase = "down" /\ Running("down")
      /\ \/ Refuse
         \/ \E thm \in InstancesOf(order, rules, AtHand) :
              /\ Cardinality(thm.hyps) = n
              /\ \E hyps \in Sorted(thm.hyps, n) : Become(call(thm, hyps))
  BY DEF FetchRule, Running
<1>2. Trails(Top) /\ DOMAIN Top = Fields
  BY <1>1, TopTrails
<1>3. ASSUME NEW thm \in InstancesOf(order, rules, AtHand), Cardinality(thm.hyps) = n,
             NEW hyps \in Sorted(thm.hyps, n)
      PROVE  Trails(call(thm, hyps))
  <2>1. TheoremOver(thm)
    BY <1>1, <1>3 DEF Supplied
  <2>2. n \in Nat
    <3>1. IsFiniteSet(thm.hyps)
      BY <1>1, <1>3 DEF FiniteHypotheses
    <3> QED
      BY <1>3, <3>1, FS_CardinalityType
  <2> HIDE DEF n
  <2>3. hyps \in [1..n -> thm.hyps]
    BY <1>3 DEF Sorted
  <2>4. Len(hyps) = n
    BY <2>2, <2>3, SeqDef, LenProperties
  <2>5. \A i \in 1..Len(hyps) : HypothesesOver({hyps[i]})
    BY <2>1, <2>3, <2>4 DEF TheoremOver, HypothesesOver
  <2>6. /\ call(thm, hyps).chain = Top.chain /\ call(thm, hyps).frames = Top.frames
        /\ call(thm, hyps).subterm = Top.subterm
        /\ call(thm, hyps).phase = "conditions" /\ call(thm, hyps).proving = thm
        /\ call(thm, hyps).hyps = hyps
    BY <1>2 DEF Fields
  <2> HIDE DEF call
  <2> QED
    BY <1>1, <1>2, <2>1, <2>5, <2>6 DEF Trails
<1> HIDE DEF call, n
<1>4. CASE Refuse
  BY <1>4, EmptyTrails DEF Refuse
<1>5. ASSUME NEW thm, NEW hyps, Become(call(thm, hyps)), Trails(call(thm, hyps))
      PROVE  TInv'
  BY <1>1, <1>5, BecomeTrails DEF Become
<1> QED
  BY <1>1, <1>3, <1>4, <1>5

LEMMA LeaveConditionTrails ==
  ASSUME IInv, TInv, LeaveCondition
  PROVE  TInv'
<1> DEFINE call == [Top EXCEPT !.met = @ + 1]
<1>1. /\ calls # <<>> /\ Top.phase = "conditions"
      /\ calls' = [calls EXCEPT ![Len(calls)].met = @ + 1] /\ verdict' = verdict
  BY DEF LeaveCondition, Meeting, Running
<1>2. Trails(Top) /\ DOMAIN Top = Fields /\ Top = calls[Len(calls)]
  BY <1>1, TopTrails DEF Top
<1>3. /\ call.chain = Top.chain /\ call.frames = Top.frames /\ call.subterm = Top.subterm
      /\ call.phase = "conditions" /\ call.proving = Top.proving /\ call.hyps = Top.hyps
  BY <1>1, <1>2 DEF Fields
<1>4. calls' = [calls EXCEPT ![Len(calls)] = call]
  BY <1>1, <1>2
<1> HIDE DEF call
<1>5. Trails(call)
  BY <1>1, <1>2, <1>3 DEF Trails
<1> QED
  BY <1>1, <1>4, <1>5, BecomeTrails

LEMMA EnterConditionTrails ==
  ASSUME Laws, IInv, TInv, EnterCondition
  PROVE  TInv'
<1>1. calls # <<>> /\ Top.phase = "conditions" /\ Top.met < Len(Top.hyps)
  BY DEF EnterCondition, Meeting, Running
<1>2. CASE Refuse
  BY <1>2, EmptyTrails DEF Refuse
<1>3. CASE Condition.certificate.term = Hypothesis /\ Enter(Condition.certificate)
  <2>1. Trails(Top) /\ CallKeeps(Top, left)
    BY <1>1, TopTrails
  <2>2. Top.met + 1 \in 1..Len(Top.hyps)
    BY <1>1, <2>1 DEF CallKeeps, Accounted
  <2>3. Hypothesis \in WellTyped
    BY <1>1, <2>1, <2>2 DEF Trails, HypothesesOver, Hypothesis
  <2>4. verdict = "none"
    BY <1>1 DEF TInv
  <2> QED
    BY <1>3, <2>3, <2>4, EnterTrails
<1> QED
  BY <1>2, <1>3 DEF EnterCondition

LEMMA TurnBackTrails ==
  ASSUME Laws, IInv, TInv, TurnBack
  PROVE  TInv'
<1> DEFINE call == [Top EXCEPT !.phase = "up"]
<1>1. /\ calls # <<>> /\ Top.phase = "conditions"
      /\ \/ Refuse
         \/ IsEqn(Top.proving.concl) /\ Lhs(Top.proving.concl) = Top.subterm /\ Become(call)
  BY DEF TurnBack, Running
<1>2. Trails(Top) /\ DOMAIN Top = Fields
  BY <1>1, TopTrails
<1>3. CASE Refuse
  BY <1>3, EmptyTrails DEF Refuse
<1>4. CASE IsEqn(Top.proving.concl) /\ Lhs(Top.proving.concl) = Top.subterm /\ Become(call)
  <2>1. /\ call.chain = Top.chain /\ call.frames = Top.frames
        /\ call.phase = "up" /\ call.proving = Top.proving
    BY <1>2 DEF Fields
  <2> HIDE DEF call
  <2>2. EquationOver(Top.proving)
    <3>1. TheoremOver(Top.proving)
      BY <1>1, <1>2 DEF Trails
    <3> QED
      BY <1>4, <3>1, EquationFound
  <2>3. Leads(Top.frames, Rhs(Top.chain.concl), Lhs(Top.proving.concl))
    BY <1>1, <1>2, <1>4 DEF Trails
  <2>4. Trails(call)
    BY <1>2, <2>1, <2>2, <2>3 DEF Trails
  <2> QED
    BY <1>1, <1>4, <2>4, BecomeTrails DEF Become
<1> QED
  BY <1>1, <1>3, <1>4

\* What the last frame made, and what is left of the trail above it.
LEMMA AscendFacts ==
  ASSUME Laws, IInv, TInv, calls # <<>>, Top.phase = "up", Top.frames # <<>>
  PROVE  LET last == Top.frames[Len(Top.frames)]
         IN  \E outer : /\ Made(last, outer, Lhs(Top.proving.concl))
                        /\ Leads(Below(Top.frames), Rhs(Top.chain.concl), outer)
<1>1. Trails(Top) /\ IsSeq(Top.frames)
  BY TopTrails
<1>2. Len(Top.frames) # 0
  BY <1>1, SeqEmpty
<1>3. Leads(Top.frames, Rhs(Top.chain.concl), Lhs(Top.proving.concl))
  BY <1>1 DEF Trails
<1> QED
  BY <1>1, <1>2, <1>3, LeadsBack

LEMMA AscendTrails ==
  ASSUME Laws, IInv, TInv, Ascend
  PROVE  TInv'
<1> DEFINE last == Top.frames[Len(Top.frames)]
           call(thm) == [Top EXCEPT !.frames = Below(@), !.proving = thm]
<1>1. /\ calls # <<>> /\ Top.phase = "up" /\ Top.frames # <<>>
      /\ \/ Refuse
         \/ \E thm \in Rebuilt(last, Top.proving) : Become(call(thm))
  BY DEF Ascend, Running, Advance
<1>2. Trails(Top) /\ DOMAIN Top = Fields /\ EquationOver(Top.proving) /\ EquationOver(Top.chain)
  BY <1>1, TopTrails DEF Trails
<1>3. PICK outer : /\ Made(last, outer, Lhs(Top.proving.concl))
                   /\ Leads(Below(Top.frames), Rhs(Top.chain.concl), outer)
  BY <1>1, AscendFacts
<1>4. ASSUME NEW thm \in Rebuilt(last, Top.proving)
      PROVE  Trails(call(thm))
  <2>1. /\ call(thm).chain = Top.chain /\ call(thm).frames = Below(Top.frames)
        /\ call(thm).phase = "up" /\ call(thm).proving = thm
    BY <1>1, <1>2 DEF Fields
  <2> HIDE DEF call, last
  <2>2. EquationOver(thm) /\ Lhs(thm.concl) = outer
    <3>1. EquationOver(Top.proving) /\ Made(last, outer, Lhs(Top.proving.concl))
      BY <1>2, <1>3
    <3>2. \A up \in Rebuilt(last, Top.proving) : EquationOver(up) /\ Lhs(up.concl) = outer
      BY <3>1, RebuiltOver
    <3> QED
      BY <1>4, <3>2
  <2> QED
    BY <1>2, <1>3, <2>1, <2>2 DEF Trails
<1> HIDE DEF call, last
<1>5. CASE Refuse
  BY <1>5, EmptyTrails DEF Refuse
<1>6. ASSUME NEW thm, Become(call(thm)), Trails(call(thm))
      PROVE  TInv'
  BY <1>1, <1>6, BecomeTrails DEF Become
<1> QED
  BY <1>1, <1>4, <1>5, <1>6

\* TRANS takes the next equation where the chain is.
LEMMA LengthenFacts ==
  ASSUME Laws, IInv, TInv, calls # <<>>, Top.phase = "up", Top.frames = <<>>
  PROVE  /\ Trans(Theory, Top.chain, Top.proving) # {}
         /\ \A thm \in Trans(Theory, Top.chain, Top.proving) : EquationOver(thm)
<1>1. /\ EquationOver(Top.chain) /\ EquationOver(Top.proving)
      /\ Leads(Top.frames, Rhs(Top.chain.concl), Lhs(Top.proving.concl))
  BY TopTrails DEF Trails
<1>2. Leads(<<>>, Rhs(Top.chain.concl), Lhs(Top.proving.concl))
  BY <1>1
<1>3. Rhs(Top.chain.concl) = Lhs(Top.proving.concl)
  BY <1>2, LeadsToItself
<1> QED
  BY <1>1, <1>3, TransOver

LEMMA LengthenTrails ==
  ASSUME Laws, IInv, TInv, Lengthen
  PROVE  TInv'
<1> DEFINE call(thm) == [Top EXCEPT !.phase = "chain", !.chain = thm, !.taken = @ + 1]
<1>1. /\ calls # <<>> /\ Top.phase = "up" /\ Top.frames = <<>>
      /\ \/ Refuse
         \/ \E thm \in Trans(Theory, Top.chain, Top.proving) : Become(call(thm))
  BY DEF Lengthen, Running, Advance
<1>2. DOMAIN Top = Fields
  BY <1>1, TopTrails
<1>3. ASSUME NEW thm \in Trans(Theory, Top.chain, Top.proving)
      PROVE  Trails(call(thm))
  <2>1. EquationOver(thm)
    BY <1>1, <1>3, LengthenFacts
  <2>2. call(thm).chain = thm /\ call(thm).phase = "chain"
    BY <1>2 DEF Fields
  <2> HIDE DEF call
  <2> QED
    BY <2>1, <2>2 DEF Trails
<1> HIDE DEF call
<1>4. CASE Refuse
  BY <1>4, EmptyTrails DEF Refuse
<1>5. ASSUME NEW thm, Become(call(thm)), Trails(call(thm))
      PROVE  TInv'
  BY <1>1, <1>5, BecomeTrails DEF Become
<1> QED
  BY <1>1, <1>3, <1>4, <1>5

LEMMA AnswerTrails ==
  ASSUME Answer
  PROVE  TInv'
<1>1. calls' = <<>>
  BY DEF Answer, Refuse
<1> QED
  BY <1>1, EmptyTrails

\* A theorem of replay's own, its hypotheses those of both premises.
LEMMA WithoutOver ==
  ASSUME NEW thm, TheoremOver(thm), NEW hyp, NEW equation, EquationOver(equation),
         NEW shorter \in Without(thm, hyp, equation)
  PROVE  TheoremOver(shorter)
<1>1. \E truth \in Truths : \E discharged \in EqtElim(Theory, truth, equation) :
        shorter \in ProveHyp(Theory, discharged, thm)
  BY DEF Without, Then
<1>2. PICK discharged : shorter \in ProveHyp(Theory, discharged, thm)
  BY <1>1
<1>3. \E deduced : shorter \in EqMp(Theory, deduced, discharged)
  BY <1>2 DEF ProveHyp, Then
<1>4. \E hyps, concl : shorter = Thm(Theory, hyps, concl)
  BY <1>3 DEF EqMp, Sequent
<1>5. shorter = Thm(Theory, shorter.hyps, shorter.concl)
  BY <1>4 DEF Thm
<1>6. shorter.hyps = equation.hyps \cup (thm.hyps \ {hyp}) /\ shorter.concl = thm.concl
  BY WithoutSays
<1>7. /\ HypothesesOver(equation.hyps) /\ HypothesesOver(thm.hyps)
      /\ thm.concl \in WellTyped /\ Proposition(thm.concl)
  BY DEF EquationOver, TheoremOver
<1>8. HypothesesOver(shorter.hyps)
  BY <1>6, <1>7 DEF HypothesesOver
<1> QED
  BY <1>5, <1>6, <1>7, <1>8 DEF TheoremOver

LEMMA AnswerConditionTrails ==
  ASSUME IInv, TInv, AnswerCondition
  PROVE  TInv'
<1> DEFINE n == Len(calls)
           m == Len(calls) - 1
           below == Below(calls)
           caller == below[Len(below)]
           hyp == caller.hyps[caller.met + 1]
           call(thm) == [caller EXCEPT !.proving = thm, !.met = @ + 1]
<1>1. /\ calls # <<>> /\ n > 1
      /\ \/ Refuse
         \/ \E thm \in Without(caller.proving, hyp, Top.chain) :
              calls' = [below EXCEPT ![Len(below)] = call(thm)] /\ verdict' = verdict
  BY DEF AnswerCondition, Done, Running
<1>2. n \in Nat /\ n \in 1..n /\ IsSeq(calls) /\ Top = calls[n]
  BY <1>1, TopFacts
<1>3. \A c : /\ m \in Nat /\ m \in 1..m /\ m \in 1..n /\ caller = calls[m]
             /\ IsSeq([below EXCEPT ![Len(below)] = c])
             /\ Len([below EXCEPT ![Len(below)] = c]) = m
             /\ [below EXCEPT ![Len(below)] = c][m] = c
             /\ \A i \in 1..m : i # m => [below EXCEPT ![Len(below)] = c][i] = calls[i]
  BY <1>1, <1>2, Returned DEF Below
<1>4. m \in Nat /\ m \in 1..m /\ m \in 1..n /\ m \in 1..n - 1 /\ caller = calls[m]
  BY <1>3
<1>5. caller.phase = "conditions" /\ DOMAIN caller = Fields
  BY <1>4 DEF IInv, Suspended, CallKeeps
<1>6. Trails(caller) /\ EquationOver(Top.chain)
  BY <1>2, <1>4 DEF TInv, Trails
<1> HIDE DEF caller, below, m, n
<1>7. CASE Refuse
  BY <1>7, EmptyTrails DEF Refuse
<1>8. ASSUME NEW thm \in Without(caller.proving, hyp, Top.chain),
             calls' = [below EXCEPT ![Len(below)] = call(thm)], verdict' = verdict
      PROVE  TInv'
  <2>1. TheoremOver(thm)
    <3>1. TheoremOver(caller.proving)
      BY <1>5, <1>6 DEF Trails
    <3> QED
      BY <1>6, <1>8, <3>1, WithoutOver
  <2>2. /\ call(thm).chain = caller.chain /\ call(thm).frames = caller.frames
        /\ call(thm).subterm = caller.subterm /\ call(thm).phase = "conditions"
        /\ call(thm).proving = thm /\ call(thm).hyps = caller.hyps
    BY <1>5 DEF Fields
  <2> HIDE DEF call, hyp
  <2>3. Trails(call(thm))
    BY <1>5, <1>6, <2>1, <2>2 DEF Trails
  <2>4. /\ Len(calls') = m /\ calls'[m] = call(thm)
        /\ \A i \in 1..m : i # m => calls'[i] = calls[i]
    BY <1>3, <1>8
  <2>5. \A i \in 1..m : Trails(calls[i])
    BY <1>2, <1>4 DEF TInv, m, n
  <2>6. \A i \in 1..m : Trails(calls'[i])
    BY <2>3, <2>4, <2>5
  <2>7. verdict' = "none"
    BY <1>1, <1>8 DEF TInv
  <2> QED
    BY <2>4, <2>6, <2>7 DEF TInv
<1> QED
  BY <1>1, <1>7, <1>8

-----------------------------------------------------------------------------

LEMMA InitTrails == ASSUME ReplayInit PROVE TInv
  BY EmptyIsSeq DEF ReplayInit, TInv

LEMMA ReplayStepTrails ==
  ASSUME Laws, FiniteHypotheses, Supplied, IInv, TInv, ReplayStep
  PROVE  TInv'
<1>1. CASE StartReplay
  BY <1>1, StartReplayTrails
<1>2. CASE TakeStep
  BY <1>2, TakeStepTrails
<1>3. CASE Descend
  BY <1>3, DescendTrails
<1>4. CASE FetchRule
  BY <1>4, FetchRuleTrails
<1>5. CASE LeaveCondition
  BY <1>5, LeaveConditionTrails
<1>6. CASE EnterCondition
  BY <1>6, EnterConditionTrails
<1>7. CASE AnswerCondition
  BY <1>7, AnswerConditionTrails
<1>8. CASE TurnBack
  BY <1>8, TurnBackTrails
<1>9. CASE Ascend
  BY <1>9, AscendTrails
<1>10. CASE Lengthen
  BY <1>10, LengthenTrails
<1>11. CASE Answer
  BY <1>11, AnswerTrails
<1> QED
  BY <1>1, <1>2, <1>3, <1>4, <1>5, <1>6, <1>7, <1>8, <1>9, <1>10, <1>11 DEF ReplayStep

LEMMA ReplayNextTrails ==
  ASSUME Laws, FiniteHypotheses, Supplied, IInv, TInv,
         [ReplayNext]_<<order, rules, certificate, replayVars>>
  PROVE  TInv'
<1>1. CASE ReplayStep
  BY <1>1, ReplayStepTrails
<1>2. CASE NewCertificate
  <2>1. calls' = <<>>
    BY <1>2 DEF NewCertificate
  <2> QED
    BY <2>1, EmptyTrails
<1>3. CASE UNCHANGED replayVars
  <2>1. calls' = calls /\ verdict' = verdict
    BY <1>3 DEF replayVars
  <2> QED
    BY <2>1 DEF TInv
<1> QED
  BY <1>1, <1>2, <1>3 DEF ReplayNext, NewRules, replayVars

\* The way up is Ascend and Lengthen, and of what they call only ABS can refuse.
LEMMA UpwardsOnlyAbs ==
  ASSUME Laws, IInv, TInv, [ReplayNext]_<<order, rules, certificate, replayVars>>,
         calls # <<>>, Top.phase = "up", verdict' = "refused"
  PROVE  LET frame == Top.frames[Len(Top.frames)]
         IN  /\ Top.frames # <<>> /\ frame.kind = "body"
             /\ \E h \in Top.proving.hyps : FreeIn(frame.sibling, h)
<1> DEFINE frame == Top.frames[Len(Top.frames)]
<1>1. verdict = "none"
  BY DEF TInv
<1>2. Ascend \/ Lengthen
  <2>1. ReplayStep
    BY <1>1 DEF ReplayNext, NewCertificate, NewRules, replayVars
  <2>2. ~StartReplay
    BY DEF StartReplay
  <2>3. ~TakeStep /\ ~Descend /\ ~FetchRule
    BY DEF TakeStep, Descend, FetchRule, Running
  <2>4. ~LeaveCondition /\ ~EnterCondition /\ ~TurnBack
    BY DEF LeaveCondition, EnterCondition, TurnBack, Meeting, Running
  <2>5. ~AnswerCondition /\ ~Answer
    BY DEF AnswerCondition, Answer, Done, Running
  <2> QED
    BY <2>1, <2>2, <2>3, <2>4, <2>5 DEF ReplayStep
<1>3. CASE Lengthen
  <2>1. Top.frames = <<>>
    BY <1>3 DEF Lengthen
  <2>2. Trans(Theory, Top.chain, Top.proving) # {}
    BY <2>1, LengthenFacts
  <2>3. verdict' = verdict
    BY <1>3, <2>2 DEF Lengthen, Advance, Become
  <2> QED
    BY <1>1, <2>3
<1>4. CASE Ascend
  <2>1. Top.frames # <<>>
    BY <1>4 DEF Ascend
  <2>2. PICK outer : Made(frame, outer, Lhs(Top.proving.concl))
    BY <2>1, AscendFacts
  <2>3. EquationOver(Top.proving)
    BY TopTrails DEF Trails
  <2>4. Rebuilt(frame, Top.proving) = {}
    BY <1>1, <1>4 DEF Ascend, Advance, Become
  <2> HIDE DEF frame
  <2>5. Rebuilt(frame, Top.proving) = {} =>
          frame.kind = "body" /\ \E h \in Top.proving.hyps : FreeIn(frame.sibling, h)
    BY <2>2, <2>3, RebuiltOver
  <2> QED
    BY <2>1, <2>4, <2>5 DEF frame
<1> QED
  BY <1>2, <1>3, <1>4

-----------------------------------------------------------------------------
(***************************************************************************)
(* What a refusal is for.                                                  *)
(*                                                                         *)
(* A call waits for the certificate of the condition it has come to.       *)
(***************************************************************************)
Waits ==
  \A i \in 1..Len(calls) - 1 : calls[i + 1].certificate.term = calls[i].hyps[calls[i].met + 1]

LEMMA BecomeWaits ==
  ASSUME IInv, Waits, calls # <<>>, NEW call, call.certificate = Top.certificate,
         calls' = [calls EXCEPT ![Len(calls)] = call]
  PROVE  Waits'
<1> DEFINE n == Len(calls)
<1>1. n \in Nat /\ n \in 1..n /\ IsSeq(calls) /\ Top = calls[n]
  BY TopFacts
<1>2. /\ Len(calls') = n /\ calls'[n] = call
      /\ \A i \in 1..n : i # n => calls'[i] = calls[i]
  <2>1. \A k \in 1..Len(calls) :
          /\ Len([calls EXCEPT ![k] = call]) = Len(calls)
          /\ [calls EXCEPT ![k] = call][k] = call
          /\ \A i \in 1..Len(calls) : i # k => [calls EXCEPT ![k] = call][i] = calls[i]
    BY <1>1, Replaced
  <2> QED
    BY <1>1, <2>1
<1> HIDE DEF n
<1>3. ASSUME NEW i \in 1..n - 1
      PROVE  calls'[i + 1].certificate.term = calls'[i].hyps[calls'[i].met + 1]
  <2>1. i \in 1..n /\ i # n /\ i + 1 \in 1..n
    BY <1>1
  <2>2. calls'[i] = calls[i] /\ calls'[i + 1].certificate = calls[i + 1].certificate
    BY <1>1, <1>2, <2>1
  <2> QED
    BY <2>2 DEF Waits, n
<1> QED
  BY <1>2, <1>3 DEF Waits

LEMMA EnterWaits ==
  ASSUME IInv, Waits, NEW c, calls = <<>> \/ c.term = Top.hyps[Top.met + 1],
         NEW thm, calls' = Append(calls, Opened(c, thm))
  PROVE  Waits'
<1> DEFINE n == Len(calls)
<1>1. IsSeq(calls) /\ n \in Nat
  BY SeqLen DEF IInv
<1>2. /\ Len(calls') = n + 1 /\ calls'[n + 1] = Opened(c, thm)
      /\ \A i \in 1..n : calls'[i] = calls[i]
  BY <1>1, Pushed
<1>3. calls'[n + 1].certificate = c
  BY <1>2 DEF Opened
<1>4. n # 0 => c.term = calls[n].hyps[calls[n].met + 1]
  BY EmptyIsSeq DEF Top
<1>5. \A i \in 1..n - 1 : calls[i + 1].certificate.term = calls[i].hyps[calls[i].met + 1]
  BY DEF Waits
<1> HIDE DEF n
<1>6. ASSUME NEW i \in 1..n
      PROVE  calls'[i + 1].certificate.term = calls'[i].hyps[calls'[i].met + 1]
  <2>1. calls'[i] = calls[i]
    BY <1>2
  <2>2. CASE i = n
    <3>1. calls'[n + 1].certificate.term = calls[n].hyps[calls[n].met + 1]
      BY <1>1, <1>3, <1>4, <2>2
    <3> QED
      BY <2>1, <2>2, <3>1
  <2>3. CASE i # n
    <3>1. i \in 1..n - 1 /\ i + 1 \in 1..n
      BY <1>1, <2>3
    <3> QED
      BY <1>2, <1>5, <2>1, <3>1
  <2> QED
    BY <2>2, <2>3
<1> QED
  BY <1>1, <1>2, <1>6 DEF Waits

LEMMA AnswerConditionWaits ==
  ASSUME IInv, Waits, AnswerCondition, calls' # <<>>
  PROVE  Waits'
<1> DEFINE n == Len(calls)
           m == Len(calls) - 1
           below == Below(calls)
           caller == below[Len(below)]
           hyp == caller.hyps[caller.met + 1]
           call(thm) == [caller EXCEPT !.proving = thm, !.met = @ + 1]
<1>1. /\ calls # <<>> /\ n > 1
      /\ \E thm : calls' = [below EXCEPT ![Len(below)] = call(thm)]
  BY DEF AnswerCondition, Done, Running, Refuse
<1>2. n \in Nat /\ IsSeq(calls)
  BY <1>1, TopFacts
<1>3. \A c : /\ m \in Nat /\ m \in 1..m /\ m \in 1..n - 1 /\ caller = calls[m]
             /\ Len([below EXCEPT ![Len(below)] = c]) = m
             /\ [below EXCEPT ![Len(below)] = c][m] = c
             /\ \A i \in 1..m : i # m => [below EXCEPT ![Len(below)] = c][i] = calls[i]
  BY <1>1, <1>2, Returned DEF Below
<1>4. m \in Nat /\ m \in 1..n - 1 /\ caller = calls[m]
  BY <1>3
<1>5. DOMAIN caller = Fields
  <2>1. m \in 1..n
    BY <1>2, <1>4
  <2> QED
    BY <1>4, <2>1 DEF IInv, CallKeeps
<1>6. PICK thm : calls' = [below EXCEPT ![Len(below)] = call(thm)]
  BY <1>1
<1>7. call(thm).certificate = calls[m].certificate
  BY <1>4, <1>5 DEF Fields
<1>8. /\ Len(calls') = m /\ calls'[m].certificate = calls[m].certificate
      /\ \A i \in 1..m : i # m => calls'[i] = calls[i]
  BY <1>3, <1>6, <1>7
<1>9. \A i \in 1..n - 1 : calls[i + 1].certificate.term = calls[i].hyps[calls[i].met + 1]
  BY DEF Waits
<1> HIDE DEF n, m, below, caller, hyp, call
<1>10. ASSUME NEW i \in 1..m - 1
       PROVE  calls'[i + 1].certificate.term = calls'[i].hyps[calls'[i].met + 1]
  <2>1. i \in 1..m /\ i # m /\ i + 1 \in 1..m /\ i \in 1..n - 1
    BY <1>2, <1>4 DEF m, n
  <2>2. calls'[i] = calls[i] /\ calls'[i + 1].certificate = calls[i + 1].certificate
    BY <1>8, <2>1
  <2> QED
    BY <1>9, <2>1, <2>2
<1> QED
  BY <1>8, <1>10 DEF Waits

LEMMA NextWaits ==
  ASSUME IInv, Waits, [ReplayNext]_<<order, rules, certificate, replayVars>>
  PROVE  Waits'
<1>1. CASE calls' = <<>> \/ calls' = calls
  BY <1>1, EmptyIsSeq DEF Waits
<1>2. ASSUME calls # <<>>, NEW call, DOMAIN Top = Fields => call.certificate = Top.certificate,
             Become(call)
      PROVE  Waits'
  <2>1. DOMAIN Top = Fields
    BY <1>2, TopFacts DEF CallKeeps
  <2> QED
    BY <1>2, <2>1, BecomeWaits DEF Become
<1>3. CASE StartReplay
  <2>1. PICK c, thm : calls = <<>> /\ (calls' = <<>> \/ calls' = Append(calls, Opened(c, thm)))
    BY <1>3 DEF StartReplay, Enter, Refuse
  <2> QED
    BY <1>1, <2>1, EnterWaits
<1>4. CASE TakeStep
  BY <1>1, <1>2, <1>4 DEF TakeStep, Running, Refuse, Fields
<1>5. CASE Descend
  <2>1. calls # <<>>
    BY <1>5 DEF Descend, Running
  <2>2. calls' = <<>> \/ \E frame, subterm : Become(GoDown(frame, subterm))
    BY <1>5 DEF Descend, Advance, Refuse
  <2>3. \A frame, subterm : DOMAIN Top = Fields => GoDown(frame, subterm).certificate = Top.certificate
    BY DEF GoDown, Fields
  <2> QED
    BY <1>1, <1>2, <2>1, <2>2, <2>3
<1>6. CASE FetchRule
  <2>1. calls # <<>> /\ (calls' = <<>> \/ \E thm, hyps :
          Become([Top EXCEPT !.phase = "conditions", !.proving = thm, !.hyps = hyps, !.met = 0]))
    BY <1>6 DEF FetchRule, Running, Refuse
  <2>2. \A thm, hyps : DOMAIN Top = Fields =>
          [Top EXCEPT !.phase = "conditions", !.proving = thm, !.hyps = hyps, !.met = 0].certificate
            = Top.certificate
    BY DEF Fields
  <2> QED
    BY <1>1, <1>2, <2>1, <2>2
<1>7. CASE LeaveCondition
  <2>1. calls # <<>> /\ calls' = [calls EXCEPT ![Len(calls)] = [Top EXCEPT !.met = @ + 1]]
    BY <1>7 DEF LeaveCondition, Meeting, Running, Top
  <2>2. [Top EXCEPT !.met = @ + 1].certificate = Top.certificate
    BY <2>1, TopFacts DEF CallKeeps, Fields
  <2> QED
    BY <2>1, <2>2, BecomeWaits
<1>8. CASE EnterCondition
  <2>1. calls' = <<>> \/ \E c, thm :
          c.term = Top.hyps[Top.met + 1] /\ calls' = Append(calls, Opened(c, thm))
    BY <1>8 DEF EnterCondition, Enter, Refuse, Hypothesis
  <2> QED
    BY <1>1, <2>1, EnterWaits
<1>9. CASE AnswerCondition
  BY <1>1, <1>9, AnswerConditionWaits
<1>10. CASE TurnBack
  BY <1>1, <1>2, <1>10 DEF TurnBack, Running, Refuse, Fields
<1>11. CASE Ascend
  <2>1. calls # <<>> /\ (calls' = <<>> \/ \E thm :
          Become([Top EXCEPT !.frames = Below(@), !.proving = thm]))
    BY <1>11 DEF Ascend, Running, Advance, Refuse
  <2>2. \A thm : DOMAIN Top = Fields =>
          [Top EXCEPT !.frames = Below(@), !.proving = thm].certificate = Top.certificate
    BY DEF Fields
  <2> QED
    BY <1>1, <1>2, <2>1, <2>2
<1>12. CASE Lengthen
  <2>1. calls # <<>> /\ (calls' = <<>> \/ \E thm :
          Become([Top EXCEPT !.phase = "chain", !.chain = thm, !.taken = @ + 1]))
    BY <1>12 DEF Lengthen, Running, Advance, Refuse
  <2>2. \A thm : DOMAIN Top = Fields =>
          [Top EXCEPT !.phase = "chain", !.chain = thm, !.taken = @ + 1].certificate = Top.certificate
    BY DEF Fields
  <2> QED
    BY <1>1, <1>2, <2>1, <2>2
<1>13. CASE Answer
  BY <1>1, <1>13 DEF Answer, Refuse
<1>14. CASE NewCertificate \/ NewRules \/ UNCHANGED replayVars
  BY <1>1, <1>14 DEF NewCertificate, NewRules, replayVars
<1> QED
  BY <1>3, <1>4, <1>5, <1>6, <1>7, <1>8, <1>9, <1>10, <1>11, <1>12, <1>13, <1>14
     DEF ReplayNext, ReplayStep, replayVars

\* A condition that was proved true is discharged: neither SYM nor EQ_MP nor
\* the cut refuses.
LEMMA WithoutAnswers ==
  ASSUME Laws, NEW thm, TheoremOver(thm), NEW equation, EquationOver(equation),
         Rhs(equation.concl) = TruthConst, Truths # {}
  PROVE  Without(thm, Lhs(equation.concl), equation) # {}
<1>1. PICK hyp, gamma : hyp = Lhs(equation.concl) /\ gamma = equation.hyps
  OBVIOUS
<1>2. PICK truth \in Truths : truth = Thm(Theory, {}, TruthConst)
  BY TruthIsProved
<1>3. Proposition(TruthConst)
  BY TruthIsProved
<1>4. /\ Equable(hyp, TruthConst) /\ equation = Thm(Theory, gamma, Eqn(hyp, TruthConst))
      /\ \A h \in gamma : Proposition(h)
  BY <1>1, EquationFacts
<1>5. IsThm(Theory, Thm(Theory, {}, TruthConst))
  BY <1>3 DEF IsThm, Thm
<1>6. Proposition(hyp)
  BY <1>3, <1>4 DEF Equable, Proposition, Closed
<1>7. IsThm(Theory, Thm(Theory, gamma, Eqn(hyp, TruthConst)))
  <2>1. Proposition(Eqn(hyp, TruthConst))
    BY <1>4, EqnProposition
  <2> QED
    BY <1>4, <2>1 DEF IsThm, Thm
<1>8. EqtElim(Theory, Thm(Theory, {}, TruthConst), Thm(Theory, gamma, Eqn(hyp, TruthConst))) =
        {Thm(Theory, gamma \cup {}, hyp)}
  BY <1>5, <1>6, <1>7, EqtElimAnswers
<1>9. PICK discharged \in EqtElim(Theory, truth, equation) : discharged = Thm(Theory, gamma, hyp)
  BY <1>2, <1>4, <1>8
<1>10. PICK delta, q : thm = Thm(Theory, delta, q) /\ Proposition(q) /\ \A h \in delta : Proposition(h)
  BY DEF TheoremOver, HypothesesOver
<1>11. IsThm(Theory, Thm(Theory, gamma, hyp)) /\ IsThm(Theory, Thm(Theory, delta, q))
  BY <1>4, <1>6, <1>10 DEF IsThm, Thm
<1>12. ProveHyp(Theory, discharged, thm) # {}
  <2>1. ProveHyp(Theory, Thm(Theory, gamma, hyp), Thm(Theory, delta, q)) =
          {Thm(Theory, gamma \cup (delta \ {hyp}), q)}
    BY <1>11, ProveHypAnswers
  <2> QED
    BY <1>9, <1>10, <2>1
<1> QED
  BY <1>1, <1>2, <1>9, <1>12 DEF Without, Then

LEMMA EnterAnswers ==
  ASSUME Laws, NEW c, c.term \in WellTyped, Enter(c)
  PROVE  verdict' = verdict
  BY ReflOver DEF Enter

LEMMA DescendCause ==
  ASSUME Laws, IInv, TInv, Descend, verdict' = "refused"
  PROVE  NoSuchPosition
<1>1. calls # <<>> /\ Top.phase = "down" /\ verdict = "none"
  BY DEF Descend, Running, TInv
<1>2. Top.subterm \in WellTyped
  BY <1>1, TopTrails, LeadsToTyped DEF Trails
<1>3. IsComb(Top.subterm) => Refl(Theory, Top.subterm.rator) # {}
  BY <1>2, ReflOver DEF Laws, AllBuilt
<1> QED
  BY <1>1, <1>3 DEF Descend, Advance, Become, NoSuchPosition

LEMMA EnterConditionCause ==
  ASSUME Laws, IInv, TInv, EnterCondition, verdict' = "refused"
  PROVE  OtherCondition
<1>1. calls # <<>> /\ Top.phase = "conditions" /\ Top.met < Len(Top.hyps) /\ verdict = "none"
  BY DEF EnterCondition, Meeting, Running, TInv
<1>2. Trails(Top) /\ CallKeeps(Top, left)
  BY <1>1, TopTrails
<1>3. Top.met + 1 \in 1..Len(Top.hyps)
  BY <1>1, <1>2 DEF CallKeeps, Accounted
<1>4. Hypothesis \in WellTyped
  BY <1>1, <1>2, <1>3 DEF Trails, HypothesesOver, Hypothesis
<1>5. Condition.certificate.term = Hypothesis => verdict' = verdict
  BY <1>4, EnterAnswers DEF EnterCondition
<1> QED
  BY <1>1, <1>5 DEF EnterCondition, OtherCondition

LEMMA AnswerConditionCause ==
  ASSUME Laws, IInv, TInv, Waits, AnswerCondition, verdict' = "refused"
  PROVE  OtherResult \/ UntrueCondition
<1> DEFINE n == Len(calls)
           m == Len(calls) - 1
           below == Below(calls)
           caller == below[Len(below)]
<1>1. calls # <<>> /\ n > 1 /\ Done /\ verdict = "none"
  BY DEF AnswerCondition, Done, Running, TInv
<1>2. n \in Nat /\ n \in 1..n /\ IsSeq(calls) /\ Top = calls[n]
  BY <1>1, TopFacts
<1>3. m \in 1..n /\ m \in 1..n - 1 /\ caller = calls[m] /\ m + 1 = n
  BY <1>1, <1>2, Returned DEF Below
<1>4. caller.phase = "conditions" /\ TheoremOver(caller.proving)
  BY <1>3 DEF IInv, Suspended, TInv, Trails
<1>5. EquationOver(Top.chain) /\ IsEqn(Top.chain.concl)
  BY <1>1, TopTrails, EquationFacts DEF Trails
<1>6. Lhs(Top.chain.concl) = Top.certificate.term
  <2>1. Top.chain.concl = Eqn(Top.certificate.term, Rhs(Top.chain.concl))
    BY <1>1, TopFacts DEF CallKeeps
  <2> QED
    BY <2>1, EqnShape
<1>7. Top.certificate.term = caller.hyps[caller.met + 1]
  BY <1>2, <1>3 DEF Waits
<1>8. ~Confirmed \/ Without(caller.proving, caller.hyps[caller.met + 1], Top.chain) = {}
  BY <1>1 DEF AnswerCondition
<1> HIDE DEF n, m, below, caller
<1>9. CASE ~Confirmed
  BY <1>1, <1>5, <1>9 DEF Confirmed, OtherResult
<1>10. CASE Without(caller.proving, caller.hyps[caller.met + 1], Top.chain) = {}
  <2>1. Rhs(Top.chain.concl) # TruthConst \/ Truths = {}
    BY <1>4, <1>5, <1>6, <1>7, <1>10, WithoutAnswers
  <2> QED
    BY <1>1, <2>1 DEF UntrueCondition, n
<1> QED
  BY <1>8, <1>9, <1>10

LEMMA NextCause ==
  ASSUME Laws, Supplied, IInv, TInv, Waits,
         [ReplayNext]_<<order, rules, certificate, replayVars>>,
         verdict' = "refused", replayVars' # replayVars
  PROVE  \/ NoSuchPosition \/ NoSuchInstance \/ OtherCondition \/ OtherSubterm
         \/ OtherResult \/ UntrueCondition \/ Captured
<1>1. ReplayStep
  BY DEF ReplayNext, NewCertificate, NewRules, replayVars
<1>2. CASE StartReplay
  <2>1. PICK c \in certificate : Enter(c) /\ verdict = "none"
    BY <1>2 DEF StartReplay
  <2>2. verdict' = verdict
    BY <2>1, EnterAnswers DEF Supplied
  <2> QED
    BY <2>1, <2>2
<1>3. calls # <<>> => verdict = "none"
  BY DEF TInv
<1>4. CASE TakeStep
  <2>1. calls # <<>>
    BY <1>4 DEF TakeStep, Running
  <2>2. IsEqn(Top.chain.concl)
    BY <2>1, TopTrails, EquationFacts DEF Trails
  <2> QED
    BY <1>3, <1>4, <2>1, <2>2 DEF TakeStep, Become
<1>5. CASE Descend
  BY <1>5, DescendCause
<1>6. CASE FetchRule
  BY <1>3, <1>6 DEF FetchRule, Running, Become, NoSuchInstance
<1>7. CASE LeaveCondition
  BY <1>3, <1>7 DEF LeaveCondition, Meeting, Running
<1>8. CASE EnterCondition
  BY <1>8, EnterConditionCause
<1>9. CASE AnswerCondition
  BY <1>9, AnswerConditionCause
<1>10. CASE TurnBack
  BY <1>3, <1>10 DEF TurnBack, Running, Become, OtherSubterm
<1>11. CASE Ascend \/ Lengthen
  <2>1. calls # <<>> /\ Top.phase = "up"
    BY <1>11 DEF Ascend, Lengthen, Running
  <2> QED
    BY <2>1, UpwardsOnlyAbs DEF Captured, Running
<1>12. CASE Answer
  <2>1. calls # <<>> /\ Done /\ ~Confirmed
    BY <1>12 DEF Answer, Done, Running
  <2>2. IsEqn(Top.chain.concl)
    BY <2>1, TopTrails, EquationFacts DEF Trails
  <2> QED
    BY <2>1, <2>2 DEF Confirmed, OtherResult
<1> QED
  BY <1>1, <1>2, <1>4, <1>5, <1>6, <1>7, <1>8, <1>9, <1>10, <1>11, <1>12 DEF ReplayStep

(***************************************************************************)
(* Replay refuses only what the certificate got wrong, a condition that    *)
(* does not come to T, or what ABS refuses at a condition that mentions    *)
(* the variable its binder was opened with (replay.rs:4-8, 19-23): for     *)
(* certificates of well-formed closed terms, and rules whose instances are *)
(* theorems of the theory, no other call of a rule answers Err.            *)
(***************************************************************************)
THEOREM RefusesForCause ==
  ASSUME Laws
  PROVE  ReplaySpec /\ []FiniteHypotheses /\ []Supplied => RefusedForCause
<1> DEFINE Next == [ReplayNext]_<<order, rules, certificate, replayVars>>
           Step == [verdict' = "refused" =>
                      \/ NoSuchPosition \/ NoSuchInstance \/ OtherCondition \/ OtherSubterm
                      \/ OtherResult \/ UntrueCondition \/ Captured]_replayVars
<1>1. ReplaySpec /\ []FiniteHypotheses => []IInv
  BY EveryHypothesisIsAccounted
<1>2. ReplayInit => TInv /\ Waits
  BY InitTrails, EmptyIsSeq DEF ReplayInit, Waits
<1>3. FiniteHypotheses /\ Supplied /\ IInv /\ TInv /\ Next => TInv'
  BY ReplayNextTrails
<1>4. IInv /\ Waits /\ Next => Waits'
  BY NextWaits
<1>5. Supplied /\ IInv /\ TInv /\ Waits /\ Next => Step
  BY NextCause
<1> QED
  BY <1>1, <1>2, <1>3, <1>4, <1>5, PTL DEF ReplaySpec, RefusedForCause

-----------------------------------------------------------------------------

\* An equation between well-formed closed terms, of the theory.
ProofTyped == \A thm \in proof : EquationOver(thm)

LEMMA NextTyped ==
  ASSUME IInv, TInv, ProofTyped, [ReplayNext]_<<order, rules, certificate, replayVars>>
  PROVE  ProofTyped'
<1>1. proof' = proof \/ proof' = {} \/ (calls # <<>> /\ proof' = {Top.chain})
  <2>1. CASE StartReplay
    BY <2>1 DEF StartReplay, Enter, Refuse
  <2>2. CASE TakeStep
    BY <2>2 DEF TakeStep, Become, Refuse
  <2>3. CASE Descend
    BY <2>3 DEF Descend, Advance, Become, Refuse
  <2>4. CASE FetchRule
    BY <2>4 DEF FetchRule, Become, Refuse
  <2>5. CASE LeaveCondition \/ EnterCondition
    BY <2>5 DEF LeaveCondition, EnterCondition, Enter, Refuse
  <2>6. CASE AnswerCondition \/ TurnBack
    BY <2>6 DEF AnswerCondition, TurnBack, Become, Refuse
  <2>7. CASE Ascend \/ Lengthen
    BY <2>7 DEF Ascend, Lengthen, Advance, Become, Refuse
  <2>8. CASE Answer
    BY <2>8 DEF Answer, Done, Running, Refuse
  <2>9. CASE NewCertificate \/ NewRules \/ UNCHANGED replayVars
    BY <2>9 DEF NewCertificate, NewRules, replayVars
  <2> QED
    BY <2>1, <2>2, <2>3, <2>4, <2>5, <2>6, <2>7, <2>8, <2>9 DEF ReplayNext, ReplayStep, replayVars
<1>2. ASSUME calls # <<>> PROVE EquationOver(Top.chain)
  BY <1>2, TopTrails DEF Trails
<1> QED
  BY <1>1, <1>2 DEF ProofTyped

(***************************************************************************)
(* What replay proves is a theorem of its theory between closed terms of   *)
(* one type, although it builds terms from the parts that a certificate    *)
(* and the openers of binders bring (replay.rs:15-23, path.rs:38-40).      *)
(***************************************************************************)
THEOREM ReplayTypeCorrect ==
  ASSUME Laws
  PROVE  ReplaySpec /\ []FiniteHypotheses /\ []Supplied => []ProofTyped
<1> DEFINE Next == [ReplayNext]_<<order, rules, certificate, replayVars>>
<1>1. ReplaySpec /\ []FiniteHypotheses => []IInv
  BY EveryHypothesisIsAccounted
<1>2. ReplayInit => TInv /\ ProofTyped
  BY InitTrails DEF ReplayInit, ProofTyped
<1>3. FiniteHypotheses /\ Supplied /\ IInv /\ TInv /\ Next => TInv'
  BY ReplayNextTrails
<1>4. IInv /\ TInv /\ ProofTyped /\ Next => ProofTyped'
  BY NextTyped
<1> QED
  BY <1>1, <1>2, <1>3, <1>4, PTL DEF ReplaySpec

-----------------------------------------------------------------------------
(***************************************************************************)
(* The other end: the two algebras that a conversion may run in.           *)
(***************************************************************************)

\* A witness of the theorem algebra, and one of the steps algebra, that l has
\* been converted to r.
Proves(t, l, r) ==
  \E thm : /\ EquationOver(thm) /\ Lhs(thm.concl) = l /\ Rhs(thm.concl) = r
           /\ t = [term |-> l, steps |-> <<>>, result |-> r, thm |-> {thm}]

Records(s, l, r) ==
  /\ s = StepsWitness(l, s.steps, r) /\ IsSeq(s.steps)
  /\ s.steps = <<>> => l = r

\* An operation answers in both, and of the same terms.
Alike(proved, recorded, l, r) ==
  /\ \E t : proved = {t} /\ Proves(t, l, r)
  /\ \E s : recorded = {s} /\ Records(s, l, r)

\* A function and an argument of its domain.
Applies(f, x) == \E b : f.ty = Fun(x.ty, b)

LEMMA ProvesOf ==
  ASSUME Laws, NEW thm, EquationOver(thm), NEW l, NEW r,
         Lhs(thm.concl) = l, Rhs(thm.concl) = r
  PROVE  \E t : TheoremWitnesses({thm}) = {t} /\ Proves(t, l, r)
<1>1. IsEqn(thm.concl)
  BY EquationFacts
<1>2. PICK t : t = [term |-> l, steps |-> <<>>, result |-> r, thm |-> {thm}]
  OBVIOUS
<1>3. TheoremWitnesses({thm}) = {t}
  BY <1>1, <1>2 DEF TheoremWitnesses
<1> QED
  BY <1>2, <1>3 DEF Proves

LEMMA RecordsFacts ==
  ASSUME NEW s, NEW l, NEW r, Records(s, l, r)
  PROVE  /\ s.term = l /\ s.result = r /\ s.thm = {}
         /\ IsSeq(s.steps) /\ (s.steps = <<>> => l = r)
<1>1. PICK steps : s = [term |-> l, steps |-> steps, result |-> r, thm |-> {}]
  BY DEF Records, StepsWitness
<1> QED
  BY <1>1 DEF Records

LEMMA RecordsOf ==
  ASSUME NEW l, NEW r, NEW steps, IsSeq(steps), steps = <<>> => l = r
  PROVE  Records(StepsWitness(l, steps, r), l, r)
<1>1. StepsWitness(l, steps, r).steps = steps
  BY DEF StepsWitness
<1> QED
  BY <1>1 DEF Records

LEMMA ReflAlike ==
  ASSUME Laws, NEW term \in WellTyped
  PROVE  Alike(ReflWitness(Theory, "theorem", term), ReflWitness(Theory, "steps", term), term, term)
<1>1. PICK thm : thm = Thm(Theory, {}, Eqn(term, term))
  OBVIOUS
<1>2. EquationOver(thm) /\ Lhs(thm.concl) = term /\ Rhs(thm.concl) = term
  BY <1>1, EquationBuilt DEF HypothesesOver
<1>3. ReflWitness(Theory, "theorem", term) = TheoremWitnesses({thm})
  BY <1>1, ReflOver DEF ReflWitness
<1>4. \E t : TheoremWitnesses({thm}) = {t} /\ Proves(t, term, term)
  BY <1>2, ProvesOf
<1>5. ReflWitness(Theory, "steps", term) = {StepsWitness(term, <<>>, term)}
  BY DEF ReflWitness
<1>6. Records(StepsWitness(term, <<>>, term), term, term)
  BY EmptyIsSeq, RecordsOf
<1> QED
  BY <1>3, <1>4, <1>5, <1>6 DEF Alike

LEMMA SeqProves ==
  ASSUME Laws, NEW l, NEW m, NEW r, NEW t1, NEW t2, Proves(t1, l, m), Proves(t2, m, r)
  PROVE  \E t : Seq2(Theory, "theorem", t1, t2) = {t} /\ Proves(t, l, r)
<1>1. PICK one : /\ EquationOver(one) /\ Lhs(one.concl) = l /\ Rhs(one.concl) = m
                 /\ t1 = [term |-> l, steps |-> <<>>, result |-> m, thm |-> {one}]
  BY DEF Proves
<1>2. PICK two : /\ EquationOver(two) /\ Lhs(two.concl) = m /\ Rhs(two.concl) = r
                 /\ t2 = [term |-> m, steps |-> <<>>, result |-> r, thm |-> {two}]
  BY DEF Proves
<1>3. t1.thm = {one} /\ t2.thm = {two}
  BY <1>1, <1>2
<1>4. (Reflexive(t1) <=> l = m) /\ (Reflexive(t2) <=> m = r)
  BY <1>1, <1>2, <1>3 DEF Reflexive
<1>5. CASE l = m
  BY <1>4, <1>5 DEF Seq2
<1>6. CASE l # m /\ m = r
  BY <1>4, <1>6 DEF Seq2
<1>7. CASE l # m /\ m # r
  <2>1. /\ Trans(Theory, one, two) # {}
        /\ \A thm \in Trans(Theory, one, two) : EquationOver(thm)
    BY <1>1, <1>2, TransOver
  <2>2. PICK thm : Trans(Theory, one, two) = {thm} /\ Lhs(thm.concl) = l /\ Rhs(thm.concl) = r
    <3>1. Trans(Theory, one, two) = EqSequent(Theory, one.hyps \cup two.hyps, l, r)
      BY <1>1, <1>2, <2>1 DEF Trans
    <3>2. \A thm \in Trans(Theory, one, two) : Lhs(thm.concl) = l /\ Rhs(thm.concl) = r
      BY <3>1, EqSequentSays
    <3>3. PICK thm \in Trans(Theory, one, two) : TRUE
      BY <2>1
    <3>4. Trans(Theory, one, two) = {thm}
      BY <3>1, <3>3 DEF EqSequent, Sequent
    <3> QED
      BY <3>2, <3>4
  <2>3. Seq2(Theory, "theorem", t1, t2) = TheoremWitnesses({thm})
    <3>1. UNION {Trans(Theory, a, b) : a \in t1.thm, b \in t2.thm} = {thm}
      BY <1>3, <2>2
    <3> QED
      BY <1>4, <1>7, <3>1 DEF Seq2
  <2>4. \E t : TheoremWitnesses({thm}) = {t} /\ Proves(t, l, r)
    BY <2>1, <2>2, ProvesOf
  <2> QED
    BY <2>3, <2>4
<1> QED
  BY <1>5, <1>6, <1>7

LEMMA SeqRecords ==
  ASSUME NEW l, NEW m, NEW r, NEW s1, NEW s2, Records(s1, l, m), Records(s2, m, r)
  PROVE  \E s : Seq2(Theory, "steps", s1, s2) = {s} /\ Records(s, l, r)
<1>1. /\ s1.term = l /\ s1.thm = {} /\ IsSeq(s1.steps) /\ (s1.steps = <<>> => l = m)
  BY RecordsFacts
<1>2. /\ s2.result = r /\ s2.thm = {} /\ IsSeq(s2.steps) /\ (s2.steps = <<>> => m = r)
  BY RecordsFacts
<1>3. (Reflexive(s1) <=> s1.steps = <<>>) /\ (Reflexive(s2) <=> s2.steps = <<>>)
  BY <1>1, <1>2 DEF Reflexive
<1>4. CASE s1.steps = <<>>
  BY <1>1, <1>3, <1>4 DEF Seq2
<1>5. CASE s1.steps # <<>> /\ s2.steps = <<>>
  BY <1>2, <1>3, <1>5 DEF Seq2
<1>6. CASE s1.steps # <<>> /\ s2.steps # <<>>
  <2>1. PICK steps : steps = s1.steps \o s2.steps
    OBVIOUS
  <2>2. Seq2(Theory, "steps", s1, s2) = {StepsWitness(l, steps, r)}
    BY <1>1, <1>2, <1>3, <1>6, <2>1 DEF Seq2
  <2>3. IsSeq(steps) /\ Len(steps) = Len(s1.steps) + Len(s2.steps)
    BY <1>1, <1>2, <2>1, Concatenated
  <2>4. Len(s1.steps) # 0 /\ Len(s1.steps) \in Nat /\ Len(s2.steps) \in Nat
    BY <1>1, <1>2, <1>6, SeqEmpty, SeqLen
  <2>5. steps # <<>>
    <3>1. \A i, j \in Nat : i # 0 => i + j # 0
      OBVIOUS
    <3>2. Len(steps) # 0
      BY <2>3, <2>4, <3>1
    <3>3. Len(<<>>) = 0
      BY EmptyIsSeq
    <3> QED
      BY <3>2, <3>3
  <2>6. Records(StepsWitness(l, steps, r), l, r)
    BY <2>3, <2>5, RecordsOf
  <2> QED
    BY <2>2, <2>6
<1> QED
  BY <1>4, <1>5, <1>6

LEMMA PrefixSeq ==
  ASSUME NEW head, NEW steps, IsSeq(steps)
  PROVE  IsSeq(Prefix(head, steps)) /\ Len(Prefix(head, steps)) = Len(steps)
<1>1. PICK n : n = Len(steps)
  OBVIOUS
<1>2. PICK longer : longer = Prefix(head, steps)
  OBVIOUS
<1>3. n \in Nat /\ DOMAIN steps = 1..n
  BY <1>1, SeqLen
<1>4. DOMAIN longer = 1..n /\ longer = [i \in 1..n |-> longer[i]]
  BY <1>2, <1>3 DEF Prefix
<1>5. longer \in [1..n -> {longer[i] : i \in DOMAIN longer}]
  BY <1>4
<1>6. longer \in Seq({longer[i] : i \in DOMAIN longer})
  BY <1>3, <1>5, SeqDef
<1>7. IsSeq(longer) /\ Len(longer) \in Nat /\ DOMAIN longer = 1..Len(longer)
  BY <1>6, SeqLen DEF IsSeq
<1>8. Len(longer) = n
  BY <1>3, <1>4, <1>7
<1>9. IsSeq(longer) /\ Len(longer) = Len(steps)
  BY <1>1, <1>7, <1>8
<1> QED
  BY <1>2, <1>9

LEMMA AppliesOver ==
  ASSUME Laws, NEW f \in WellTyped, NEW x \in WellTyped, Applies(f, x)
  PROVE  CanComb(f, x) /\ CombRaw(f, x) \in WellTyped /\ CombRaw(f, x).ty = f.ty.args[2]
<1>1. PICK b : f.ty = Fun(x.ty, b)
  BY DEF Applies
<1>2. b = f.ty.args[2]
  BY <1>1, FunShape
<1>3. CanComb(f, x) /\ CombRaw(f, x) \in WellTyped /\ CombRaw(f, x).ty = b
  BY <1>1, CombOver
<1> QED
  BY <1>2, <1>3

LEMMA CombProves ==
  ASSUME Laws, NEW f, NEW g, NEW x, NEW y, NEW tf, NEW tx,
         Proves(tf, f, g), Proves(tx, x, y), Applies(f, x)
  PROVE  /\ CanComb(f, x) /\ CanComb(g, y)
         /\ \E t : /\ CombWitness(Theory, "theorem", tf, tx) = {t}
                   /\ Proves(t, CombRaw(f, x), CombRaw(g, y))
<1>1. PICK one : /\ EquationOver(one) /\ Lhs(one.concl) = f /\ Rhs(one.concl) = g
                 /\ tf.thm = {one}
  BY DEF Proves
<1>2. PICK two : /\ EquationOver(two) /\ Lhs(two.concl) = x /\ Rhs(two.concl) = y
                 /\ tx.thm = {two}
  BY DEF Proves
<1>3. /\ f \in WellTyped /\ g \in WellTyped /\ f.ty = g.ty
      /\ one = Thm(Theory, one.hyps, Eqn(f, g)) /\ \A h \in one.hyps : Proposition(h)
  BY <1>1, EquationFacts
<1>4. /\ x \in WellTyped /\ y \in WellTyped /\ x.ty = y.ty
      /\ two = Thm(Theory, two.hyps, Eqn(x, y)) /\ \A h \in two.hyps : Proposition(h)
  BY <1>2, EquationFacts
<1>5. /\ CanComb(f, x) /\ CombRaw(f, x) \in WellTyped
      /\ CanComb(g, y) /\ CombRaw(g, y) \in WellTyped
      /\ CombRaw(f, x).ty = CombRaw(g, y).ty
  <2>1. Applies(g, y)
    BY <1>3, <1>4 DEF Applies
  <2>2. CanComb(f, x) /\ CombRaw(f, x) \in WellTyped /\ CombRaw(f, x).ty = f.ty.args[2]
    BY <1>3, <1>4, AppliesOver
  <2>3. CanComb(g, y) /\ CombRaw(g, y) \in WellTyped /\ CombRaw(g, y).ty = g.ty.args[2]
    BY <1>3, <1>4, <2>1, AppliesOver
  <2> QED
    BY <1>3, <2>2, <2>3
<1>6. PICK l, r : l = CombRaw(f, x) /\ r = CombRaw(g, y)
  OBVIOUS
<1>7. PICK hyps : hyps = one.hyps \cup two.hyps
  OBVIOUS
<1>8. PICK thm : thm = Thm(Theory, hyps, Eqn(l, r))
  OBVIOUS
<1>9. l \in WellTyped /\ r \in WellTyped /\ l.ty = r.ty
  BY <1>5, <1>6
<1>10. MkComb(Theory, one, two) = {thm}
  <2>1. Equable(l, r)
    BY <1>9 DEF Equable, Laws, WellShaped
  <2>2. \A h \in one.hyps \cup two.hyps : Proposition(h)
    BY <1>3, <1>4
  <2>3. Equable(CombRaw(f, x), CombRaw(g, y))
    BY <1>6, <2>1
  <2>4. MkComb(Theory, Thm(Theory, one.hyps, Eqn(f, g)), Thm(Theory, two.hyps, Eqn(x, y))) =
          {Thm(Theory, one.hyps \cup two.hyps, Eqn(CombRaw(f, x), CombRaw(g, y)))}
    BY <1>5, <2>2, <2>3, MkCombAnswers
  <2> QED
    BY <1>3, <1>4, <1>6, <1>7, <1>8, <2>4
<1>11. EquationOver(thm) /\ Lhs(thm.concl) = l /\ Rhs(thm.concl) = r
  <2>1. HypothesesOver(hyps)
    BY <1>1, <1>2, <1>7 DEF EquationOver, HypothesesOver
  <2> QED
    BY <1>8, <1>9, <2>1, EquationBuilt
<1>12. CombWitness(Theory, "theorem", tf, tx) = TheoremWitnesses({thm})
  <2>1. UNION {MkComb(Theory, a, c) : a \in tf.thm, c \in tx.thm} = {thm}
    BY <1>1, <1>2, <1>10
  <2> QED
    BY <2>1 DEF CombWitness
<1>13. \E t : TheoremWitnesses({thm}) = {t} /\ Proves(t, l, r)
  BY <1>11, ProvesOf
<1> QED
  BY <1>5, <1>6, <1>12, <1>13

LEMMA CombRecords ==
  ASSUME NEW f, NEW g, NEW x, NEW y, NEW sf, NEW sx,
         Records(sf, f, g), Records(sx, x, y), CanComb(f, x), CanComb(g, y)
  PROVE  \E s : /\ CombWitness(Theory, "steps", sf, sx) = {s}
                /\ Records(s, CombRaw(f, x), CombRaw(g, y))
<1>1. /\ sf.term = f /\ sf.result = g /\ IsSeq(sf.steps) /\ (sf.steps = <<>> => f = g)
  BY RecordsFacts
<1>2. /\ sx.term = x /\ sx.result = y /\ IsSeq(sx.steps) /\ (sx.steps = <<>> => x = y)
  BY RecordsFacts
<1>3. PICK first : first = Prefix("rator", sf.steps)
  OBVIOUS
<1>4. PICK second : second = Prefix("rand", sx.steps)
  OBVIOUS
<1>5. IsSeq(first) /\ Len(first) = Len(sf.steps)
  BY <1>1, <1>3, PrefixSeq
<1>6. IsSeq(second) /\ Len(second) = Len(sx.steps)
  BY <1>2, <1>4, PrefixSeq
<1>7. PICK steps : steps = first \o second
  OBVIOUS
<1>8. IsSeq(steps) /\ Len(steps) = Len(first) + Len(second)
  BY <1>5, <1>6, <1>7, Concatenated
<1>9. CombWitness(Theory, "steps", sf, sx) = {StepsWitness(CombRaw(f, x), steps, CombRaw(g, y))}
  BY <1>1, <1>2, <1>3, <1>4, <1>7 DEF CombWitness
<1>10. steps = <<>> => CombRaw(f, x) = CombRaw(g, y)
  <2>1. HAVE steps = <<>>
  <2>2. Len(sf.steps) = 0 /\ Len(sx.steps) = 0
    <3>1. Len(first) \in Nat /\ Len(second) \in Nat
      BY <1>5, <1>6, SeqLen
    <3>2. Len(first) + Len(second) = 0
      BY <1>8, <2>1, EmptyIsSeq
    <3>3. Len(first) = 0 /\ Len(second) = 0
      BY <3>1, <3>2
    <3> QED
      BY <1>5, <1>6, <3>3
  <2>3. sf.steps = <<>> /\ sx.steps = <<>>
    BY <1>1, <1>2, <2>2, SeqEmpty
  <2> QED
    BY <1>1, <1>2, <2>3
<1>11. \A l, r : (steps = <<>> => l = r) => Records(StepsWitness(l, steps, r), l, r)
  BY <1>8, RecordsOf
<1> QED
  BY <1>9, <1>10, <1>11

\* What is converted under a binder is what the binder was opened to.
LEMMA UnderProves ==
  ASSUME Laws, NEW v \in WellTyped, IsVar(v), NEW body, NEW r, NEW t, Proves(t, body, r),
         \A thm \in t.thm : \A h \in thm.hyps : ~FreeIn(v, h), NEW abs
  PROVE  \E under : /\ UnderWitness(Theory, "theorem", abs, v, t) = {under}
                    /\ Proves(under, term_abs(v, body), term_abs(v, r))
<1>1. PICK thm : EquationOver(thm) /\ Lhs(thm.concl) = body /\ Rhs(thm.concl) = r /\ t.thm = {thm}
  BY DEF Proves
<1>2. PICK up : /\ Abs(Theory, v, thm) = {up}
                /\ EquationOver(up) /\ Lhs(up.concl) = term_abs(v, Lhs(thm.concl))
  <2>1. \A h \in thm.hyps : ~FreeIn(v, h)
    BY <1>1
  <2> QED
    BY <1>1, <2>1, BodyUp
<1>3. Rhs(up.concl) = term_abs(v, r)
  <2>1. up \in EqSequent(Theory, thm.hyps, term_abs(v, body), term_abs(v, r))
    BY <1>1, <1>2 DEF Abs
  <2> QED
    BY <2>1, EqSequentSays
<1>4. UnderWitness(Theory, "theorem", abs, v, t) = TheoremWitnesses({up})
  <2>1. UNION {Abs(Theory, v, a) : a \in t.thm} = {up}
    BY <1>1, <1>2
  <2> QED
    BY <2>1 DEF UnderWitness
<1>5. \A l, rr : Lhs(up.concl) = l /\ Rhs(up.concl) = rr =>
        \E under : TheoremWitnesses({up}) = {under} /\ Proves(under, l, rr)
  BY <1>2, ProvesOf
<1> QED
  BY <1>1, <1>2, <1>3, <1>4, <1>5

LEMMA UnderRefuses ==
  ASSUME NEW v, NEW t, NEW l, NEW r, Proves(t, l, r),
         \E thm \in t.thm : \E h \in thm.hyps : FreeIn(v, h), NEW abs
  PROVE  UnderWitness(Theory, "theorem", abs, v, t) = {}
<1>1. PICK thm : t.thm = {thm}
  BY DEF Proves
<1>2. Abs(Theory, v, thm) = {}
  BY <1>1 DEF Abs
<1>3. UNION {Abs(Theory, v, a) : a \in t.thm} = {}
  BY <1>1, <1>2
<1> QED
  BY <1>3 DEF UnderWitness, TheoremWitnesses

LEMMA UnderRecords ==
  ASSUME NEW v, NEW body, NEW r, Closed(r), NEW s, Records(s, body, r),
         NEW abs, abs = term_abs(v, body)
  PROVE  \E under : /\ UnderWitness(Theory, "steps", abs, v, s) = {under}
                    /\ Records(under, abs, term_abs(v, r))
<1>1. /\ s.result = r /\ IsSeq(s.steps) /\ (s.steps = <<>> => body = r)
  BY RecordsFacts
<1>2. PICK steps : steps = Prefix("body", s.steps)
  OBVIOUS
<1>3. IsSeq(steps) /\ Len(steps) = Len(s.steps)
  BY <1>1, <1>2, PrefixSeq
<1>4. UnderWitness(Theory, "steps", abs, v, s) = {StepsWitness(abs, steps, term_abs(v, r))}
  BY <1>1, <1>2 DEF UnderWitness
<1>5. steps = <<>> => abs = term_abs(v, r)
  BY <1>1, <1>3, SeqEmpty
<1>6. \A l, rr : (steps = <<>> => l = rr) => Records(StepsWitness(l, steps, rr), l, rr)
  BY <1>3, RecordsOf
<1> QED
  BY <1>4, <1>5, <1>6

(***************************************************************************)
(* A conversion "is written once" and can "either prove as it goes or      *)
(* merely describe the same work" (witness.rs:3-6): each operation that it *)
(* is composed of answers in both algebras, and of the same two terms,     *)
(* although one algebra takes a witness for reflexive by its two sides and *)
(* the other by its steps.  Only ABS refuses in one algebra alone, and     *)
(* only under a hypothesis that mentions the variable of the binder.       *)
(***************************************************************************)
THEOREM AlgebrasAnswerAlike ==
  ASSUME Laws
  PROVE
    /\ \A term \in WellTyped :
         Alike(ReflWitness(Theory, "theorem", term), ReflWitness(Theory, "steps", term), term, term)
    /\ \A t1, s1, t2, s2, l, m, r :
         Proves(t1, l, m) /\ Records(s1, l, m) /\ Proves(t2, m, r) /\ Records(s2, m, r) =>
           Alike(Seq2(Theory, "theorem", t1, t2), Seq2(Theory, "steps", s1, s2), l, r)
    /\ \A tf, sf, tx, sx, f, g, x, y :
         /\ Proves(tf, f, g) /\ Records(sf, f, g) /\ Proves(tx, x, y) /\ Records(sx, x, y)
         /\ Applies(f, x)
         => Alike(CombWitness(Theory, "theorem", tf, tx), CombWitness(Theory, "steps", sf, sx),
                  CombRaw(f, x), CombRaw(g, y))
    /\ \A abs \in WellTyped, depth \in Nat : \A t, s, r :
         LET var  == path_opener(abs, depth)
             body == open_abs(abs, var)
             proved == UnderWitness(Theory, "theorem", abs, var, t)
             recorded == UnderWitness(Theory, "steps", abs, var, s)
         IN  IsAbs(abs) /\ Proves(t, body, r) /\ Records(s, body, r) =>
               IF \E thm \in t.thm : \E h \in thm.hyps : FreeIn(var, h)
               THEN proved = {} /\ \E w : recorded = {w} /\ Records(w, abs, term_abs(var, r))
               ELSE Alike(proved, recorded, abs, term_abs(var, r))
<1>1. \A term \in WellTyped :
        Alike(ReflWitness(Theory, "theorem", term), ReflWitness(Theory, "steps", term), term, term)
  BY ReflAlike
<1>2. ASSUME NEW t1, NEW s1, NEW t2, NEW s2, NEW l, NEW m, NEW r,
             Proves(t1, l, m), Records(s1, l, m), Proves(t2, m, r), Records(s2, m, r)
      PROVE  Alike(Seq2(Theory, "theorem", t1, t2), Seq2(Theory, "steps", s1, s2), l, r)
  <2>1. \E t : Seq2(Theory, "theorem", t1, t2) = {t} /\ Proves(t, l, r)
    BY <1>2, SeqProves
  <2>2. \E s : Seq2(Theory, "steps", s1, s2) = {s} /\ Records(s, l, r)
    BY <1>2, SeqRecords
  <2> QED
    BY <2>1, <2>2 DEF Alike
<1>3. ASSUME NEW tf, NEW sf, NEW tx, NEW sx, NEW f, NEW g, NEW x, NEW y,
             Proves(tf, f, g), Records(sf, f, g), Proves(tx, x, y), Records(sx, x, y),
             Applies(f, x)
      PROVE  Alike(CombWitness(Theory, "theorem", tf, tx), CombWitness(Theory, "steps", sf, sx),
                   CombRaw(f, x), CombRaw(g, y))
  <2>1. /\ CanComb(f, x) /\ CanComb(g, y)
        /\ \E t : /\ CombWitness(Theory, "theorem", tf, tx) = {t}
                  /\ Proves(t, CombRaw(f, x), CombRaw(g, y))
    BY <1>3, CombProves
  <2>2. \E s : /\ CombWitness(Theory, "steps", sf, sx) = {s}
               /\ Records(s, CombRaw(f, x), CombRaw(g, y))
    BY <1>3, <2>1, CombRecords
  <2> QED
    BY <2>1, <2>2 DEF Alike
<1>4. ASSUME NEW abs \in WellTyped, IsAbs(abs), NEW depth \in Nat, NEW t, NEW s, NEW r,
             NEW var, var = path_opener(abs, depth), NEW body, body = open_abs(abs, var),
             Proves(t, body, r), Records(s, body, r)
      PROVE  IF \E thm \in t.thm : \E h \in thm.hyps : FreeIn(var, h)
             THEN /\ UnderWitness(Theory, "theorem", abs, var, t) = {}
                  /\ \E w : /\ UnderWitness(Theory, "steps", abs, var, s) = {w}
                            /\ Records(w, abs, term_abs(var, r))
             ELSE Alike(UnderWitness(Theory, "theorem", abs, var, t),
                        UnderWitness(Theory, "steps", abs, var, s), abs, term_abs(var, r))
  <2>1. IsVar(var) /\ term_abs(var, body) = abs /\ var \in WellTyped
    BY <1>4 DEF Laws, WellShaped, AllBuilt
  <2>2. Closed(r)
    <3>1. PICK thm : EquationOver(thm) /\ Rhs(thm.concl) = r
      BY <1>4 DEF Proves
    <3> QED
      BY <3>1, EquationFacts DEF Equable
  <2>3. \E w : /\ UnderWitness(Theory, "steps", abs, var, s) = {w}
               /\ Records(w, abs, term_abs(var, r))
    BY <1>4, <2>1, <2>2, UnderRecords
  <2>4. CASE \E thm \in t.thm : \E h \in thm.hyps : FreeIn(var, h)
    <3>1. UnderWitness(Theory, "theorem", abs, var, t) = {}
      BY <1>4, <2>4, UnderRefuses
    <3> QED
      BY <2>3, <2>4, <3>1
  <2>5. CASE \A thm \in t.thm : \A h \in thm.hyps : ~FreeIn(var, h)
    <3>1. \E w : /\ UnderWitness(Theory, "theorem", abs, var, t) = {w}
                 /\ Proves(w, term_abs(var, body), term_abs(var, r))
      BY <1>4, <2>1, <2>5, UnderProves
    <3> QED
      BY <2>1, <2>3, <2>5, <3>1 DEF Alike
  <2> QED
    BY <2>4, <2>5
<1> QED
  BY <1>1, <1>2, <1>3, <1>4
=============================================================================
