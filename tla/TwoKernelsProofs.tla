-------------------------- MODULE TwoKernelsProofs --------------------------
(***************************************************************************)
(* When a program may hand a theorem of one kernel to another.             *)
(*                                                                         *)
(* TwoKernels lets it hand over any, and an axiom leaks.  Here it hands    *)
(* over only what it has recorded in both: then both kernels stay sound,   *)
(* whatever else they do, and for any number of theories.  The kernels'    *)
(* own steps are theorems of KernelProofs, of each in turn; what is left   *)
(* is the hand-over.                                                       *)
(***************************************************************************)
EXTENDS TwoKernels, TLAPS

(***************************************************************************)
(* What KernelSoundness assumes of the terms and their meaning, said of    *)
(* the terms and the interpretations that both kernels share.              *)
(***************************************************************************)
Laws1 ==
  /\ K1!TermClosed /\ K1!PropositionMeaning /\ K1!EqnMeaning /\ K1!CombMeaning
  /\ K1!AbsMeaning /\ K1!Coincidence /\ K1!BetaMeaning /\ K1!SubstMeaning
  /\ K1!TySubstMeaning /\ K1!MentionsEqn /\ K1!MentionsComb /\ K1!MentionsAbs
  /\ K1!MentionsOpen /\ K1!MentionsSubst /\ K1!MentionsTySubst
  /\ K1!MentionsDefinition /\ K1!MentionsBijection /\ K1!SomeInterpretation
  /\ K1!MentionMeaning /\ K1!ConstantMeaning /\ K1!CarvingMeaning

Laws2 ==
  /\ K2!TermClosed /\ K2!PropositionMeaning /\ K2!EqnMeaning /\ K2!CombMeaning
  /\ K2!AbsMeaning /\ K2!Coincidence /\ K2!BetaMeaning /\ K2!SubstMeaning
  /\ K2!TySubstMeaning /\ K2!MentionsEqn /\ K2!MentionsComb /\ K2!MentionsAbs
  /\ K2!MentionsOpen /\ K2!MentionsSubst /\ K2!MentionsTySubst
  /\ K2!MentionsDefinition /\ K2!MentionsBijection /\ K2!SomeInterpretation
  /\ K2!MentionMeaning /\ K2!ConstantMeaning /\ K2!CarvingMeaning

Laws == Laws1 /\ Laws2

\* A theorem whose theory the second kernel has, at the same index, with
\* everything recorded in it that the first one recorded.
Shared(thm) ==
  /\ thm.theory \in DOMAIN theories2
  /\ K1!Ledger(thm.theory) \subseteq K2!Ledger(thm.theory)

\* The program hands over no other.
HandsOverShared == [][HandOver => \A thm \in thms2' \ thms2 : Shared(thm)]_vars

BothSound == K1!Sound /\ K2!Sound

\* The inductive invariant of both.
Inv == K1!IInv /\ K2!IInv

-----------------------------------------------------------------------------
(***************************************************************************)
(* The kernels' own steps.                                                 *)
(***************************************************************************)
LEMMA FirstKeeps ==
  ASSUME Laws, K1!IInv, [K1!Next]_(K1!vars)
  PROVE  K1!IInv'
BY K1!NextKeeps DEF Laws, Laws1

LEMMA SecondKeeps ==
  ASSUME Laws, K2!IInv, [K2!Next]_(K2!vars)
  PROVE  K2!IInv'
BY K2!NextKeeps DEF Laws, Laws2

LEMMA FirstQuiet ==
  ASSUME Laws, K1!IInv, UNCHANGED vars1
  PROVE  K1!IInv'
BY FirstKeeps DEF vars1, K1!vars

LEMMA SecondQuiet ==
  ASSUME Laws, K2!IInv, UNCHANGED vars2
  PROVE  K2!IInv'
BY SecondKeeps DEF vars2, K2!vars

-----------------------------------------------------------------------------
(***************************************************************************)
(* The hand-over.                                                          *)
(***************************************************************************)

\* A rank names one term in both tables.
LEMMA SameProposition ==
  ASSUME NEW t
  PROVE  K1!Proposition(t) <=> K2!Proposition(t)
BY DEF K1!Proposition, K2!Proposition, K1!Closed, K2!Closed, K1!Bool, K2!Bool,
       K1!TyCon, K2!TyCon

LEMMA SameTruth ==
  ASSUME NEW i, NEW thm
  PROVE  K1!Satisfies(i, thm) <=> K2!Satisfies(i, thm)
BY DEF K1!Satisfies, K2!Satisfies, K1!Holds, K2!Holds

\* More in the ledger, fewer models: what is true in every model of the first
\* theory is true in every model of the second.
LEMMA SharedIsTrue ==
  ASSUME K1!IInv, NEW thm \in thms1, Shared(thm)
  PROVE  /\ K2!WellFormed(thm)
         /\ \A i \in K2!Models(thm.theory) : K2!Satisfies(i, thm)
<1>1. K1!WellFormed(thm)
  BY DEF K1!IInv, K1!TypeOK
<1>2. K2!WellFormed(thm)
  BY <1>1, SameProposition DEF K1!WellFormed, K2!WellFormed, Shared
<1>3. ASSUME NEW i \in K2!Models(thm.theory)
      PROVE  K2!Satisfies(i, thm)
  <2>1. i \in K1!Models(thm.theory)
    BY SameTruth DEF K1!Models, K2!Models, Shared
  <2> QED
    BY <2>1, SameTruth DEF K1!IInv, K1!Sound
<1> QED
  BY <1>2, <1>3

LEMMA HandOverKeeps ==
  ASSUME K1!IInv, K2!IInv, HandOver, \A thm \in thms2' \ thms2 : Shared(thm)
  PROVE  K2!IInv'
<1>1. PICK thm \in thms1 : thms2' = thms2 \cup {thm}
  BY DEF HandOver, K2!Keep
<1>2. theories2' = theories2 /\ outcome2' = outcome2
  BY DEF HandOver
<1>3. thm \in thms2 \/ Shared(thm)
  BY <1>1
<1>4. /\ K2!WellFormed(thm)
      /\ \A i \in K2!Models(thm.theory) : K2!Satisfies(i, thm)
  BY <1>3, SharedIsTrue DEF K2!IInv, K2!TypeOK, K2!Sound
<1>5. K2!TypeOK'
  <2>1. \A t : K2!WellFormed(t)' <=> K2!WellFormed(t)
    BY <1>2 DEF K2!WellFormed
  <2>2. \A t \in DOMAIN theories2 : K2!Ledger(t)' = K2!Ledger(t)
    BY <1>2 DEF K2!Ledger
  <2> QED
    BY <1>1, <1>2, <1>4, <2>1, <2>2 DEF K2!IInv, K2!TypeOK
<1>6. ASSUME NEW t \in thms2', NEW i \in K2!Models(t.theory)'
      PROVE  K2!Satisfies(i, t)
  <2>1. i \in K2!Models(t.theory)
    BY <1>2 DEF K2!Models, K2!Ledger, K2!Satisfies, K2!Holds
  <2> QED
    BY <1>1, <1>4, <2>1 DEF K2!IInv, K2!Sound
<1>7. K2!Sound'
  BY <1>6 DEF K2!Sound, K2!Satisfies, K2!Holds
<1> QED
  BY <1>5, <1>7 DEF K2!IInv

-----------------------------------------------------------------------------

LEMMA StepKeeps ==
  ASSUME Laws, Inv, [Next]_vars,
         [HandOver => \A thm \in thms2' \ thms2 : Shared(thm)]_vars
  PROVE  Inv'
<1>1. CASE Step1
  BY <1>1, FirstKeeps, SecondQuiet DEF Step1, Inv
<1>2. CASE Step2
  BY <1>2, SecondKeeps, FirstQuiet DEF Step2, Inv
<1>3. CASE HandOver /\ vars' # vars
  BY <1>3, FirstQuiet, HandOverKeeps DEF HandOver, Inv
<1>4. CASE UNCHANGED vars
  BY <1>4, FirstQuiet, SecondQuiet DEF vars, Inv
<1> QED
  BY <1>1, <1>2, <1>3, <1>4 DEF Next

LEMMA InitInv == ASSUME Laws, Init PROVE Inv
<1>1. K1!IInv
  BY K1!InitIInv DEF Laws, Laws1, Init
<1>2. K2!IInv
  BY K2!InitIInv DEF Laws, Laws2, Init
<1> QED
  BY <1>1, <1>2 DEF Inv

(***************************************************************************)
(* A theorem may move between "two independent developments in one         *)
(* program" (mod.rs:227-230) when all that the first has asserted at its   *)
(* index the second has asserted there too: every theorem either kernel    *)
(* then holds is true in the models of that kernel's own theory.           *)
(***************************************************************************)
THEOREM SharedIsSafe ==
  ASSUME Laws
  PROVE  Spec /\ HandsOverShared => []BothSound
<1>1. Init => Inv
  BY InitInv
<1>2. /\ Inv /\ [Next]_vars
      /\ [HandOver => \A thm \in thms2' \ thms2 : Shared(thm)]_vars
      => Inv'
  BY StepKeeps
<1>3. Inv => BothSound
  BY DEF Inv, BothSound, K1!IInv, K2!IInv
<1> QED
  BY <1>1, <1>2, <1>3, PTL DEF Spec, HandsOverShared

(***************************************************************************)
(* And nothing leaks: what a step of the second kernel makes of the        *)
(* theorems it was handed holds in every model of its own theory, as       *)
(* mod.rs:93-96 says of theories.  What `own' compares is an index         *)
(* (mod.rs:336); that the ledgers agree is all it would have to know.      *)
(***************************************************************************)
THEOREM SharedDoesNotLeak ==
  ASSUME Laws
  PROVE  Spec /\ HandsOverShared => NoLeak
<1>1. Init => Inv
  BY InitInv
<1>2. /\ Inv /\ [Next]_vars
      /\ [HandOver => \A thm \in thms2' \ thms2 : Shared(thm)]_vars
      => Inv'
  BY StepKeeps
<1>3. Inv' => [Step2 => \A thm \in thms2' \ thms2 :
                 \A i \in K2!Models(thm.theory)' : K2!Satisfies(i, thm)]_vars
  BY DEF Inv, K2!IInv, K2!Sound, K2!Satisfies, K2!Holds
<1> QED
  BY <1>1, <1>2, <1>3, PTL DEF Spec, HandsOverShared, NoLeak
=============================================================================
