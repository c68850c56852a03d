----------------------------- MODULE TwoKernels -----------------------------
(***************************************************************************)
(* A program with two Kernels, "two independent developments in one        *)
(* program" (mod.rs:227-230).  A Thm carries a TheoryId, an index into the *)
(* theories of some kernel, and nothing of the kernel itself, so the       *)
(* program can hand any theorem to either.                                 *)
(*                                                                         *)
(* A term is a rank in its own kernel's table.  The kernels modelled here  *)
(* have interned the same terms in the same order, as two kernels built by *)
(* one function have, so that a rank names one term in both.               *)
(***************************************************************************)
EXTENDS TermNodes

CONSTANTS
  term_abs(_, _), open_abs(_, _), subst(_, _), inst_type_term(_, _),
  term_type_vars(_), is_instance(_, _), consts_of(_), ty_cons_of(_),
  Interp, Val(_), Den(_, _, _), Dom(_, _, _), Update(_, _, _),
  SubstVal(_, _, _), TySubstVal(_, _, _), Symbol, Meaning(_, _)

CONSTANTS
  Term, Inputs, TyVarNames, Thetas, TyThetas, NewTypes, NewConstants, Axioms,
  Definitions, TypeDefinitions, MaxTheories, MaxThms

VARIABLES
  registry1, theories1, thms1, outcome1,
  registry2, theories2, thms2, outcome2

K1 == INSTANCE KernelProofs WITH
        registry <- registry1, theories <- theories1, thms <- thms1, outcome <- outcome1
K2 == INSTANCE KernelProofs WITH
        registry <- registry2, theories <- theories2, thms <- thms2, outcome <- outcome2

vars1 == <<registry1, theories1, thms1, outcome1>>
vars2 == <<registry2, theories2, thms2, outcome2>>
vars  == <<vars1, vars2>>

Init == K1!Init /\ K2!Init

Step1 == K1!Next /\ UNCHANGED vars2

Step2 == K2!Next /\ UNCHANGED vars1

\* The program holds a theorem of the first kernel where it calls the second.
HandOver ==
  /\ \E thm \in thms1 : K2!Keep({thm})
  /\ UNCHANGED <<vars1, registry2, theories2, outcome2>>

Next == Step1 \/ Step2 \/ HandOver

Spec == Init /\ [][Next]_vars

(***************************************************************************)
(* mod.rs:93-96: "a theorem proved in one theory is not a theorem in       *)
(* another, so an axiom asserted in one development cannot leak into       *)
(* another that never accepted it".  What a step of the second kernel adds *)
(* to its theorems holds in every model of what that kernel's own theory   *)
(* has asserted.                                                           *)
(***************************************************************************)
NoLeak ==
  [][Step2 => \A thm \in thms2' \ thms2 :
                \A i \in K2!Models(thm.theory)' : K2!Satisfies(i, thm)]_vars
=============================================================================
