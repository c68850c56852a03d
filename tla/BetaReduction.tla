---------------------------- MODULE BetaReduction ---------------------------
(***************************************************************************)
(* Beta reduction by congruence, src/src/derived.rs, and the fixed point   *)
(* of it that the logic layer takes, Kernel::normalise of                  *)
(* src/src/logic/conjunction.rs.                                           *)
(*                                                                         *)
(* Like a primitive rule, each is the set of the theorems it may answer    *)
(* with, none if a step of it refuses.                                     *)
(***************************************************************************)
EXTENDS Paths

INSTANCE Derived WITH
  term_abs <- TermAbs, open_abs <- OpenAbs, subst <- Subst, inst_type_term <- InstTypeTerm

Here == 1               \* the theory

\* A substitution with one key.
Single(key, value) == [k \in {key} |-> value]

-----------------------------------------------------------------------------
(***************************************************************************)
(* dest_abs opens a binder with a variable of its display name, primed     *)
(* away from the free variables.  The display name is the one the node was *)
(* first interned with: a part of no term, so an argument here.            *)
(***************************************************************************)
Opener(name, abs) == Variant(abs.frees, name, abs.binder_type)

\* Where the variable is bound again or instantiated, any name will do.
AnyOpener(abs) == Opener("x", abs)

IsBetaRedex(t) == IsComb(t) /\ IsAbs(t.rator)

\* Beta at a fresh variable, which is then instantiated to the argument.
beta_conv(term) ==
  IF ~IsBetaRedex(term) THEN {}
  ELSE LET fresh == Variant(term.frees, "x", term.rator.binder_type)
       IN  IF CanComb(term.rator, fresh)
           THEN UNION {Inst(Here, Single(fresh, term.rand), step) :
                         step \in Beta(Here, CombRaw(term.rator, fresh))}
           ELSE {}

RECURSIVE beta_reduce(_), congruence(_)

\* |- t = t': the redexes of t, outermost first.
beta_reduce(term) ==
  IF ~IsBetaRedex(term) THEN congruence(term)
  ELSE UNION {UNION {Trans(Here, step, rest) : rest \in beta_reduce(Rhs(step.concl))} :
                step \in beta_conv(term)}

\* A redex that appears when the function position is reduced stays.
congruence(term) ==
  CASE IsComb(term) -> UNION {MkComb(Here, rator, rand) : rator \in beta_reduce(term.rator),
                                                        rand \in beta_reduce(term.rand)}
    [] IsAbs(term)  -> LET v == AnyOpener(term)
                       IN  UNION {Abs(Here, v, body) : body \in beta_reduce(OpenAbs(term, v))}
    [] OTHER        -> Refl(Here, term)

beta_rule(thm) == UNION {EqMp(Here, reduction, thm) : reduction \in beta_reduce(thm.concl)}

\* beta_rule until nothing changes.
RECURSIVE normalise(_)
normalise(thm) ==
  UNION {IF reduced.concl = thm.concl THEN {thm} ELSE normalise(reduced) : reduced \in beta_rule(thm)}
=============================================================================
