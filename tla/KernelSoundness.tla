--------------------------- MODULE KernelSoundness --------------------------
(***************************************************************************)
(* What a theorem of the kernel means, and that every one is true.         *)
(*                                                                         *)
(* A term denotes in an interpretation (of the constants and of the        *)
(* declared types) under a valuation (of the free variables and the type   *)
(* variables).  The semantics is given by CONSTANTs and by what is assumed *)
(* of them, one assumption for each operation of the term layer that a     *)
(* rule calls.  HolSemantics is the standard finite model of them, and TLC *)
(* evaluates the assumptions there.                                        *)
(***************************************************************************)
EXTENDS Kernel

CONSTANTS
  Interp,             \* the interpretations
  Val(_),             \* Val(i): the valuations over i
  Den(_, _, _),       \* Den(i, v, t): the value of t
  Dom(_, _, _),       \* Dom(i, v, ty): the values of type ty
  Update(_, _, _),    \* Update(v, x, d): v with the variable x at d
  SubstVal(_, _, _),  \* SubstVal(i, theta, v): v with theta's keys at its terms
  TySubstVal(_, _, _), \* TySubstVal(i, theta, v): v read through a type substitution
  Symbol,             \* the constants and types that interpretations may differ on
  Meaning(_, _)       \* Meaning(i, s): what i takes the symbol s to be

Holds(i, v, t) == Den(i, v, t) = TRUE

\* A symbol is a constant or a type constructor by its name.
mentions(t) ==
  {<<"const", c.name>> : c \in consts_of(t)}
    \cup {<<"type", con[1]>> : con \in ty_cons_of(t)}

Logical == {<<"const", EqName>>, <<"type", "bool">>, <<"type", "fun">>}

\* i and j differ at most on symbols.
Agree(i, j, symbols) == \A s \in Symbol \ symbols : Meaning(i, s) = Meaning(j, s)

\* The symbols that one definition and one type definition introduce.
DefinedBy(term) == {<<"const", Lhs(term).name>>}
CarvedBy(names) == {<<"type", names[1]>>, <<"const", names[2]>>, <<"const", names[3]>>}

Introduced ==
  {DefinedBy(term) : term \in {t \in Definitions : IsEqn(t) /\ IsVar(Lhs(t))}}
    \cup {CarvedBy(names) : names \in TypeDefinitions}

(***************************************************************************)
(* The assumptions.                                                        *)
(***************************************************************************)
ASSUME TermClosed ==
  \A t \in Term : IsEqn(t) => Lhs(t) \in Term /\ Rhs(t) \in Term

ASSUME PropositionMeaning ==
  \A i \in Interp : \A v \in Val(i), t \in Term :
    Proposition(t) => Den(i, v, t) \in BOOLEAN

ASSUME EqnMeaning ==
  \A i \in Interp : \A v \in Val(i), t \in Term :
    IsEqn(t) => (Holds(i, v, t) <=> Den(i, v, Lhs(t)) = Den(i, v, Rhs(t)))

ASSUME CombMeaning ==
  \A i \in Interp : \A v \in Val(i), f, x \in Term :
    CanComb(f, x) /\ CombRaw(f, x) \in Term =>
      Den(i, v, CombRaw(f, x)) = Den(i, v, f)[Den(i, v, x)]

ASSUME AbsMeaning ==
  \A i \in Interp : \A v \in Val(i), x \in Inputs, t \in Term :
    IsVar(x) /\ Closed(t) /\ term_abs(x, t) \in Term =>
      Den(i, v, term_abs(x, t)) = [d \in Dom(i, v, x.ty) |-> Den(i, Update(v, x, d), t)]

\* A variable that is not free does not matter.
ASSUME Coincidence ==
  \A i \in Interp : \A v \in Val(i), x \in Inputs : IsVar(x) =>
    \A d \in Dom(i, v, x.ty) :
      /\ Update(v, x, d) \in Val(i)
      /\ \A t \in Term : ~FreeIn(x, t) => Den(i, Update(v, x, d), t) = Den(i, v, t)

ASSUME BetaMeaning ==
  \A i \in Interp : \A v \in Val(i), t \in Term :
    /\ IsComb(t) /\ IsAbs(t.rator) /\ IsVar(t.rand)
    /\ t.rator.binder_type = t.rand.ty
    /\ open_abs(t.rator, t.rand) \in Term
    => Den(i, v, t) = Den(i, v, open_abs(t.rator, t.rand))

ASSUME SubstMeaning ==
  \A i \in Interp : \A v \in Val(i), theta \in Thetas : CheckSubst(theta) =>
    /\ SubstVal(i, theta, v) \in Val(i)
    /\ \A t \in Term :
         subst(theta, t) \in Term => Den(i, v, subst(theta, t)) = Den(i, SubstVal(i, theta, v), t)

ASSUME TySubstMeaning ==
  \A i \in Interp : \A v \in Val(i), theta \in TyThetas : CheckTySubst(theta) =>
    /\ TySubstVal(i, theta, v) \in Val(i)
    /\ \A t \in Term : inst_type_term(theta, t) \in Term =>
         Den(i, v, inst_type_term(theta, t)) = Den(i, TySubstVal(i, theta, v), t)

-----------------------------------------------------------------------------
(***************************************************************************)
(* What an operation on terms mentions: nothing that it was not given, but *)
(* for equality and the types it is at.                                    *)
(***************************************************************************)
ASSUME MentionsEqn ==
  \A t \in Term : IsEqn(t) =>
    /\ mentions(Lhs(t)) \cup mentions(Rhs(t)) \subseteq mentions(t)
    /\ mentions(t) \subseteq mentions(Lhs(t)) \cup mentions(Rhs(t)) \cup Logical

ASSUME MentionsComb ==
  \A f, x \in Term : CanComb(f, x) /\ CombRaw(f, x) \in Term =>
    mentions(CombRaw(f, x)) \subseteq mentions(f) \cup mentions(x)

ASSUME MentionsAbs ==
  \A x \in Inputs, t \in Term : IsVar(x) /\ Closed(t) /\ term_abs(x, t) \in Term =>
    mentions(term_abs(x, t)) \subseteq mentions(x) \cup mentions(t)

ASSUME MentionsOpen ==
  \A t \in Term :
    IsComb(t) /\ IsAbs(t.rator) /\ IsVar(t.rand) /\ open_abs(t.rator, t.rand) \in Term =>
      mentions(open_abs(t.rator, t.rand)) \subseteq mentions(t)

ASSUME MentionsSubst ==
  \A theta \in Thetas, t \in Term : CheckSubst(theta) /\ subst(theta, t) \in Term =>
    mentions(subst(theta, t)) \subseteq
      mentions(t) \cup UNION {mentions(theta[v]) : v \in DOMAIN theta}

ASSUME MentionsTySubst ==
  \A theta \in TyThetas, t \in Term : CheckTySubst(theta) /\ inst_type_term(theta, t) \in Term =>
    mentions(inst_type_term(theta, t)) \subseteq
      mentions(t) \cup UNION {mentions(Var("x", theta[ty])) : ty \in DOMAIN theta}

\* The equation a definition asserts, and the two a type definition does.
DefinitionOf(term) == Eqn(Const(Lhs(term).name, Lhs(term).ty), Rhs(term))

AbsRepOf(names, t) ==
  LET abs == AbsConst(names[1], names[2], t.rator, t.rand.ty)
      rep == RepConst(names[1], names[3], t.rator, t.rand.ty)
      a   == Var("a", abs.ty.args[2])
  IN  Eqn(CombRaw(abs, CombRaw(rep, a)), a)

RepAbsOf(names, t) ==
  LET abs == AbsConst(names[1], names[2], t.rator, t.rand.ty)
      rep == RepConst(names[1], names[3], t.rator, t.rand.ty)
      r   == Var("r", abs.ty.args[1])
  IN  Eqn(CombRaw(t.rator, r), Eqn(CombRaw(rep, CombRaw(abs, r)), r))

ASSUME MentionsDefinition ==
  \A term \in Definitions : IsEqn(term) /\ IsVar(Lhs(term)) /\ DefinitionOf(term) \in Term =>
    /\ mentions(Rhs(term)) \subseteq mentions(term)
    /\ mentions(DefinitionOf(term)) \subseteq mentions(term) \cup DefinedBy(term) \cup Logical

ASSUME MentionsBijection ==
  \A names \in TypeDefinitions, t \in Term :
    IsComb(t) /\ Proposition(t) /\ AbsRepOf(names, t) \in Term /\ RepAbsOf(names, t) \in Term =>
      mentions(AbsRepOf(names, t)) \cup mentions(RepAbsOf(names, t)) \subseteq
        mentions(t) \cup CarvedBy(names) \cup Logical

-----------------------------------------------------------------------------
(***************************************************************************)
(* There are enough interpretations, and a meaning matters only where it   *)
(* is mentioned.                                                           *)
(***************************************************************************)

ASSUME SomeInterpretation == Interp # {}

\* Two interpretations that agree on what a term mentions have the same values
\* for it: one valuation answers for the other, for all such terms at once.
ASSUME MentionMeaning ==
  \A symbols \in Introduced :
    LET untouched == {t \in Term : mentions(t) \cap symbols = {}}
    IN  \A i, j \in Interp : Agree(i, j, symbols) =>
          \A v \in Val(j) : \E w \in Val(i) :
            \A t \in untouched : Den(j, v, t) = Den(i, w, t)

\* A constant may mean what a closed term without it does, when it is at least
\* as polymorphic.
ASSUME ConstantMeaning ==
  \A i \in Interp, term \in Definitions :
    /\ IsEqn(term) /\ IsVar(Lhs(term))
    /\ Rhs(term).frees = {}
    /\ term_type_vars(Rhs(term)) \subseteq Lhs(term).ty.vars
    /\ DefinedBy(term) \cap (mentions(Rhs(term)) \cup Logical) = {}
    /\ DefinitionOf(term) \in Term /\ Proposition(DefinitionOf(term))
    => \E j \in Interp :
         /\ Agree(i, j, DefinedBy(term))
         /\ \A v \in Val(j) : Holds(j, v, DefinitionOf(term))

\* A type may be what satisfies a closed predicate, when something does.
ASSUME CarvingMeaning ==
  \A i \in Interp, names \in TypeDefinitions, t \in Term :
    /\ IsComb(t) /\ Proposition(t) /\ t.rator.frees = {}
    /\ names[2] # names[3]
    /\ CarvedBy(names) \cap (mentions(t) \cup Logical) = {}
    /\ AbsRepOf(names, t) \in Term /\ RepAbsOf(names, t) \in Term
    /\ \A v \in Val(i) : Holds(i, v, t)
    => \E j \in Interp :
         /\ Agree(i, j, CarvedBy(names))
         /\ \A v \in Val(j) : Holds(j, v, AbsRepOf(names, t)) /\ Holds(j, v, RepAbsOf(names, t))

-----------------------------------------------------------------------------

Satisfies(i, thm) ==
  \A v \in Val(i) : (\A h \in thm.hyps : Holds(i, v, h)) => Holds(i, v, thm.concl)

Ledger(theory) ==
  theories[theory].axioms \cup theories[theory].definitions
    \cup {d.abs_rep : d \in theories[theory].type_definitions}
    \cup {d.rep_abs : d \in theories[theory].type_definitions}

Models(theory) == {i \in Interp : \A thm \in Ledger(theory) : Satisfies(i, thm)}

(***************************************************************************)
(* Every theorem value is well formed: its theory exists, and the          *)
(* conclusion and every hypothesis is a closed term of type bool           *)
(* (mod.rs:109-112).                                                       *)
(***************************************************************************)
WellFormed(thm) ==
  /\ thm.theory \in DOMAIN theories
  /\ thm.concl \in Term /\ Proposition(thm.concl)
  /\ \A h \in thm.hyps : h \in Term /\ Proposition(h)

TypeOK ==
  /\ outcome \in {"ok", "err"}
  /\ Len(theories) \in Nat /\ DOMAIN theories = 1..Len(theories)
  /\ \A theory \in DOMAIN theories :
       /\ DOMAIN theories[theory] = DOMAIN Newborn
       /\ EqName \in DOMAIN theories[theory].constants
       /\ \A thm \in Ledger(theory) : WellFormed(thm) /\ thm.theory = theory
  /\ \A thm \in thms : WellFormed(thm)

(***************************************************************************)
(* A theorem that exists is true: in every model of what its own theory    *)
(* has asserted, under every valuation, the hypotheses entail the          *)
(* conclusion.  This is what Thm promises (mod.rs:18-22, 100-107); the     *)
(* side condition of ABS, the checks of INST and INST_TYPE, the discharge  *)
(* of DEDUCT_ANTISYM_RULE and the scoping by `own' are what it rests on.   *)
(***************************************************************************)
Sound == \A thm \in thms : \A i \in Models(thm.theory) : Satisfies(i, thm)

(***************************************************************************)
(* A definition adds nothing (rules.rs:78-85, 126-137): in a theory        *)
(* without axioms, whatever the constants it did not define are taken to   *)
(* mean, the ones it defined can be read so that every definition and      *)
(* every type definition holds.                                            *)
(***************************************************************************)
Defined(theory) ==
  {<<"const", Lhs(d.concl).name>> : d \in theories[theory].definitions}
    \cup UNION {CarvedBy(<<d.type_name, Lhs(d.abs_rep.concl).rator.name,
                           Lhs(d.abs_rep.concl).rand.rator.name>>) :
                  d \in theories[theory].type_definitions}

ConservativeIn(theory) ==
  theories[theory].axioms = {} =>
    LET models == Models(theory)
        defined == Defined(theory)
    IN  \A i \in Interp : \E j \in models : Agree(i, j, defined)

Conservative == \A theory \in DOMAIN theories : ConservativeIn(theory)

(***************************************************************************)
(* An axiom is the one thing that can make a theory inconsistent           *)
(* (rules.rs:64-65; mod.rs:26-27): where none was asserted, everything     *)
(* that was defined, carved and derived is true together, in one           *)
(* interpretation, so no proof there ends in a contradiction.              *)
(***************************************************************************)
Consistent ==
  \A theory \in DOMAIN theories : theories[theory].axioms = {} =>
    \E i \in Models(theory) : \A thm \in thms : thm.theory = theory => Satisfies(i, thm)

(***************************************************************************)
(* Nothing is said of a name before it is declared (rules.rs:15-35,        *)
(* types.rs:84-91): what a theorem or a ledger entry mentions, some theory *)
(* or the registry has.  A declaration therefore never gives a meaning to  *)
(* a name that something was proved about.                                 *)
(***************************************************************************)
DeclaredSymbols ==
  {<<"const", name>> : name \in UNION {DOMAIN theories[th].constants : th \in DOMAIN theories}}
    \cup {<<"type", name>> : name \in DOMAIN registry}

MentionsOnly(thm, symbols) ==
  \A t \in thm.hyps \cup {thm.concl} : mentions(t) \subseteq symbols

NothingUndeclared ==
  /\ \A thm \in thms : MentionsOnly(thm, DeclaredSymbols)
  /\ \A theory \in DOMAIN theories : \A thm \in Ledger(theory) :
       MentionsOnly(thm, DeclaredSymbols)

(***************************************************************************)
(* A gate that answers Err has asserted nothing: it leaves the ledgers and *)
(* the theorems of the program as they were (rules.rs:43-48).              *)
(***************************************************************************)
RefusalAssertsNothing ==
  [][outcome' = "err" =>
       /\ thms' = thms
       /\ \A theory \in DOMAIN theories : Ledger(theory)' = Ledger(theory)]_vars

(***************************************************************************)
(* A name keeps its meaning: a type constructor its arity and a constant   *)
(* its declared type, whatever is declared, defined or carved later; terms *)
(* already built at that arity and type stay well formed (types.rs:67-78,  *)
(* rules.rs:50-62).                                                        *)
(***************************************************************************)
NamesKeepMeaning ==
  [][/\ \A name \in DOMAIN registry :
          name \in DOMAIN registry' /\ registry'[name] = registry[name]
     /\ \A theory \in DOMAIN theories :
          \A name \in DOMAIN theories[theory].constants :
            /\ name \in DOMAIN theories'[theory].constants
            /\ theories'[theory].constants[name] = theories[theory].constants[name]]_vars

(***************************************************************************)
(* rules.rs:180-181, of the gates that write: "the registry write comes    *)
(* first because it is the one mutation that can refuse, and nothing       *)
(* fallible may follow a mutation".  A gate that answers Err has written   *)
(* nothing.                                                                *)
(***************************************************************************)
RefusalChangesNothing ==
  [][outcome' = "err" => UNCHANGED <<registry, theories, thms>>]_vars
=============================================================================
