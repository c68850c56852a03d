------------------------------- MODULE Kernel -------------------------------
(***************************************************************************)
(* One Kernel (src/src/kernel/mod.rs) and the program that calls it: the   *)
(* type registry, the theories with their ledgers, and the theorem values  *)
(* the program holds.  The gates and the ten rules of rules.rs are the     *)
(* actions; each is the whole method.                                      *)
(*                                                                         *)
(* The ledgers are sets: the code only ever appends to them and no rule    *)
(* reads them.  The intern tables are module Interner.                     *)
(***************************************************************************)
EXTENDS Rules, FiniteSets

CONSTANTS
  term_type_vars(_),    \* the names of the type variables of a term
  is_instance(_, _),   \* ty_match(declared, instance) is Some
  consts_of(_),        \* the constants a term mentions
  ty_cons_of(_)         \* the type constructors a term mentions, with arities

CONSTANTS
  Term,               \* the terms in scope: conclusions and hypotheses
  Inputs,             \* the terms the program hands to REFL, BETA, ASSUME, ABS
  TyVarNames,         \* the names of type variables, in alphabetical order
  Thetas,             \* the term substitutions handed to INST
  TyThetas,           \* the type substitutions handed to INST_TYPE
  NewTypes,           \* pairs <<name, arity>> handed to new_type
  NewConstants,       \* pairs <<name, type>> handed to new_constant
  Axioms,             \* the terms handed to new_axiom
  Definitions,        \* the terms handed to new_basic_definition
  TypeDefinitions,    \* <<type, abs, rep>> names for new_basic_type_definition
  MaxTheories,        \* bound on the number of theories
  MaxThms             \* bound on the theorems held at one time

VARIABLES
  registry,           \* type constructor name -> arity
  theories,           \* TheoryId -> constants and ledgers
  thms,               \* the theorem values the program holds
  outcome             \* what the last gate answered, "ok" or "err"

vars == <<registry, theories, thms, outcome>>

-----------------------------------------------------------------------------

Extend(f, x, y) == [z \in DOMAIN f \cup {x} |-> IF z = x THEN y ELSE f[z]]

EqType == Fun(TyVar("A"), Fun(TyVar("A"), Bool))

Newborn ==
  [constants        |-> [name \in {EqName} |-> EqType],
   axioms           |-> {},
   definitions      |-> {},
   type_definitions |-> {}]

HasConstant(theory, name) == name \in DOMAIN theories[theory].constants

\* A term can be built once some theory declares each of its constants at a
\* type the use is an instance of, and the registry has its type constructors:
\* `constant' asks for one theory, but nothing records which one it asked.
Buildable(term) ==
  /\ \A c \in consts_of(term) :
       \E theory \in DOMAIN theories :
         HasConstant(theory, c.name) /\ is_instance(theories[theory].constants[c.name], c.ty)
  /\ \A con \in ty_cons_of(term) :
       con[1] \in DOMAIN registry /\ registry[con[1]] = con[2]

BuildableSubst(theta) == \A v \in DOMAIN theta : Buildable(theta[v])

\* A type can be built when a variable of that type can.
BuildableType(ty) == Buildable(Var("x", ty))

BuildableTySubst(theta) == \A ty \in DOMAIN theta : BuildableType(theta[ty])

\* The bounds of a run: conclusions and hypotheses in scope, few theorems.
InScope(thm) == thm.concl \in Term /\ thm.hyps \subseteq Term

Keep(new) ==
  /\ \A thm \in new : InScope(thm)
  /\ Cardinality(thms \cup new) <= MaxThms
  /\ thms' = thms \cup new

Refuse == outcome' = "err" /\ UNCHANGED <<registry, theories, thms>>

Init ==
  /\ registry = [name \in {"bool", "fun"} |-> IF name = "bool" THEN 0 ELSE 2]
  /\ theories = <<>>
  /\ thms = {}
  /\ outcome = "ok"

-----------------------------------------------------------------------------
(***************************************************************************)
(* The gates.                                                              *)
(***************************************************************************)

NewTheory ==
  /\ Len(theories) < MaxTheories
  /\ theories' = Append(theories, Newborn)
  /\ outcome' = "ok"
  /\ UNCHANGED <<registry, thms>>

\* Mutant: a type constructor may be declared again.
CanRenewType(name) == name # ""

CanNewType(name) == name # "" /\ name \notin DOMAIN registry

NewType(name, arity) ==
  IF CanNewType(name)
  THEN /\ registry' = Extend(registry, name, arity)
       /\ outcome' = "ok"
       /\ UNCHANGED <<theories, thms>>
  ELSE Refuse

\* The constant is in the table before const_raw refuses the empty name.
NewConstant(theory, name, ty) ==
  IF HasConstant(theory, name)
  THEN Refuse
  ELSE /\ theories' = [theories EXCEPT ![theory].constants = Extend(@, name, ty)]
       /\ outcome' = IF name = "" THEN "err" ELSE "ok"
       /\ UNCHANGED <<registry, thms>>

NewAxiom(theory, term) ==
  IF Proposition(term)
  THEN \E thm \in Sequent(theory, {}, term) :
         /\ Keep({thm})
         /\ theories' = [theories EXCEPT ![theory].axioms = @ \cup {thm}]
         /\ outcome' = "ok"
         /\ UNCHANGED registry
  ELSE Refuse

\* Mutant: the right side may have free variables.
CanDefineOpen(theory, term) ==
  /\ IsEqn(term) /\ IsVar(Lhs(term))
  /\ term_type_vars(Rhs(term)) \subseteq Lhs(term).ty.vars
  /\ ~HasConstant(theory, Lhs(term).name)

\* Mutant: a constant may be defined again.
CanDefineAgain(theory, term) ==
  /\ IsEqn(term) /\ IsVar(Lhs(term))
  /\ Rhs(term).frees = {}
  /\ term_type_vars(Rhs(term)) \subseteq Lhs(term).ty.vars

CanDefine(theory, term) ==
  /\ IsEqn(term)
  /\ IsVar(Lhs(term))
  /\ Rhs(term).frees = {}
  /\ term_type_vars(Rhs(term)) \subseteq Lhs(term).ty.vars
  /\ ~HasConstant(theory, Lhs(term).name)

\* Mutant: the ledger is written before sequent has looked.
DefineThenAsk(theory, term) ==
  IF CanDefine(theory, term)
  THEN LET c == Const(Lhs(term).name, Lhs(term).ty)
           defined == EqSequent(theory, {}, c, Rhs(term))
       IN  /\ Keep(defined)
           /\ theories' = [theories EXCEPT
                             ![theory].constants = Extend(@, c.name, c.ty),
                             ![theory].definitions = @ \cup {Thm(theory, {}, Eqn(c, Rhs(term)))}]
           /\ outcome' = IF defined = {} THEN "err" ELSE "ok"
           /\ UNCHANGED registry
  ELSE Refuse

\* Nothing asks whether the right side is free of dangling indices until
\* sequent does, and by then the constant is declared.
NewBasicDefinition(theory, term) ==
  IF CanDefine(theory, term)
  THEN LET c == Const(Lhs(term).name, Lhs(term).ty)
           defined == EqSequent(theory, {}, c, Rhs(term))
       IN  /\ Keep(defined)
           /\ theories' = [theories EXCEPT
                             ![theory].constants = Extend(@, c.name, c.ty),
                             ![theory].definitions = @ \cup defined]
           /\ outcome' = IF defined = {} THEN "err" ELSE "ok"
           /\ UNCHANGED registry
  ELSE Refuse

CanCarve(theory, typeName, absName, repName, witness) ==
  /\ Own(theory, witness)
  /\ witness.hyps = {}
  /\ IsComb(witness.concl)
  /\ witness.concl.rator.frees = {}
  /\ absName # repName
  /\ ~HasConstant(theory, absName)
  /\ ~HasConstant(theory, repName)
  /\ CanNewType(typeName)

\* The type arguments are the predicate's type variables sorted by name.
TypeArguments(predicate) ==
  LET names == SelectSeq(TyVarNames, LAMBDA name : name \in term_type_vars(predicate))
  IN  [i \in 1..Len(names) |-> TyVar(names[i])]

\* abs and rep between a part of repType and the new type.
AbsConst(typeName, absName, predicate, repType) ==
  Const(absName, Fun(repType, TyCon(typeName, TypeArguments(predicate))))

RepConst(typeName, repName, predicate, repType) ==
  Const(repName, Fun(TyCon(typeName, TypeArguments(predicate)), repType))

\* abs (rep a) = a and P r = (rep (abs r) = r), as a ledger entry.
Bijection(theory, typeName, abs, rep, predicate) ==
  LET a == Var("a", abs.ty.args[2])
      r == Var("r", abs.ty.args[1])
  IN  {[type_name |-> typeName, abs_rep |-> e, rep_abs |-> f] :
         e \in EqSequent(theory, {}, CombRaw(abs, CombRaw(rep, a)), a),
         f \in EqSequent(theory, {}, CombRaw(predicate, r),
                         Eqn(CombRaw(rep, CombRaw(abs, r)), r))}

\* Mutant: rep is made but not entered.
EnterAbs(table, abs, rep) == Extend(table, abs.name, abs.ty)

\* abs is entered even when its empty name is refused next, and then rep is not.
EnterBoth(table, abs, rep) ==
  IF abs.name = ""
  THEN Extend(table, abs.name, abs.ty)
  ELSE Extend(Extend(table, abs.name, abs.ty), rep.name, rep.ty)

\* What is left to do after the checks.  Either constant may still be refused
\* for its empty name, with the registry and the table already written.
Carve(theory, typeName, absName, repName, predicate, repType) ==
  LET abs    == AbsConst(typeName, absName, predicate, repType)
      rep    == RepConst(typeName, repName, predicate, repType)
      minted == IF absName = "" \/ repName = ""
                THEN {}
                ELSE Bijection(theory, typeName, abs, rep, predicate)
  IN  /\ registry' = Extend(registry, typeName, Len(TypeArguments(predicate)))
      /\ Keep({d.abs_rep : d \in minted} \cup {d.rep_abs : d \in minted})
      /\ theories' = [theories EXCEPT
                        ![theory].constants = EnterBoth(@, abs, rep),
                        ![theory].type_definitions = @ \cup minted]
      /\ outcome' = IF minted = {} THEN "err" ELSE "ok"

NewBasicTypeDefinition(theory, typeName, absName, repName, witness) ==
  IF CanCarve(theory, typeName, absName, repName, witness)
  THEN Carve(theory, typeName, absName, repName, witness.concl.rator, witness.concl.rand.ty)
  ELSE Refuse

-----------------------------------------------------------------------------
(***************************************************************************)
(* The rules.  A rule that answers Err leaves everything as it was, so     *)
(* only the answers Ok are steps.  The program may also let a theorem go.  *)
(***************************************************************************)

Derive(results) ==
  /\ \E thm \in results : Keep({thm})
  /\ outcome' = "ok"
  /\ UNCHANGED <<registry, theories>>

Given == {term \in Inputs : Buildable(term)}

ReflRule(theory) == \E term \in Given : Derive(Refl(theory, term))

AssumeRule(theory) == \E term \in Given : Derive(Assume(theory, term))

BetaRule(theory) == \E term \in Given : Derive(Beta(theory, term))

AbsRule(theory) == \E v \in Given, thm \in thms : Derive(Abs(theory, v, thm))

TransRule(theory) == \E left, right \in thms : Derive(Trans(theory, left, right))

MkCombRule(theory) == \E left, right \in thms : Derive(MkComb(theory, left, right))

EqMpRule(theory) == \E left, right \in thms : Derive(EqMp(theory, left, right))

DeductRule(theory) ==
  \E left, right \in thms : Derive(DeductAntisymRule(theory, left, right))

InstRule(theory) ==
  \E theta \in Thetas, thm \in thms :
    BuildableSubst(theta) /\ Derive(Inst(theory, theta, thm))

InstTypeRule(theory) ==
  \E theta \in TyThetas, thm \in thms :
    BuildableTySubst(theta) /\ Derive(InstType(theory, theta, thm))

Drop ==
  /\ \E thm \in thms : thms' = thms \ {thm}
  /\ outcome' = "ok"
  /\ UNCHANGED <<registry, theories>>

RuleStep(theory) ==
  \/ ReflRule(theory)  \/ AssumeRule(theory) \/ BetaRule(theory) \/ AbsRule(theory)
  \/ TransRule(theory) \/ MkCombRule(theory) \/ EqMpRule(theory) \/ DeductRule(theory)
  \/ InstRule(theory)  \/ InstTypeRule(theory)

GateStep(theory) ==
  \/ \E c \in NewConstants : BuildableType(c[2]) /\ NewConstant(theory, c[1], c[2])
  \/ \E term \in Axioms : Buildable(term) /\ NewAxiom(theory, term)
  \/ \E term \in Definitions : Buildable(term) /\ NewBasicDefinition(theory, term)
  \/ \E names \in TypeDefinitions, witness \in thms :
       NewBasicTypeDefinition(theory, names[1], names[2], names[3], witness)

Next ==
  \/ NewTheory
  \/ \E new \in NewTypes : NewType(new[1], new[2])
  \/ \E theory \in DOMAIN theories : GateStep(theory) \/ RuleStep(theory)
  \/ Drop

Spec == Init /\ [][Next]_vars
=============================================================================
