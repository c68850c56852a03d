---------------------------- MODULE Installation ----------------------------
(***************************************************************************)
(* Kernel::install_logic (src/src/logic/mod.rs) and classical::install on  *)
(* one theory.  Neither is undone when a step of it refuses, and a name    *)
(* can be taken before either: by the program itself, or by an earlier     *)
(* attempt.  The bootstrap a caller passes may be another theory's.        *)
(***************************************************************************)
EXTENDS Naturals, Sequences, FiniteSets

CONSTANTS
  Connectives,        \* the names of the eight definitions, in the order made
  Eta, Selection,     \* the two axioms, as stated
  SimpSets,           \* the simp set the definitions derive, none if a step refuses
  MiddleBy(_),        \* what derive_excluded_middle answers, by another theory's rules or not
  MiddleTheorem,      \* |- !t. t \/ ~t
  ProgramNames,       \* what the program may declare, at the connective's type
  MaxDeclared         \* bound on the names it declares itself

ConnectiveNames == {Connectives[i] : i \in DOMAIN Connectives}

\* The axioms are stated with two of the connectives and with a constant that
\* is none of them.
ASSUME ConnectivesNamed ==
  /\ Connectives \in Seq(ConnectiveNames) /\ Len(Connectives) > 0
  /\ Connectives[1] = "T" /\ {"forall", "imp"} \subseteq ConnectiveNames
  /\ "select" \notin ConnectiveNames

\* By the definitions of the theory every derivation goes through; by those of
\* another theory the first rule refuses.
ASSUME DefinitionsSuffice ==
  /\ SimpSets # {}
  /\ MiddleBy(FALSE) = {MiddleTheorem} /\ MiddleBy(TRUE) = {}

VARIABLES
  declaredBy,           \* name -> "program" or "logic", for the constants there are
  ledger,             \* the axioms asserted, in order
  boot,               \* the program holds the theory's LogicBootstrap
  bundle              \* the excluded middle of its ClassicalBundle, {} or {thm}

installVars == <<declaredBy, ledger, boot, bundle>>

InstallInit == declaredBy = [n \in {} |-> ""] /\ ledger = <<>> /\ boot = FALSE /\ bundle = {}

Declared == DOMAIN declaredBy
Declares(names, by) == [n \in Declared \cup names |-> IF n \in names THEN by ELSE declaredBy[n]]
DeclaredBy(by) == {n \in Declared : declaredBy[n] = by}

DeclareConstant(name) ==
  /\ name \notin Declared /\ Cardinality(DeclaredBy("program")) < MaxDeclared
  /\ declaredBy' = Declares({name}, "program")
  /\ UNCHANGED <<ledger, boot, bundle>>

\* The definitions made before the first whose name is taken.
Definable == {Connectives[i] : i \in {i \in DOMAIN Connectives :
                                      \A j \in 1..i : Connectives[j] \notin Declared}}

\* Mutant: a definition that is there already is not made again.
InstallMissing ==
  /\ declaredBy' = Declares(ConnectiveNames \ Declared, "logic")
  /\ boot' = (boot \/ SimpSets # {})
  /\ UNCHANGED <<ledger, bundle>>

InstallLogic ==
  /\ declaredBy' = Declares(Definable, "logic")
  /\ boot' = (boot \/ (Definable = ConnectiveNames /\ SimpSets # {}))
  /\ UNCHANGED <<ledger, bundle>>

\* Which of the two axioms can be stated, in order.
Assertable ==
  IF "forall" \notin Declared THEN <<>>
  ELSE IF "imp" \notin Declared THEN <<Eta>> ELSE <<Eta, Selection>>

\* Mutant: what an earlier attempt left is taken up.
InstallClassicalAgain(foreign) ==
  /\ bundle = {} /\ (foreign \/ boot)
  /\ declaredBy' = Declares({"select"} \ Declared, "logic")
  /\ ledger' = Assertable
  /\ bundle' = IF Len(Assertable) = 2 THEN MiddleBy(foreign) ELSE {}
  /\ UNCHANGED boot

InstallClassical(foreign) ==
  /\ "select" \notin Declared /\ (foreign \/ boot)
  /\ declaredBy' = Declares({"select"}, "logic")
  /\ ledger' = ledger \o Assertable
  /\ bundle' = IF Len(Assertable) = 2 THEN MiddleBy(foreign) ELSE {}
  /\ UNCHANGED boot

Install ==
  \/ \E name \in ProgramNames \ Declared : DeclareConstant(name)
  \/ InstallLogic
  \/ \E foreign \in BOOLEAN : InstallClassical(foreign)

InstallSpec == InstallInit /\ [][Install]_installVars

-----------------------------------------------------------------------------

(***************************************************************************)
(* What a bootstrap or a bundle says it is (logic/mod.rs:37-42,            *)
(* classical.rs:1-6).  A bootstrap is all eight connectives by definition, *)
(* none the program's own constant, and once all are, every derivation     *)
(* after them goes through.  Nothing is in the ledger but ETA and SELECT,  *)
(* both when there is a bundle; and excluded middle has no hypothesis and  *)
(* is not itself asserted.                                                 *)
(***************************************************************************)
InstalledIsDefined ==
  /\ boot <=> ConnectiveNames \subseteq DeclaredBy("logic")
  /\ ledger \in {<<>>, <<Eta>>, <<Eta, Selection>>}
  /\ bundle # {} => boot /\ ledger = <<Eta, Selection>> /\ bundle = {MiddleTheorem}

(***************************************************************************)
(* A failed installation is not mended (logic/mod.rs:68-75,                *)
(* classical.rs:54-64).  Once the first name of either is taken, by whom   *)
(* or what does not matter, the bootstrap or the bundle that the program   *)
(* does not hold yet it never will, and what was asserted stays asserted.  *)
(***************************************************************************)
FailedIsFinal ==
  [][/\ "T" \in Declared /\ ~boot => ~boot'
     /\ "select" \in Declared /\ bundle = {} => bundle' = {}
     /\ \A n \in Declared : n \in DOMAIN declaredBy' /\ declaredBy'[n] = declaredBy[n]
     /\ SubSeq(ledger', 1, Len(ledger)) = ledger]_installVars
=============================================================================
