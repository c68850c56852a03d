----------------------------- MODULE LogicProofs ----------------------------
(***************************************************************************)
(* The two machines of the logic layer, each with its own invariant.       *)
(***************************************************************************)
EXTENDS Installation, TautSearch, Stacks

(***************************************************************************)
(* Installing the logic layer and classical logic in one theory, for any   *)
(* list of connectives, any names the program declares first and any       *)
(* number of attempts.                                                     *)
(*                                                                         *)
(* Names stay declared, so the first name of an installation is its lock:  *)
(* whoever takes "T" or "select" decides it.  The inductive invariant says *)
(* that whatever an installation left behind, its first name is declared.  *)
(***************************************************************************)
ByLogic == DeclaredBy("logic")

Ledgers == {<<>>, <<Eta>>, <<Eta, Selection>>}

InstallInv ==
  /\ boot \in BOOLEAN
  /\ InstalledIsDefined
  /\ ConnectiveNames \cap ByLogic # {} => "T" \in Declared
  /\ ledger # <<>> \/ bundle # {} => "select" \in Declared

-----------------------------------------------------------------------------
(***************************************************************************)
(* Names.                                                                  *)
(***************************************************************************)
LEMMA FirstConnective == "T" \in ConnectiveNames /\ 1 \in DOMAIN Connectives
  BY ConnectivesNamed DEF ConnectiveNames

\* A name declared stays as it was.
LEMMA DeclaresKeeps ==
  ASSUME NEW names, names \cap Declared = {}, NEW by, declaredBy' = Declares(names, by)
  PROVE  /\ Declared' = Declared \cup names
         /\ \A n \in Declared : declaredBy'[n] = declaredBy[n]
         /\ \A n \in names : declaredBy'[n] = by
  BY DEF Declares, Declared

LEMMA LogicDeclares ==
  ASSUME NEW names, names \cap Declared = {}, declaredBy' = Declares(names, "logic")
  PROVE  ByLogic' = ByLogic \cup names
<1>1. /\ Declared' = Declared \cup names
      /\ \A n \in Declared : declaredBy'[n] = declaredBy[n]
      /\ \A n \in names : declaredBy'[n] = "logic"
  BY DeclaresKeeps
<1> QED
  BY <1>1 DEF ByLogic, DeclaredBy

LEMMA ProgramDeclares ==
  ASSUME NEW name, name \notin Declared, declaredBy' = Declares({name}, "program")
  PROVE  ByLogic' = ByLogic
<1>1. /\ Declared' = Declared \cup {name}
      /\ \A n \in Declared : declaredBy'[n] = declaredBy[n]
      /\ declaredBy'[name] = "program"
  BY DeclaresKeeps
<1> QED
  BY <1>1 DEF ByLogic, DeclaredBy

\* install_logic declares T or nothing, and nothing that is there.
LEMMA DefinableFacts ==
  /\ Definable \subseteq ConnectiveNames /\ Definable \cap Declared = {}
  /\ Definable = {} \/ "T" \in Definable
  /\ "T" \in Declared => Definable = {}
<1>1. \A i \in DOMAIN Connectives : i \in Nat /\ i >= 1
  BY ConnectivesNamed
<1>2. \A n \in Definable : \E i \in DOMAIN Connectives :
        n = Connectives[i] /\ \A j \in 1..i : Connectives[j] \notin Declared
  BY DEF Definable
<1>3. \A n \in Definable : /\ n \in ConnectiveNames /\ n \notin Declared
                           /\ Connectives[1] \notin Declared
  BY <1>1, <1>2 DEF ConnectiveNames
<1>4. Connectives[1] \notin Declared => Connectives[1] \in Definable
  BY FirstConnective DEF Definable
<1>5. Connectives[1] = "T"
  BY ConnectivesNamed
<1> QED
  BY <1>3, <1>4, <1>5

-----------------------------------------------------------------------------
(***************************************************************************)
(* The steps.                                                              *)
(***************************************************************************)
LEMMA DeclareKeeps ==
  ASSUME InstallInv, NEW name, DeclareConstant(name)
  PROVE  InstallInv'
<1>1. ByLogic' = ByLogic
  BY ProgramDeclares DEF DeclareConstant
<1>2. Declared \subseteq Declared'
  BY DEF DeclareConstant, Declares, Declared
<1>3. ledger' = ledger /\ boot' = boot /\ bundle' = bundle
  BY DEF DeclareConstant
<1> QED
  BY <1>1, <1>2, <1>3 DEF InstallInv, InstalledIsDefined, ByLogic

LEMMA InstallLogicKeeps ==
  ASSUME InstallInv, InstallLogic
  PROVE  InstallInv'
<1>1. ByLogic' = ByLogic \cup Definable /\ Declared' = Declared \cup Definable
  BY DefinableFacts, LogicDeclares, DeclaresKeeps DEF InstallLogic
<1>2. ledger' = ledger /\ bundle' = bundle
      /\ boot' \in BOOLEAN /\ (boot' <=> boot \/ Definable = ConnectiveNames)
  BY DefinitionsSuffice DEF InstallLogic
<1>3. CASE "T" \in Declared
  <2>1. Definable = {} /\ ByLogic' = ByLogic /\ Declared' = Declared
    BY <1>1, <1>3, DefinableFacts
  <2>2. boot' <=> boot
    BY <1>2, <2>1, FirstConnective
  <2> QED
    BY <1>2, <2>1, <2>2 DEF InstallInv, InstalledIsDefined, ByLogic
<1>4. CASE "T" \notin Declared
  <2>1. ConnectiveNames \cap ByLogic = {} /\ ~boot
    BY <1>4, FirstConnective DEF InstallInv, InstalledIsDefined, ByLogic
  <2>2. boot' <=> ConnectiveNames \subseteq ByLogic'
    BY <1>1, <1>2, <2>1, DefinableFacts
  <2>3. ConnectiveNames \cap ByLogic' # {} => "T" \in Declared'
    BY <1>1, <2>1, DefinableFacts
  <2>4. bundle' = {}
    BY <1>2, <2>1 DEF InstallInv, InstalledIsDefined
  <2>5. InstalledIsDefined'
    BY <1>2, <2>2, <2>4 DEF InstallInv, InstalledIsDefined, ByLogic
  <2> QED
    BY <1>1, <1>2, <2>3, <2>4, <2>5 DEF InstallInv
<1> QED
  BY <1>3, <1>4

LEMMA InstallClassicalKeeps ==
  ASSUME InstallInv, NEW foreign \in BOOLEAN, InstallClassical(foreign)
  PROVE  InstallInv'
<1>1. /\ "select" \notin Declared /\ "select" \notin ConnectiveNames
      /\ foreign \/ boot
      /\ ledger' = ledger \o Assertable /\ boot' = boot
      /\ bundle' = IF Len(Assertable) = 2 THEN MiddleBy(foreign) ELSE {}
  BY ConnectivesNamed DEF InstallClassical
<1>2. ByLogic' = ByLogic \cup {"select"} /\ Declared' = Declared \cup {"select"}
  <2>1. {"select"} \cap Declared = {} /\ declaredBy' = Declares({"select"}, "logic")
    BY <1>1 DEF InstallClassical
  <2> QED
    BY <2>1, LogicDeclares, DeclaresKeeps
<1>3. ledger = <<>> /\ bundle = {}
  BY <1>1 DEF InstallInv
<1>4. /\ Assertable \in Ledgers
      /\ Len(Assertable) = 2 => Assertable = <<Eta, Selection>>
  BY DEF Assertable, Ledgers
<1>5. ledger' = Assertable
  BY <1>1, <1>3, <1>4 DEF Ledgers
<1>6. boot' <=> ConnectiveNames \subseteq ByLogic'
  BY <1>1, <1>2 DEF InstallInv, InstalledIsDefined, ByLogic
<1>7. bundle' # {} => boot' /\ ledger' = <<Eta, Selection>> /\ bundle' = {MiddleTheorem}
  <2>1. CASE foreign = TRUE
    BY <1>1, <2>1, DefinitionsSuffice
  <2>2. CASE foreign = FALSE
    BY <1>1, <1>4, <1>5, <2>2, DefinitionsSuffice
  <2> QED
    BY <2>1, <2>2
<1>8. InstalledIsDefined'
  BY <1>4, <1>5, <1>6, <1>7 DEF InstalledIsDefined, ByLogic, Ledgers
<1>9. ConnectiveNames \cap ByLogic' # {} => "T" \in Declared'
  BY <1>1, <1>2 DEF InstallInv
<1>10. boot' \in BOOLEAN
  BY <1>1 DEF InstallInv
<1>11. "select" \in Declared'
  BY <1>2
<1> QED
  BY <1>8, <1>9, <1>10, <1>11 DEF InstallInv

LEMMA InitHolds ==
  ASSUME InstallInit
  PROVE  InstallInv
<1>1. Declared = {} /\ ByLogic = {}
  BY DEF InstallInit, Declared, ByLogic, DeclaredBy
<1>2. boot = FALSE /\ ledger = <<>> /\ bundle = {}
  BY DEF InstallInit
<1>3. boot \in BOOLEAN /\ InstalledIsDefined
  BY <1>1, <1>2, FirstConnective DEF InstalledIsDefined, ByLogic
<1> QED
  BY <1>1, <1>2, <1>3 DEF InstallInv

LEMMA InstallKeeps ==
  ASSUME InstallInv, [Install]_installVars
  PROVE  InstallInv'
<1>1. CASE UNCHANGED installVars
  BY <1>1 DEF installVars, InstallInv, InstalledIsDefined, ByLogic, DeclaredBy, Declared
<1> QED
  BY <1>1, DeclareKeeps, InstallLogicKeeps, InstallClassicalKeeps DEF Install

THEOREM InstallInvariance == InstallSpec => []InstallInv
<1>1. InstallInv /\ [Install]_installVars => InstallInv'
  BY InstallKeeps
<1> QED
  BY <1>1, InitHolds, PTL DEF InstallSpec

\* A LogicBootstrap is all the connectives by definition and a ClassicalBundle
\* is excluded middle from ETA and SELECT alone, whatever was declared first
\* and however often either was tried (logic/mod.rs:37-42, classical.rs:1-6).
THEOREM BundlesAreTrue == InstallSpec => []InstalledIsDefined
<1>1. InstallInv => InstalledIsDefined
  BY DEF InstallInv
<1> QED
  BY <1>1, InstallInvariance, PTL

-----------------------------------------------------------------------------
(***************************************************************************)
(* What no later attempt does.                                             *)
(***************************************************************************)
Final ==
  /\ "T" \in Declared /\ ~boot => ~boot'
  /\ "select" \in Declared /\ bundle = {} => bundle' = {}
  /\ \A n \in Declared : n \in DOMAIN declaredBy' /\ declaredBy'[n] = declaredBy[n]
  /\ SubSeq(ledger', 1, Len(ledger)) = ledger

LEMMA LedgerPrefix ==
  ASSUME InstallInv
  PROVE  SubSeq(ledger, 1, Len(ledger)) = ledger
<1>1. ledger \in Seq({Eta, Selection})
  <2>1. <<>> \in Seq({Eta, Selection})
    OBVIOUS
  <2>2. <<Eta>> \in Seq({Eta, Selection})
    OBVIOUS
  <2>3. <<Eta, Selection>> \in Seq({Eta, Selection})
    OBVIOUS
  <2>4. ledger = <<>> \/ ledger = <<Eta>> \/ ledger = <<Eta, Selection>>
    BY DEF InstallInv, InstalledIsDefined
  <2> QED
    BY <2>1, <2>2, <2>3, <2>4
<1> QED
  BY <1>1, SubSeqFull

LEMMA InstallFinal ==
  ASSUME InstallInv, [Install]_installVars
  PROVE  Final
<1>1. ASSUME NEW name, DeclareConstant(name)
      PROVE  Final
  <2>1. \A n \in Declared : n \in Declared' /\ declaredBy'[n] = declaredBy[n]
    BY <1>1, DeclaresKeeps DEF DeclareConstant
  <2> QED
    BY <1>1, <2>1, LedgerPrefix DEF DeclareConstant, Final, Declared
<1>2. CASE InstallLogic
  <2>1. \A n \in Declared : n \in Declared' /\ declaredBy'[n] = declaredBy[n]
    BY <1>2, DeclaresKeeps, DefinableFacts DEF InstallLogic
  <2>2. "T" \in Declared /\ ~boot => ~boot'
    BY <1>2, DefinableFacts, FirstConnective DEF InstallLogic
  <2> QED
    BY <1>2, <2>1, <2>2, LedgerPrefix DEF InstallLogic, Final, Declared
<1>3. ASSUME NEW foreign \in BOOLEAN, InstallClassical(foreign)
      PROVE  Final
  <2>1. "select" \notin Declared /\ ledger = <<>> /\ boot' = boot
    BY <1>3 DEF InstallClassical, InstallInv
  <2>2. \A n \in Declared : n \in Declared' /\ declaredBy'[n] = declaredBy[n]
    BY <1>3, <2>1, DeclaresKeeps DEF InstallClassical
  <2>3. SubSeq(ledger', 1, Len(ledger)) = ledger
    BY <2>1
  <2> QED
    BY <2>1, <2>2, <2>3 DEF Final, Declared
<1>4. CASE UNCHANGED installVars
  BY <1>4, LedgerPrefix DEF installVars, Final, Declared
<1> QED
  BY <1>1, <1>2, <1>3, <1>4 DEF Install

\* A failed installation is not mended: the name that made it fail is declared
\* for good (logic/mod.rs:68-75, classical.rs:54-64).
THEOREM FailureIsFinal == InstallSpec => FailedIsFinal
<1>1. InstallInv /\ [Install]_installVars => [Final]_installVars
  BY InstallFinal
<1> QED
  BY <1>1, InstallInvariance, PTL DEF InstallSpec, FailedIsFinal, Final

-----------------------------------------------------------------------------
(***************************************************************************)
(* The search of taut.rs keeps its assumptions apart, for any propositions *)
(* with any number of atoms, any budgets, and any derivations that obey    *)
(* the laws of TautSearch.                                                 *)
(*                                                                         *)
(* A case that is proved rests on what the open calls assume.  To see that *)
(* the next one does too, the proof an open call keeps from its true case  *)
(* must be known to rest on the calls below it and its own atom, and each  *)
(* assignment to be one of the atom the call splits: the invariant says so *)
(* of every open call, whatever the calls above it have done meanwhile.    *)
(***************************************************************************)
\* What the first k of the calls assume.
Assumed(calls, k) == UNION {calls[i].assignment.hyps : i \in 1..k}

\* The i-th of the calls splits the i-th atom, and keeps nothing from its true
\* case but proofs under that atom and what the calls below it assume.
CallKeeps(goal, calls, i) ==
  LET atom == AtomsOf(goal)[i]
      call == calls[i]
  IN  /\ call.kase \in {"true", "false"}
      /\ call.assignment \in Assignment(call.kase, atom)
      /\ call.positive \subseteq
           (IF call.kase = "true" THEN {} ELSE Claims(Assumed(calls, i - 1) \cup {atom}, goal))

OpenCalls(goal, calls) ==
  /\ IsSeq(calls) /\ Len(calls) <= Len(AtomsOf(goal))
  /\ \A i \in 1..Len(calls) : CallKeeps(goal, calls, i)

\* The search for term, of which e is the normalisation.
Underway(term, e) ==
  /\ Proposition(term)
  /\ \A g \in asked : g.term = term
  /\ budget \in Budgets
  /\ normalization = {e} /\ splits = AtomsOf(Rhs(e.concl))
  /\ OpenCalls(Rhs(e.concl), frames)
  /\ atHand \subseteq Claims(Assumed(frames, Len(frames)), Rhs(e.concl))
  /\ outcome = "down" => atHand = {}

SearchInv ==
  /\ display \in DisplayNames
  /\ outcome = "idle" => frames = <<>> /\ atHand = {}
  /\ Searching => \E term \in Propositions : \E e \in Normalization(term) : Underway(term, e)
  /\ ProvedAsAsked

-----------------------------------------------------------------------------
(***************************************************************************)
(* Assumptions.                                                            *)
(***************************************************************************)
LEMMA ClaimFacts ==
  ASSUME NEW assumptions, NEW goal, NEW thm \in Claims(assumptions, goal)
  PROVE  thm.concl = goal /\ thm.hyps \subseteq assumptions
  BY DEF Claims

\* What calls that begin alike assume, and keep, is alike.
LEMMA AssumedAlike ==
  ASSUME NEW s, NEW t, NEW k \in Nat, \A i \in 1..k : t[i] = s[i]
  PROVE  Assumed(t, k) = Assumed(s, k)
  BY DEF Assumed

LEMMA KeepsAlike ==
  ASSUME NEW goal, NEW s, NEW t, NEW k \in Nat, \A i \in 1..k : t[i] = s[i],
         \A i \in 1..k : CallKeeps(goal, s, i)
  PROVE  \A i \in 1..k : CallKeeps(goal, t, i)
<1> SUFFICES ASSUME NEW i \in 1..k PROVE CallKeeps(goal, t, i)
  OBVIOUS
<1>1. i - 1 \in Nat /\ \A j \in 1..i - 1 : t[j] = s[j]
  OBVIOUS
<1>2. Assumed(t, i - 1) = Assumed(s, i - 1)
  BY <1>1, AssumedAlike
<1> QED
  BY <1>2 DEF CallKeeps

LEMMA AssumedNothing == ASSUME NEW s PROVE Assumed(s, 0) = {}
  BY DEF Assumed

\* One call more assumes what its assignment does.
LEMMA AssumedNext ==
  ASSUME NEW s, NEW k \in Nat
  PROVE  Assumed(s, k + 1) = Assumed(s, k) \cup s[k + 1].assignment.hyps
<1>1. 1..k + 1 = 1..k \cup {k + 1}
  OBVIOUS
<1> QED
  BY <1>1 DEF Assumed

\* The assignments of the open calls are a branch, and assume what they do.
LEMMA CallsAreABranch ==
  ASSUME NEW goal, NEW calls, OpenCalls(goal, calls), NEW k \in 0..Len(calls)
  PROVE  LET branch == [i \in 1..k |-> calls[i].assignment] IN
         branch \in Branches(goal, k) /\ Assumptions(branch) = Assumed(calls, k)
<1> DEFINE branch == [i \in 1..k |-> calls[i].assignment]
           given == [i \in 1..k |-> Assignment("true", AtomsOf(goal)[i])
                                      \cup Assignment("false", AtomsOf(goal)[i])]
<1>1. k \in Nat /\ 1..k \subseteq 1..Len(calls)
  BY SeqLen DEF OpenCalls
<1>2. \A i \in 1..k : branch[i] \in given[i]
  BY <1>1 DEF OpenCalls, CallKeeps
<1>3. branch \in [1..k -> UNION {given[i] : i \in 1..k}]
  <2> SUFFICES ASSUME NEW i \in 1..k PROVE branch[i] \in UNION {given[j] : j \in 1..k}
    OBVIOUS
  <2> HIDE DEF given
  <2> QED
    BY <1>2
<1>4. branch \in Branches(goal, k)
  BY <1>2, <1>3 DEF Branches
<1>5. Assumptions(branch) = Assumed(calls, k)
  BY DEF Assumptions, Assumed
<1> QED
  BY <1>4, <1>5

\* The goal is one of those the laws are about.
LEMMA GoalOf ==
  ASSUME NEW term \in Propositions, Proposition(term), NEW e \in Normalization(term)
  PROVE  Rhs(e.concl) \in Goals
  BY DEF Goals

LEMMA NormalizedIs ==
  ASSUME NEW e, normalization = {e}
  PROVE  Normalized = Rhs(e.concl)
  BY DEF Normalized

-----------------------------------------------------------------------------
(***************************************************************************)
(* The steps, of a search for term of which e is the normalisation.        *)
(***************************************************************************)

\* What a search that is under way knows of its goal and of its calls.
LEMMA UnderwayFacts ==
  ASSUME NEW term \in Propositions, NEW e \in Normalization(term), Underway(term, e)
  PROVE  LET goal == Rhs(e.concl) IN
         /\ goal \in Goals /\ Normalized = goal /\ splits = AtomsOf(goal)
         /\ Len(splits) \in Nat
         /\ IsSeq(frames) /\ Len(frames) \in Nat /\ DOMAIN frames = 1..Len(frames)
         /\ OpenCalls(goal, frames)
  BY GoalOf, NormalizedIs, AtomsListed, SeqLen DEF Underway, OpenCalls

\* A call has begun when prove_with_limit has an equation and few enough atoms.
LEMMA StartTautKeeps ==
  ASSUME SearchInv, NEW term \in Propositions, NEW max_atoms, NEW limit \in Budgets,
         StartTaut(term, max_atoms, limit)
  PROVE  SearchInv'
<1>1. /\ frames' = <<>> /\ atHand' = {} /\ display' = display /\ budget' = limit
      /\ asked' = {[term |-> term, max_atoms |-> max_atoms]}
      /\ outcome' \in {"down", "error"}
  BY DEF StartTaut, SearchInv
<1>2. Searching' => \E e \in Normalization(term) : Underway(term, e)'
  <2> SUFFICES ASSUME Searching'
               PROVE  \E e \in Normalization(term) : Underway(term, e)'
    OBVIOUS
  <2>1. /\ outcome' = "down" /\ Proposition(term)
        /\ normalization' = Normalization(term)
        /\ \E e \in Normalization(term) : splits' = AtomsOf(Rhs(e.concl))
    BY <1>1 DEF Searching, StartTaut
  <2>2. PICK e \in Normalization(term) : splits' = AtomsOf(Rhs(e.concl))
    BY <2>1
  <2>3. normalization' = {e}
    BY <2>1, <2>2, OneNormalForm
  <2>4. Rhs(e.concl) \in Goals
    BY <2>1, GoalOf
  <2>5. OpenCalls(Rhs(e.concl), frames)'
    BY <1>1, <2>4, EmptyIsSeq, AtomsListed DEF OpenCalls
  <2>6. Underway(term, e)'
    BY <1>1, <2>1, <2>2, <2>3, <2>5 DEF Underway
  <2> QED
    BY <2>6
<1>3. outcome' # "proved" /\ outcome' # "idle"
  BY <1>1
<1> QED
  BY <1>1, <1>2, <1>3 DEF SearchInv, ProvedAsAsked

LEMMA SplitKeeps ==
  ASSUME NEW term \in Propositions, NEW e \in Normalization(term), Underway(term, e), Split
  PROVE  Underway(term, e)'
<1> DEFINE goal == Rhs(e.concl)
           k == Len(frames)
<1>1. PICK positive \in Assignment("true", splits[k + 1]) :
        frames' = Append(frames, Frame("true", positive, {}))
  BY DEF Split
<1>2. /\ splits = AtomsOf(goal) /\ k \in Nat /\ k < Len(splits) /\ Len(splits) \in Nat
      /\ IsSeq(frames) /\ OpenCalls(goal, frames)
  BY UnderwayFacts DEF Split
<1>3. /\ IsSeq(frames') /\ Len(frames') = k + 1
      /\ frames'[k + 1] = Frame("true", positive, {})
      /\ \A i \in 1..k : frames'[i] = frames[i]
  BY <1>1, <1>2, Pushed
<1>4. ASSUME NEW i \in 1..k + 1 PROVE CallKeeps(goal, frames', i)
  <2>1. CASE i \in 1..k
    <3>1. \A j \in 1..k : CallKeeps(goal, frames, j)
      BY <1>2 DEF OpenCalls
    <3> QED
      BY <1>2, <1>3, <2>1, <3>1, KeepsAlike
  <2>2. CASE i = k + 1
    BY <1>1, <1>2, <1>3, <2>2 DEF CallKeeps, Frame
  <2> QED
    BY <1>2, <2>1, <2>2
<1>5. OpenCalls(goal, frames')
  BY <1>2, <1>3, <1>4 DEF OpenCalls
<1>6. /\ atHand' = {} /\ outcome' = "down"
      /\ UNCHANGED <<asked, budget, normalization, splits>>
  BY DEF Split, Underway
<1> QED
  BY <1>5, <1>6 DEF Underway

\* A leaf that is proved is proved under its branch.
LEMMA LeafKeeps ==
  ASSUME SearchInv, NEW term \in Propositions, NEW e \in Normalization(term), Underway(term, e), Leaf
  PROVE  \/ Underway(term, e)' /\ outcome' = "up"
         \/ outcome' \in {"error", "none"}
<1> DEFINE goal == Rhs(e.concl)
           k == Len(frames)
           result == LeafProofs(display, Normalized, Assignments, budget)
<1>1. CASE Leave("error") \/ Leave("none")
  BY <1>1 DEF Leave
<1>2. CASE /\ \E thms \in result : thms # {} /\ atHand' = thms
           /\ outcome' = "up"
           /\ UNCHANGED <<display, budget, asked, normalization, splits, frames>>
  <2>1. /\ goal \in Goals /\ Normalized = goal /\ k = Len(AtomsOf(goal)) /\ k \in Nat
        /\ DOMAIN frames = 1..k /\ OpenCalls(goal, frames)
    BY UnderwayFacts DEF Leaf
  <2>2. /\ Assignments \in Branches(goal, k)
        /\ Assumptions(Assignments) = Assumed(frames, k)
    BY <2>1, CallsAreABranch DEF Assignments
  <2>3. display \in DisplayNames /\ budget \in Budgets
    BY DEF SearchInv, Underway
  <2>4. \A thms \in LeafProofs(display, goal, Assignments, budget) :
          thms \subseteq Claims(Assumptions(Assignments), goal)
    BY <2>1, <2>2, <2>3, LeafLaw
  <2>5. atHand' \subseteq Claims(Assumed(frames, k), goal)
    BY <1>2, <2>1, <2>2, <2>4
  <2> QED
    BY <1>2, <2>5 DEF Underway
<1> QED
  BY <1>1, <1>2 DEF Leaf

LEMMA TryFalseKeeps ==
  ASSUME NEW term \in Propositions, NEW e \in Normalization(term), Underway(term, e), TryFalse
  PROVE  Underway(term, e)'
<1> DEFINE goal == Rhs(e.concl)
           k == Len(frames)
           atom == splits[k]
<1>1. PICK negative \in Assignment("false", atom) :
        frames' = Append(Below, Frame("false", negative, atHand))
  BY DEF TryFalse
<1>2. /\ goal \in Goals /\ splits = AtomsOf(goal) /\ k \in Nat
      /\ IsSeq(frames) /\ OpenCalls(goal, frames) /\ k <= Len(AtomsOf(goal))
  BY UnderwayFacts DEF OpenCalls
<1>3. k # 0 /\ k \in 1..k /\ k - 1 \in Nat
  BY <1>2, EmptySeq, SeqEmpty DEF TryFalse
<1>4. /\ IsSeq(Below) /\ Len(Below) = k - 1
      /\ \A i \in 1..k - 1 : Below[i] = frames[i]
  BY <1>2, <1>3, Popped DEF Below
<1>5. /\ IsSeq(frames') /\ Len(frames') = k
      /\ frames'[k] = Frame("false", negative, atHand)
      /\ \A i \in 1..k - 1 : frames'[i] = frames[i]
  <2>1. /\ IsSeq(frames') /\ Len(frames') = k - 1 + 1
        /\ frames'[k - 1 + 1] = Frame("false", negative, atHand)
        /\ \A i \in 1..k - 1 : frames'[i] = Below[i]
    BY <1>1, <1>4, Pushed
  <2>2. k - 1 + 1 = k
    BY <1>2
  <2> QED
    BY <1>4, <2>1, <2>2
<1>6. Assumed(frames', k - 1) = Assumed(frames, k - 1)
  BY <1>3, <1>5, AssumedAlike
<1>7. atHand \subseteq Claims(Assumed(frames, k - 1) \cup {atom}, goal)
  <2>1. frames[k].kase = "true" /\ CallKeeps(goal, frames, k)
    BY <1>2, <1>3 DEF TryFalse, Top, OpenCalls
  <2>2. frames[k].assignment.hyps = {atom}
    BY <1>2, <1>3, <2>1, AtomsListed, AssignmentLaw DEF CallKeeps
  <2>3. Assumed(frames, k) = Assumed(frames, k - 1) \cup {atom}
    <3>1. k - 1 + 1 = k
      BY <1>2
    <3> QED
      BY <1>3, <2>2, <3>1, AssumedNext
  <2> QED
    BY <2>3 DEF Underway
<1>8. ASSUME NEW i \in 1..k PROVE CallKeeps(goal, frames', i)
  <2>1. CASE i \in 1..k - 1
    <3>1. \A j \in 1..k - 1 : CallKeeps(goal, frames, j)
      BY <1>2, <1>3 DEF OpenCalls
    <3> HIDE DEF k, goal
    <3>2. \A j \in 1..k - 1 : CallKeeps(goal, frames', j)
      BY <1>3, <1>5, <3>1, KeepsAlike
    <3> QED
      BY <2>1, <3>2
  <2>2. CASE i = k
    <3>1. /\ frames'[k].kase = "false" /\ frames'[k].assignment = negative
          /\ frames'[k].positive = atHand
      BY <1>5 DEF Frame
    <3>2. negative \in Assignment("false", AtomsOf(goal)[k])
      BY <1>1, <1>2
    <3>3. atHand \subseteq Claims(Assumed(frames', k - 1) \cup {AtomsOf(goal)[k]}, goal)
      BY <1>2, <1>6, <1>7
    <3> HIDE DEF k, goal, atom
    <3> QED
      BY <2>2, <3>1, <3>2, <3>3 DEF CallKeeps
  <2> QED
    BY <1>2, <2>1, <2>2
<1>9. OpenCalls(goal, frames')
  BY <1>2, <1>5, <1>8 DEF OpenCalls
<1>10. /\ atHand' = {} /\ outcome' = "down"
       /\ UNCHANGED <<asked, budget, normalization, splits>>
  BY DEF TryFalse
<1> QED
  BY <1>9, <1>10 DEF Underway

\* Excluded middle takes the atom out of one case, and its negation out of the
\* other.
LEMMA JoinKeeps ==
  ASSUME NEW term \in Propositions, NEW e \in Normalization(term), Underway(term, e), Join
  PROVE  Underway(term, e)'
<1> DEFINE goal == Rhs(e.concl)
           k == Len(frames)
           atom == splits[k]
           others == Assumed(frames, k - 1)
<1>1. /\ goal \in Goals /\ splits = AtomsOf(goal) /\ k \in Nat /\ Len(AtomsOf(goal)) \in Nat
      /\ IsSeq(frames) /\ OpenCalls(goal, frames) /\ k <= Len(AtomsOf(goal))
  BY UnderwayFacts DEF OpenCalls
<1>2. k # 0 /\ k \in 1..k /\ k - 1 \in Nat /\ k - 1 \in 0..k /\ k \in 1..Len(AtomsOf(goal))
  BY <1>1, SeqEmpty DEF Join
<1>3. /\ IsSeq(frames') /\ Len(frames') = k - 1
      /\ \A i \in 1..k - 1 : frames'[i] = frames[i]
  BY <1>1, <1>2, Popped DEF Join, Below
<1>4. OpenCalls(goal, frames')
  <2>1. \A i \in 1..k - 1 : CallKeeps(goal, frames', i)
    <3>1. \A i \in 1..k - 1 : CallKeeps(goal, frames, i)
      BY <1>1, <1>2 DEF OpenCalls
    <3> HIDE DEF k, goal
    <3> QED
      BY <1>2, <1>3, <3>1, KeepsAlike
  <2> QED
    BY <1>1, <1>3, <2>1 DEF OpenCalls
<1>5. Assumed(frames', Len(frames')) = others
  BY <1>2, <1>3, AssumedAlike
<1>6. /\ frames[k].kase = "false" /\ frames[k].assignment \in Assignment("false", atom)
      /\ frames[k].positive \subseteq Claims(others \cup {atom}, goal)
  BY <1>1, <1>2 DEF Join, Top, OpenCalls, CallKeeps
<1>7. atHand \subseteq Claims(others \cup frames[k].assignment.hyps, goal)
  <2>1. k - 1 + 1 = k
    BY <1>1
  <2>2. Assumed(frames, k) = others \cup frames[k].assignment.hyps
    BY <1>2, <2>1, AssumedNext
  <2> QED
    BY <2>2 DEF Underway
<1>8. ASSUME NEW positive \in frames[k].positive, NEW negative \in atHand
      PROVE  Joined(atom, positive, negative) \subseteq Claims(others, goal)
  <2> DEFINE branch == [i \in 1..k - 1 |-> frames[i].assignment]
  <2>1. branch \in Branches(goal, k - 1) /\ Assumptions(branch) = others
    BY <1>1, <1>2, CallsAreABranch
  <2>2. \A false \in Assignment("false", atom) :
          \A one \in Claims(others \cup {atom}, goal),
             other \in Claims(others \cup false.hyps, goal) :
            Joined(atom, one, other) \subseteq Claims(others, goal)
    <3> HIDE DEF branch, others, k, goal
    <3> QED
      BY <1>1, <1>2, <2>1, JoinLaw
  <2>3. positive \in Claims(others \cup {atom}, goal)
    BY <1>6
  <2>4. negative \in Claims(others \cup frames[k].assignment.hyps, goal)
    BY <1>7
  <2> HIDE DEF others, atom, goal
  <2> QED
    BY <1>6, <2>2, <2>3, <2>4
<1>9. atHand' \subseteq Claims(others, goal)
  <2>1. atHand' = UNION {Joined(atom, positive, negative) :
                           positive \in frames[k].positive, negative \in atHand}
    BY DEF Join, Top
  <2> HIDE DEF others, atom, goal, k
  <2> QED
    BY <1>8, <2>1
<1>10. outcome' = "up" /\ UNCHANGED <<asked, budget, normalization, splits>>
  BY DEF Join
<1> QED
  BY <1>4, <1>5, <1>9, <1>10 DEF Underway

\* With no call open nothing is assumed, and the proof is carried back.
LEMMA FinishKeeps ==
  ASSUME NEW term \in Propositions, NEW e \in Normalization(term), Underway(term, e), Finish
  PROVE  /\ outcome' \in {"proved", "error"}
         /\ ProvedAsAsked'
<1> DEFINE goal == Rhs(e.concl)
<1>1. Len(frames) = 0 /\ Assumed(frames, 0) = {} /\ normalization = {e} /\ Proposition(term)
  BY EmptyIsSeq, AssumedNothing DEF Finish, Underway
<1>2. atHand \subseteq Claims({}, goal)
  BY <1>1 DEF Underway
<1>3. \A thm \in atHand : CarriedBack(e, thm) \subseteq Claims({}, term)
  BY <1>1, <1>2, CarryLaw
<1>4. atHand' = UNION {CarriedBack(f, thm) : f \in {e}, thm \in atHand}
  BY <1>1 DEF Finish
<1>5. atHand' \subseteq Claims({}, term)
  BY <1>3, <1>4
<1>6. \A g \in asked' : g.term = term
  BY DEF Finish, Underway
<1>7. outcome' = IF atHand' = {} THEN "error" ELSE "proved"
  BY DEF Finish
<1> QED
  BY <1>5, <1>6, <1>7 DEF ProvedAsAsked

-----------------------------------------------------------------------------
(***************************************************************************)
(* The theorems.                                                           *)
(***************************************************************************)
LEMMA InitInv == SearchInit => SearchInv
  BY DEF SearchInit, SearchInv, Searching, ProvedAsAsked

LEMMA StepInv == SearchInv /\ [Search \/ SearchStep]_searchVars => SearchInv'
<1> SUFFICES ASSUME SearchInv, [Search \/ SearchStep]_searchVars PROVE SearchInv'
  OBVIOUS
<1>1. CASE Search
  BY <1>1, StartTautKeeps DEF Search
<1>2. CASE SearchStep
  <2>1. Searching /\ display' = display
    BY <1>2 DEF SearchStep, Split, Leaf, TryFalse, Join, Finish, Leave, Searching
  <2>0. PICK term \in Propositions : \E e \in Normalization(term) : Underway(term, e)
    BY <2>1 DEF SearchInv
  <2>2. PICK e \in Normalization(term) : Underway(term, e)
    BY <2>0
  <2>3. CASE Underway(term, e)' /\ outcome' \in {"down", "up"}
    BY <2>1, <2>3 DEF SearchInv, ProvedAsAsked
  <2>4. CASE outcome' \in {"error", "none"}
    BY <2>1, <2>4 DEF SearchInv, ProvedAsAsked, Searching
  <2>5. CASE Split
    BY <2>2, <2>3, <2>5, SplitKeeps DEF Split
  <2>6. CASE Leaf
    BY <2>2, <2>3, <2>4, <2>6, LeafKeeps
  <2>7. CASE TryFalse
    BY <2>2, <2>3, <2>7, TryFalseKeeps DEF TryFalse
  <2>8. CASE Join
    BY <2>2, <2>3, <2>8, JoinKeeps DEF Join
  <2>9. CASE Finish
    BY <2>1, <2>2, <2>9, FinishKeeps DEF SearchInv, Searching
  <2> QED
    BY <1>2, <2>5, <2>6, <2>7, <2>8, <2>9 DEF SearchStep
<1>3. CASE UNCHANGED searchVars
  <2>1. UNCHANGED <<display, budget, asked, normalization, splits, frames, atHand, outcome>>
    BY <1>3 DEF searchVars
  <2>2. \A term, e : Underway(term, e)' <=> Underway(term, e)
    BY <2>1 DEF Underway
  <2> QED
    BY <2>1, <2>2 DEF SearchInv, Searching, ProvedAsAsked
<1> QED
  BY <1>1, <1>2, <1>3

(***************************************************************************)
(* The inductive invariant of the search: every open call keeps what it    *)
(* promises, whatever the calls above it did (taut.rs:112-163).            *)
(***************************************************************************)
THEOREM SearchInvariance == SearchSpec => []SearchInv
<1> QED
  BY InitInv, StepInv, PTL DEF SearchSpec

(***************************************************************************)
(* No assumed atom escapes its branch (taut.rs:5-6), for any number of     *)
(* atoms.                                                                  *)
(***************************************************************************)
THEOREM NoAtomEscapes == SearchSpec => []BranchesKeepTheirAtoms
<1>1. SearchInv => BranchesKeepTheirAtoms
  <2> SUFFICES ASSUME SearchInv, Searching PROVE BranchesKeepTheirAtoms
    BY DEF BranchesKeepTheirAtoms
  <2>0. PICK term \in Propositions : \E e \in Normalization(term) : Underway(term, e)
    BY DEF SearchInv
  <2>1. PICK e \in Normalization(term) : Underway(term, e)
    BY <2>0
  <2> DEFINE goal == Rhs(e.concl)
  <2>2. /\ Normalized = goal /\ splits = AtomsOf(goal) /\ Len(frames) \in Nat
        /\ DOMAIN frames = 1..Len(frames) /\ OpenCalls(goal, frames)
    BY <2>1, UnderwayFacts
  <2>3. \A k : AssumedBy(k) = Assumed(frames, k)
    BY DEF AssumedBy, Assumed
  <2>4. \A thm \in atHand : thm.concl = Normalized /\ thm.hyps \subseteq AssumedBy(Len(frames))
    <3>1. atHand \subseteq Claims(Assumed(frames, Len(frames)), goal)
      BY <2>1 DEF Underway
    <3> QED
      BY <2>2, <2>3, <3>1, ClaimFacts
  <2>5. ASSUME NEW i \in DOMAIN frames, NEW thm \in frames[i].positive
        PROVE  /\ thm.concl = Normalized
               /\ thm.hyps \subseteq AssumedBy(i - 1) \cup {splits[i]}
    <3>1. thm \in Claims(Assumed(frames, i - 1) \cup {splits[i]}, goal)
      BY <2>2, <2>5 DEF OpenCalls, CallKeeps
    <3> QED
      BY <2>2, <2>3, <3>1, ClaimFacts
  <2> QED
    BY <2>4, <2>5 DEF BranchesKeepTheirAtoms
<1> QED
  BY <1>1, SearchInvariance, PTL

(***************************************************************************)
(* Some(theorem) is the term that was asked for, under no hypothesis       *)
(* (taut.rs:59-63).                                                        *)
(***************************************************************************)
THEOREM ProvesWhatWasAsked == SearchSpec => []ProvedAsAsked
<1>1. SearchInv => ProvedAsAsked
  BY DEF SearchInv
<1> QED
  BY <1>1, SearchInvariance, PTL
=============================================================================
