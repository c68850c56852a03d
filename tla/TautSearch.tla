----------------------------- MODULE TautSearch -----------------------------
(***************************************************************************)
(* The search of taut.rs: excluded middle on one atom after another, the   *)
(* true case first.  decide calls itself; here a step is what it does      *)
(* between two calls, and the frames are the calls that are open.          *)
(*                                                                         *)
(* What a step has derived is given by CONSTANTs and by what is assumed of *)
(* them: Taut has the derivations of the code, and TLC evaluates the       *)
(* assumptions there.                                                      *)
(***************************************************************************)
EXTENDS TermNodes

CONSTANTS
  Propositions,       \* what the program hands to prove_with_limit
  AtomLimits,         \* the bounds it gives on the atoms
  Budgets,            \* the budget of a leaf, DEFAULT_LIMIT in the code
  DisplayNames        \* the names a binder may have been interned with first

CONSTANTS
  Theory,             \* the theory of the call
  Normalization(_),   \* beta_normalize: |- term = term', none if it refuses
  AtomsOf(_),         \* the atoms of term', in the order they are split
  Assignment(_, _),   \* (kase, atom): atom |- atom = T, or ~atom |- atom = F
  LeafProofs(_, _, _, _), \* (name, term', assignments, limit): prove_leaf
  Joined(_, _, _),    \* (atom, positive, negative): disj_cases with em of the atom
  CarriedBack(_, _)   \* (|- term = term', |- term'): |- term

VARIABLES
  display,            \* the one it was
  budget,             \* of a leaf, in the call at hand
  asked,               \* the call: {} or {[term, max_atoms]}
  normalization,      \* |- term = term'
  splits,             \* the atoms of term'
  frames,             \* the open calls: the atom's case, what it assumes, what is proved
  atHand,             \* term' in the case at hand, {} or {thm}
  outcome             \* "idle", "down", "up", then "proved", "none" or "error"

searchVars == <<display, budget, asked, normalization, splits, frames, atHand, outcome>>

-----------------------------------------------------------------------------
(***************************************************************************)
(* The assumptions, one for each derivation a step makes.                  *)
(***************************************************************************)

\* The theorems that say goal, under some of these assumptions.
Claims(assumptions, goal) ==
  {[theory |-> Theory, hyps |-> hyps, concl |-> goal] : hyps \in SUBSET assumptions}

\* The normalised terms a search may be about.
Goals ==
  {Rhs(e.concl) : e \in UNION {Normalization(t) : t \in {t \in Propositions : Proposition(t)}}}

\* The assignments of k atoms of a goal, one for each.
Branches(goal, k) ==
  LET split == AtomsOf(goal)
      given == [i \in 1..k |-> Assignment("true", split[i]) \cup Assignment("false", split[i])]
  IN  {branch \in [1..k -> UNION {given[i] : i \in 1..k}] : \A i \in 1..k : branch[i] \in given[i]}

Assumptions(branch) == UNION {branch[i].hyps : i \in DOMAIN branch}

ASSUME OneNormalForm ==
  \A t \in Propositions : Proposition(t) => \A e, f \in Normalization(t) : e = f

ASSUME AtomsListed == \A goal \in Goals : Len(AtomsOf(goal)) \in Nat

\* An atom assumed true is assumed as it is.
ASSUME AssignmentLaw ==
  \A goal \in Goals : \A i \in 1..Len(AtomsOf(goal)) :
    \A thm \in Assignment("true", AtomsOf(goal)[i]) : thm.hyps = {AtomsOf(goal)[i]}

\* A leaf that is proved is the goal, under what its branch assumes.
ASSUME LeafLaw ==
  \A goal \in Goals : \A branch \in Branches(goal, Len(AtomsOf(goal))) :
    \A name \in DisplayNames, limit \in Budgets :
      \A thms \in LeafProofs(name, goal, branch, limit) : thms \subseteq Claims(Assumptions(branch), goal)

\* Two cases joined rest on what both assume beside the atom and its negation.
ASSUME JoinLaw ==
  \A goal \in Goals : \A k \in 1..Len(AtomsOf(goal)) : \A branch \in Branches(goal, k - 1) :
    LET atom == AtomsOf(goal)[k]
        others == Assumptions(branch)
    IN  \A false \in Assignment("false", atom) :
          \A positive \in Claims(others \cup {atom}, goal),
             negative \in Claims(others \cup false.hyps, goal) :
            Joined(atom, positive, negative) \subseteq Claims(others, goal)

ASSUME CarryLaw ==
  \A t \in Propositions : Proposition(t) =>
    \A e \in Normalization(t) : \A thm \in Claims({}, Rhs(e.concl)) :
      CarriedBack(e, thm) \subseteq Claims({}, t)

-----------------------------------------------------------------------------

SearchInit ==
  /\ display \in DisplayNames /\ budget = 0
  /\ asked = {} /\ normalization = {} /\ splits = <<>> /\ frames = <<>> /\ atHand = {}
  /\ outcome = "idle"

Searching == outcome \in {"down", "up"}
Answered  == outcome \in {"proved", "none", "error"}

Top == frames[Len(frames)]
Below == SubSeq(frames, 1, Len(frames) - 1)
Assignments == [i \in DOMAIN frames |-> frames[i].assignment]
Normalized == Rhs((CHOOSE thm \in normalization : TRUE).concl)

Frame(kase, assignment, positive) == [kase |-> kase, assignment |-> assignment, positive |-> positive]

\* The answer None or Err leaves every open call at once.
Leave(result) ==
  /\ outcome' = result /\ frames' = <<>> /\ atHand' = {}
  /\ UNCHANGED <<display, budget, asked, normalization, splits>>

-----------------------------------------------------------------------------

StartTaut(term, max_atoms, limit) ==
  LET equations == IF Proposition(term) THEN Normalization(term) ELSE {} IN
  /\ outcome = "idle"
  /\ asked' = {[term |-> term, max_atoms |-> max_atoms]}
  /\ budget' = limit
  /\ normalization' = equations
  /\ \/ equations = {} /\ splits' = <<>> /\ outcome' = "error"
     \/ \E e \in equations :
          /\ splits' = AtomsOf(Rhs(e.concl))
          /\ outcome' = IF Len(splits') > max_atoms THEN "error" ELSE "down"
  /\ UNCHANGED <<display, frames, atHand>>

\* The next atom, assumed true.
Split ==
  /\ outcome = "down" /\ Len(frames) < Len(splits)
  /\ \E positive \in Assignment("true", splits[Len(frames) + 1]) :
       frames' = Append(frames, Frame("true", positive, {}))
  /\ UNCHANGED <<display, budget, asked, normalization, splits, atHand, outcome>>

\* Every atom has a value.
Leaf ==
  /\ outcome = "down" /\ Len(frames) = Len(splits)
  /\ LET result == LeafProofs(display, Normalized, Assignments, budget)
     IN  \/ result = {} /\ Leave("error")
         \/ result = {{}} /\ Leave("none")
         \/ /\ \E thms \in result : thms # {} /\ atHand' = thms
            /\ outcome' = "up"
            /\ UNCHANGED <<display, budget, asked, normalization, splits, frames>>

\* Mutant: the case of an atom assumed true stands for both.
SkipFalse ==
  /\ outcome = "up" /\ frames # <<>> /\ Top.kase = "true"
  /\ frames' = Below
  /\ UNCHANGED <<display, budget, asked, normalization, splits, atHand, outcome>>

\* Mutant: the other case is not entered.
TryTrueAgain ==
  /\ outcome = "up" /\ frames # <<>> /\ Top.kase = "true"
  /\ frames' = [frames EXCEPT ![Len(frames)].positive = atHand]
  /\ atHand' = {} /\ outcome' = "down"
  /\ UNCHANGED <<display, budget, asked, normalization, splits>>

\* The true case is proved: the atom is assumed false.
TryFalse ==
  /\ outcome = "up" /\ frames # <<>> /\ Top.kase = "true"
  /\ \E negative \in Assignment("false", splits[Len(frames)]) :
       frames' = Append(Below, Frame("false", negative, atHand))
  /\ atHand' = {} /\ outcome' = "down"
  /\ UNCHANGED <<display, budget, asked, normalization, splits>>

\* Both are: excluded middle of the atom joins them.
Join ==
  /\ outcome = "up" /\ frames # <<>> /\ Top.kase = "false"
  /\ atHand' = UNION {Joined(splits[Len(frames)], positive, negative) :
                        positive \in Top.positive, negative \in atHand}
  /\ frames' = Below
  /\ UNCHANGED <<display, budget, asked, normalization, splits, outcome>>

\* Mutant: the answer is about the normalised term.
FinishReduced ==
  /\ outcome = "up" /\ frames = <<>>
  /\ outcome' = "proved"
  /\ UNCHANGED <<display, budget, asked, normalization, splits, frames, atHand>>

\* The proof is carried back to the term as it was given.
Finish ==
  /\ outcome = "up" /\ frames = <<>>
  /\ atHand' = UNION {CarriedBack(e, thm) : e \in normalization, thm \in atHand}
  /\ outcome' = IF atHand' = {} THEN "error" ELSE "proved"
  /\ UNCHANGED <<display, budget, asked, normalization, splits, frames>>

SearchStep == Split \/ Leaf \/ TryFalse \/ Join \/ Finish

Search == \E term \in Propositions, max_atoms \in AtomLimits, limit \in Budgets :
            StartTaut(term, max_atoms, limit)

SearchSpec == SearchInit /\ [][Search \/ SearchStep]_searchVars

\* Every step of the search moves, and only a step of the search does.
Moves ==
  /\ Searching
  /\ \/ outcome' \in {"down", "up", "proved", "none", "error"} \ {outcome} /\ frames' = frames
     \/ frames' # frames

\* The search is one running function: it goes on until it returns.
SearchFairness == WF_<<outcome, frames>>(Moves)

-----------------------------------------------------------------------------

(***************************************************************************)
(* No assumed atom escapes its branch (taut.rs:5-6).  What is proved on    *)
(* the way, also what an open call keeps from its true case, is the        *)
(* normalised term, under assumptions that open calls made and no others.  *)
(***************************************************************************)
AssumedBy(k) == UNION {frames[i].assignment.hyps : i \in 1..k}

BranchesKeepTheirAtoms ==
  Searching =>
    /\ \A thm \in atHand : thm.concl = Normalized /\ thm.hyps \subseteq AssumedBy(Len(frames))
    /\ \A i \in DOMAIN frames : \A thm \in frames[i].positive :
         /\ thm.concl = Normalized
         /\ thm.hyps \subseteq AssumedBy(i - 1) \cup {splits[i]}

(***************************************************************************)
(* Some(theorem) is about the term as it was given, under no hypothesis    *)
(* (taut.rs:62-63), whatever was assumed on the way.                       *)
(***************************************************************************)
ProvedAsAsked ==
  outcome = "proved" =>
    atHand # {} /\ \A g \in asked : atHand \subseteq Claims({}, g.term)
=============================================================================
