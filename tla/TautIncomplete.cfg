SPECIFICATION Spec
CONSTANTS
  Connectives <- LogicNames
  Eta <- eta_axiom
  Selection <- select_axiom
  SimpSets <- SimpSet
  MiddleBy <- middle_by
  MiddleTheorem <- excluded_middle_theorem
  Theory <- Here
  Normalization <- beta_normalize
  AtomsOf <- atoms
  Assignment <- assignment
  LeafProofs <- prove_leaf
  Joined <- join_cases
  CarriedBack <- carried_back
  ProgramNames <- AllNames
  MaxDeclared = 1
  DisplayNames <- MCNames
  Facts <- SmallFacts
  Terms <- SmallTerms
  Existentials <- SmallExistentials
  Propositions <- NestedPropositions
  AtomLimits <- SmallAtomLimits
  Budgets <- SmallBudgets
INVARIANTS TautologiesAreProved
CHECK_DEADLOCK FALSE
