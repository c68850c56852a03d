SPECIFICATION Spec
CONSTANTS
  Definitions <- TruthDefinition
  term_abs <- TermAbs
  open_abs <- OpenAbs
  subst <- Subst
  inst_type_term <- InstTypeTerm
  path_opener <- PathOpener
  InstancesOf <- InstancesIn
  Theory <- Here
  TruthConst <- Truth
  Truths <- TruthTheorem
  Alphabet <- MCAlphabet
  Theorems <- SmallTheorems
  Strategies <- SmallStrategies
  Terms <- SmallTerms
  Limits = {0, 3}
  Orders <- NoOrder
  Results <- SmallResults
  MaxRules = 3
INVARIANTS TypeOK ProofIsClaim HypothesesAreOwed HonestReplays AlgebrasAgree CompleteIsNormal
PROPERTY RefusedForCause
CHECK_DEADLOCK FALSE
