SPECIFICATION Spec
CONSTANTS
  Definitions <- TruthDefinition
  term_abs <- TermAbs
  open_abs <- OpenAbs
  subst <- Subst
  inst_type_term <- InstTypeTerm
  path_opener <- PathOpener
  InstancesOf <- InstancesIn
  Theory <- Here
  TruthConst <- Truth
  Truths <- TruthTheorem
  Alphabet <- MCAlphabet
  Theorems <- TwoConditions
  Strategies <- SolvingOnly
  Terms <- TwoTerms
  Limits = {}
  Orders <- BothOrders
  Results <- NoResults
  MaxRules = 3
INVARIANTS HonestReplays
CHECK_DEADLOCK FALSE
