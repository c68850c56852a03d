SPECIFICATION Spec
CONSTANTS
  Definitions <- TruthDefinition
  term_abs <- TermAbs
  open_abs <- OpenAbs
  subst <- Subst
  inst_type_term <- InstTypeTerm
  path_opener <- PathOpener
  InstancesOf <- InstancesIn
  Theory <- Here
  TruthConst <- Truth
  Truths <- TruthTheorem
  Alphabet <- MCAlphabet
  Theorems <- OpenerTheorems
  Strategies <- OpenerStrategies
  Terms <- OpenerTerms
  Limits = {}
  Orders <- NoOrder
  Results <- NoResults
  MaxRules = 2
INVARIANTS HonestReplays
CHECK_DEADLOCK FALSE
