SPECIFICATION Spec
CONSTANTS
  Definitions <- TruthDefinition
  term_abs <- TermAbs
  open_abs <- OpenAbs
  subst <- Subst
  inst_type_term <- InstTypeTerm
  path_opener <- PathOpener
  InstancesOf <- InstancesIn
  Theory <- Here
  TruthConst <- Truth
  Truths <- TruthTheorem
  Alphabet <- MCAlphabet
  Theorems <- CollisionTheorems
  Strategies <- LeafOnly
  Terms <- CollisionTerms
  Limits = {}
  Orders <- CollisionOrders
  Results <- NoResults
  MaxRules = 1
INVARIANTS AlgebrasAgree
CHECK_DEADLOCK FALSE
