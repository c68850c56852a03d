SPECIFICATION Spec
CONSTANTS
  term_abs <- MCTermAbs
  open_abs <- MCOpenAbs
  subst <- MCSubst
  inst_type_term <- MCInstTypeTerm
  term_type_vars <- MCTermTypeVars
  is_instance <- MCIsInstance
  consts_of <- MCConstsOf
  ty_cons_of <- MCTyConsOf
  Interp <- MCInterp
  Val <- MCVal
  Den <- MCDen
  Dom <- MCDom
  Update <- MCUpdate
  SubstVal <- MCSubstVal
  TySubstVal <- MCTySubstVal
  Symbol <- MCSymbol
  Meaning <- MCMeaning
  FreeVars <- None
  TypeVars <- None
  BoolConsts <- LeakNames
  Carvings <- Whole
  Term <- LeakTerms
  Inputs <- LeakInputs
  TyVarNames <- NoNames
  Thetas <- None
  TyThetas <- None
  NewTypes <- None
  NewConstants <- LeakNewConstants
  Axioms <- LeakAxioms
  Definitions <- None
  TypeDefinitions <- None
  MaxTheories = 1
  MaxThms = 3
PROPERTIES NoLeak
CHECK_DEADLOCK FALSE
