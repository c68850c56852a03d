SPECIFICATION Spec
CONSTANTS
  term_abs <- MCTermAbs
  open_abs <- MCOpenAbs
  subst <- MCSubst
  inst_type_term <- MCInstTypeTerm
  term_type_vars <- MCTermTypeVars
  is_instance <- MCIsInstance
  consts_of <- MCConstsOf
  ty_cons_of <- MCTyConsOf
  Interp <- MCInterp
  Val <- MCVal
  Den <- MCDen
  Dom <- MCDom
  Update <- MCUpdate
  SubstVal <- MCSubstVal
  TySubstVal <- MCTySubstVal
  Symbol <- MCSymbol
  Meaning <- MCMeaning
  FreeVars <- None
  TypeVars <- None
  BoolConsts <- CircularNames
  Carvings <- Whole
  Term <- CircularTerms
  Inputs <- None
  TyVarNames <- NoNames
  Thetas <- None
  TyThetas <- None
  NewTypes <- None
  NewConstants <- CircularNewConstants
  Axioms <- None
  Definitions <- CircularDefinitions
  TypeDefinitions <- None
  MaxTheories = 2
  MaxThms = 3
INVARIANTS Conservative
CHECK_DEADLOCK FALSE
