SPECIFICATION Spec
CONSTANTS
  term_abs <- MCTermAbs
  open_abs <- MCOpenAbs
  subst <- MCSubst
  inst_type_term <- MCInstTypeTerm
  term_type_vars <- MCTermTypeVars
  is_instance <- MCIsInstance
  consts_of <- MCConstsOf
  ty_cons_of <- MCTyConsOf
  Interp <- MCInterp
  Val <- MCVal
  Den <- MCDen
  Dom <- MCDom
  Update <- MCUpdate
  SubstVal <- MCSubstVal
  TySubstVal <- MCTySubstVal
  Symbol <- MCSymbol
  Meaning <- MCMeaning
  FreeVars <- DefVars
  TypeVars <- None
  BoolConsts <- DefNames
  Carvings <- Parts
  Term <- DefTerms
  Inputs <- DefInputs
  TyVarNames <- NoNames
  Thetas <- None
  TyThetas <- None
  NewTypes <- None
  NewConstants <- DefNewConstants
  Axioms <- None
  Definitions <- DefDefinitions
  TypeDefinitions <- DefTypes
  MaxTheories = 1
  MaxThms = 2
PROPERTIES RefusalChangesNothing
CHECK_DEADLOCK FALSE
