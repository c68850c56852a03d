SPECIFICATION Spec
CONSTANTS
  term_abs <- MCTermAbs
  open_abs <- MCOpenAbs
  subst <- MCSubst
  inst_type_term <- MCInstTypeTerm
  term_type_vars <- MCTermTypeVars
  is_instance <- MCIsInstance
  consts_of <- MCConstsOf
  ty_cons_of <- MCTyConsOf
  Interp <- MCInterp
  Val <- MCVal
  Den <- MCDen
  Dom <- MCDom
  Update <- MCUpdate
  SubstVal <- MCSubstVal
  TySubstVal <- MCTySubstVal
  Symbol <- MCSymbol
  Meaning <- MCMeaning
  FreeVars <- RulesVars
  TypeVars <- RulesTyVars
  BoolConsts <- None
  Carvings <- Point
  Term <- RulesTerms
  Inputs <- RulesInputs
  TyVarNames <- NoNames
  Thetas <- RulesThetas
  TyThetas <- RulesTyThetas
  NewTypes <- None
  NewConstants <- None
  Axioms <- RulesAxioms
  Definitions <- None
  TypeDefinitions <- None
  MaxTheories = 2
  MaxThms = 3
INVARIANTS TypeOK Sound
CHECK_DEADLOCK FALSE
