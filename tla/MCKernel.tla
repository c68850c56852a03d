------------------------------ MODULE MCKernel ------------------------------
(***************************************************************************)
(* Small kernels for TLC: for each run, the few terms in its scope and     *)
(* what the program hands to the gates.                                    *)
(***************************************************************************)
EXTENDS KernelSoundness, MCTerms

-----------------------------------------------------------------------------
(* Every rule in two theories, one with an axiom, over two propositional   *)
(* variables and two of the same names at a type variable, which INST_TYPE *)
(* makes one with them.                                                    *)

pA == Var("p", TyVar("A"))
qA == Var("q", TyVar("A"))
IdA == S!TermAbs(pA, pA)
KqA == S!TermAbs(pA, qA)

RulesVars == Names({p, q, pA, qA})
RulesTyVars == {"A"}

RulesInputs == {p, Eqn(p, q), Id, pA, IdA, App(IdA, qA), Bound(0, Bool), Eqn(pA, qA)}

RulesTerms ==
  (RulesInputs \ {Bound(0, Bool)})
    \cup {q, Kq, App(Id, p), App(Id, q), Eqn(q, q), Eqn(Id, Id), Eqn(Id, Kq),
          Eqn(App(Id, p), App(Id, q)), Eqn(App(Id, q), q)}
    \cup {qA, KqA, App(IdA, pA), Eqn(IdA, IdA), Eqn(IdA, KqA),
          Eqn(App(IdA, pA), App(IdA, qA)), Eqn(App(IdA, qA), qA)}

\* One that merges the variables, one that is ill typed.
RulesThetas == {To(q, p), To(p, Id)}

\* The second replaces no type variable.
RulesTyThetas == {To(TyVar("A"), Bool), To(Bool, TyVar("A"))}

RulesAxioms == {Eqn(p, q)}

-----------------------------------------------------------------------------
(* Definitions and one type definition. *)

d == Const("d", Bool)
ex == Var("c", Bool)        \* the variables that stand for the constants
ed == Var("d", Bool)
Part == TyCon("part", <<>>)
abs == Const("abs", Fun(Bool, Part))
rep == Const("rep", Fun(Part, Bool))
a == Var("a", Part)
r == Var("r", Bool)

DefNames == {"c", "d"}
DefVars == Names({a, r})
Tru == Eqn(Id, Id)
Bodies == {Tru, Fls, Eqn(d, Fls)}
DefDefinitions ==
  {Eqn(ex, t) : t \in Bodies} \cup {Eqn(ed, t) : t \in {c, r, Bound(0, Bool)}}
    \cup {Eqn(ed, Eqn(d, Fls)), Eqn(c, Fls), Fls}
DefNewConstants == {<<"c", Bool>>, <<"d", Bool>>, <<"c", Fun(Bool, Bool)>>, <<EqName, Bool>>}
DefNewTypes == {<<"part", 1>>, <<"part", 2>>, <<"bool", 1>>, <<"", 0>>}
DefAxioms == {Id}       \* no proposition
DefInputs == {c}
DefTypes ==
  {<<"part", "abs", "rep">>, <<"part", "abs", "abs">>, <<"bool", "abs", "rep">>,
   <<"part", "", "rep">>, <<"part", "abs", "">>, <<"part", "abs", "c">>}
Carved(t) ==
  {Eqn(App(Eqn(t, r).rator, r), Eqn(App(rep, App(abs, r)), r)), Eqn(t, r),
   Eqn(App(rep, App(abs, r)), r), App(rep, App(abs, r))}
DefTerms ==
  FlsSides \cup {c, d, r, a, Tru, Fls, Id, Eqn(d, Fls)}
    \cup {Eqn(c, t) : t \in Bodies \cup {c}} \cup {Eqn(d, c), Eqn(d, r), Eqn(r, r)}
    \cup {App(abs, App(rep, a)), Eqn(App(abs, App(rep, a)), a)}
    \cup Carved(c)

-----------------------------------------------------------------------------
(* A definition of c by what another theory calls c. *)

CircularNames == {"c"}
CircularNewConstants == {<<"c", Bool>>}
CircularDefinitions == {Eqn(ex, Eqn(c, Fls))}
CircularTerms == {c, Fls, Eqn(c, Fls), Eqn(c, Eqn(c, Fls))} \cup FlsSides
=============================================================================
