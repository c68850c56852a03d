-------------------------------- MODULE Paths -------------------------------
(***************************************************************************)
(* Positions in a term, src/src/path.rs.  Going under a binder opens it    *)
(* with a variable named after the position: _0 for the outermost binder   *)
(* on the path, and primed while a free variable has the name.             *)
(***************************************************************************)
EXTENDS HolTerms, TLC

RECURSIVE VariantName(_, _)
VariantName(frees, name) ==
  IF \E v \in frees : v[1] = name THEN VariantName(frees, name \o "'") ELSE name

Variant(frees, name, ty) == Var(VariantName(frees, name), ty)

PathOpener(abs, depth) == Variant(abs.frees, "_" \o ToString(depth), abs.binder_type)

OpenBody(abs, depth) == OpenAbs(abs, PathOpener(abs, depth))

RECURSIVE SubtermAt(_, _, _), ReplaceIn(_, _, _, _), Positions(_, _, _)

\* The subterm at the path, if there is one.
SubtermAt(term, path, depth) ==
  CASE path = <<>> -> {term}
    [] path # <<>> /\ Head(path) = "rator" /\ IsComb(term) ->
         SubtermAt(term.rator, Tail(path), depth)
    [] path # <<>> /\ Head(path) = "rand" /\ IsComb(term) ->
         SubtermAt(term.rand, Tail(path), depth)
    [] path # <<>> /\ Head(path) = "body" /\ IsAbs(term) ->
         SubtermAt(OpenBody(term, depth), Tail(path), depth + 1)
    [] OTHER -> {}

\* term with the replacement at the path, if it can be built there.
ReplaceIn(term, path, replacement, depth) ==
  CASE path = <<>> -> {replacement}
    [] path # <<>> /\ Head(path) = "rator" /\ IsComb(term) ->
         {CombRaw(rator, term.rand) :
            rator \in {t \in ReplaceIn(term.rator, Tail(path), replacement, depth) :
                         CanComb(t, term.rand)}}
    [] path # <<>> /\ Head(path) = "rand" /\ IsComb(term) ->
         {CombRaw(term.rator, rand) :
            rand \in {t \in ReplaceIn(term.rand, Tail(path), replacement, depth) :
                        CanComb(term.rator, t)}}
    [] path # <<>> /\ Head(path) = "body" /\ IsAbs(term) ->
         LET var == PathOpener(term, depth)
         IN  {TermAbs(var, body) :
                body \in {t \in ReplaceIn(OpenAbs(term, var), Tail(path), replacement, depth + 1) :
                            Closed(t)}}
    [] OTHER -> {}

\* Every position below path, with its subterm.
Positions(term, path, depth) ==
  {[path |-> path, subterm |-> term]} \cup
  CASE IsComb(term) -> Positions(term.rator, Append(path, "rator"), depth)
                         \cup Positions(term.rand, Append(path, "rand"), depth)
    [] IsAbs(term)  -> Positions(OpenBody(term, depth), Append(path, "body"), depth + 1)
    [] OTHER        -> {}
=============================================================================
