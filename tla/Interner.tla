------------------------------ MODULE Interner ------------------------------
(***************************************************************************)
(* The hash-cons table of src/src/intern.rs, and the constructors of the   *)
(* kernel that use it (term_var, comb_raw; ty_var, ty_con).  A node is a   *)
(* leaf or an application of one node to another; the key of the latter    *)
(* is the pair of its children's ranks.  The cached data of a node is the  *)
(* set of the leaves below it, as ranks: Info.frees of a term, ty_vars of  *)
(* a type.                                                                 *)
(*                                                                         *)
(* The program keeps every rank it is given, with the shape it asked for.  *)
(***************************************************************************)
EXTENDS Naturals, Sequences, FiniteSets

CONSTANTS
  Leaves,     \* the names of leaves
  Depth,      \* bound on the depth of the shapes the program builds
  Width,      \* the number of ranks: 2^32 in the code, where a rank is a u32
  MaxNodes    \* bound on the nodes a run makes

ASSUME InternerConstants == Width \in Nat \ {0} /\ MaxNodes \in Nat /\ Depth \in Nat

VARIABLES table, nodes, aux, held

vars == <<table, nodes, aux, held>>

Leaf(name) == [kind |-> "leaf", name |-> name, depth |-> 0, leaves |-> {name}]

Pair(l, r) ==
  [kind |-> "pair", left |-> l, right |-> r,
   depth |-> 1 + (IF l.depth < r.depth THEN r.depth ELSE l.depth),
   leaves |-> l.leaves \cup r.leaves]

LeafKey(name) == [kind |-> "leaf", name |-> name]
\* Mutant: the right child is no part of the key.
HalfPairKey(left, right) == [kind |-> "pair", left |-> left, right |-> left]

PairKey(left, right) == [kind |-> "pair", left |-> left, right |-> right]

\* node(rank) and aux(rank); a sequence starts at 1.
Node(rank) == nodes[rank + 1]
Aux(rank) == aux[rank + 1]

Init ==
  /\ table = [key \in {} |-> 0]
  /\ nodes = <<>>
  /\ aux = <<>>
  /\ held = {}

\* Mutant: the rank is the length once the node is in.
NextRankAfter == (Len(nodes) + 1) % Width

\* `as u32'
NextRank == Len(nodes) % Width

Seen(key) == key \in DOMAIN table

Hold(rank, shape) == held' = held \cup {[rank |-> rank, shape |-> shape]}

\* Mutant: the table is never written.
InternAfresh(key, shape, made) ==
  /\ Len(nodes) < MaxNodes
  /\ nodes' = Append(nodes, key)
  /\ aux' = Append(aux, made)
  /\ Hold(NextRank, shape)
  /\ UNCHANGED table

\* intern: make is called, with the rank to come, for a new key only.
Intern(key, shape, made) ==
  IF Seen(key)
  THEN Hold(table[key], shape) /\ UNCHANGED <<table, nodes, aux>>
  ELSE /\ Len(nodes) < MaxNodes
       /\ nodes' = Append(nodes, key)
       /\ aux' = Append(aux, made)
       /\ table' = [k \in DOMAIN table \cup {key} |->
                      IF k = key THEN NextRank ELSE table[k]]
       /\ Hold(NextRank, shape)

MakeLeaf(name) == Intern(LeafKey(name), Leaf(name), {NextRank})

\* Mutant: only the left child's data is passed on.
MakeLeftPair(l, r) ==
  /\ l.shape.depth < Depth /\ r.shape.depth < Depth
  /\ Intern(PairKey(l.rank, r.rank), Pair(l.shape, r.shape), Aux(l.rank))

MakePair(l, r) ==
  /\ l.shape.depth < Depth /\ r.shape.depth < Depth
  /\ Intern(PairKey(l.rank, r.rank), Pair(l.shape, r.shape), Aux(l.rank) \cup Aux(r.rank))

Next ==
  \/ \E name \in Leaves : MakeLeaf(name)
  \/ \E l, r \in held : MakePair(l, r)

Spec == Init /\ [][Next]_vars

-----------------------------------------------------------------------------

(***************************************************************************)
(* Type correctness: nodes and their data are parallel, and every entry of *)
(* the table and every rank held is in bounds, so node(rank) never panics. *)
(***************************************************************************)
TypeOK ==
  /\ Len(nodes) \in Nat /\ Len(nodes) <= MaxNodes
  /\ DOMAIN nodes = 1..Len(nodes) /\ DOMAIN aux = 1..Len(nodes)
  /\ \A key \in DOMAIN table : table[key] \in 0..(Len(nodes) - 1)
  /\ \A h \in held : h.rank \in 0..(Len(nodes) - 1)

(***************************************************************************)
(* "A node is its rank" (intern.rs:12-15): two ranks are equal exactly     *)
(* when the terms they were given for are.  Every comparison of the kernel *)
(* is a comparison of ranks and rests on this.                             *)
(***************************************************************************)
Canonical == \A h, k \in held : h.rank = k.rank <=> h.shape = k.shape

(***************************************************************************)
(* The data cached beside a node is the data of the term it stands for:    *)
(* the ranks of the leaves below it (term.rs:26-44, types.rs:57-66).  The  *)
(* side condition of ABS reads the cache and never the term.               *)
(***************************************************************************)
CacheRight ==
  \A h \in held :
    Aux(h.rank) = {k.rank : k \in {k \in held :
                     k.shape.kind = "leaf" /\ k.shape.name \in h.shape.leaves}}

(***************************************************************************)
(* The ranks held are the answers of a table that keeps the promise of     *)
(* HashCons: one rank for each term, for good (intern.rs:6-12).            *)
(***************************************************************************)
Promise == INSTANCE HashCons WITH known <- held

KeepsPromise == Promise!Spec
=============================================================================
