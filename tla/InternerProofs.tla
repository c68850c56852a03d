--------------------------- MODULE InternerProofs ---------------------------
(***************************************************************************)
(* The intern table for any number of nodes that the ranks can count.      *)
(*                                                                         *)
(* The inductive invariant says where every answer comes from: a term held *)
(* was given the rank its key has in the table, and a key in the table is  *)
(* the key of a term held.  With distinct ranks for distinct keys, and     *)
(* keys made of the children's ranks, equal ranks and equal terms come to  *)
(* the same by one step of the terms; no induction over them is needed,    *)
(* since the children of a term held are held.                             *)
(***************************************************************************)
EXTENDS Interner, TLAPS

Keyed(shape, key) ==
  \/ \E name \in Leaves : shape = Leaf(name) /\ key = LeafKey(name)
  \/ \E l, r \in held : shape = Pair(l.shape, r.shape) /\ key = PairKey(l.rank, r.rank)

HeldAreKeyed ==
  \A h \in held :
    /\ h = [rank |-> h.rank, shape |-> h.shape]
    /\ \E key \in DOMAIN table : Keyed(h.shape, key) /\ table[key] = h.rank

KeysAreHeld ==
  \A key \in DOMAIN table : \E h \in held : Keyed(h.shape, key) /\ table[key] = h.rank

LeavesAreHeld ==
  \A h \in held : \A name \in h.shape.leaves : \E k \in held : k.shape = Leaf(name)

IInv == TypeOK /\ HeldAreKeyed /\ KeysAreHeld /\ LeavesAreHeld /\ Canonical /\ CacheRight

(***************************************************************************)
(* A shape and its key determine each other among the terms held.          *)
(***************************************************************************)
LEMMA PairInjective ==
  ASSUME NEW a, NEW b, NEW x, NEW y, Pair(a, b) = Pair(x, y)
  PROVE  a = x /\ b = y
<1>1. Pair(a, b).left = a /\ Pair(a, b).right = b
  BY DEF Pair
<1>2. Pair(x, y).left = x /\ Pair(x, y).right = y
  BY DEF Pair
<1>3. QED
  BY <1>1, <1>2

LEMMA LeafInjective ==
  ASSUME NEW m, NEW n, Leaf(m) = Leaf(n)
  PROVE  m = n
<1>1. Leaf(m).name = m /\ Leaf(n).name = n
  BY DEF Leaf
<1>2. QED
  BY <1>1

LEMMA LeafFields ==
  ASSUME NEW n
  PROVE  Leaf(n).kind = "leaf" /\ Leaf(n).name = n /\ Leaf(n).leaves = {n}
BY DEF Leaf

LEMMA PairFields ==
  ASSUME NEW l, NEW r
  PROVE  Pair(l, r).kind = "pair" /\ Pair(l, r).leaves = l.leaves \cup r.leaves
BY DEF Pair

LEMMA LeafKeyFields ==
  ASSUME NEW n
  PROVE  LeafKey(n).kind = "leaf" /\ LeafKey(n).name = n
BY DEF LeafKey

LEMMA PairKeyFields ==
  ASSUME NEW x, NEW y
  PROVE  PairKey(x, y).kind = "pair" /\ PairKey(x, y).left = x /\ PairKey(x, y).right = y
BY DEF PairKey

LEMMA KeyOfShape ==
  ASSUME IInv, NEW s, NEW t, NEW key, NEW other, Keyed(s, key), Keyed(t, other)
  PROVE  s = t <=> key = other
<1>1. CASE \E name \in Leaves : s = Leaf(name) /\ key = LeafKey(name)
  <2>1. PICK name \in Leaves : s = Leaf(name) /\ key = LeafKey(name)
    BY <1>1
  <2>2. CASE \E m \in Leaves : t = Leaf(m) /\ other = LeafKey(m)
    BY <2>1, <2>2, LeafKeyFields, LeafInjective
  <2>3. CASE \E l, r \in held : t = Pair(l.shape, r.shape) /\ other = PairKey(l.rank, r.rank)
    BY <2>1, <2>3, LeafFields, PairFields, LeafKeyFields, PairKeyFields
  <2>4. QED
    BY <2>2, <2>3 DEF Keyed
<1>2. CASE \E l, r \in held : s = Pair(l.shape, r.shape) /\ key = PairKey(l.rank, r.rank)
  <2>1. PICK l \in held, r \in held :
          s = Pair(l.shape, r.shape) /\ key = PairKey(l.rank, r.rank)
    BY <1>2
  <2>2. CASE \E m \in Leaves : t = Leaf(m) /\ other = LeafKey(m)
    BY <2>1, <2>2, LeafFields, PairFields, LeafKeyFields, PairKeyFields
  <2>3. CASE \E x, y \in held : t = Pair(x.shape, y.shape) /\ other = PairKey(x.rank, y.rank)
    <3>1. PICK x \in held, y \in held :
            t = Pair(x.shape, y.shape) /\ other = PairKey(x.rank, y.rank)
      BY <2>3
    <3>2. l.rank = x.rank <=> l.shape = x.shape
      BY DEF IInv, Canonical
    <3>3. r.rank = y.rank <=> r.shape = y.shape
      BY DEF IInv, Canonical
    <3>4. s = t <=> l.shape = x.shape /\ r.shape = y.shape
      BY <2>1, <3>1, PairInjective
    <3>5. key = other <=> l.rank = x.rank /\ r.rank = y.rank
      BY <2>1, <3>1, PairKeyFields
    <3>6. QED
      BY <3>2, <3>3, <3>4, <3>5
  <2>4. QED
    BY <2>2, <2>3 DEF Keyed
<1>3. QED
  BY <1>1, <1>2 DEF Keyed

-----------------------------------------------------------------------------

LEMMA InitInv == Init => IInv
<1> SUFFICES ASSUME Init PROVE IInv
  OBVIOUS
<1>1. held = {} /\ DOMAIN table = {} /\ nodes = <<>> /\ aux = <<>>
  BY DEF Init
<1>2. TypeOK
  BY <1>1, InternerConstants DEF TypeOK
<1>3. HeldAreKeyed /\ KeysAreHeld /\ LeavesAreHeld /\ Canonical /\ CacheRight
  BY <1>1 DEF HeldAreKeyed, KeysAreHeld, LeavesAreHeld, Canonical, CacheRight
<1>4. QED
  BY <1>2, <1>3 DEF IInv

\* A key the table has: the term was asked for before, and nothing changes.
LEMMA SeenStep ==
  ASSUME IInv, NEW key, NEW shape, NEW made, Keyed(shape, key),
         Intern(key, shape, made), Seen(key)
  PROVE  UNCHANGED vars
<1>1. PICK h \in held : Keyed(h.shape, key) /\ table[key] = h.rank
  BY DEF IInv, KeysAreHeld, Seen
<1>2. h.shape = shape
  BY <1>1, KeyOfShape
<1>3. h = [rank |-> table[key], shape |-> shape]
  BY <1>1, <1>2 DEF IInv, HeldAreKeyed
<1>4. QED
  BY <1>3 DEF Intern, Hold, Seen, vars

LEMMA SmallMod ==
  ASSUME NEW n \in Nat, NEW w \in Nat \ {0}, n < w
  PROVE  n % w = n
OBVIOUS

Fresh(shape) == [rank |-> Len(nodes), shape |-> shape]

\* A new key: what the step writes, and that its rank and its shape are new.
LEMMA NewStep ==
  ASSUME MaxNodes <= Width, IInv, NEW key, NEW shape, NEW made, Keyed(shape, key),
         Intern(key, shape, made), ~Seen(key)
  PROVE  /\ NextRank = Len(nodes)
         /\ Len(nodes) \in Nat /\ Len(nodes) < MaxNodes
         /\ Len(nodes') = Len(nodes) + 1
         /\ DOMAIN nodes' = 1..(Len(nodes) + 1) /\ DOMAIN aux' = 1..(Len(nodes) + 1)
         /\ \A rank \in 0..(Len(nodes) - 1) : Aux(rank)' = Aux(rank)
         /\ aux'[Len(nodes) + 1] = made
         /\ table' = [k \in DOMAIN table \cup {key} |->
                        IF k = key THEN Len(nodes) ELSE table[k]]
         /\ held' = held \cup {Fresh(shape)}
         /\ \A k \in held : k.rank # Len(nodes) /\ k.shape # shape
<1>1. /\ Len(nodes) \in Nat /\ Len(nodes) < MaxNodes
      /\ DOMAIN nodes = 1..Len(nodes) /\ DOMAIN aux = 1..Len(nodes)
  BY DEF IInv, TypeOK, Intern
<1>2. NextRank = Len(nodes)
  <2>1. Width \in Nat \ {0} /\ MaxNodes \in Nat
    BY InternerConstants
  <2>2. Len(nodes) < Width
    BY <1>1, <2>1
  <2>3. Len(nodes) % Width = Len(nodes)
    BY <1>1, <2>1, <2>2, SmallMod
  <2>4. QED
    BY <2>3 DEF NextRank
<1>3. /\ nodes' = Append(nodes, key) /\ aux' = Append(aux, made)
      /\ table' = [k \in DOMAIN table \cup {key} |-> IF k = key THEN NextRank ELSE table[k]]
      /\ held' = held \cup {Fresh(shape)}
  BY <1>2 DEF Intern, Hold, Fresh
<1>4. Len(aux) = Len(nodes)
  BY <1>1
<1>5. /\ DOMAIN nodes' = 1..(Len(nodes) + 1) /\ Len(nodes') = Len(nodes) + 1
      /\ DOMAIN aux' = 1..(Len(nodes) + 1)
  BY <1>1, <1>3, <1>4
<1>6. aux'[Len(nodes) + 1] = made /\ \A i \in 1..Len(nodes) : aux'[i] = aux[i]
  BY <1>1, <1>3, <1>4
<1>7. \A k \in held : k.rank # Len(nodes) /\ k.shape # shape
  <2> TAKE k \in held
  <2>1. k.rank # Len(nodes)
    BY <1>1 DEF IInv, TypeOK
  <2>2. PICK other \in DOMAIN table : Keyed(k.shape, other)
    BY DEF IInv, HeldAreKeyed
  <2>3. k.shape # shape
    BY <2>2, KeyOfShape DEF Seen
  <2>4. QED
    BY <2>1, <2>3
<1>8. \A rank \in 0..(Len(nodes) - 1) : Aux(rank)' = Aux(rank)
  BY <1>1, <1>6 DEF Aux
<1>9. QED
  BY <1>1, <1>2, <1>3, <1>5, <1>6, <1>7, <1>8

LEMMA KeyedStays ==
  ASSUME held \subseteq held', NEW s, NEW k, Keyed(s, k)
  PROVE  Keyed(s, k)'
BY DEF Keyed

\* The data made for a key, and the leaves of its shape.
MadeRight(shape, made) ==
  \/ \E name \in Leaves : shape = Leaf(name) /\ made = {NextRank}
  \/ \E l, r \in held :
       shape = Pair(l.shape, r.shape) /\ made = Aux(l.rank) \cup Aux(r.rank)

LEMMA InternKeepsInv ==
  ASSUME MaxNodes <= Width, IInv, NEW key, NEW shape, NEW made, Keyed(shape, key),
         MadeRight(shape, made), Intern(key, shape, made), ~Seen(key)
  PROVE  IInv'
<1> DEFINE new == Fresh(shape)
           n == Len(nodes)
<1>1. /\ NextRank = n /\ n \in Nat /\ n < MaxNodes
      /\ Len(nodes') = n + 1
      /\ DOMAIN nodes' = 1..(n + 1) /\ DOMAIN aux' = 1..(n + 1)
      /\ \A rank \in 0..(n - 1) : Aux(rank)' = Aux(rank)
      /\ aux'[n + 1] = made
      /\ table' = [k \in DOMAIN table \cup {key} |-> IF k = key THEN n ELSE table[k]]
      /\ held' = held \cup {new}
      /\ \A k \in held : k.rank # n /\ k.shape # shape
  BY NewStep
<1>2. new = [rank |-> n, shape |-> shape] /\ new.rank = n /\ new.shape = shape
  BY DEF Fresh
<1>3. /\ \A k \in DOMAIN table : table[k] \in 0..(n - 1) /\ table'[k] = table[k]
      /\ \A h \in held : h.rank \in 0..(n - 1)
      /\ DOMAIN table' = DOMAIN table \cup {key} /\ table'[key] = n
  BY <1>1 DEF IInv, TypeOK, Seen
<1> HIDE DEF new, n
<1>4. TypeOK'
  <2>1. Len(nodes') \in Nat /\ Len(nodes') <= MaxNodes
    BY <1>1, InternerConstants
  <2>2. DOMAIN nodes' = 1..Len(nodes') /\ DOMAIN aux' = 1..Len(nodes')
    BY <1>1
  <2>3. \A k \in DOMAIN table' : table'[k] \in 0..(Len(nodes') - 1)
    BY <1>1, <1>3
  <2>4. \A h \in held' : h.rank \in 0..(Len(nodes') - 1)
    BY <1>1, <1>2, <1>3
  <2>5. QED
    BY <2>1, <2>2, <2>3, <2>4 DEF TypeOK
<1>5. HeldAreKeyed'
  <2> SUFFICES ASSUME NEW h \in held'
               PROVE  /\ h = [rank |-> h.rank, shape |-> h.shape]
                      /\ \E k \in DOMAIN table' : Keyed(h.shape, k)' /\ table'[k] = h.rank
    BY DEF HeldAreKeyed
  <2>1. CASE h \in held
    BY <2>1, <1>1, <1>3, KeyedStays DEF IInv, HeldAreKeyed
  <2>2. CASE h = new
    BY <2>2, <1>1, <1>2, <1>3, KeyedStays
  <2>3. QED
    BY <2>1, <2>2, <1>1
<1>6. KeysAreHeld'
  <2> SUFFICES ASSUME NEW k \in DOMAIN table'
               PROVE  \E h \in held' : Keyed(h.shape, k)' /\ table'[k] = h.rank
    BY DEF KeysAreHeld
  <2>1. CASE k \in DOMAIN table
    BY <2>1, <1>1, <1>3, KeyedStays DEF IInv, KeysAreHeld
  <2>2. CASE k = key
    BY <2>2, <1>1, <1>2, <1>3, KeyedStays
  <2>3. QED
    BY <2>1, <2>2, <1>3
<1>7. Canonical'
  BY <1>1, <1>2 DEF Canonical, IInv
<1>8. LeavesAreHeld'
  <2> SUFFICES ASSUME NEW h \in held', NEW name \in h.shape.leaves
               PROVE  \E k \in held' : k.shape = Leaf(name)
    BY DEF LeavesAreHeld
  <2>1. CASE h \in held
    BY <2>1, <1>1 DEF IInv, LeavesAreHeld
  <2>2. CASE h = new
    <3>1. CASE \E m \in Leaves : shape = Leaf(m) /\ made = {NextRank}
      BY <2>2, <3>1, <1>1, <1>2, LeafFields
    <3>2. CASE \E l, r \in held : shape = Pair(l.shape, r.shape)
      BY <2>2, <3>2, <1>1, <1>2, PairFields DEF IInv, LeavesAreHeld
    <3>3. QED
      BY <3>1, <3>2 DEF MadeRight
  <2>3. QED
    BY <2>1, <2>2, <1>1
<1>9. \A k \in held' : k.shape.kind = "leaf" => k.shape = Leaf(k.shape.name)
  <2>1. \A k \in held : k.shape.kind = "leaf" => k.shape = Leaf(k.shape.name)
    BY LeafFields, PairFields DEF IInv, HeldAreKeyed, Keyed
  <2>2. shape.kind = "leaf" => shape = Leaf(shape.name)
    BY LeafFields, PairFields DEF MadeRight
  <2>3. QED
    BY <2>1, <2>2, <1>1, <1>2
<1>10. CacheRight'
  <2> DEFINE Below(s, terms) ==
        {k.rank : k \in {k \in terms : k.shape.kind = "leaf" /\ k.shape.name \in s.leaves}}
  <2> SUFFICES ASSUME NEW h \in held'
               PROVE  Aux(h.rank)' = Below(h.shape, held')
    BY DEF CacheRight
  <2>1. CASE h \in held
    <3>1. Aux(h.rank)' = Aux(h.rank) /\ Aux(h.rank) = Below(h.shape, held)
      BY <2>1, <1>1, <1>3 DEF IInv, CacheRight
    <3>2. ~(shape.kind = "leaf" /\ shape.name \in h.shape.leaves)
      <4> SUFFICES ASSUME shape.kind = "leaf", shape.name \in h.shape.leaves
                   PROVE  FALSE
        OBVIOUS
      <4>1. shape = Leaf(shape.name)
        BY <1>1, <1>2, <1>9
      <4>2. \E k \in held : k.shape = Leaf(shape.name)
        BY <2>1 DEF IInv, LeavesAreHeld
      <4>3. QED
        BY <4>1, <4>2, <1>1
    <3>3. QED
      BY <3>1, <3>2, <1>1, <1>2
  <2>2. CASE h = new
    <3>1. Aux(h.rank)' = made
      BY <2>2, <1>1, <1>2 DEF Aux
    <3>2. CASE \E m \in Leaves : shape = Leaf(m) /\ made = {NextRank}
      <4>1. PICK m \in Leaves : shape = Leaf(m) /\ made = {n}
        BY <3>2, <1>1
      <4>2. \A k \in held : ~(k.shape.kind = "leaf" /\ k.shape.name \in shape.leaves)
        BY <4>1, <1>1, <1>9, LeafFields
      <4>3. Below(shape, held') = {n}
        BY <4>1, <4>2, <1>1, <1>2, LeafFields
      <4>4. QED
        BY <3>1, <4>1, <4>3, <2>2, <1>2
    <3>3. CASE \E l, r \in held : shape = Pair(l.shape, r.shape) /\ made = Aux(l.rank) \cup Aux(r.rank)
      <4>1. PICK l \in held, r \in held :
              shape = Pair(l.shape, r.shape) /\ made = Aux(l.rank) \cup Aux(r.rank)
        BY <3>3
      <4>2. Aux(l.rank) = Below(l.shape, held) /\ Aux(r.rank) = Below(r.shape, held)
        BY DEF IInv, CacheRight
      <4>3. shape.kind = "pair" /\ shape.leaves = l.shape.leaves \cup r.shape.leaves
        BY <4>1, PairFields
      <4>4. Below(shape, held') = Below(shape, held)
        BY <4>3, <1>1, <1>2
      <4>5. Below(shape, held) = Below(l.shape, held) \cup Below(r.shape, held)
        BY <4>3
      <4>6. QED
        BY <3>1, <4>1, <4>2, <4>4, <4>5, <2>2, <1>2
    <3>4. QED
      BY <3>2, <3>3 DEF MadeRight
  <2>3. QED
    BY <2>1, <2>2, <1>1
<1>11. QED
  BY <1>4, <1>5, <1>6, <1>7, <1>8, <1>10 DEF IInv

\* What an answer is, for either outcome of a call.
LEMMA InternStep ==
  ASSUME MaxNodes <= Width, IInv, NEW key, NEW shape, NEW made, Keyed(shape, key),
         MadeRight(shape, made), Intern(key, shape, made)
  PROVE  /\ IInv'
         /\ Promise!Answer \/ UNCHANGED held
<1>1. CASE Seen(key)
  <2>1. UNCHANGED vars
    BY <1>1, SeenStep
  <2>2. UNCHANGED <<table, nodes, aux, held>>
    BY <2>1 DEF vars
  <2>3. IInv'
    BY <2>2 DEF IInv, TypeOK, HeldAreKeyed, KeysAreHeld, LeavesAreHeld, Canonical, CacheRight,
                Keyed, Aux
  <2>4. QED
    BY <2>2, <2>3
<1>2. CASE ~Seen(key)
  <2>1. /\ held' = held \cup {Fresh(shape)}
        /\ \A k \in held : k.rank # Len(nodes) /\ k.shape # shape
    BY <1>2, NewStep
  <2>2. Promise!Agrees(Fresh(shape))
    BY <2>1 DEF Promise!Agrees, Fresh
  <2>3. Promise!Answer
    BY <2>1, <2>2 DEF Promise!Answer
  <2>4. QED
    BY <1>2, <2>3, InternKeepsInv
<1>3. QED
  BY <1>1, <1>2

LEMMA NextStep ==
  ASSUME MaxNodes <= Width, IInv, [Next]_vars
  PROVE  IInv' /\ [Promise!Answer]_held
<1>1. ASSUME NEW name \in Leaves, MakeLeaf(name)
      PROVE  IInv' /\ [Promise!Answer]_held
  <2>1. Keyed(Leaf(name), LeafKey(name)) /\ MadeRight(Leaf(name), {NextRank})
    BY DEF Keyed, MadeRight
  <2>2. Intern(LeafKey(name), Leaf(name), {NextRank})
    BY <1>1 DEF MakeLeaf
  <2>3. QED
    BY <2>1, <2>2, InternStep
<1>2. ASSUME NEW l \in held, NEW r \in held, MakePair(l, r)
      PROVE  IInv' /\ [Promise!Answer]_held
  <2> DEFINE made == Aux(l.rank) \cup Aux(r.rank)
  <2>1. /\ Keyed(Pair(l.shape, r.shape), PairKey(l.rank, r.rank))
        /\ MadeRight(Pair(l.shape, r.shape), made)
    BY DEF Keyed, MadeRight
  <2>2. Intern(PairKey(l.rank, r.rank), Pair(l.shape, r.shape), made)
    BY <1>2 DEF MakePair
  <2>3. QED
    BY <2>1, <2>2, InternStep
<1>3. ASSUME UNCHANGED vars
      PROVE  IInv' /\ [Promise!Answer]_held
  BY <1>3 DEF vars, IInv, TypeOK, HeldAreKeyed, KeysAreHeld, LeavesAreHeld, Canonical,
              CacheRight, Keyed, Aux
<1>4. QED
  BY <1>1, <1>2, <1>3 DEF Next

(***************************************************************************)
(* While the ranks suffice for the nodes, the inductive invariant holds.   *)
(***************************************************************************)
THEOREM Invariance ==
  ASSUME MaxNodes <= Width
  PROVE  Spec => []IInv
<1>1. Init => IInv
  BY InitInv
<1>2. IInv /\ [Next]_vars => IInv'
  BY NextStep
<1>3. QED
  BY <1>1, <1>2, PTL DEF Spec

(***************************************************************************)
(* node(rank) and aux(rank) never index past the end (intern.rs:58-64):    *)
(* every rank in the table or held is that of a node that is there.        *)
(***************************************************************************)
THEOREM RanksInBounds ==
  ASSUME MaxNodes <= Width
  PROVE  Spec => []TypeOK
<1>1. IInv => TypeOK
  BY DEF IInv
<1>2. QED
  BY <1>1, Invariance, PTL

(***************************************************************************)
(* A node is its rank: equality of ranks is equality of terms, for every   *)
(* set of leaves and any depth (intern.rs:12-15).                          *)
(***************************************************************************)
THEOREM RanksAreTerms ==
  ASSUME MaxNodes <= Width
  PROVE  Spec => []Canonical
<1>1. IInv => Canonical
  BY DEF IInv
<1>2. QED
  BY <1>1, Invariance, PTL

(***************************************************************************)
(* The data cached beside a node is the data of the term it stands for.    *)
(***************************************************************************)
THEOREM CacheCorrect ==
  ASSUME MaxNodes <= Width
  PROVE  Spec => []CacheRight
<1>1. IInv => CacheRight
  BY DEF IInv
<1>2. QED
  BY <1>1, Invariance, PTL

(***************************************************************************)
(* The table implements HashCons: every step answers as HashCons would, or *)
(* repeats an answer given.                                                *)
(***************************************************************************)
THEOREM Implements ==
  ASSUME MaxNodes <= Width
  PROVE  Spec => KeepsPromise
<1>1. Init => Promise!Init
  BY DEF Init, Promise!Init
<1>2. IInv /\ [Next]_vars => [Promise!Answer]_held
  BY NextStep
<1>3. QED
  BY <1>1, <1>2, Invariance, PTL DEF Spec, KeepsPromise, Promise!Spec
=============================================================================
