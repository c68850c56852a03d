-------------------------------- MODULE Stacks -------------------------------
(***************************************************************************)
(* Facts about a sequence used as the stack of the open calls of a         *)
(* function that calls itself: what a call that is made, that returns or   *)
(* that goes on leaves of the others.                                      *)
(***************************************************************************)
EXTENDS SequenceTheorems, TLAPS

\* A sequence, of whatever it holds.
IsSeq(s) == s \in Seq({s[i] : i \in DOMAIN s})

LEMMA OwnSeq ==
  ASSUME NEW S, NEW s \in Seq(S)
  PROVE  IsSeq(s) /\ Len(s) \in Nat /\ DOMAIN s = 1..Len(s)
<1>1. s \in Seq(Range(s))
  BY SeqOfRange
<1> QED
  BY <1>1, LenProperties DEF IsSeq, Range

LEMMA EmptyIsSeq == IsSeq(<<>>) /\ Len(<<>>) = 0
  BY EmptySeq, OwnSeq

LEMMA SeqEmpty == ASSUME NEW s, IsSeq(s) PROVE s # <<>> <=> Len(s) # 0
  BY EmptySeq DEF IsSeq

LEMMA SeqLen ==
  ASSUME NEW s, IsSeq(s)
  PROVE  Len(s) \in Nat /\ DOMAIN s = 1..Len(s)
  BY LenProperties DEF IsSeq

\* A call more: Append.
LEMMA Pushed ==
  ASSUME NEW s, IsSeq(s), NEW c
  PROVE  /\ IsSeq(Append(s, c)) /\ Len(Append(s, c)) = Len(s) + 1
         /\ Append(s, c)[Len(s) + 1] = c
         /\ \A i \in 1..Len(s) : Append(s, c)[i] = s[i]
<1> DEFINE S == {s[i] : i \in DOMAIN s} \cup {c}
<1>1. s \in Seq({s[i] : i \in DOMAIN s}) /\ {s[i] : i \in DOMAIN s} \subseteq S
  BY DEF IsSeq
<1>2. s \in Seq(S) /\ c \in S
  BY <1>1, SeqMonotonic
<1> HIDE DEF S
<1>3. /\ Append(s, c) \in Seq(S) /\ Len(Append(s, c)) = Len(s) + 1
      /\ \A i \in 1..Len(s) : Append(s, c)[i] = s[i]
      /\ Append(s, c)[Len(s) + 1] = c
  BY <1>2, AppendProperties
<1> QED
  BY <1>3, OwnSeq

\* The last call gone.
LEMMA Popped ==
  ASSUME NEW s, IsSeq(s), Len(s) # 0
  PROVE  LET below == SubSeq(s, 1, Len(s) - 1) IN
         /\ IsSeq(below) /\ Len(below) = Len(s) - 1
         /\ \A i \in 1..Len(s) - 1 : below[i] = s[i]
<1> DEFINE S == {s[i] : i \in DOMAIN s}
           n == Len(s) - 1
<1>1. s \in Seq(S) /\ Len(s) \in Nat /\ n \in Nat /\ n <= Len(s)
  BY SeqLen DEF IsSeq
<1> HIDE DEF S, n
<1>2. \A i \in 1..n : s[i] \in S
  BY <1>1, ElementOfSeq
<1>3. /\ SubSeq(s, 1, n) \in Seq(S)
      /\ Len(SubSeq(s, 1, n)) = (IF 1 <= n THEN n - 1 + 1 ELSE 0)
      /\ \A i \in 1..n - 1 + 1 : SubSeq(s, 1, n)[i] = s[1 + i - 1]
  <2>1. 1 \in Int /\ n \in Int
    BY <1>1
  <2> QED
    BY <1>2, <2>1, SubSeqProperties
<1>4. Len(SubSeq(s, 1, n)) = n /\ \A i \in 1..n : SubSeq(s, 1, n)[i] = s[i]
  BY <1>1, <1>3
<1> QED
  BY <1>3, <1>4, OwnSeq DEF n

\* One call gone on, the others as they were.
LEMMA Replaced ==
  ASSUME NEW s, IsSeq(s), NEW k \in 1..Len(s), NEW c
  PROVE  LET t == [s EXCEPT ![k] = c] IN
         /\ IsSeq(t) /\ Len(t) = Len(s) /\ t[k] = c
         /\ \A i \in 1..Len(s) : i # k => t[i] = s[i]
<1> DEFINE S == {s[i] : i \in DOMAIN s} \cup {c}
<1>1. s \in Seq({s[i] : i \in DOMAIN s}) /\ {s[i] : i \in DOMAIN s} \subseteq S
  BY DEF IsSeq
<1>2. s \in Seq(S) /\ c \in S
  BY <1>1, SeqMonotonic
<1> HIDE DEF S
<1>3. /\ [s EXCEPT ![k] = c] \in Seq(S) /\ Len([s EXCEPT ![k] = c]) = Len(s)
      /\ \A j \in 1..Len(s) : [s EXCEPT ![k] = c][j] = IF j = k THEN c ELSE s[j]
  BY <1>2, ExceptSeq
<1> QED
  BY <1>3, OwnSeq

\* The last call gone, and the one below it gone on.
LEMMA Returned ==
  ASSUME NEW s, IsSeq(s), Len(s) > 1, NEW c
  PROVE  LET m == Len(s) - 1
             below == SubSeq(s, 1, m)
             t == [below EXCEPT ![Len(below)] = c]
         IN  /\ m \in Nat /\ m \in 1..m /\ m \in 1..Len(s)
             /\ below[Len(below)] = s[m]
             /\ IsSeq(t) /\ Len(t) = m /\ t[m] = c
             /\ \A i \in 1..m : i # m => t[i] = s[i]
<1> DEFINE m == Len(s) - 1
<1>1. Len(s) # 0 /\ m \in Nat /\ m \in 1..m /\ m \in 1..Len(s)
  BY SeqLen
<1>2. PICK below : below = SubSeq(s, 1, m)
  OBVIOUS
<1>3. /\ IsSeq(below) /\ Len(below) = m /\ \A i \in 1..m : below[i] = s[i]
  BY <1>1, <1>2, Popped
<1> HIDE DEF m
<1>4. PICK t : t = [below EXCEPT ![m] = c]
  OBVIOUS
<1>5. /\ IsSeq(t) /\ Len(t) = m /\ t[m] = c
      /\ \A i \in 1..m : i # m => t[i] = below[i]
  <2>1. \A k \in 1..Len(below) :
          /\ IsSeq([below EXCEPT ![k] = c]) /\ Len([below EXCEPT ![k] = c]) = Len(below)
          /\ [below EXCEPT ![k] = c][k] = c
          /\ \A i \in 1..Len(below) : i # k => [below EXCEPT ![k] = c][i] = below[i]
    <3>1. IsSeq(below)
      BY <1>3
    <3> QED
      BY <3>1, Replaced
  <2>2. m \in 1..Len(below)
    BY <1>1, <1>3
  <2> QED
    BY <1>3, <1>4, <2>1, <2>2
<1>6. below[Len(below)] = s[m] /\ t = [below EXCEPT ![Len(below)] = c]
  BY <1>1, <1>3, <1>4
<1>7. \A i \in 1..m : i # m => t[i] = s[i]
  BY <1>3, <1>5
<1> QED
  BY <1>1, <1>2, <1>5, <1>6, <1>7 DEF m

\* Two runs, one after the other.
LEMMA Concatenated ==
  ASSUME NEW s, IsSeq(s), NEW t, IsSeq(t)
  PROVE  IsSeq(s \o t) /\ Len(s \o t) = Len(s) + Len(t)
<1> DEFINE S == {s[i] : i \in DOMAIN s} \cup {t[i] : i \in DOMAIN t}
<1>1. s \in Seq({s[i] : i \in DOMAIN s}) /\ {s[i] : i \in DOMAIN s} \subseteq S
  BY DEF IsSeq
<1>2. t \in Seq({t[i] : i \in DOMAIN t}) /\ {t[i] : i \in DOMAIN t} \subseteq S
  BY DEF IsSeq
<1>3. s \in Seq(S)
  BY <1>1, SeqMonotonic
<1>4. t \in Seq(S)
  BY <1>2, SeqMonotonic
<1> HIDE DEF S
<1>5. s \o t \in Seq(S) /\ Len(s \o t) = Len(s) + Len(t)
  BY <1>3, <1>4, ConcatProperties
<1> QED
  BY <1>5, OwnSeq
=============================================================================
