---------------------------- MODULE DocumentProofs ----------------------------
(***************************************************************************)
(* The document that describes a user's traffic, from the store to the     *)
(* connections: what is stored is sound, and a refresh changes the nodes   *)
(* of its provider alone, whatever clients import, write and apply and     *)
(* whatever the feeds bring; what is rendered sends each connection and    *)
(* each question about a name where the configuration says, whatever is    *)
(* installed and however the readings of UIDs fail.                        *)
(*                                                                         *)
(* Soundness is the work of Refused and Normalize alone, which is what the *)
(* code relies on, so the merges stay opaque there.  StoreInv says what    *)
(* the other proofs about the store need of the document, of its copy in a *)
(* download under way and of the chunks; BatchInv that a batch grows old   *)
(* as a whole; PathInv what an installed sing-box and its environment were *)
(* made from.  The merges, the selections and the renderer's lists are     *)
(* loops: each is taken apart into one step per element (MergeInSteps,     *)
(* ThoseInSteps, PlansInSteps, BestInSteps) by BoundedInduction, which     *)
(* follows from the least counterexample and needs a set for its property. *)
(***************************************************************************)
EXTENDS ProfileStore, TrafficPath, SequenceTheorems, FiniteSetTheorems, WellFoundedInduction, TLAPS

-----------------------------------------------------------------------------
(* Induction                                                               *)

\* A set of natural numbers that is not empty has a least member.
LEMMA LeastNat ==
  ASSUME NEW B, B \subseteq Nat, B # {}
  PROVE  \E m \in B : \A k \in B : m <= k
<1> DEFINE Less == {ss \in Nat \X Nat : ss[1] < ss[2]}
<1>1. IsWellFoundedOn(Less, Nat)
  BY NatLessThanWellFounded DEF OpToRel
<1>2. PICK r \in B : \A q \in B : <<q, r>> \notin Less
  BY <1>1, WFMin
<1>3. ASSUME NEW q \in B PROVE r <= q
  <2>1. ~(q < r)
    BY <1>2
  <2>2. QED
    BY <2>1
<1>4. QED
  BY <1>3

\* Induction over the natural numbers, with a set for the property.
LEMMA Induction ==
  ASSUME NEW G, 0 \in G, \A n \in Nat : n \in G => n + 1 \in G
  PROVE  Nat \subseteq G
<1>1. SUFFICES ASSUME Nat \ G # {} PROVE FALSE
  OBVIOUS
<1>2. PICK m \in Nat \ G : \A k \in Nat \ G : m <= k
  BY <1>1, LeastNat
<1>3. m # 0 /\ m - 1 \in Nat /\ m - 1 \in G
  BY <1>2
<1>4. QED
  BY <1>3, <1>2

\* The same up to a bound.
LEMMA BoundedInduction ==
  ASSUME NEW n \in Nat, NEW G, 0 \in G, \A k \in 0..(n - 1) : k \in G => k + 1 \in G
  PROVE  0..n \subseteq G
<1> DEFINE H == {k \in Nat : k <= n => k \in G}
<1>1. 0 \in H
  OBVIOUS
<1>2. ASSUME NEW k \in Nat, k \in H PROVE k + 1 \in H
  BY <1>2
<1> HIDE DEF H
<1>3. Nat \subseteq H
  BY <1>1, <1>2, Induction
<1>4. QED
  BY <1>3 DEF H

-----------------------------------------------------------------------------
(* Sequences                                                               *)

\* s is a sequence, of whatever elements.
IsSeq(s) == s \in Seq(ToSet(s))

\* A sequence over any set is one, and its elements are in the set.
LEMMA SeqIsSeq ==
  ASSUME NEW S, NEW s \in Seq(S)
  PROVE  IsSeq(s) /\ ToSet(s) \subseteq S
<1>1. Len(s) \in Nat /\ DOMAIN s = 1..Len(s) /\ s \in [1..Len(s) -> S]
  BY LenProperties
<1>2. s \in [1..Len(s) -> ToSet(s)]
  BY <1>1 DEF ToSet
<1>3. s \in Seq(ToSet(s))
  BY <1>1, <1>2, SeqDef
<1>4. QED
  BY <1>1, <1>3 DEF IsSeq, ToSet

\* A function whose domain is 1..n is a sequence of length n.
LEMMA FunctionIsSeq ==
  ASSUME NEW n \in Nat, NEW s, DOMAIN s = 1..n, s = [i \in 1..n |-> s[i]]
  PROVE  IsSeq(s) /\ Len(s) = n
<1>1. s \in [1..n -> ToSet(s)]
  BY DEF ToSet
<1>2. s \in Seq(ToSet(s))
  BY <1>1, SeqDef
<1>3. Len(s) = n
  BY <1>2, LenProperties
<1>4. QED
  BY <1>2, <1>3 DEF IsSeq

\* A sequence is the function of its elements.
LEMMA SeqFacts ==
  ASSUME NEW s, IsSeq(s)
  PROVE  /\ Len(s) \in Nat
         /\ DOMAIN s = 1..Len(s)
         /\ s = [i \in 1..Len(s) |-> s[i]]
         /\ \A i \in 1..Len(s) : s[i] \in ToSet(s)
<1>1. s \in [1..Len(s) -> ToSet(s)] /\ Len(s) \in Nat
  BY LenProperties DEF IsSeq
<1>2. QED
  BY <1>1

\* Sequences of one length with the same elements are the same.
LEMMA SameSeq ==
  ASSUME NEW s, NEW t, IsSeq(s), IsSeq(t), Len(s) = Len(t), \A i \in 1..Len(s) : s[i] = t[i]
  PROVE  s = t
BY SeqFacts

\* The empty sequence is one.
LEMMA EmptyIsSeq == IsSeq(<<>>) /\ Len(<<>>) = 0 /\ DOMAIN <<>> = {}
<1>1. <<>> \in Seq({}) /\ Len(<<>>) = 0
  BY EmptySeq
<1>2. IsSeq(<<>>)
  BY <1>1, SeqIsSeq
<1>3. QED
  BY <1>1, <1>2, SeqFacts

\* Only the empty sequence has no element.
LEMMA EmptyOnly ==
  ASSUME NEW s, IsSeq(s)
  PROVE  s = <<>> <=> Len(s) = 0
<1>1. ASSUME Len(s) = 0 PROVE s = <<>>
  BY <1>1, EmptyIsSeq, SameSeq
<1>2. QED
  BY <1>1, EmptyIsSeq

\* What joining gives: the elements of the first, then those of the second.
LEMMA Joined ==
  ASSUME NEW a, NEW b, IsSeq(a), IsSeq(b)
  PROVE  /\ IsSeq(a \o b)
         /\ Len(a \o b) = Len(a) + Len(b)
         /\ \A i \in 1..Len(a) : (a \o b)[i] = a[i]
         /\ \A i \in 1..Len(b) : (a \o b)[Len(a) + i] = b[i]
<1> DEFINE S == ToSet(a) \cup ToSet(b)
<1>1. a \in Seq(S) /\ b \in Seq(S)
  BY SeqMonotonic DEF IsSeq
<1>2. Len(a) \in Nat /\ Len(b) \in Nat
  BY SeqFacts
<1> HIDE DEF S
<1>3. /\ a \o b \in Seq(S)
      /\ Len(a \o b) = Len(a) + Len(b)
      /\ \A i \in 1..(Len(a) + Len(b)) : (a \o b)[i] = IF i <= Len(a) THEN a[i] ELSE b[i - Len(a)]
  BY <1>1, ConcatProperties
<1>4. ASSUME NEW i \in 1..Len(b) PROVE (a \o b)[Len(a) + i] = b[i]
  <2>1. Len(a) + i \in 1..(Len(a) + Len(b)) /\ ~(Len(a) + i <= Len(a)) /\ (Len(a) + i) - Len(a) = i
    BY <1>2
  <2>2. QED
    BY <1>3, <2>1
<1>5. IsSeq(a \o b)
  BY <1>3, SeqIsSeq
<1>6. QED
  BY <1>2, <1>3, <1>4, <1>5

\* What appending gives: the elements there were, then the new one.
LEMMA Appended ==
  ASSUME NEW s, NEW x, IsSeq(s)
  PROVE  /\ IsSeq(Append(s, x))
         /\ Len(Append(s, x)) = Len(s) + 1
         /\ \A i \in 1..Len(s) : Append(s, x)[i] = s[i]
         /\ Append(s, x)[Len(s) + 1] = x
<1> DEFINE S == ToSet(s) \cup {x}
<1>1. s \in Seq(S) /\ x \in S
  BY SeqMonotonic DEF IsSeq
<1> HIDE DEF S
<1>2. /\ Append(s, x) \in Seq(S)
      /\ Len(Append(s, x)) = Len(s) + 1
      /\ \A i \in 1..Len(s) : Append(s, x)[i] = s[i]
      /\ Append(s, x)[Len(s) + 1] = x
  BY <1>1, AppendProperties
<1>3. IsSeq(Append(s, x))
  BY <1>2, SeqIsSeq
<1>4. QED
  BY <1>2, <1>3

\* A sequence of one element.
LEMMA OneIsSeq == ASSUME NEW x PROVE IsSeq(<<x>>) /\ Len(<<x>>) = 1 /\ <<x>>[1] = x
<1>1. <<x>> \in Seq({x}) /\ Len(<<x>>) = 1
  OBVIOUS
<1>2. QED
  BY <1>1, SeqIsSeq

\* Two elements are a sequence.
LEMMA TwoAreSeq ==
  ASSUME NEW x, NEW y
  PROVE  IsSeq(<<x, y>>) /\ Len(<<x, y>>) = 2 /\ <<x, y>>[1] = x /\ <<x, y>>[2] = y
<1>1. <<x, y>> \in Seq({x, y}) /\ Len(<<x, y>>) = 2
  OBVIOUS
<1>2. QED
  BY <1>1, SeqIsSeq

\* Replacing an element leaves a sequence of the same length.
LEMMA Changed ==
  ASSUME NEW s, NEW i, NEW x, IsSeq(s)
  PROVE  /\ IsSeq([s EXCEPT ![i] = x])
         /\ Len([s EXCEPT ![i] = x]) = Len(s)
<1> DEFINE t == [s EXCEPT ![i] = x]
<1>1. Len(s) \in Nat /\ DOMAIN s = 1..Len(s)
  BY SeqFacts
<1>2. DOMAIN t = 1..Len(s) /\ t = [k \in 1..Len(s) |-> t[k]]
  BY <1>1
<1>3. QED
  BY <1>1, <1>2, FunctionIsSeq

\* Nothing is joined to a sequence.
LEMMA JoinedToNone ==
  ASSUME NEW a, IsSeq(a)
  PROVE  a \o <<>> = a /\ <<>> \o a = a
<1>1. a \in Seq(ToSet(a))
  BY DEF IsSeq
<1>2. QED
  BY <1>1, ConcatEmptySeq

\* An element is appended to the second of two joined sequences.
AppendedLast(a, b, x) == Append(a \o b, x) = a \o Append(b, x)

\* It always is, in effect.
LEMMA AppendJoined ==
  ASSUME NEW a, NEW b, NEW x, IsSeq(a), IsSeq(b)
  PROVE  AppendedLast(a, b, x)
<1> DEFINE c == a \o b
           d == Append(b, x)
           e == a \o d
           f == Append(c, x)
<1>1. Len(a) \in Nat /\ Len(b) \in Nat
  BY SeqFacts
<1>2. /\ IsSeq(c) /\ Len(c) = Len(a) + Len(b)
      /\ \A i \in 1..Len(a) : c[i] = a[i]
      /\ \A i \in 1..Len(b) : c[Len(a) + i] = b[i]
  BY Joined
<1>3. /\ IsSeq(d) /\ Len(d) = Len(b) + 1
      /\ \A i \in 1..Len(b) : d[i] = b[i]
      /\ d[Len(b) + 1] = x
  BY Appended
<1> HIDE DEF c, d
<1>4. /\ IsSeq(e) /\ Len(e) = Len(a) + Len(d)
      /\ \A i \in 1..Len(a) : e[i] = a[i]
      /\ \A i \in 1..Len(d) : e[Len(a) + i] = d[i]
  BY <1>3, Joined
<1>5. /\ IsSeq(f) /\ Len(f) = Len(c) + 1
      /\ \A i \in 1..Len(c) : f[i] = c[i]
      /\ f[Len(c) + 1] = x
  BY <1>2, Appended
<1> HIDE DEF e, f
<1>6. Len(e) = Len(f)
  BY <1>1, <1>2, <1>3, <1>4, <1>5
<1>7. ASSUME NEW i \in 1..Len(f) PROVE f[i] = e[i]
  <2>1. CASE i <= Len(a)
    <3>1. i \in 1..Len(a) /\ i \in 1..Len(c)
      BY <1>1, <1>2, <2>1
    <3>2. QED
      BY <1>2, <1>4, <1>5, <3>1
  <2>2. CASE ~(i <= Len(a)) /\ i <= Len(a) + Len(b)
    <3>1. i - Len(a) \in 1..Len(b) /\ i - Len(a) \in 1..Len(d) /\ i \in 1..Len(c) /\ Len(a) + (i - Len(a)) = i
      BY <1>1, <1>2, <1>3, <2>2
    <3>2. c[i] = b[i - Len(a)] /\ e[i] = d[i - Len(a)] /\ d[i - Len(a)] = b[i - Len(a)]
      BY <1>2, <1>3, <1>4, <3>1
    <3>3. QED
      BY <1>5, <3>1, <3>2
  <2>3. CASE ~(i <= Len(a) + Len(b))
    <3>1. Len(f) = Len(a) + Len(b) + 1 /\ i \in 1..(Len(a) + Len(b) + 1)
      BY <1>1, <1>2, <1>5
    <3>3. i = Len(a) + Len(b) + 1
      BY <1>1, <2>3, <3>1
    <3>4. i = Len(c) + 1 /\ i = Len(a) + (Len(b) + 1) /\ Len(b) + 1 \in 1..Len(d)
      BY <1>1, <1>2, <1>3, <3>3
    <3>2. e[i] = d[Len(b) + 1]
      BY <1>4, <3>4
    <3>5. QED
      BY <1>3, <1>5, <3>2, <3>4
  <2>4. QED
    BY <2>1, <2>2, <2>3
<1>8. f = e
  BY <1>4, <1>5, <1>6, <1>7, SameSeq
<1>9. QED
  BY <1>8 DEF AppendedLast, c, d, e, f

\* The elements of two joined sequences are those of both.
LEMMA ElementsOfTwo ==
  ASSUME NEW a, NEW b, IsSeq(a), IsSeq(b)
  PROVE  ToSet(a \o b) = ToSet(a) \cup ToSet(b)
<1> DEFINE c == a \o b
<1>1. /\ IsSeq(c) /\ Len(c) = Len(a) + Len(b)
      /\ \A i \in 1..Len(a) : c[i] = a[i]
      /\ \A i \in 1..Len(b) : c[Len(a) + i] = b[i]
  BY Joined
<1> HIDE DEF c
<1>2. /\ Len(a) \in Nat /\ DOMAIN a = 1..Len(a)
      /\ Len(b) \in Nat /\ DOMAIN b = 1..Len(b)
      /\ DOMAIN c = 1..Len(c)
  BY <1>1, SeqFacts
<1>3. ASSUME NEW k \in 1..Len(c) PROVE c[k] \in ToSet(a) \cup ToSet(b)
  <2>1. CASE k <= Len(a)
    <3>1. k \in 1..Len(a)
      BY <1>1, <1>2, <2>1
    <3>2. QED
      BY <1>1, <1>2, <3>1 DEF ToSet
  <2>2. CASE ~(k <= Len(a))
    <3>1. k - Len(a) \in 1..Len(b) /\ Len(a) + (k - Len(a)) = k
      BY <1>1, <1>2, <2>2
    <3>2. c[k] = b[k - Len(a)]
      BY <1>1, <3>1
    <3>3. QED
      BY <1>2, <3>1, <3>2 DEF ToSet
  <2>3. QED
    BY <2>1, <2>2
<1>4. ASSUME NEW i \in 1..Len(a) PROVE a[i] \in ToSet(c)
  <2>1. i \in 1..Len(c) /\ c[i] = a[i]
    BY <1>1, <1>2
  <2>2. QED
    BY <1>2, <2>1 DEF ToSet
<1>5. ASSUME NEW i \in 1..Len(b) PROVE b[i] \in ToSet(c)
  <2>1. Len(a) + i \in 1..Len(c) /\ c[Len(a) + i] = b[i]
    BY <1>1, <1>2
  <2>2. QED
    BY <1>2, <2>1 DEF ToSet
<1>6. ToSet(c) \subseteq ToSet(a) \cup ToSet(b)
  BY <1>2, <1>3 DEF ToSet
<1>7. ToSet(a) \subseteq ToSet(c) /\ ToSet(b) \subseteq ToSet(c)
  BY <1>2, <1>4, <1>5 DEF ToSet
<1>8. QED
  BY <1>6, <1>7 DEF c

\* The element of a sequence of one.
LEMMA ElementOfOne == ASSUME NEW x PROVE ToSet(<<x>>) = {x}
<1>1. DOMAIN <<x>> = 1..1 /\ <<x>>[1] = x
  BY OneIsSeq, SeqFacts
<1>2. QED
  BY <1>1 DEF ToSet

\* The elements after one is appended.
LEMMA ElementsOfAppended ==
  ASSUME NEW s, IsSeq(s), NEW x
  PROVE  ToSet(Append(s, x)) = ToSet(s) \cup {x}
<1>1. s \o <<>> = s /\ IsSeq(<<>>)
  BY JoinedToNone, EmptyIsSeq
<1>2. AppendedLast(s, <<>>, x)
  BY <1>1, AppendJoined
<1>3. Append(<<>>, x) = <<x>>
  OBVIOUS
<1>4. Append(s, x) = s \o <<x>>
  BY <1>1, <1>2, <1>3 DEF AppendedLast
<1>5. QED
  BY <1>4, OneIsSeq, ElementOfOne, ElementsOfTwo

\* FlattenSeq joins one sequence after the other.
LEMMA FlattenInSteps ==
  ASSUME NEW ss, IsSeq(ss), \A i \in 1..Len(ss) : IsSeq(ss[i])
  PROVE  \E joined : /\ joined[0] = <<>>
                     /\ \A m \in 1..Len(ss) : joined[m] = joined[m - 1] \o ss[m]
                     /\ \A m \in 0..Len(ss) : IsSeq(joined[m])
                     /\ FlattenSeq(ss) = joined[Len(ss)]
<1> DEFINE n == Len(ss)
           Step(m, g) == g = [i \in 1..m |-> IF i = 1 THEN ss[i] ELSE g[i - 1] \o ss[i]]
<1>1. n \in Nat
  BY SeqFacts
<1> DEFINE G == {m \in Nat : \E g : Step(m, g)}
<1>2. 0 \in G
  <2>1. Step(0, [i \in 1..0 |-> <<>>])
    OBVIOUS
  <2>2. QED
    BY <2>1
<1>3. ASSUME NEW m \in Nat, m \in G PROVE m + 1 \in G
  <2>1. PICK g : Step(m, g)
    BY <1>3
  <2> DEFINE h == [i \in 1..(m + 1) |->
                     IF i = m + 1 THEN IF i = 1 THEN ss[i] ELSE g[m] \o ss[i] ELSE g[i]]
  <2>2. ASSUME NEW i \in 1..(m + 1)
        PROVE  h[i] = IF i = 1 THEN ss[i] ELSE h[i - 1] \o ss[i]
    <3>1. CASE i = m + 1
      <4>1. i # 1 => h[i - 1] = g[m]
        BY <3>1
      <4>2. QED
        BY <3>1, <4>1
    <3>2. CASE i # m + 1
      <4>1. i \in 1..m /\ (i # 1 => i - 1 \in 1..m /\ i - 1 # m + 1 /\ i - 1 \in 1..(m + 1))
        BY <3>2
      <4>2. h[i] = g[i] /\ (i # 1 => h[i - 1] = g[i - 1])
        BY <3>2, <4>1
      <4>3. g[i] = IF i = 1 THEN ss[i] ELSE g[i - 1] \o ss[i]
        BY <2>1, <4>1
      <4> HIDE DEF h
      <4>4. QED
        BY <4>2, <4>3
    <3>3. QED
      BY <3>1, <3>2
  <2>3. h = [i \in 1..(m + 1) |-> h[i]]
    OBVIOUS
  <2> HIDE DEF h
  <2>4. Step(m + 1, h)
    BY <2>2, <2>3, Zenon
  <2>5. m + 1 \in Nat
    OBVIOUS
  <2>6. QED
    BY <2>4, <2>5, Zenon
<1> HIDE DEF G
<1>4. \E g : Step(n, g)
  BY <1>1, <1>2, <1>3, Induction DEF G
<1> DEFINE it == CHOOSE g : Step(n, g)
           joined == [m \in 0..n |-> IF m = 0 THEN <<>> ELSE it[m]]
<1>5. Step(n, it)
  BY <1>4
<1>6. FlattenSeq(ss) = joined[n]
  <2>1. CASE n = 0
    <3>1. ss = <<>> /\ FlattenSeq(ss) = ss
      BY <2>1, EmptyOnly DEF FlattenSeq
    <3>2. QED
      BY <1>1, <2>1, <3>1
  <2>2. CASE n # 0
    <3>1. FlattenSeq(ss) = it[n]
      BY <2>2 DEF FlattenSeq
    <3> HIDE DEF it
    <3>2. QED
      BY <1>1, <2>2, <3>1
  <2>3. QED
    BY <2>1, <2>2
<1> HIDE DEF it
<1>7. joined[0] = <<>>
  BY <1>1
<1>8. ASSUME NEW m \in 1..n PROVE joined[m] = joined[m - 1] \o ss[m]
  <2>1. joined[m] = it[m] /\ it[m] = IF m = 1 THEN ss[m] ELSE it[m - 1] \o ss[m]
    <3>1. it[m] = IF m = 1 THEN ss[m] ELSE it[m - 1] \o ss[m]
      BY <1>5
    <3>2. m \in 0..n /\ m # 0
      BY <1>1
    <3>3. QED
      BY <3>1, <3>2
  <2>2. joined[m - 1] = IF m = 1 THEN <<>> ELSE it[m - 1]
    BY <1>1
  <2> HIDE DEF joined
  <2>3. <<>> \o ss[m] = ss[m]
    BY JoinedToNone
  <2>4. QED
    BY <2>1, <2>2, <2>3
<1> HIDE DEF n
<1> HIDE DEF joined
<1> DEFINE H == {m \in 0..n : IsSeq(joined[m])}
<1>9. 0 \in H
  BY <1>1, <1>7, EmptyIsSeq
<1>10. ASSUME NEW m \in 0..(n - 1), m \in H PROVE m + 1 \in H
  <2>1. m + 1 \in 1..n /\ (m + 1) - 1 = m /\ m + 1 \in 0..n
    BY <1>1
  <2>2. joined[m + 1] = joined[m] \o ss[m + 1] /\ IsSeq(ss[m + 1]) /\ IsSeq(joined[m])
    BY <1>8, <1>10, <2>1 DEF n
  <2>3. IsSeq(joined[m + 1])
    BY <2>2, Joined
  <2>4. QED
    BY <2>1, <2>3
<1> HIDE DEF H
<1>11. 0..n \subseteq H
  BY <1>1, <1>9, <1>10, BoundedInduction
<1>12. \A m \in 0..n : IsSeq(joined[m])
  BY <1>11 DEF H
<1>13. QED
  BY <1>6, <1>7, <1>8, <1>12 DEF n

\* FlattenSeq joins sequences to a sequence of their elements.
LEMMA Flattened ==
  ASSUME NEW ss, IsSeq(ss), \A i \in 1..Len(ss) : IsSeq(ss[i])
  PROVE  /\ IsSeq(FlattenSeq(ss))
         /\ \A x \in ToSet(FlattenSeq(ss)) : \E i \in 1..Len(ss) : x \in ToSet(ss[i])
         /\ \A i \in 1..Len(ss) : ToSet(ss[i]) \subseteq ToSet(FlattenSeq(ss))
<1> DEFINE n == Len(ss)
<1>1. PICK joined : /\ joined[0] = <<>>
                    /\ \A m \in 1..n : joined[m] = joined[m - 1] \o ss[m]
                    /\ \A m \in 0..n : IsSeq(joined[m])
                    /\ FlattenSeq(ss) = joined[n]
  BY FlattenInSteps
<1>2. n \in Nat /\ \A i \in 1..n : IsSeq(ss[i])
  BY SeqFacts
<1> HIDE DEF n
<1> DEFINE Good(m) == /\ \A x \in ToSet(joined[m]) : \E i \in 1..m : x \in ToSet(ss[i])
                      /\ \A i \in 1..m : ToSet(ss[i]) \subseteq ToSet(joined[m])
           G == {m \in 0..n : Good(m)}
<1>3. 0 \in G
  <2>1. ToSet(joined[0]) = {}
    BY <1>1, EmptyIsSeq DEF ToSet
  <2>2. QED
    BY <1>2, <2>1
<1>4. ASSUME NEW m \in 0..(n - 1), m \in G PROVE m + 1 \in G
  <2>1. m + 1 \in 1..n /\ (m + 1) - 1 = m /\ m + 1 \in 0..n /\ m \in 0..n /\ m \in Nat
    BY <1>2
  <2>2. joined[m + 1] = joined[m] \o ss[m + 1]
    BY <1>1, <2>1
  <2>3. ToSet(joined[m + 1]) = ToSet(joined[m]) \cup ToSet(ss[m + 1])
    BY <1>1, <1>2, <2>1, <2>2, ElementsOfTwo
  <2>4. Good(m)
    BY <1>4
  <2>5. \A i \in 1..(m + 1) : i = m + 1 \/ i \in 1..m
    BY <2>1
  <2>6. m + 1 \in 1..(m + 1) /\ \A i \in 1..m : i \in 1..(m + 1)
    BY <2>1
  <2>7. Good(m + 1)
    BY <2>3, <2>4, <2>5, <2>6
  <2>8. QED
    BY <2>1, <2>7
<1> HIDE DEF G
<1>5. 0..n \subseteq G
  BY <1>2, <1>3, <1>4, BoundedInduction
<1>6. Good(n) /\ IsSeq(joined[n])
  <2>1. n \in 0..n
    BY <1>2
  <2>2. n \in G
    BY <1>5, <2>1
  <2>3. QED
    BY <1>1, <2>1, <2>2 DEF G
<1>7. QED
  BY <1>1, <1>6 DEF n

\* Two sequences joined.  It, Before and After are names for terms that the provers would rewrite.
Glued(a, b) == a \o b

\* What comes before a position.
Before(s, at) == SubSeq(s, 1, at - 1)

\* What comes after a position.
After(s, at) == SubSeq(s, at + 1, Len(s))

\* part is the elements of s from m to n.
IsPart(part, s, m, n) ==
  /\ IsSeq(part)
  /\ Len(part) = (n + 1) - m
  /\ \A i \in 1..((n + 1) - m) : part[i] = s[(m + i) - 1]

\* A part of a sequence.
LEMMA PartOf ==
  ASSUME NEW s, IsSeq(s), NEW m \in 1..(Len(s) + 1), NEW n \in 0..Len(s), m <= n + 1
  PROVE  IsPart(SubSeq(s, m, n), s, m, n)
<1> DEFINE S == ToSet(s)
           l == Len(s)
<1>1. l \in Nat /\ \A i \in 1..l : s[i] \in S
  BY SeqFacts
<1>2. m \in Int /\ n \in Int /\ \A i \in m..n : i \in 1..l
  BY <1>1
<1>3. \A i \in m..n : s[i] \in S
  BY <1>1, <1>2
<1> HIDE DEF S
<1>4. /\ SubSeq(s, m, n) \in Seq(S)
      /\ Len(SubSeq(s, m, n)) = IF m <= n THEN n - m + 1 ELSE 0
      /\ \A i \in 1..(n - m + 1) : SubSeq(s, m, n)[i] = s[m + i - 1]
  BY <1>2, <1>3, SubSeqProperties
<1>5. IsSeq(SubSeq(s, m, n))
  BY <1>4, SeqIsSeq
<1>6. (IF m <= n THEN n - m + 1 ELSE 0) = (n + 1) - m /\ n - m + 1 = (n + 1) - m
  BY <1>2
<1>7. QED
  BY <1>4, <1>5, <1>6 DEF IsPart

\* What comes before a position has the elements before it.
LEMMA BeforeFacts ==
  ASSUME NEW s, IsSeq(s), NEW at \in 1..Len(s)
  PROVE  /\ IsSeq(Before(s, at)) /\ Len(Before(s, at)) = at - 1
         /\ \A i \in 1..(at - 1) : Before(s, at)[i] = s[i]
<1> DEFINE m == 1
           n == at - 1
           l == Len(s)
<1>1. l \in Nat
  BY SeqFacts
<1>2. m \in 1..(l + 1) /\ n \in 0..l /\ m <= n + 1 /\ (n + 1) - m = at - 1
  BY <1>1
<1>3. \A i \in 1..(at - 1) : (m + i) - 1 = i
  BY <1>1
<1>4. Before(s, at) = SubSeq(s, m, n)
  BY DEF Before
<1> HIDE DEF m, n
<1>5. IsPart(SubSeq(s, m, n), s, m, n)
  BY <1>2, PartOf
<1>6. QED
  BY <1>2, <1>3, <1>4, <1>5 DEF IsPart

\* What comes after a position has the elements after it.
LEMMA AfterFacts ==
  ASSUME NEW s, IsSeq(s), NEW at \in 1..Len(s)
  PROVE  /\ IsSeq(After(s, at)) /\ Len(After(s, at)) = Len(s) - at
         /\ \A i \in 1..(Len(s) - at) : After(s, at)[i] = s[at + i]
<1> DEFINE m == at + 1
           n == Len(s)
<1>1. n \in Nat
  BY SeqFacts
<1>2. m \in 1..(n + 1) /\ n \in 0..n /\ m <= n + 1 /\ (n + 1) - m = n - at
  BY <1>1
<1>3. \A i \in 1..(n - at) : (m + i) - 1 = at + i
  BY <1>1
<1>4. After(s, at) = SubSeq(s, m, n)
  BY DEF After
<1> HIDE DEF m
<1>5. IsPart(SubSeq(s, m, n), s, m, n)
  BY <1>2, PartOf
<1>6. QED
  BY <1>2, <1>3, <1>4, <1>5 DEF IsPart

\* c is a followed by b.
IsGlued(c, a, b) ==
  /\ Len(c) = Len(a) + Len(b)
  /\ \A i \in 1..Len(a) : c[i] = a[i]
  /\ \A i \in 1..Len(b) : c[Len(a) + i] = b[i]

\* Joined sequences are one followed by the other.
LEMMA GluedFacts ==
  ASSUME NEW a, IsSeq(a), NEW b, IsSeq(b)
  PROVE  IsSeq(Glued(a, b)) /\ IsGlued(Glued(a, b), a, b)
BY Joined DEF Glued, IsGlued

\* A sequence joined to the empty one is itself.
LEMMA GluedToNone ==
  ASSUME NEW a, IsSeq(a)
  PROVE  Glued(a, <<>>) = a
BY JoinedToNone DEF Glued

\* A sequence is what comes before a position, the element there, and what comes after it.
LEMMA SplitAt ==
  ASSUME NEW s, IsSeq(s), NEW at \in 1..Len(s)
  PROVE  s = Glued(Glued(Before(s, at), <<s[at]>>), After(s, at))
<1> DEFINE l == Len(s)
           head == Before(s, at)
           tail == After(s, at)
           one == <<s[at]>>
           a == Glued(head, one)
           b == Glued(a, tail)
<1>1. l \in Nat /\ at \in 1..l
  BY SeqFacts
<1>2. /\ IsSeq(head) /\ Len(head) = at - 1 /\ \A i \in 1..(at - 1) : head[i] = s[i]
  BY BeforeFacts
<1>3. /\ IsSeq(tail) /\ Len(tail) = l - at /\ \A i \in 1..(l - at) : tail[i] = s[at + i]
  BY AfterFacts
<1>4. IsSeq(one) /\ Len(one) = 1 /\ one[1] = s[at]
  BY OneIsSeq
<1> HIDE DEF l, head, tail, one
<1>5. /\ IsSeq(a) /\ Len(a) = at
      /\ \A i \in 1..(at - 1) : a[i] = s[i]
      /\ a[at] = s[at]
  <2>1. /\ IsSeq(a) /\ Len(a) = Len(head) + Len(one)
        /\ \A i \in 1..Len(head) : a[i] = head[i]
        /\ \A i \in 1..Len(one) : a[Len(head) + i] = one[i]
    <3>1. IsSeq(a) /\ IsGlued(a, head, one)
      BY <1>2, <1>4, GluedFacts
    <3> HIDE DEF a
    <3>2. QED
      BY <3>1 DEF IsGlued
  <2> HIDE DEF a
  <2>2. at = (at - 1) + 1 /\ 1 \in 1..1
    BY <1>1
  <2>3. a[at] = s[at] /\ Len(a) = at
    BY <1>1, <1>2, <1>4, <2>1, <2>2
  <2>4. QED
    BY <1>2, <2>1, <2>3
<1> HIDE DEF a
<1>6. /\ IsSeq(b) /\ Len(b) = Len(a) + Len(tail)
      /\ \A i \in 1..Len(a) : b[i] = a[i]
      /\ \A i \in 1..Len(tail) : b[Len(a) + i] = tail[i]
  <2>1. IsSeq(b) /\ IsGlued(b, a, tail)
    BY <1>3, <1>5, GluedFacts
  <2> HIDE DEF b
  <2>2. QED
    BY <2>1 DEF IsGlued
<1> HIDE DEF b
<1>7. Len(b) = l
  BY <1>1, <1>3, <1>5, <1>6
<1>8. ASSUME NEW i \in 1..l PROVE b[i] = s[i]
  <2>1. CASE i <= at - 1
    BY <1>1, <1>5, <1>6, <2>1
  <2>2. CASE i = at
    BY <1>1, <1>5, <1>6, <2>2
  <2>3. CASE ~(i <= at)
    <3>1. i - at \in 1..(l - at) /\ at + (i - at) = i
      BY <1>1, <2>3
    <3>2. QED
      BY <1>3, <1>5, <1>6, <3>1
  <2>4. QED
    BY <1>1, <2>1, <2>2, <2>3
<1>9. b = s
  BY <1>6, <1>7, <1>8, SameSeq DEF l
<1>10. QED
  BY <1>9 DEF a, b, head, tail, one

-----------------------------------------------------------------------------
(* Positions in a sequence                                                 *)

\* The least position of a set is in it, and none is below it.
LEMMA LeastPosition ==
  ASSUME NEW I, I \subseteq Nat, I # {}
  PROVE  Min(I) \in I /\ \A i \in I : Min(I) <= i
<1>1. PICK m \in I : \A i \in I : m <= i
  BY LeastNat
<1>2. QED
  BY <1>1 DEF Min

\* A set of positions that is not empty has a last one.
LEMMA LastPosition ==
  ASSUME NEW n \in Nat, NEW I, I \subseteq 1..n, I # {}
  PROVE  \E i \in I : \A j \in I : j <= i
<1> DEFINE B == {n - i : i \in I}
<1>1. B \subseteq Nat /\ B # {}
  <2>1. \A i \in I : i \in 1..n
    OBVIOUS
  <2>2. \A i \in 1..n : n - i \in Nat
    OBVIOUS
  <2>3. \A i \in I : n - i \in Nat
    BY <2>1, <2>2
  <2>4. QED
    BY <2>3
<1>2. PICK m \in B : \A k \in B : m <= k
  BY <1>1, LeastNat
<1>3. PICK i \in I : m = n - i
  BY <1>2
<1>4. \A j \in I : n - j \in B
  OBVIOUS
<1>5. \A j \in I : n - i <= n - j
  BY <1>2, <1>3, <1>4
<1>6. \A j \in I : j <= i
  BY <1>5
<1>7. QED
  BY <1>6

\* The first position of I, or 0: what SelectInSeq returns.
First(I) == IF I # {} THEN Min(I) ELSE 0

\* The first position is one, and none comes before it.
LEMMA FirstIsMember ==
  ASSUME NEW n \in Nat, NEW I, I \subseteq 1..n, I # {}
  PROVE  First(I) \in I /\ First(I) # 0 /\ \A i \in I : First(I) <= i
<1>1. I \subseteq Nat
  OBVIOUS
<1>2. Min(I) \in I /\ \A i \in I : Min(I) <= i
  BY <1>1, LeastPosition
<1>3. Min(I) # 0
  BY <1>2
<1>4. QED
  BY <1>2, <1>3 DEF First

\* The position that SelectInSeq finds, when there is one.
LEMMA FirstIsFound ==
  ASSUME NEW s, IsSeq(s), NEW I, I \subseteq 1..Len(s)
  PROVE  /\ I # {} => First(I) \in I /\ First(I) # 0
         /\ I = {} => First(I) = 0
<1>1. Len(s) \in Nat
  BY SeqFacts
<1>2. QED
  BY <1>1, FirstIsMember DEF First

\* The first of one position.
LEMMA FirstOfOne == First({1}) = 1
<1>1. {1} \subseteq 1..1 /\ {1} # {} /\ 1 \in Nat
  OBVIOUS
<1>2. First({1}) \in {1}
  BY <1>1, FirstIsMember
<1>3. QED
  BY <1>2

\* The first position of K, which is I and then, n further on, J.
FirstOf(n, I, J, K) ==
  First(K) = IF I # {} THEN First(I) ELSE IF J # {} THEN n + First(J) ELSE 0

\* It is the first of I, or else of J.
LEMMA FirstOfTwo ==
  ASSUME NEW n \in Nat, NEW I, I \subseteq 1..n, NEW J, J \subseteq Nat,
         NEW K, K \subseteq Nat, I \subseteq K, \A j \in J : n + j \in K,
         \A k \in K : k \in I \/ k - n \in J
  PROVE  FirstOf(n, I, J, K)
<1>1. I \subseteq Nat /\ K \subseteq Nat
  OBVIOUS
<1>2. CASE I # {}
  <2>1. Min(I) \in I /\ \A i \in I : Min(I) <= i
    BY <1>1, <1>2, LeastPosition
  <2>2. Min(K) \in K /\ \A k \in K : Min(K) <= k
    BY <1>1, <1>2, LeastPosition
  <2>3. ASSUME NEW k \in K PROVE Min(I) <= k
    <3>1. CASE k - n \in J
      <4>1. k \in Nat /\ k - n \in Nat /\ Min(I) \in 1..n
        BY <2>1, <3>1
      <4>2. QED
        BY <4>1
    <3>2. QED
      BY <2>1, <3>1
  <2>4. Min(K) = Min(I)
    <3>1. Min(K) \in Nat /\ Min(I) \in Nat /\ Min(K) <= Min(I) /\ Min(I) <= Min(K)
      BY <1>1, <2>1, <2>2, <2>3
    <3>2. QED
      BY <3>1
  <2>5. QED
    BY <1>2, <2>4 DEF First, FirstOf
<1>3. CASE I = {} /\ J # {}
  <2>1. Min(J) \in J /\ \A j \in J : Min(J) <= j
    BY <1>3, LeastPosition
  <2>2. K # {}
    BY <1>3
  <2>3. Min(K) \in K /\ \A k \in K : Min(K) <= k
    BY <1>1, <2>2, LeastPosition
  <2>4. ASSUME NEW k \in K PROVE n + Min(J) <= k
    <3>1. k - n \in J
      BY <1>3
    <3>2. k \in Nat /\ k - n \in Nat /\ Min(J) \in Nat /\ Min(J) <= k - n
      BY <2>1, <3>1
    <3>3. QED
      BY <3>2
  <2>5. Min(K) = n + Min(J)
    <3>1. n + Min(J) \in K
      BY <2>1
    <3>2. Min(K) \in Nat /\ n + Min(J) \in Nat
      BY <1>1, <2>3, <3>1
    <3>3. Min(K) <= n + Min(J) /\ n + Min(J) <= Min(K)
      BY <2>3, <2>4, <3>1
    <3>4. QED
      BY <3>2, <3>3
  <2>6. QED
    BY <1>3, <2>2, <2>5 DEF First, FirstOf
<1>4. CASE I = {} /\ J = {}
  BY <1>4 DEF First, FirstOf
<1>5. QED
  BY <1>2, <1>3, <1>4

\* The first element of a joined sequence whose position is in K: one of a, or one of b.
ElementOf(a, b, I, J, K) ==
  /\ First(I) # 0 => First(K) # 0 /\ (a \o b)[First(K)] = a[First(I)]
  /\ First(I) = 0 /\ First(J) # 0 => First(K) # 0 /\ (a \o b)[First(K)] = b[First(J)]
  /\ First(I) = 0 /\ First(J) = 0 => First(K) = 0

\* It is the first of a whose position is in I, or else of b in J.
LEMMA ElementOfTwo ==
  ASSUME NEW a, NEW b, IsSeq(a), IsSeq(b),
         NEW I, I \subseteq 1..Len(a), NEW J, J \subseteq 1..Len(b), NEW K, K \subseteq 1..Len(a \o b),
         \A i \in 1..Len(a) : i \in K <=> i \in I,
         \A j \in 1..Len(b) : Len(a) + j \in K <=> j \in J
  PROVE  ElementOf(a, b, I, J, K)
<1> DEFINE c == a \o b
<1>1. /\ Len(c) = Len(a) + Len(b)
      /\ \A i \in 1..Len(a) : c[i] = a[i]
      /\ \A i \in 1..Len(b) : c[Len(a) + i] = b[i]
  BY Joined
<1>2. Len(a) \in Nat /\ Len(b) \in Nat
  BY SeqFacts
<1>3. K \subseteq 1..Len(c)
  OBVIOUS
<1> HIDE DEF c
<1>4. \A k \in K : k \in I \/ k - Len(a) \in J
  <2>1. ASSUME NEW k \in K, ~(k <= Len(a)) PROVE k - Len(a) \in J
    <3>1. k - Len(a) \in 1..Len(b) /\ Len(a) + (k - Len(a)) = k
      BY <2>1, <1>1, <1>2, <1>3
    <3>2. QED
      BY <3>1
  <2>2. ASSUME NEW k \in K, k <= Len(a) PROVE k \in I
    BY <2>2, <1>1, <1>2, <1>3
  <2>3. QED
    BY <2>1, <2>2
<1>5. FirstOf(Len(a), I, J, K)
  <2>1. J \subseteq Nat /\ K \subseteq Nat
    BY <1>3
  <2>2. QED
    BY <1>2, <1>4, <2>1, FirstOfTwo
<1>6. I # {} => First(I) \in I /\ First(I) # 0
  BY <1>2, FirstIsMember
<1>7. J # {} => First(J) \in J /\ First(J) # 0 /\ First(J) \in 1..Len(b)
  BY <1>2, FirstIsMember
<1>8. (I = {} => First(I) = 0) /\ (J = {} => First(J) = 0)
  BY DEF First
<1>9. CASE I # {}
  BY <1>1, <1>5, <1>6, <1>9 DEF c, FirstOf, ElementOf
<1>10. CASE I = {} /\ J # {}
  <2>1. First(K) = Len(a) + First(J)
    BY <1>5, <1>10 DEF FirstOf
  <2>2. c[First(K)] = b[First(J)] /\ First(K) # 0
    BY <1>1, <1>2, <1>7, <1>10, <2>1
  <2>3. QED
    BY <1>7, <1>8, <1>10, <2>2 DEF c, ElementOf
<1>11. CASE I = {} /\ J = {}
  BY <1>5, <1>8, <1>11 DEF FirstOf, ElementOf
<1>12. QED
  BY <1>9, <1>10, <1>11

-----------------------------------------------------------------------------
(* The elements that a loop keeps                                          *)

\* kept is what Those has kept of the first n elements, for each n.
KeptBy(s, I, kept) ==
  kept = [n \in 0..Len(s) |->
            IF n = 0 THEN <<>>
            ELSE IF n \in I THEN Append(kept[n - 1], s[n]) ELSE kept[n - 1]]

\* There is such a function, and Those is where it ends.
LEMMA ThoseIsKept ==
  ASSUME NEW s, NEW I, IsSeq(s)
  PROVE  \E kept : KeptBy(s, I, kept) /\ Those(s, I) = kept[Len(s)]
<1> DEFINE Step(m, g) == g = [n \in 0..m |-> IF n = 0 THEN <<>>
                                ELSE IF n \in I THEN Append(g[n - 1], s[n]) ELSE g[n - 1]]
           G == {m \in Nat : \E g : Step(m, g)}
<1>1. 0 \in G
  <2>1. Step(0, [n \in 0..0 |-> <<>>])
    OBVIOUS
  <2>2. QED
    BY <2>1
<1>2. ASSUME NEW m \in Nat, m \in G PROVE m + 1 \in G
  <2>1. PICK g : Step(m, g)
    BY <1>2
  <2> DEFINE h == [n \in 0..(m + 1) |->
                     IF n = m + 1 THEN IF n \in I THEN Append(g[m], s[n]) ELSE g[m] ELSE g[n]]
  <2>2. ASSUME NEW n \in 0..(m + 1)
        PROVE  h[n] = IF n = 0 THEN <<>> ELSE IF n \in I THEN Append(h[n - 1], s[n]) ELSE h[n - 1]
    <3>1. CASE n = m + 1
      <4>1. h[n - 1] = g[m]
        BY <3>1
      <4>2. QED
        BY <3>1, <4>1
    <3>2. CASE n # m + 1
      <4>1. n \in 0..m /\ (n # 0 => n - 1 \in 0..m /\ n - 1 # m + 1 /\ n - 1 \in 0..(m + 1))
        BY <3>2
      <4>2. h[n] = g[n] /\ (n # 0 => h[n - 1] = g[n - 1])
        BY <3>2, <4>1
      <4>3. g[n] = IF n = 0 THEN <<>> ELSE IF n \in I THEN Append(g[n - 1], s[n]) ELSE g[n - 1]
        BY <2>1, <4>1
      <4> HIDE DEF h
      <4>4. QED
        BY <4>1, <4>2, <4>3
    <3>3. QED
      BY <3>1, <3>2
  <2>3. h = [n \in 0..(m + 1) |-> h[n]]
    OBVIOUS
  <2> HIDE DEF h
  <2>4. Step(m + 1, h)
    BY <2>2, <2>3
  <2>5. QED
    BY <2>4
<1> HIDE DEF G
<1>3. Len(s) \in G
  BY <1>1, <1>2, Induction, SeqFacts
<1> DEFINE it == CHOOSE kept : KeptBy(s, I, kept)
<1>4. KeptBy(s, I, it)
  BY <1>3 DEF G, KeptBy
<1>5. Those(s, I) = it[Len(s)]
  BY DEF Those, KeptBy
<1>6. QED
  BY <1>4, <1>5

\* What Those has kept of the first m elements, for each m.
LEMMA ThoseInSteps ==
  ASSUME NEW s, NEW I, IsSeq(s)
  PROVE  \E kept : /\ kept[0] = <<>>
                   /\ \A m \in 1..Len(s) :
                        kept[m] = IF m \in I THEN Append(kept[m - 1], s[m]) ELSE kept[m - 1]
                   /\ \A m \in 0..Len(s) : IsSeq(kept[m])
                   /\ Those(s, I) = kept[Len(s)]
<1> DEFINE n == Len(s)
<1>1. PICK kept : KeptBy(s, I, kept) /\ Those(s, I) = kept[n]
  BY ThoseIsKept
<1>2. n \in Nat
  BY SeqFacts
<1>3. /\ kept[0] = <<>>
      /\ \A m \in 1..n : kept[m] = IF m \in I THEN Append(kept[m - 1], s[m]) ELSE kept[m - 1]
  <2>1. \A m \in 0..n : kept[m] = IF m = 0 THEN <<>>
                                  ELSE IF m \in I THEN Append(kept[m - 1], s[m]) ELSE kept[m - 1]
    BY <1>1 DEF KeptBy
  <2> HIDE DEF n
  <2>2. QED
    BY <2>1, <1>2
<1> HIDE DEF n
<1> DEFINE G == {m \in 0..n : IsSeq(kept[m])}
<1>4. 0 \in G
  BY <1>2, <1>3, EmptyIsSeq
<1>5. ASSUME NEW m \in 0..(n - 1), m \in G PROVE m + 1 \in G
  <2>1. m + 1 \in 1..n /\ (m + 1) - 1 = m /\ m + 1 \in 0..n
    BY <1>2
  <2>2. IsSeq(kept[m])
    BY <1>5
  <2>3. kept[m + 1] = IF m + 1 \in I THEN Append(kept[m], s[m + 1]) ELSE kept[m]
    BY <1>3, <2>1
  <2>4. IsSeq(kept[m + 1])
    BY <2>2, <2>3, Appended
  <2>5. QED
    BY <2>1, <2>4
<1> HIDE DEF G
<1>6. 0..n \subseteq G
  BY <1>2, <1>4, <1>5, BoundedInduction
<1>7. QED
  BY <1>1, <1>3, <1>6 DEF G, n

\* What Those keeps is a sequence of the elements at the positions.
LEMMA ThoseAreElements ==
  ASSUME NEW s, NEW I, IsSeq(s)
  PROVE  /\ IsSeq(Those(s, I))
         /\ \A k \in 1..Len(Those(s, I)) : \E i \in 1..Len(s) : i \in I /\ Those(s, I)[k] = s[i]
         /\ \A i \in 1..Len(s) : i \in I => \E k \in 1..Len(Those(s, I)) : Those(s, I)[k] = s[i]
<1> DEFINE n == Len(s)
<1>1. PICK kept : KeptBy(s, I, kept) /\ Those(s, I) = kept[n]
  BY ThoseIsKept
<1>2. n \in Nat
  BY SeqFacts
<1>3. /\ kept[0] = <<>>
      /\ \A m \in 1..n : kept[m] = IF m \in I THEN Append(kept[m - 1], s[m]) ELSE kept[m - 1]
  <2>1. \A m \in 0..n : kept[m] = IF m = 0 THEN <<>>
                                  ELSE IF m \in I THEN Append(kept[m - 1], s[m]) ELSE kept[m - 1]
    BY <1>1 DEF KeptBy
  <2> HIDE DEF n
  <2>2. QED
    BY <2>1, <1>2
<1> HIDE DEF n
<1> DEFINE From(t, m) == /\ IsSeq(t)
                         /\ \A k \in 1..Len(t) : \E i \in 1..m : i \in I /\ t[k] = s[i]
                         /\ \A i \in 1..m : i \in I => \E k \in 1..Len(t) : t[k] = s[i]
           G == {m \in 0..n : From(kept[m], m)}
<1>4. 0 \in G
  BY <1>2, <1>3, EmptyIsSeq
<1>5. ASSUME NEW m \in 0..(n - 1), m \in G PROVE m + 1 \in G
  <2> DEFINE t == kept[m]
             u == kept[m + 1]
  <2>1. m + 1 \in 1..n /\ (m + 1) - 1 = m /\ m + 1 \in 0..n /\ m \in Nat
    BY <1>2
  <2>2. From(t, m)
    BY <1>5
  <2>3. u = IF m + 1 \in I THEN Append(t, s[m + 1]) ELSE t
    BY <1>3, <2>1
  <2> HIDE DEF t, u
  <2>4. Len(t) \in Nat
    BY <2>2, SeqFacts
  <2>5. CASE m + 1 \notin I
    <3>1. \A i \in 1..(m + 1) : i \in I => i \in 1..m
      BY <2>1, <2>5
    <3>2. \A i \in 1..m : i \in 1..(m + 1)
      BY <2>1
    <3>3. From(u, m + 1)
      BY <2>2, <2>3, <2>5, <3>1, <3>2
    <3>4. QED
      BY <2>1, <3>3 DEF u
  <2>6. CASE m + 1 \in I
    <3>1. /\ IsSeq(u) /\ Len(u) = Len(t) + 1
          /\ \A k \in 1..Len(t) : u[k] = t[k]
          /\ u[Len(t) + 1] = s[m + 1]
      BY <2>2, <2>3, <2>6, Appended
    <3>2. ASSUME NEW k \in 1..Len(u) PROVE \E i \in 1..(m + 1) : i \in I /\ u[k] = s[i]
      <4>1. CASE k = Len(t) + 1
        BY <4>1, <3>1, <2>1, <2>6
      <4>2. CASE k # Len(t) + 1
        <5>1. k \in 1..Len(t)
          BY <4>2, <3>1, <2>4
        <5>2. PICK i \in 1..m : i \in I /\ t[k] = s[i]
          BY <5>1, <2>2
        <5>3. i \in 1..(m + 1)
          BY <2>1
        <5>4. QED
          BY <5>1, <5>2, <5>3, <3>1
      <4>3. QED
        BY <4>1, <4>2
    <3>3. ASSUME NEW i \in 1..(m + 1), i \in I PROVE \E k \in 1..Len(u) : u[k] = s[i]
      <4>1. CASE i = m + 1
        <5>1. Len(t) + 1 \in 1..Len(u)
          BY <3>1, <2>4
        <5>2. QED
          BY <4>1, <5>1, <3>1
      <4>2. CASE i # m + 1
        <5>1. i \in 1..m
          BY <4>2, <2>1
        <5>2. PICK k \in 1..Len(t) : t[k] = s[i]
          BY <5>1, <3>3, <2>2
        <5>3. k \in 1..Len(u)
          BY <3>1, <2>4
        <5>4. QED
          BY <5>2, <5>3, <3>1
      <4>3. QED
        BY <4>1, <4>2
    <3>4. From(u, m + 1)
      BY <3>1, <3>2, <3>3
    <3>5. QED
      BY <2>1, <3>4 DEF u
  <2>7. QED
    BY <2>5, <2>6
<1> HIDE DEF G
<1>6. 0..n \subseteq G
  BY <1>2, <1>4, <1>5, BoundedInduction
<1>7. From(kept[n], n)
  BY <1>2, <1>6 DEF G
<1>8. QED
  BY <1>1, <1>7 DEF n

\* Two sequences that agree where something is kept, and the second of which goes on with
\* what is not kept, leave the same.
LEMMA SameThose ==
  ASSUME NEW s, NEW t, IsSeq(s), IsSeq(t), Len(s) <= Len(t), NEW I, NEW J,
         \A i \in 1..Len(s) : (i \in I <=> i \in J) /\ (i \in I => s[i] = t[i]),
         \A i \in 1..Len(t) : i \in J => i \in 1..Len(s)
  PROVE  Those(s, I) = Those(t, J)
<1> DEFINE n == Len(s)
           k == Len(t)
<1>1. PICK a : /\ a[0] = <<>>
               /\ \A m \in 1..n : a[m] = IF m \in I THEN Append(a[m - 1], s[m]) ELSE a[m - 1]
               /\ Those(s, I) = a[n]
  BY ThoseInSteps
<1>2. PICK b : /\ b[0] = <<>>
               /\ \A m \in 1..k : b[m] = IF m \in J THEN Append(b[m - 1], t[m]) ELSE b[m - 1]
               /\ Those(t, J) = b[k]
  BY ThoseInSteps
<1>3. n \in Nat /\ k \in Nat /\ n <= k
  BY SeqFacts
<1>4. /\ \A i \in 1..n : (i \in I <=> i \in J) /\ (i \in I => s[i] = t[i])
      /\ \A i \in 1..k : i \in J => i \in 1..n
  OBVIOUS
<1> HIDE DEF n, k
<1> DEFINE At(m) == IF m <= n THEN m ELSE n
           G == {m \in 0..k : b[m] = a[At(m)]}
<1>5. 0 \in G
  BY <1>1, <1>2, <1>3
<1>6. ASSUME NEW m \in 0..(k - 1), m \in G PROVE m + 1 \in G
  <2>1. m + 1 \in 1..k /\ (m + 1) - 1 = m /\ m + 1 \in 0..k /\ m \in Nat
    BY <1>3
  <2>2. b[m + 1] = IF m + 1 \in J THEN Append(b[m], t[m + 1]) ELSE b[m]
    BY <1>2, <2>1
  <2>3. b[m] = a[At(m)]
    BY <1>6
  <2>4. CASE m + 1 <= n
    <3>1. m + 1 \in 1..n /\ At(m) = m /\ At(m + 1) = m + 1
      BY <1>3, <2>1, <2>4
    <3>2. a[m + 1] = IF m + 1 \in I THEN Append(a[m], s[m + 1]) ELSE a[m]
      BY <1>1, <2>1, <3>1
    <3>3. (m + 1 \in I <=> m + 1 \in J) /\ (m + 1 \in I => s[m + 1] = t[m + 1])
      BY <1>4, <3>1
    <3> HIDE DEF At
    <3>4. b[m + 1] = a[At(m + 1)]
      BY <2>2, <2>3, <3>1, <3>2, <3>3
    <3>5. QED
      BY <2>1, <3>4
  <2>5. CASE ~(m + 1 <= n)
    <3>1. m + 1 \notin J /\ At(m) = n /\ At(m + 1) = n
      BY <1>3, <1>4, <2>1, <2>5
    <3> HIDE DEF At
    <3>2. b[m + 1] = a[At(m + 1)]
      BY <2>2, <2>3, <3>1
    <3>3. QED
      BY <2>1, <3>2
  <2>6. QED
    BY <2>4, <2>5
<1> HIDE DEF G
<1>7. 0..k \subseteq G
  BY <1>3, <1>5, <1>6, BoundedInduction
<1>8. k \in G /\ At(k) = n
  BY <1>3, <1>7
<1>9. b[k] = a[n]
  BY <1>8 DEF G
<1>10. QED
  BY <1>1, <1>2, <1>9

\* Nothing is kept of the empty set of positions ...
LEMMA NoneKept ==
  ASSUME NEW s, NEW I, IsSeq(s), \A i \in 1..Len(s) : i \notin I
  PROVE  Those(s, I) = <<>>
<1>1. /\ IsSeq(Those(s, I))
      /\ \A k \in 1..Len(Those(s, I)) : \E i \in 1..Len(s) : i \in I /\ Those(s, I)[k] = s[i]
  BY ThoseAreElements
<1>2. Len(Those(s, I)) \in Nat /\ \A k \in 1..Len(Those(s, I)) : FALSE
  BY <1>1, SeqFacts
<1>3. Len(Those(s, I)) = 0
  <2> DEFINE l == Len(Those(s, I))
  <2>1. l \in Nat /\ \A k \in 1..l : FALSE
    BY <1>2
  <2> HIDE DEF l
  <2>2. l = 0
    BY <2>1
  <2>3. QED
    BY <2>2 DEF l
<1>4. QED
  BY <1>1, <1>3, EmptyOnly

\* ... and everything of all.
LEMMA AllKept ==
  ASSUME NEW s, NEW I, IsSeq(s), \A i \in 1..Len(s) : i \in I
  PROVE  Those(s, I) = s
<1> DEFINE n == Len(s)
<1>1. PICK a : /\ a[0] = <<>>
               /\ \A m \in 1..n : a[m] = IF m \in I THEN Append(a[m - 1], s[m]) ELSE a[m - 1]
               /\ \A m \in 0..n : IsSeq(a[m])
               /\ Those(s, I) = a[n]
  BY ThoseInSteps
<1>2. n \in Nat /\ \A m \in 1..n : m \in I
  BY SeqFacts
<1> HIDE DEF n
<1> DEFINE G == {m \in 0..n : Len(a[m]) = m /\ \A i \in 1..m : a[m][i] = s[i]}
<1>3. 0 \in G
  BY <1>1, <1>2, EmptyIsSeq
<1>4. ASSUME NEW m \in 0..(n - 1), m \in G PROVE m + 1 \in G
  <2>1. m + 1 \in 1..n /\ (m + 1) - 1 = m /\ m + 1 \in 0..n /\ m \in 0..n /\ m \in Nat
    BY <1>2
  <2>2. a[m + 1] = Append(a[m], s[m + 1]) /\ IsSeq(a[m])
    BY <1>1, <1>2, <2>1
  <2>3. Len(a[m]) = m /\ \A i \in 1..m : a[m][i] = s[i]
    BY <1>4
  <2>4. /\ Len(a[m + 1]) = m + 1
        /\ \A i \in 1..m : a[m + 1][i] = a[m][i]
        /\ a[m + 1][m + 1] = s[m + 1]
    BY <2>2, <2>3, Appended
  <2>5. \A i \in 1..(m + 1) : a[m + 1][i] = s[i]
    BY <2>1, <2>3, <2>4
  <2>6. QED
    BY <2>1, <2>4, <2>5
<1> HIDE DEF G
<1>5. 0..n \subseteq G
  BY <1>2, <1>3, <1>4, BoundedInduction
<1>6. IsSeq(a[n]) /\ Len(a[n]) = n /\ \A i \in 1..n : a[n][i] = s[i]
  BY <1>1, <1>2, <1>5 DEF G
<1>7. QED
  BY <1>1, <1>6, SameSeq DEF n

\* What is kept of two joined sequences is what is kept of the one and then of the other.
LEMMA ThoseOfTwo ==
  ASSUME NEW a, NEW b, IsSeq(a), IsSeq(b), NEW I, NEW J, NEW K,
         \A i \in 1..Len(a) : i \in K <=> i \in I,
         \A j \in 1..Len(b) : Len(a) + j \in K <=> j \in J
  PROVE  Those(a \o b, K) = Those(a, I) \o Those(b, J)
<1> DEFINE c == a \o b
           n == Len(a)
           k == Len(b)
<1>1. n \in Nat /\ k \in Nat
  BY SeqFacts
<1>2. /\ IsSeq(c) /\ Len(c) = n + k
      /\ \A i \in 1..n : c[i] = a[i]
      /\ \A i \in 1..k : c[n + i] = b[i]
  BY Joined
<1> HIDE DEF c
<1>3. PICK x : /\ x[0] = <<>>
               /\ \A m \in 1..n : x[m] = IF m \in I THEN Append(x[m - 1], a[m]) ELSE x[m - 1]
               /\ \A m \in 0..n : IsSeq(x[m])
               /\ Those(a, I) = x[n]
  BY ThoseInSteps
<1>4. PICK y : /\ y[0] = <<>>
               /\ \A m \in 1..k : y[m] = IF m \in J THEN Append(y[m - 1], b[m]) ELSE y[m - 1]
               /\ \A m \in 0..k : IsSeq(y[m])
               /\ Those(b, J) = y[k]
  BY ThoseInSteps
<1>5. PICK z : /\ z[0] = <<>>
               /\ \A m \in 1..(n + k) : z[m] = IF m \in K THEN Append(z[m - 1], c[m]) ELSE z[m - 1]
               /\ Those(c, K) = z[n + k]
  BY <1>2, ThoseInSteps
<1>6. /\ \A i \in 1..n : i \in K <=> i \in I
      /\ \A j \in 1..k : n + j \in K <=> j \in J
  OBVIOUS
<1> HIDE DEF n, k
<1> DEFINE G == {m \in 0..n : z[m] = x[m]}
           H == {m \in 0..k : z[n + m] = x[n] \o y[m]}
<1>7. 0 \in G
  BY <1>1, <1>3, <1>5
<1>8. ASSUME NEW m \in 0..(n - 1), m \in G PROVE m + 1 \in G
  <2>1. m + 1 \in 1..n /\ (m + 1) - 1 = m /\ m + 1 \in 0..n /\ m + 1 \in 1..(n + k)
    BY <1>1
  <2>2. z[m + 1] = IF m + 1 \in K THEN Append(z[m], c[m + 1]) ELSE z[m]
    BY <1>5, <2>1
  <2>3. x[m + 1] = IF m + 1 \in I THEN Append(x[m], a[m + 1]) ELSE x[m]
    BY <1>3, <2>1
  <2>4. (m + 1 \in K <=> m + 1 \in I) /\ c[m + 1] = a[m + 1]
    BY <1>2, <1>6, <2>1
  <2>5. z[m] = x[m]
    BY <1>8
  <2>6. z[m + 1] = x[m + 1]
    BY <2>2, <2>3, <2>4, <2>5
  <2>7. QED
    BY <2>1, <2>6
<1> HIDE DEF G
<1>9. 0..n \subseteq G
  BY <1>1, <1>7, <1>8, BoundedInduction
<1>10. 0 \in H
  <2>1. z[n] = x[n] /\ IsSeq(x[n])
    BY <1>1, <1>3, <1>9 DEF G
  <2>2. x[n] \o <<>> = x[n]
    BY <2>1, JoinedToNone
  <2>3. n + 0 = n /\ 0 \in 0..k
    BY <1>1
  <2>4. QED
    BY <1>4, <2>1, <2>2, <2>3
<1>11. ASSUME NEW m \in 0..(k - 1), m \in H PROVE m + 1 \in H
  <2>1. /\ m + 1 \in 1..k /\ (m + 1) - 1 = m /\ m + 1 \in 0..k /\ m \in 0..k
        /\ n + (m + 1) \in 1..(n + k) /\ (n + (m + 1)) - 1 = n + m
    BY <1>1
  <2>2. z[n + (m + 1)] = IF n + (m + 1) \in K THEN Append(z[n + m], c[n + (m + 1)]) ELSE z[n + m]
    BY <1>5, <2>1
  <2>3. y[m + 1] = IF m + 1 \in J THEN Append(y[m], b[m + 1]) ELSE y[m]
    BY <1>4, <2>1
  <2>4. (n + (m + 1) \in K <=> m + 1 \in J) /\ c[n + (m + 1)] = b[m + 1]
    BY <1>2, <1>6, <2>1
  <2>5. z[n + m] = x[n] \o y[m]
    BY <1>11
  <2>6. IsSeq(x[n]) /\ IsSeq(y[m])
    BY <1>1, <1>3, <1>4, <2>1
  <2>7. AppendedLast(x[n], y[m], b[m + 1])
    BY <2>6, AppendJoined
  <2>8. z[n + (m + 1)] = x[n] \o y[m + 1]
    BY <2>2, <2>3, <2>4, <2>5, <2>7 DEF AppendedLast
  <2>9. QED
    BY <2>1, <2>8
<1> HIDE DEF H
<1>12. 0..k \subseteq H
  BY <1>1, <1>10, <1>11, BoundedInduction
<1>13. z[n + k] = x[n] \o y[k]
  <2>1. k \in H
    BY <1>1, <1>12
  <2>2. QED
    BY <2>1 DEF H
<1>14. QED
  BY <1>3, <1>4, <1>5, <1>13 DEF c

-----------------------------------------------------------------------------
(* Folds: the library folds over the set of positions, largest first       *)

\* The greatest member, which a fold takes first.
LEMMA MaxOfTop ==
  ASSUME NEW m \in Nat, NEW t \in SUBSET (1..(m + 1)), m + 1 \in t
  PROVE  Max(t) = m + 1 /\ t \ {m + 1} \in SUBSET (1..m)
<1>1. \A y \in t : m + 1 >= y
  OBVIOUS
<1>2. \A x \in t : (\A y \in t : x >= y) => x = m + 1
  OBVIOUS
<1>3. Max(t) = m + 1
  BY <1>1, <1>2 DEF Max
<1>4. QED
  BY <1>3

\* A set of positions without the last one is one of fewer.
LEMMA WithoutMax ==
  ASSUME NEW m \in Nat, NEW t \in SUBSET (1..(m + 1)), m + 1 \notin t
  PROVE  t \in SUBSET (1..m) /\ t \ {Max(t)} \in SUBSET (1..m) /\ m + 1 \notin t \ {Max(t)}
<1>1. t \subseteq 1..m
  OBVIOUS
<1>2. QED
  BY <1>1

\* What a fold over the first k positions takes first.
LEMMA UpTo ==
  ASSUME NEW n \in Nat, NEW k \in 1..n
  PROVE  Max(1..k) = k /\ (1..k) \ {k} = 1..(k - 1) /\ 1..k # {} /\ 1..k \in SUBSET (1..n)
<1>1. k - 1 \in Nat /\ 1..k \in SUBSET (1..((k - 1) + 1)) /\ (k - 1) + 1 \in 1..k
  OBVIOUS
<1>2. Max(1..k) = (k - 1) + 1
  BY <1>1, MaxOfTop
<1>3. QED
  BY <1>2

-----------------------------------------------------------------------------
(* What is stored is sound                                                 *)

\* RepairActive chooses a live node, or none.
LEMMA RepairIsLive ==
  ASSUME NEW nodes, NEW id
  PROVE  RepairActive(nodes, id) # NoId => Live(nodes, RepairActive(nodes, id))
<1>1. CASE Live(nodes, id)
  BY <1>1 DEF RepairActive
<1>2. CASE ~Live(nodes, id)
  <2>1. RepairActive(nodes, id) = FirstLive(nodes)
    BY <1>2 DEF RepairActive
  <2>2. CASE \E i \in DOMAIN nodes : IsFirstLive(nodes, i)
    <3>1. PICK i \in DOMAIN nodes :
            IsFirstLive(nodes, i) /\ FirstLive(nodes) = nodes[i].id
      BY <2>2 DEF FirstLive
    <3>2. QED
      BY <2>1, <3>1 DEF IsFirstLive, Live
  <2>3. CASE ~ \E i \in DOMAIN nodes : IsFirstLive(nodes, i)
    BY <2>1, <2>3 DEF FirstLive
  <2>4. QED
    BY <2>2, <2>3
<1>3. QED
  BY <1>1, <1>2

\* NormalizeNodes changes names only.
LEMMA NodesKept ==
  ASSUME NEW nodes
  PROVE  /\ DOMAIN NormalizeNodes(nodes) = DOMAIN nodes
         /\ \A i \in DOMAIN nodes :
              /\ NormalizeNodes(nodes)[i].id = nodes[i].id
              /\ NormalizeNodes(nodes)[i].source = nodes[i].source
              /\ NormalizeNodes(nodes)[i].out = nodes[i].out
              /\ NormalizeNodes(nodes)[i].stale = nodes[i].stale
BY DEF NormalizeNodes, NormalizeNode

\* Normalising does not change how many nodes a subscription has.
LEMMA CountKept ==
  ASSUME NEW nodes, NEW p, NEW stale
  PROVE  Count(NormalizeNodes(nodes), p, stale) = Count(nodes, p, stale)
<1>1. {i \in DOMAIN NormalizeNodes(nodes) :
         /\ NormalizeNodes(nodes)[i].source = p
         /\ NormalizeNodes(nodes)[i].stale = stale}
      = {i \in DOMAIN nodes : nodes[i].source = p /\ nodes[i].stale = stale}
  BY NodesKept
<1>2. QED
  BY <1>1 DEF Count

\* The counters of a subscription are what Count says.
LEMMA CountersTrue ==
  ASSUME NEW subs, NEW nodes
  PROVE  /\ DOMAIN NormalizeSubscriptions(subs, nodes) = DOMAIN subs
         /\ \A p \in DOMAIN subs :
              /\ NormalizeSubscriptions(subs, nodes)[p].live = Count(nodes, p, FALSE)
              /\ NormalizeSubscriptions(subs, nodes)[p].gone = Count(nodes, p, TRUE)
BY DEF NormalizeSubscriptions

\* What passes is stored as a sound document.
LEMMA StoredIsSound ==
  ASSUME NEW next, ~Refused(next), doc' = Normalize(next)
  PROVE  DocumentSound'
<1>1. /\ doc'.nodes = NormalizeNodes(next.nodes)
      /\ doc'.settings = next.settings
      /\ doc'.subs = NormalizeSubscriptions(next.subs, next.nodes)
      /\ doc'.active = IF next.active = NoId THEN NoId
                       ELSE RepairActive(next.nodes, next.active)
  BY DEF Normalize
<1>2. DOMAIN doc'.subs = DOMAIN next.subs
  BY <1>1, CountersTrue
<1>3. ~Refused(doc')
  BY <1>1, <1>2, NodesKept DEF Refused, NodeRefused, Clash, Orphan, Disallowed
<1>4. doc'.active # NoId => Live(doc'.nodes, doc'.active)
  <2>1. doc'.active # NoId => Live(next.nodes, doc'.active)
    BY <1>1, RepairIsLive
  <2>2. QED
    BY <1>1, <2>1, NodesKept DEF Live
<1>5. ASSUME NEW p \in DOMAIN doc'.subs
      PROVE  /\ doc'.subs[p].live = Count(doc'.nodes, p, FALSE)
             /\ doc'.subs[p].gone = Count(doc'.nodes, p, TRUE)
  <2> DEFINE subs == NormalizeSubscriptions(next.subs, next.nodes)
  <2>1. /\ subs[p].live = Count(next.nodes, p, FALSE)
        /\ subs[p].gone = Count(next.nodes, p, TRUE)
    <3>1. p \in DOMAIN next.subs
      BY <1>2
    <3>2. QED
      BY <3>1, CountersTrue
  <2>2. /\ Count(NormalizeNodes(next.nodes), p, FALSE) = Count(next.nodes, p, FALSE)
        /\ Count(NormalizeNodes(next.nodes), p, TRUE) = Count(next.nodes, p, TRUE)
    BY CountKept
  <2>3. doc'.subs[p] = subs[p] /\ doc'.nodes = NormalizeNodes(next.nodes)
    BY <1>1
  <2> HIDE DEF subs
  <2>4. QED
    BY <2>1, <2>2, <2>3
<1>6. QED
  BY <1>3, <1>4, <1>5 DEF DocumentSound

\* Whatever a request applies, a sound document stays one.
LEMMA ApplyKeepsSound ==
  ASSUME NEW next, NEW r, DocumentSound, Apply(next, r)
  PROVE  DocumentSound'
<1>1. CASE Quiet
  BY <1>1 DEF Quiet, DocumentSound
<1>2. CASE ~Refused(next) /\ doc' = Normalize(next)
  BY <1>2, StoredIsSound
<1>3. QED
  BY <1>1, <1>2 DEF Apply

\* Spec => []DocumentSound: what the daemon stores, it can load again.
THEOREM StoreStaysSound == Spec => []DocumentSound
<1>1. Init => DocumentSound
  <2>1. SUFFICES ASSUME NEW s \in Settings \ BadSettings, doc = EmptyDocument(s)
                 PROVE  DocumentSound
    BY DEF Init
  <2>2. doc.nodes = <<>> /\ doc.active = NoId /\ doc.subs = <<>> /\ doc.settings = s
    BY <2>1 DEF EmptyDocument
  <2>3. DOMAIN doc.nodes = {} /\ DOMAIN doc.subs = {}
    BY <2>2
  <2>4. QED
    BY <2>1, <2>2, <2>3 DEF DocumentSound, Refused, Clash
<1>2. DocumentSound /\ [Next]_vars => DocumentSound'
  <2>1. SUFFICES ASSUME DocumentSound, [Next]_vars
                 PROVE  DocumentSound'
    OBVIOUS
  <2>2. CASE UNCHANGED doc
    BY <2>1, <2>2 DEF DocumentSound
  <2>3. CASE \E next, r : Apply(next, r)
    BY <2>1, <2>3, ApplyKeepsSound
  <2>4. CASE ProfileApply
    BY <2>3, <2>4 DEF ProfileApply, Change
  <2>5. CASE ImportNodes
    BY <2>3, <2>5 DEF ImportNodes, Change
  <2>6. CASE ChooseNode
    BY <2>3, <2>6 DEF ChooseNode, Change
  <2>7. CASE ClearActive
    BY <2>3, <2>7 DEF ClearActive, Change
  <2>8. CASE PatchSettings
    BY <2>3, <2>8 DEF PatchSettings, Change
  <2>9. CASE \E node \in Upserts, r \in BOOLEAN : NodeUpsert(node, r)
    BY <2>3, <2>9 DEF NodeUpsert, Change
  <2>10. CASE NodeRemove
    BY <2>3, <2>10 DEF NodeRemove, Change
  <2>11. CASE \E nodes \in Imports : AddChunk(nodes)
    BY <2>2, <2>11 DEF AddChunk, Quiet
  <2>12. CASE CommitBatch
    BY <2>3, <2>12 DEF CommitBatch
  <2>13. CASE BatchExpires \/ StartFetch \/ FetchFails \/ PreviewGone
    BY <2>2, <2>13 DEF BatchExpires, StartFetch, FetchFails, PreviewGone, Quiet
  <2>14. CASE \E p \in Providers : \E feed \in Feeds[p] : Refresh(feed) \/ PutPreview(feed)
    <3>1. PICK feed : Refresh(feed) \/ PutPreview(feed)
      BY <2>14
    <3>2. CASE Refresh(feed)
      BY <2>3, <3>2 DEF Refresh, ApplyFeed
    <3>3. CASE PutPreview(feed)
      BY <2>2, <3>3 DEF PutPreview, Quiet
    <3>4. QED
      BY <3>1, <3>2, <3>3
  <2>15. CASE CommitPreview
    BY <2>3, <2>15 DEF CommitPreview, ApplyFeed
  <2>16. CASE UNCHANGED vars
    BY <2>2, <2>16 DEF vars
  <2>17. QED
    BY <2>1, <2>4, <2>5, <2>6, <2>7, <2>8, <2>9, <2>10, <2>11, <2>12, <2>13,
       <2>14, <2>15, <2>16 DEF Next
<1>3. QED
  BY <1>1, <1>2, PTL DEF Spec

-----------------------------------------------------------------------------
(* An import in chunks                                                     *)

\* A batch whose time has not passed has no chunk of one whose time has.
Chunks == [nodes : {Manual(nodes) : nodes \in Imports}, old : BOOLEAN]

\* A batch has its three fields, its chunks are a sequence, and they are old only once it has expired.
BatchInv ==
  /\ batch = [total |-> batch.total, chunks |-> batch.chunks, expired |-> batch.expired]
  /\ batch.chunks \in Seq(Chunks) /\ batch.expired \in BOOLEAN
  /\ ~batch.expired => \A i \in DOMAIN batch.chunks : ~batch.chunks[i].old

\* An empty batch is fresh.
LEMMA NoBatchIsFresh == ASSUME batch' = NoBatch PROVE BatchInv'
BY DEF BatchInv, NoBatch

\* A chunk joins a fresh batch, or begins one: the store is cleaned up first.
LEMMA AddChunkKeepsFresh ==
  ASSUME BatchInv, NEW nodes \in Imports, AddChunk(nodes)
  PROVE  BatchInv'
<1> DEFINE chunk == [nodes |-> Manual(nodes), old |-> FALSE]
<1>1. batch' = [total |-> TotalChunks, expired |-> FALSE, chunks |-> Append(Batch.chunks, chunk)]
  BY DEF AddChunk
<1>2. chunk \in Chunks /\ ~chunk.old
  BY DEF Chunks
<1>3. Batch.chunks \in Seq(Chunks) /\ \A i \in DOMAIN Batch.chunks : ~Batch.chunks[i].old
  <2>1. CASE batch.expired
    <3>1. Batch.chunks = <<>>
      BY <2>1 DEF Batch, NoBatch
    <3> QED BY <3>1
  <2>2. CASE ~batch.expired
    BY <2>2 DEF Batch, BatchInv
  <2> QED BY <2>1, <2>2
<1> HIDE DEF chunk
<1>4. PICK c : c = Batch.chunks
  OBVIOUS
<1>5. Append(c, chunk) \in Seq(Chunks)
      /\ \A i \in DOMAIN Append(c, chunk) : ~Append(c, chunk)[i].old
  BY <1>2, <1>3, <1>4
<1> QED BY <1>1, <1>4, <1>5 DEF BatchInv

\* Chunks grow old with their batch.
LEMMA BatchExpiresKeepsFresh == ASSUME BatchInv, BatchExpires PROVE BatchInv'
<1>1. PICK c \in Seq(Chunks) : c = batch.chunks
  BY DEF BatchInv
<1>2. batch' = [total |-> batch.total, expired |-> TRUE,
                chunks |-> [i \in DOMAIN c |-> [c[i] EXCEPT !.old = TRUE]]]
  BY <1>1 DEF BatchExpires, BatchInv
<1>3. Len(c) \in Nat /\ DOMAIN c = 1..Len(c) /\ \A i \in 1..Len(c) : c[i] \in Chunks
  BY LenProperties, ElementOfSeq
<1>4. \A i \in 1..Len(c) : [c[i] EXCEPT !.old = TRUE] \in Chunks
  BY <1>3 DEF Chunks
<1>5. [i \in DOMAIN c |-> [c[i] EXCEPT !.old = TRUE]] \in [1..Len(c) -> Chunks]
  BY <1>3, <1>4
<1>6. [i \in DOMAIN c |-> [c[i] EXCEPT !.old = TRUE]] \in Seq(Chunks)
  BY <1>3, <1>5, SeqDef
<1> QED BY <1>2, <1>6 DEF BatchInv

\* A fresh batch stays fresh until its time has passed, at every step.
LEMMA NextKeepsBatchInv == BatchInv /\ [Next]_vars => BatchInv'
<1> SUFFICES ASSUME BatchInv, [Next]_vars PROVE BatchInv'
  OBVIOUS
<1>1. CASE UNCHANGED batch
  BY <1>1 DEF BatchInv
<1>2. CASE ProfileApply \/ ImportNodes \/ ChooseNode \/ ClearActive \/ PatchSettings
  BY <1>1, <1>2 DEF ProfileApply, ImportNodes, ChooseNode, ClearActive, PatchSettings, Change
<1>3. CASE \E node \in Upserts, r \in BOOLEAN : NodeUpsert(node, r)
  BY <1>1, <1>3 DEF NodeUpsert, Change
<1>4. CASE NodeRemove
  BY <1>1, <1>4 DEF NodeRemove, Change
<1>5. CASE \E nodes \in Imports : AddChunk(nodes)
  BY <1>5, AddChunkKeepsFresh
<1>6. CASE CommitBatch
  BY <1>6, NoBatchIsFresh DEF CommitBatch
<1>7. CASE BatchExpires
  BY <1>7, BatchExpiresKeepsFresh
<1>8. CASE StartFetch \/ FetchFails \/ CommitPreview \/ PreviewGone
  BY <1>1, <1>8 DEF StartFetch, FetchFails, CommitPreview, PreviewGone
<1>9. CASE \E p \in Providers : \E feed \in Feeds[p] : Refresh(feed) \/ PutPreview(feed)
  BY <1>1, <1>9 DEF Refresh, PutPreview
<1>10. CASE UNCHANGED vars
  BY <1>1, <1>10 DEF vars
<1> QED BY <1>2, <1>3, <1>4, <1>5, <1>6, <1>7, <1>8, <1>9, <1>10 DEF Next

\* Spec => NoMixedBatch: an import in chunks never brings in chunks that had expired when
\* it began.
THEOREM BatchesStayApart == Spec => NoMixedBatch
<1>1. Init => BatchInv
  BY DEF Init, BatchInv, NoBatch
<1>2. BatchInv => (CommitBatch /\ reload' # "none"
                     => \A i \in DOMAIN batch.chunks : ~batch.chunks[i].old)
  <2>1. CommitBatch /\ BatchInv => ~batch.expired
    BY DEF CommitBatch, Batch, BatchInv
  <2> QED BY <2>1 DEF BatchInv
<1> QED BY <1>1, <1>2, NextKeepsBatchInv, PTL DEF Spec, NoMixedBatch

-----------------------------------------------------------------------------
(* The nodes of others in a list                                           *)

\* The positions of the nodes that are not of the provider.
OtherAt(nodes, p) == {i \in 1..Len(nodes) : nodes[i].source # p}

\* The other nodes are nodes of the list, and of other sources.
LEMMA OthersFacts ==
  ASSUME NEW nodes, IsSeq(nodes), NEW p
  PROVE  /\ Others(nodes, p) = Those(nodes, OtherAt(nodes, p))
         /\ IsSeq(Others(nodes, p))
         /\ \A n \in ToSet(Others(nodes, p)) : n.source # p /\ n \in ToSet(nodes)
         /\ \A i \in 1..Len(nodes) : nodes[i].source # p => nodes[i] \in ToSet(Others(nodes, p))
<1> DEFINE I == OtherAt(nodes, p)
           it == Those(nodes, I)
<1>1. DOMAIN nodes = 1..Len(nodes) /\ \A i \in 1..Len(nodes) : nodes[i] \in ToSet(nodes)
  BY SeqFacts
<1>2. Others(nodes, p) = it
  BY <1>1 DEF Others, OtherAt
<1>3. \A i \in 1..Len(nodes) : i \in I <=> nodes[i].source # p
  BY DEF OtherAt
<1> HIDE DEF I
<1>4. /\ IsSeq(it)
      /\ \A k \in 1..Len(it) : \E i \in 1..Len(nodes) : i \in I /\ it[k] = nodes[i]
      /\ \A i \in 1..Len(nodes) : i \in I => \E k \in 1..Len(it) : it[k] = nodes[i]
  BY ThoseAreElements
<1> HIDE DEF it
<1>5. DOMAIN it = 1..Len(it) /\ \A k \in 1..Len(it) : it[k] \in ToSet(it)
  BY <1>4, SeqFacts
<1>6. ASSUME NEW n \in ToSet(it) PROVE n.source # p /\ n \in ToSet(nodes)
  <2>1. PICK k \in 1..Len(it) : n = it[k]
    BY <1>5 DEF ToSet
  <2>2. PICK i \in 1..Len(nodes) : i \in I /\ it[k] = nodes[i]
    BY <1>4
  <2>3. QED
    BY <1>1, <1>3, <2>1, <2>2
<1>7. ASSUME NEW i \in 1..Len(nodes), nodes[i].source # p PROVE nodes[i] \in ToSet(it)
  BY <1>3, <1>4, <1>5, <1>7
<1>8. QED
  BY <1>2, <1>4, <1>6, <1>7 DEF it, I

\* The other nodes of two joined lists are those of the first and those of the second.
LEMMA OthersOfTwo ==
  ASSUME NEW a, NEW b, IsSeq(a), IsSeq(b), NEW p
  PROVE  Others(a \o b, p) = Others(a, p) \o Others(b, p)
<1> DEFINE I == OtherAt(a, p)
           J == OtherAt(b, p)
           K == OtherAt(a \o b, p)
<1>1. /\ \A i \in 1..Len(a) : i \in K <=> i \in I
      /\ \A j \in 1..Len(b) : Len(a) + j \in K <=> j \in J
  BY Joined, SeqFacts DEF OtherAt
<1> HIDE DEF I, J, K
<1>2. Those(a \o b, K) = Those(a, I) \o Those(b, J)
  BY <1>1, ThoseOfTwo
<1>3. Others(a, p) = Those(a, I) /\ Others(b, p) = Those(b, J)
  BY OthersFacts DEF I, J
<1>4. IsSeq(a \o b)
  BY Joined
<1> DEFINE c == a \o b
<1> HIDE DEF c
<1>5. c = a \o b /\ IsSeq(c)
  BY <1>4 DEF c
<1>6. Others(c, p) = Those(c, OtherAt(c, p))
  BY <1>5, OthersFacts
<1>7. QED
  BY <1>2, <1>3, <1>5, <1>6 DEF K

\* A list of nodes of the provider has no others.
LEMMA OthersOfNone ==
  ASSUME NEW s, IsSeq(s), NEW p, \A i \in 1..Len(s) : s[i].source = p
  PROVE  Others(s, p) = <<>>
<1>1. \A i \in 1..Len(s) : i \notin OtherAt(s, p)
  BY DEF OtherAt
<1>2. QED
  BY <1>1, NoneKept, OthersFacts

\* In a list without a node of the provider all are others.
LEMMA OthersOfAll ==
  ASSUME NEW s, IsSeq(s), NEW p, \A i \in 1..Len(s) : s[i].source # p
  PROVE  Others(s, p) = s
<1>1. \A i \in 1..Len(s) : i \in OtherAt(s, p)
  BY DEF OtherAt
<1>2. QED
  BY <1>1, AllKept, OthersFacts

\* Nodes that change only where they are of the provider, and nodes of the provider that
\* are added, leave the others as they are.
LEMMA OthersStay ==
  ASSUME NEW s, NEW t, IsSeq(s), IsSeq(t), NEW p, Len(s) <= Len(t),
         \A i \in 1..Len(s) : (s[i].source = p /\ t[i].source = p) \/ s[i] = t[i],
         \A i \in 1..Len(t) : t[i].source = p \/ i \in 1..Len(s)
  PROVE  Others(t, p) = Others(s, p)
<1> DEFINE I == OtherAt(s, p)
           J == OtherAt(t, p)
<1>1. Len(s) \in Nat /\ Len(t) \in Nat
  BY SeqFacts
<1>2. \A i \in 1..Len(s) : (i \in I <=> i \in J) /\ (i \in I => s[i] = t[i])
  BY <1>1 DEF OtherAt
<1>3. \A i \in 1..Len(t) : i \in J => i \in 1..Len(s)
  BY DEF OtherAt
<1> HIDE DEF I, J
<1>4. Those(s, I) = Those(t, J)
  BY <1>2, <1>3, SameThose
<1>5. QED
  BY <1>4, OthersFacts DEF I, J

\* The other nodes of two joined lists are those of the first and those of the second.
LEMMA OthersOfGlued ==
  ASSUME NEW a, IsSeq(a), NEW b, IsSeq(b), NEW p
  PROVE  Others(Glued(a, b), p) = Glued(Others(a, p), Others(b, p))
BY OthersOfTwo DEF Glued

-----------------------------------------------------------------------------
(* A merge, node by node                                                   *)

\* Merging nodes one after the other, as a function of the positions that are merged.
Merging(stored, start, nodes, m, g) ==
  g = [t \in SUBSET (1..m) |->
         IF t = {} THEN start ELSE MergeNode(stored, g[t \ {Max(t)}], nodes[Max(t)])]

\* What a merge begins with.
MergeStart(d) == [nodes |-> d.nodes, caller |-> d.nodes, moved |-> FALSE, seen |-> {}, first |-> NoId]

\* What MergeNodes makes of what its loop has come to.
MergeEnd(d, m) ==
  [doc    |-> [d EXCEPT !.nodes = m.nodes,
                        !.active = IF m.first # NoId THEN m.first ELSE RepairActive(m.nodes, @)],
   caller |-> m.caller, moved |-> m.moved]

\* The loop of MergeNodes, step by step.
LEMMA MergeInSteps ==
  ASSUME NEW d, NEW nodes, IsSeq(nodes)
  PROVE  \E merged : /\ merged[0] = MergeStart(d)
                     /\ \A k \in 1..Len(nodes) : merged[k] = MergeNode(d.nodes, merged[k - 1], nodes[k])
                     /\ MergeNodes(d, nodes) = MergeEnd(d, merged[Len(nodes)])
<1> DEFINE stored == d.nodes
           start == MergeStart(d)
           G == {m \in Nat : \E g : Merging(stored, start, nodes, m, g)}
<1> HIDE DEF stored, start
<1>1. 0 \in G
  <2>1. SUBSET (1..0) = {{}}
    OBVIOUS
  <2>2. Merging(stored, start, nodes, 0, [t \in SUBSET (1..0) |-> start])
    BY <2>1 DEF Merging
  <2>3. QED
    BY <2>2
<1>2. ASSUME NEW m \in Nat, m \in G PROVE m + 1 \in G
  <2>1. PICK g : Merging(stored, start, nodes, m, g)
    BY <1>2
  <2> DEFINE h == [t \in SUBSET (1..(m + 1)) |->
                     IF m + 1 \in t THEN MergeNode(stored, g[t \ {m + 1}], nodes[m + 1]) ELSE g[t]]
  <2>2. ASSUME NEW t \in SUBSET (1..(m + 1))
        PROVE  h[t] = IF t = {} THEN start ELSE MergeNode(stored, h[t \ {Max(t)}], nodes[Max(t)])
    <3>1. CASE m + 1 \in t
      <4>1. h[t \ {m + 1}] = g[t \ {m + 1}]
        OBVIOUS
      <4>2. QED
        BY <3>1, <4>1, MaxOfTop
    <3>2. CASE m + 1 \notin t
      <4>1. t \in SUBSET (1..m) /\ t \ {Max(t)} \in SUBSET (1..m) /\ m + 1 \notin t \ {Max(t)}
        BY <3>2, WithoutMax
      <4>2. h[t] = g[t] /\ h[t \ {Max(t)}] = g[t \ {Max(t)}]
        BY <3>2, <4>1
      <4> HIDE DEF h
      <4>3. QED
        BY <2>1, <4>1, <4>2 DEF Merging
    <3>3. QED
      BY <3>1, <3>2
  <2>3. h = [t \in SUBSET (1..(m + 1)) |-> h[t]]
    OBVIOUS
  <2> HIDE DEF h
  <2>4. Merging(stored, start, nodes, m + 1, h)
    BY <2>2, <2>3, Zenon DEF Merging
  <2>5. QED
    BY <2>4
<1> HIDE DEF G
<1>3. \E g : Merging(stored, start, nodes, Len(nodes), g)
  BY <1>1, <1>2, Induction, SeqFacts DEF G
<1> DEFINE n == Len(nodes)
           it == CHOOSE g : Merging(stored, start, nodes, n, g)
           merged == [k \in 0..n |-> it[1..k]]
<1>4. Merging(stored, start, nodes, n, it)
  BY <1>3
<1>5. MergeNodes(d, nodes) = MergeEnd(d, it[1..n])
  <2>1. DOMAIN nodes = 1..n
    BY SeqFacts
  <2> DEFINE fold == FoldLeft(LAMBDA acc, x : MergeNode(stored, acc, x), start, nodes)
  <2>2. fold = it[1..n]
    BY <2>1 DEF FoldLeft, MapThenFoldSet, Merging
  <2>3. MergeNodes(d, nodes) = MergeEnd(d, fold)
    BY DEF MergeNodes, MergeEnd, MergeStart, stored, start
  <2> HIDE DEF fold, it, n
  <2>4. QED
    BY <2>2, <2>3
<1>6. n \in Nat
  BY SeqFacts
<1> HIDE DEF n, it
<1>7. merged[0] = start /\ merged[n] = it[1..n]
  BY <1>4, <1>6 DEF Merging
<1>8. ASSUME NEW k \in 1..n PROVE merged[k] = MergeNode(stored, merged[k - 1], nodes[k])
  <2>1. Max(1..k) = k /\ (1..k) \ {k} = 1..(k - 1) /\ 1..k # {} /\ 1..k \in SUBSET (1..n)
    BY <1>6, UpTo
  <2>2. it[1..k] = MergeNode(stored, it[1..(k - 1)], nodes[k])
    BY <1>4, <2>1 DEF Merging
  <2>3. QED
    BY <2>2, <1>6
<1> HIDE DEF merged
<1>9. QED
  BY <1>5, <1>7, <1>8 DEF n, stored, start

\* The position of the last node with a key.
WithKey(s, key) == LastWhere(s, LAMBDA n : NodeMatchKey(n) = key)

\* The last node with a key has that key, and there is one when any has it.
LEMMA LastWithKey ==
  ASSUME NEW s, IsSeq(s), NEW key
  PROVE  /\ WithKey(s, key) = 0
              \/ (WithKey(s, key) \in 1..Len(s) /\ NodeMatchKey(s[WithKey(s, key)]) = key)
         /\ key \in Keys(s) => WithKey(s, key) # 0
<1> DEFINE I == {i \in DOMAIN s : NodeMatchKey(s[i]) = key}
           at == IF I = {} THEN 0 ELSE CHOOSE i \in I : \A j \in I : j <= i
<1>1. Len(s) \in Nat /\ DOMAIN s = 1..Len(s)
  BY SeqFacts
<1>2. WithKey(s, key) = at
  BY DEF WithKey, LastWhere
<1>3. CASE I = {}
  <2>1. key \notin Keys(s)
    BY <1>3 DEF Keys
  <2>2. QED
    BY <1>2, <1>3, <2>1
<1>4. CASE I # {}
  <2>1. I \subseteq 1..Len(s)
    BY <1>1
  <2> DEFINE l == CHOOSE i \in I : \A j \in I : j <= i
  <2>2. \E i \in I : \A j \in I : j <= i
    <3> HIDE DEF I
    <3>1. QED
      BY <1>1, <1>4, <2>1, LastPosition
  <2>3. l \in I
    BY <2>2
  <2>4. at = l
    BY <1>4
  <2>5. at # 0
    <3> HIDE DEF at, l, I
    <3>1. QED
      BY <1>1, <2>1, <2>3, <2>4
  <2>6. QED
    BY <1>1, <1>2, <2>3, <2>4, <2>5
<1>5. QED
  BY <1>3, <1>4

\* A key says whose node it is.
LEMMA KeyNamesSource ==
  ASSUME NEW a, NEW b, NodeMatchKey(a) = NodeMatchKey(b)
  PROVE  a.source = b.source
<1>1. \A n : NodeMatchKey(n)[1] = n.source
  BY DEF NodeMatchKey
<1>2. QED
  BY <1>1

\* Nodes that were merged leave a sequence.
LEMMA MergeLeavesSeq ==
  ASSUME NEW stored, NEW m, NEW node, IsSeq(m.nodes)
  PROVE  IsSeq(MergeNode(stored, m, node).nodes)
<1> DEFINE key == NodeMatchKey(node)
           at == LastWhere(stored, LAMBDA n : NodeMatchKey(n) = key)
           old == m.nodes[at]
           new == IF at # 0
                    THEN [node EXCEPT !.id = old.id, !.name = IF old.name = NoName THEN @ ELSE old.name]
                    ELSE [node EXCEPT !.id = UniqueImportedNodeId(@, Ids(m.nodes))]
<1>1. MergeNode(stored, m, node).nodes =
        IF key \in m.seen THEN m.nodes
        ELSE IF at # 0 THEN [m.nodes EXCEPT ![at] = new] ELSE Append(m.nodes, new)
  BY DEF MergeNode
<1> DEFINE s == m.nodes
<1>2. IsSeq(s)
  OBVIOUS
<1> HIDE DEF key, at, new, s
<1>3. IsSeq([s EXCEPT ![at] = new])
  BY <1>2, Changed
<1>4. IsSeq(Append(s, new))
  BY <1>2, Appended
<1>5. QED
  BY <1>1, <1>2, <1>3, <1>4 DEF s

\* t is s, but for the nodes of the provider.
ButFor(p, s, t) ==
  /\ IsSeq(t) /\ Len(s) <= Len(t)
  /\ \A i \in 1..Len(s) : (s[i].source = p /\ t[i].source = p) \/ s[i] = t[i]
  /\ \A i \in 1..Len(t) : t[i].source = p \/ i \in 1..Len(s)
  /\ \A i \in 1..Len(t) : IsNode(t[i])

\* A node with another id is a node of the same source ...
LEMMA NodeWithId ==
  ASSUME NEW n, IsNode(n), NEW id
  PROVE  IsNode([n EXCEPT !.id = id]) /\ [n EXCEPT !.id = id].source = n.source
<1> DEFINE made == [id |-> id, source |-> n.source, link |-> n.link, out |-> n.out,
                    name |-> n.name, stale |-> n.stale]
<1>1. [n EXCEPT !.id = id] = made
  BY DEF IsNode
<1>2. IsNode(made) /\ made.source = n.source
  BY DEF IsNode
<1>3. QED
  BY <1>1, <1>2

\* ... and so is one with another name, ...
LEMMA NodeWithName ==
  ASSUME NEW n, IsNode(n), NEW name
  PROVE  IsNode([n EXCEPT !.name = name]) /\ [n EXCEPT !.name = name].source = n.source
<1> DEFINE made == [id |-> n.id, source |-> n.source, link |-> n.link, out |-> n.out,
                    name |-> name, stale |-> n.stale]
<1>1. [n EXCEPT !.name = name] = made
  BY DEF IsNode
<1>2. IsNode(made) /\ made.source = n.source
  BY DEF IsNode
<1>3. QED
  BY <1>1, <1>2

\* ... and one that is marked stale, or not.
LEMMA NodeWithStale ==
  ASSUME NEW n, IsNode(n), NEW stale
  PROVE  IsNode([n EXCEPT !.stale = stale]) /\ [n EXCEPT !.stale = stale].source = n.source
<1> DEFINE made == [id |-> n.id, source |-> n.source, link |-> n.link, out |-> n.out,
                    name |-> n.name, stale |-> stale]
<1>1. [n EXCEPT !.stale = stale] = made
  BY DEF IsNode
<1>2. IsNode(made) /\ made.source = n.source
  BY DEF IsNode
<1>3. QED
  BY <1>1, <1>2

\* A node that is given to a provider is one of it.
LEMMA NodeOfSource ==
  ASSUME NEW n, IsNode(n), NEW p
  PROVE  IsNode([n EXCEPT !.source = p]) /\ [n EXCEPT !.source = p].source = p
<1> DEFINE made == [id |-> n.id, source |-> p, link |-> n.link, out |-> n.out,
                    name |-> n.name, stale |-> n.stale]
<1>1. [n EXCEPT !.source = p] = made
  BY DEF IsNode
<1>2. IsNode(made) /\ made.source = p
  BY DEF IsNode
<1>3. QED
  BY <1>1, <1>2

\* Merging a node of the provider changes or adds one of the provider.
LEMMA MergeKeepsOthers ==
  ASSUME NEW stored, IsSeq(stored), NEW p, NEW m, ButFor(p, stored, m.nodes),
         NEW node, IsNode(node), node.source = p
  PROVE  ButFor(p, stored, MergeNode(stored, m, node).nodes)
<1> DEFINE key == NodeMatchKey(node)
           at == LastWhere(stored, LAMBDA n : NodeMatchKey(n) = key)
           old == m.nodes[at]
           kept == [node EXCEPT !.id = old.id, !.name = IF old.name = NoName THEN @ ELSE old.name]
           added == [node EXCEPT !.id = UniqueImportedNodeId(@, Ids(m.nodes))]
           s == m.nodes
<1>1. MergeNode(stored, m, node).nodes =
        IF key \in m.seen THEN s
        ELSE IF at # 0 THEN [s EXCEPT ![at] = kept] ELSE Append(s, added)
  BY DEF MergeNode
<1>2. IsNode(kept) /\ kept.source = p /\ IsNode(added) /\ added.source = p
  <2> DEFINE id == old.id
             name == IF old.name = NoName THEN node.name ELSE old.name
             other == UniqueImportedNodeId(node.id, Ids(m.nodes))
             changed == [node EXCEPT !.id = id]
  <2>1. kept = [changed EXCEPT !.name = name]
    BY DEF IsNode
  <2>2. added = [node EXCEPT !.id = other]
    OBVIOUS
  <2> HIDE DEF id, name, other, kept, added
  <2>3. IsNode(changed) /\ changed.source = p
    BY NodeWithId
  <2> HIDE DEF changed
  <2>4. QED
    BY <2>1, <2>2, <2>3, NodeWithId, NodeWithName
<1>3. at = 0 \/ (at \in 1..Len(stored) /\ stored[at].source = p)
  <2>1. at = 0 \/ (at \in 1..Len(stored) /\ NodeMatchKey(stored[at]) = NodeMatchKey(node))
    BY LastWithKey DEF WithKey
  <2> HIDE DEF at
  <2>2. QED
    BY <2>1, KeyNamesSource
<1>4. ButFor(p, stored, s)
  OBVIOUS
<1>5. Len(stored) \in Nat /\ Len(s) \in Nat /\ Len(stored) <= Len(s) /\ IsSeq(s)
  BY <1>4, SeqFacts DEF ButFor
<1> HIDE DEF key, at, kept, added, s
<1>6. CASE at # 0
  <2> DEFINE t == [s EXCEPT ![at] = kept]
  <2>1. at \in 1..Len(s)
    BY <1>3, <1>5, <1>6
  <2>2. IsSeq(t) /\ Len(t) = Len(s)
    BY <1>5, Changed
  <2>3. DOMAIN s = 1..Len(s)
    BY <1>5, SeqFacts
  <2>4. t[at] = kept /\ \A i \in 1..Len(s) : i # at => t[i] = s[i]
    BY <2>1, <2>3
  <2> HIDE DEF t
  <2>5. ButFor(p, stored, t)
    <3>1. /\ \A i \in 1..Len(stored) : (stored[i].source = p /\ s[i].source = p) \/ stored[i] = s[i]
          /\ \A i \in 1..Len(s) : s[i].source = p \/ i \in 1..Len(stored)
          /\ \A i \in 1..Len(s) : IsNode(s[i])
      BY <1>4 DEF ButFor
    <3>2. \A i \in 1..Len(stored) : i \in 1..Len(s)
      BY <1>5
    <3>3. stored[at].source = p /\ kept.source = p /\ IsNode(kept)
      BY <1>2, <1>3, <1>6
    <3>4. \A i \in 1..Len(stored) : (stored[i].source = p /\ t[i].source = p) \/ stored[i] = t[i]
      BY <2>4, <3>1, <3>2, <3>3
    <3>5. \A i \in 1..Len(s) : (t[i].source = p \/ i \in 1..Len(stored)) /\ IsNode(t[i])
      BY <2>4, <3>1, <3>3
    <3>6. QED
      BY <1>5, <2>2, <3>4, <3>5 DEF ButFor
  <2>6. QED
    BY <1>1, <1>4, <1>6, <2>5 DEF t, s
<1>7. CASE at = 0
  <2> DEFINE t == Append(s, added)
  <2>1. /\ IsSeq(t) /\ Len(t) = Len(s) + 1
        /\ \A i \in 1..Len(s) : t[i] = s[i]
        /\ t[Len(s) + 1] = added
    BY <1>5, Appended
  <2> HIDE DEF t
  <2>2. \A i \in 1..Len(t) : i \in 1..Len(s) \/ i = Len(s) + 1
    BY <1>5, <2>1
  <2>3. \A i \in 1..Len(stored) : i \in 1..Len(s)
    BY <1>5
  <2>4. Len(stored) <= Len(t)
    BY <1>5, <2>1
  <2>5. ButFor(p, stored, t)
    BY <1>2, <1>4, <2>1, <2>2, <2>3, <2>4 DEF ButFor
  <2>6. QED
    BY <1>1, <1>4, <1>7, <2>5 DEF t, s
<1>8. QED
  BY <1>6, <1>7

\* The nodes of the document that a merge ends with.
LEMMA MergeEndNodes ==
  ASSUME NEW d, "nodes" \in DOMAIN d, NEW m
  PROVE  MergeEnd(d, m).doc.nodes = m.nodes
<1> DEFINE a == m.nodes
           b == IF m.first # NoId THEN m.first ELSE RepairActive(m.nodes, d.active)
<1>1. MergeEnd(d, m).doc = [d EXCEPT !.nodes = a, !.active = b]
  BY DEF MergeEnd
<1> HIDE DEF a, b
<1>2. [d EXCEPT !.nodes = a, !.active = b].nodes = a
  OBVIOUS
<1>3. QED
  BY <1>1, <1>2 DEF a

\* All merged nodes leave a sequence.
LEMMA MergesLeaveSeq ==
  ASSUME NEW d, IsSeq(d.nodes), "nodes" \in DOMAIN d, NEW nodes, IsSeq(nodes)
  PROVE  IsSeq(MergeNodes(d, nodes).doc.nodes)
<1> DEFINE n == Len(nodes)
<1>1. PICK merged : /\ merged[0] = MergeStart(d)
                    /\ \A k \in 1..n : merged[k] = MergeNode(d.nodes, merged[k - 1], nodes[k])
                    /\ MergeNodes(d, nodes) = MergeEnd(d, merged[n])
  BY MergeInSteps
<1>2. n \in Nat
  BY SeqFacts
<1> HIDE DEF n
<1> DEFINE G == {k \in 0..n : IsSeq(merged[k].nodes)}
<1>3. 0 \in G
  BY <1>1, <1>2 DEF MergeStart
<1>4. ASSUME NEW k \in 0..(n - 1), k \in G PROVE k + 1 \in G
  <2>1. k + 1 \in 1..n /\ (k + 1) - 1 = k /\ k + 1 \in 0..n
    BY <1>2
  <2>2. merged[k + 1] = MergeNode(d.nodes, merged[k], nodes[k + 1])
    BY <1>1, <2>1
  <2>3. IsSeq(merged[k + 1].nodes)
    BY <1>4, <2>2, MergeLeavesSeq
  <2>4. QED
    BY <2>1, <2>3
<1> HIDE DEF G
<1>5. 0..n \subseteq G
  BY <1>2, <1>3, <1>4, BoundedInduction
<1>6. n \in G
  BY <1>2, <1>5
<1>7. MergeNodes(d, nodes).doc.nodes = merged[n].nodes
  BY <1>1, MergeEndNodes
<1>8. QED
  BY <1>6, <1>7 DEF G

\* Merging nodes of the provider leaves all others as they are.
LEMMA MergesKeepOthers ==
  ASSUME NEW d, IsSeq(d.nodes), "nodes" \in DOMAIN d, \A i \in 1..Len(d.nodes) : IsNode(d.nodes[i]),
         NEW nodes, IsSeq(nodes), NEW p, \A i \in 1..Len(nodes) : IsNode(nodes[i]) /\ nodes[i].source = p
  PROVE  ButFor(p, d.nodes, MergeNodes(d, nodes).doc.nodes)
<1> DEFINE n == Len(nodes)
<1>1. PICK merged : /\ merged[0] = MergeStart(d)
                    /\ \A k \in 1..n : merged[k] = MergeNode(d.nodes, merged[k - 1], nodes[k])
                    /\ MergeNodes(d, nodes) = MergeEnd(d, merged[n])
  BY MergeInSteps
<1>2. n \in Nat /\ Len(d.nodes) \in Nat /\ \A i \in 1..n : IsNode(nodes[i]) /\ nodes[i].source = p
  BY SeqFacts
<1> HIDE DEF n
<1> DEFINE G == {k \in 0..n : ButFor(p, d.nodes, merged[k].nodes)}
<1>3. 0 \in G
  <2>1. merged[0].nodes = d.nodes
    BY <1>1 DEF MergeStart
  <2>2. ButFor(p, d.nodes, d.nodes)
    BY <1>2 DEF ButFor
  <2>3. QED
    BY <1>2, <2>1, <2>2
<1>4. ASSUME NEW k \in 0..(n - 1), k \in G PROVE k + 1 \in G
  <2>1. k + 1 \in 1..n /\ (k + 1) - 1 = k /\ k + 1 \in 0..n
    BY <1>2
  <2>2. merged[k + 1] = MergeNode(d.nodes, merged[k], nodes[k + 1])
    BY <1>1, <2>1
  <2>3. ButFor(p, d.nodes, merged[k + 1].nodes)
    BY <1>2, <1>4, <2>1, <2>2, MergeKeepsOthers
  <2>4. QED
    BY <2>1, <2>3
<1> HIDE DEF G
<1>5. 0..n \subseteq G
  BY <1>2, <1>3, <1>4, BoundedInduction
<1>6. n \in G
  BY <1>2, <1>5
<1>7. MergeNodes(d, nodes).doc.nodes = merged[n].nodes
  BY <1>1, MergeEndNodes
<1>8. QED
  BY <1>6, <1>7 DEF G

-----------------------------------------------------------------------------
(* The merge of a feed, step by step                                       *)

\* The nodes of the provider are of it.
LEMMA ProviderNodesFacts ==
  ASSUME NEW nodes, IsSeq(nodes), NEW p
  PROVE  /\ IsSeq(ProviderNodes(nodes, p))
         /\ \A k \in 1..Len(ProviderNodes(nodes, p)) : ProviderNodes(nodes, p)[k].source = p
         /\ ProviderNodes(nodes, p) # <<>> => \E i \in 1..Len(nodes) : nodes[i].source = p
<1> DEFINE I == {i \in DOMAIN nodes : nodes[i].source = p}
           own == Those(nodes, I)
<1>1. \A i \in I : nodes[i].source = p
  OBVIOUS
<1>2. ProviderNodes(nodes, p) = own
  BY DEF ProviderNodes
<1> HIDE DEF I
<1>3. IsSeq(own) /\ \A k \in 1..Len(own) : \E i \in 1..Len(nodes) : i \in I /\ own[k] = nodes[i]
  BY ThoseAreElements
<1> HIDE DEF own
<1>4. own # <<>> => 1 \in 1..Len(own)
  BY <1>3, EmptyOnly, SeqFacts
<1>5. QED
  BY <1>1, <1>2, <1>3, <1>4

\* Putting the provider's nodes in the order of the feed leaves the others where they are
\* among themselves.
LEMMA ReorderKeepsOthers ==
  ASSUME NEW nodes, IsSeq(nodes), NEW order, IsSeq(order), NEW p
  PROVE  /\ IsSeq(ReorderProviderNodes(nodes, p, order))
         /\ Others(ReorderProviderNodes(nodes, p, order), p) = Others(nodes, p)
<1> DEFINE own == ProviderNodes(nodes, p)
           NodeOf(key) == own[LastWhere(own, LAMBDA n : NodeMatchKey(n) = key)]
           K == {i \in DOMAIN order : order[i] \in Keys(own)}
           known == Those(order, K)
           listed == [i \in DOMAIN known |-> NodeOf(known[i])]
           L == {i \in DOMAIN own : NodeMatchKey(own[i]) \notin ToSet(order)}
           gone == Those(own, L)
           moved == Glued(listed, gone)
           I == {i \in 1..Len(nodes) : nodes[i].source = p}
           at == First(I)
           head == Before(nodes, at)
           tail == After(nodes, at)
           rest == Others(tail, p)
           result == ReorderProviderNodes(nodes, p, order)
<1>1. result = IF own = <<>> THEN nodes ELSE Glued(Glued(head, moved), rest)
  BY DEF ReorderProviderNodes, SelectInSeq, First, Glued, Before, After
<1>2. CASE own = <<>>
  BY <1>1, <1>2
<1>3. CASE own # <<>>
  <2>1. IsSeq(own) /\ (\A k \in 1..Len(own) : own[k].source = p) /\ I # {}
    BY <1>3, ProviderNodesFacts
  <2> HIDE DEF own
  <2>2. at \in I /\ \A i \in I : at <= i
    <3>1. Len(nodes) \in Nat /\ I \subseteq 1..Len(nodes)
      BY SeqFacts
    <3> HIDE DEF I
    <3>2. QED
      BY <2>1, <3>1, FirstIsMember
  <2>3. at \in 1..Len(nodes) /\ nodes[at].source = p /\ Len(nodes) \in Nat
    BY <2>2, SeqFacts
  <2>4. \A i \in 1..(at - 1) : nodes[i].source # p
    <3>1. ASSUME NEW i \in 1..(at - 1), nodes[i].source = p PROVE FALSE
      <4>1. i \in 1..Len(nodes) /\ ~(at <= i)
        BY <2>3
      <4>2. QED
        BY <2>2, <3>1, <4>1
    <3>2. QED
      BY <3>1
  <2> HIDE DEF at
  <2>5. /\ IsSeq(head) /\ IsSeq(tail) /\ nodes = Glued(Glued(head, <<nodes[at]>>), tail)
        /\ Len(head) = at - 1 /\ \A i \in 1..(at - 1) : head[i] = nodes[i]
    BY <2>3, BeforeFacts, AfterFacts, SplitAt
  <2>6. IsSeq(listed) /\ \A i \in 1..Len(listed) : listed[i].source = p
    <3>1. \A i \in K : order[i] \in Keys(own)
      OBVIOUS
    <3> HIDE DEF K
    <3>2. IsSeq(known) /\ \A k \in 1..Len(known) : \E i \in 1..Len(order) : i \in K /\ known[k] = order[i]
      BY ThoseAreElements
    <3> HIDE DEF known
    <3>3. DOMAIN known = 1..Len(known) /\ Len(known) \in Nat
      BY <3>2, SeqFacts
    <3>4. ASSUME NEW i \in 1..Len(known) PROVE NodeOf(known[i]).source = p
      <4> DEFINE key == known[i]
                 l == WithKey(own, key)
      <4>1. key \in Keys(own)
        BY <3>1, <3>2
      <4> HIDE DEF key
      <4>2. (l = 0 \/ l \in 1..Len(own)) /\ (key \in Keys(own) => l # 0)
        BY <2>1, LastWithKey
      <4>3. NodeOf(key) = own[l]
        BY DEF WithKey
      <4> HIDE DEF l, NodeOf
      <4>4. QED
        BY <2>1, <4>1, <4>2, <4>3 DEF key
    <3>5. DOMAIN listed = 1..Len(known) /\ listed = [i \in 1..Len(known) |-> listed[i]]
          /\ \A i \in 1..Len(known) : listed[i] = NodeOf(known[i])
      BY <3>3
    <3> HIDE DEF listed, NodeOf
    <3>6. IsSeq(listed) /\ Len(listed) = Len(known)
      BY <3>3, <3>5, FunctionIsSeq
    <3>7. QED
      BY <3>4, <3>5, <3>6
  <2>7. IsSeq(gone) /\ \A i \in 1..Len(gone) : gone[i].source = p
    <3> HIDE DEF L
    <3>1. IsSeq(gone) /\ \A k \in 1..Len(gone) : \E i \in 1..Len(own) : i \in L /\ gone[k] = own[i]
      BY <2>1, ThoseAreElements
    <3> HIDE DEF gone
    <3>2. QED
      BY <2>1, <3>1
  <2> HIDE DEF listed, gone, head, tail
  <2>8. IsSeq(moved) /\ Others(moved, p) = <<>>
    <3>1. IsSeq(moved)
      BY <2>6, <2>7, GluedFacts
    <3>2. Others(listed, p) = <<>> /\ Others(gone, p) = <<>>
      BY <2>6, <2>7, OthersOfNone
    <3>3. Others(moved, p) = Glued(<<>>, <<>>)
      BY <2>6, <2>7, <3>2, OthersOfGlued
    <3>4. Glued(<<>>, <<>>) = <<>>
      BY EmptyIsSeq, GluedToNone
    <3>5. QED
      BY <3>1, <3>3, <3>4
  <2> HIDE DEF moved
  <2>9. IsSeq(rest) /\ Others(rest, p) = rest
    <3>1. IsSeq(rest) /\ \A n \in ToSet(rest) : n.source # p
      BY <2>5, OthersFacts
    <3> HIDE DEF rest
    <3>2. \A i \in 1..Len(rest) : rest[i].source # p
      BY <3>1, SeqFacts
    <3>3. QED
      BY <3>1, <3>2, OthersOfAll
  <2> DEFINE one == <<nodes[at]>>
             a == Glued(head, moved)
             b == Glued(head, one)
  <2>10. IsSeq(one) /\ Others(one, p) = <<>>
    <3>1. IsSeq(one) /\ Len(one) = 1 /\ one[1] = nodes[at]
      BY OneIsSeq
    <3> HIDE DEF one
    <3>2. \A i \in 1..Len(one) : one[i].source = p
      BY <2>3, <3>1
    <3>3. QED
      BY <3>1, <3>2, OthersOfNone
  <2> HIDE DEF one
  <2>11. Others(head, p) = head
    <3>1. \A i \in 1..Len(head) : head[i].source # p
      BY <2>4, <2>5
    <3>2. QED
      BY <2>5, <3>1, OthersOfAll
  <2>12. Glued(head, <<>>) = head
    BY <2>5, GluedToNone
  <2>13. IsSeq(a) /\ Others(a, p) = head
    BY <2>5, <2>8, <2>11, <2>12, GluedFacts, OthersOfGlued
  <2>14. IsSeq(b) /\ Others(b, p) = head
    BY <2>5, <2>10, <2>11, <2>12, GluedFacts, OthersOfGlued
  <2>15. nodes = Glued(b, tail) /\ result = Glued(a, rest)
    BY <1>1, <1>3, <2>5 DEF one
  <2> HIDE DEF a, b, result
  <2>16. IsSeq(Glued(a, rest)) /\ Others(Glued(a, rest), p) = Glued(head, rest)
    <3>1. IsSeq(Glued(a, rest))
      BY <2>9, <2>13, GluedFacts
    <3>2. Others(Glued(a, rest), p) = Glued(Others(a, p), Others(rest, p))
      BY <2>9, <2>13, OthersOfGlued
    <3>3. QED
      BY <2>9, <2>13, <3>1, <3>2
  <2>17. Others(Glued(b, tail), p) = Glued(head, rest)
    <3>1. Others(Glued(b, tail), p) = Glued(Others(b, p), Others(tail, p))
      BY <2>5, <2>14, OthersOfGlued
    <3>2. QED
      BY <2>14, <3>1
  <2>18. Others(nodes, p) = Glued(head, rest) /\ IsSeq(result) /\ Others(result, p) = Glued(head, rest)
    BY <2>15, <2>16, <2>17
  <2>19. QED
    BY <2>18 DEF result
<1>4. QED
  BY <1>2, <1>3

\* A node that normalising leaves as it is.
Normal(n) == NormalizeNode(n) = n

\* A normalised node is a node, normal, and of the same source.
LEMMA NormalizedIsNormal ==
  ASSUME NEW n
  PROVE  IsNode(NormalizeNode(n)) /\ Normal(NormalizeNode(n)) /\ NormalizeNode(n).source = n.source
<1> DEFINE name == IF n.name = NoName THEN "server" ELSE n.name
           m == [id |-> n.id, source |-> n.source, link |-> n.link, out |-> n.out,
                 stale |-> n.stale, name |-> name]
<1>1. NormalizeNode(n) = m
  BY DEF NormalizeNode
<1>2. name # NoName
  BY DEF NoName
<1> HIDE DEF name
<1>3. IsNode(m) /\ m.source = n.source
  BY DEF IsNode
<1>4. NormalizeNode(m) = m
  BY <1>2 DEF NormalizeNode
<1>5. QED
  BY <1>1, <1>3, <1>4 DEF Normal

\* Every element of the sequence of nodes is a node that normalising leaves as it is.
AllNormal(nodes) == \A i \in 1..Len(nodes) : IsNode(nodes[i]) /\ Normal(nodes[i])

\* Normalised nodes are a sequence of such nodes.
LEMMA NormalizedNodes ==
  ASSUME NEW nodes, IsSeq(nodes)
  PROVE  /\ IsSeq(NormalizeNodes(nodes)) /\ Len(NormalizeNodes(nodes)) = Len(nodes)
         /\ AllNormal(NormalizeNodes(nodes))
         /\ \A i \in 1..Len(nodes) : NormalizeNodes(nodes)[i] = NormalizeNode(nodes[i])
<1> DEFINE new == NormalizeNodes(nodes)
           n == Len(nodes)
<1>1. n \in Nat /\ DOMAIN nodes = 1..n
  BY SeqFacts
<1>2. new = [i \in 1..n |-> NormalizeNode(nodes[i])]
  BY <1>1 DEF NormalizeNodes
<1>3. DOMAIN new = 1..n /\ new = [i \in 1..n |-> new[i]] /\ \A i \in 1..n : new[i] = NormalizeNode(nodes[i])
  BY <1>2
<1> HIDE DEF new, n
<1>4. IsSeq(new) /\ Len(new) = n
  BY <1>1, <1>3, FunctionIsSeq
<1>5. \A i \in 1..n : IsNode(new[i]) /\ Normal(new[i])
  BY <1>3, NormalizedIsNormal
<1>6. QED
  BY <1>3, <1>4, <1>5 DEF new, n, AllNormal

\* Where the others are normal, normalising leaves them as they are.
LEMMA OthersNormalized ==
  ASSUME NEW nodes, IsSeq(nodes), NEW p, \A n \in ToSet(Others(nodes, p)) : Normal(n)
  PROVE  Others(NormalizeNodes(nodes), p) = Others(nodes, p)
<1> DEFINE new == NormalizeNodes(nodes)
           I == OtherAt(nodes, p)
<1>1. /\ IsSeq(new) /\ Len(new) = Len(nodes) /\ Len(nodes) \in Nat
      /\ \A i \in 1..Len(nodes) : new[i] = NormalizeNode(nodes[i])
  BY NormalizedNodes, SeqFacts
<1> HIDE DEF new
<1>2. ASSUME NEW i \in 1..Len(nodes), nodes[i].source # p PROVE Normal(nodes[i])
  <2>1. i \in I
    BY <1>2 DEF OtherAt
  <2> HIDE DEF I
  <2>2. \E k \in 1..Len(Those(nodes, I)) : Those(nodes, I)[k] = nodes[i]
    BY <2>1, ThoseAreElements
  <2>3. Others(nodes, p) = Those(nodes, I) /\ IsSeq(Others(nodes, p))
    BY OthersFacts DEF I
  <2>4. nodes[i] \in ToSet(Others(nodes, p))
    BY <2>2, <2>3, SeqFacts
  <2>5. QED
    BY <2>4
<1>3. \A i \in 1..Len(nodes) : (nodes[i].source = p /\ new[i].source = p) \/ nodes[i] = new[i]
  <2>1. ASSUME NEW i \in 1..Len(nodes)
        PROVE  (nodes[i].source = p /\ new[i].source = p) \/ nodes[i] = new[i]
    <3>1. CASE nodes[i].source = p
      BY <1>1, <3>1, NormalizedIsNormal
    <3>2. CASE nodes[i].source # p
      BY <1>1, <1>2, <3>2 DEF Normal
    <3>3. QED
      BY <3>1, <3>2
  <2>2. QED
    BY <2>1
<1>4. \A i \in 1..Len(new) : new[i].source = p \/ i \in 1..Len(nodes)
  BY <1>1
<1>5. Len(nodes) <= Len(new)
  BY <1>1
<1>6. Others(new, p) = Others(nodes, p)
  BY <1>1, <1>3, <1>4, <1>5, OthersStay
<1>7. QED
  BY <1>6 DEF new

\* The nodes of a feed, as nodes of the provider.
Scoped(incoming, p) == [i \in DOMAIN incoming |-> [incoming[i] EXCEPT !.source = p]]

\* They are.
LEMMA ScopedFacts ==
  ASSUME NEW incoming, IsSeq(incoming), \A i \in 1..Len(incoming) : IsNode(incoming[i]), NEW p
  PROVE  /\ IsSeq(Scoped(incoming, p))
         /\ \A i \in 1..Len(Scoped(incoming, p)) :
              IsNode(Scoped(incoming, p)[i]) /\ Scoped(incoming, p)[i].source = p
<1> DEFINE s == Scoped(incoming, p)
           n == Len(incoming)
<1>1. n \in Nat /\ DOMAIN incoming = 1..n
  BY SeqFacts
<1>2. s = [i \in 1..n |-> [incoming[i] EXCEPT !.source = p]]
  BY <1>1 DEF Scoped
<1>3. DOMAIN s = 1..n /\ s = [i \in 1..n |-> s[i]] /\ \A i \in 1..n : s[i] = [incoming[i] EXCEPT !.source = p]
  BY <1>2
<1>4. \A i \in 1..n : IsNode(incoming[i])
  OBVIOUS
<1> HIDE DEF s, n
<1>5. IsSeq(s) /\ Len(s) = n
  BY <1>1, <1>3, FunctionIsSeq
<1>6. ASSUME NEW i \in 1..n PROVE IsNode(s[i]) /\ s[i].source = p
  <2> DEFINE node == incoming[i]
  <2>1. s[i] = [node EXCEPT !.source = p] /\ IsNode(node)
    BY <1>3, <1>4
  <2> HIDE DEF node
  <2>2. IsNode([node EXCEPT !.source = p])
    BY <2>1, NodeOfSource
  <2>3. [node EXCEPT !.source = p].source = p
    BY <2>1 DEF IsNode
  <2>4. QED
    BY <2>1, <2>2, <2>3
<1>7. QED
  BY <1>5, <1>6 DEF s

\* The keys of the feed, each where it comes first.
OrderOf(scoped) ==
  LET keys == [i \in DOMAIN scoped |-> NodeMatchKey(scoped[i])]
  IN Those(keys, {i \in DOMAIN keys : \A j \in 1..(i - 1) : keys[j] # keys[i]})

\* They are a sequence.
LEMMA OrderIsSeq ==
  ASSUME NEW scoped, IsSeq(scoped)
  PROVE  IsSeq(OrderOf(scoped))
<1> DEFINE n == Len(scoped)
           keys == [i \in DOMAIN scoped |-> NodeMatchKey(scoped[i])]
           I == {i \in DOMAIN keys : \A j \in 1..(i - 1) : keys[j] # keys[i]}
<1>1. n \in Nat /\ DOMAIN scoped = 1..n
  BY SeqFacts
<1>2. DOMAIN keys = 1..n /\ keys = [i \in 1..n |-> keys[i]]
  BY <1>1
<1>3. OrderOf(scoped) = Those(keys, I)
  BY DEF OrderOf
<1> HIDE DEF keys, n, I
<1>4. IsSeq(keys)
  BY <1>1, <1>2, FunctionIsSeq
<1>5. QED
  BY <1>3, <1>4, ThoseAreElements

\* The nodes of the provider without one of the keys are marked as gone.
MarkedGone(nodes, p, K) ==
  [i \in DOMAIN nodes |-> IF nodes[i].source = p /\ NodeMatchKey(nodes[i]) \notin K
                            THEN [nodes[i] EXCEPT !.stale = TRUE] ELSE nodes[i]]

\* Marking leaves all others as they are.
LEMMA MarkedFacts ==
  ASSUME NEW s, NEW p, NEW t, ButFor(p, s, t), NEW K
  PROVE  ButFor(p, s, MarkedGone(t, p, K))
<1> DEFINE m == MarkedGone(t, p, K)
           n == Len(t)
           stale == TRUE
<1>1. n \in Nat /\ DOMAIN t = 1..n
  BY SeqFacts DEF ButFor
<1>2. m = [i \in 1..n |-> IF t[i].source = p /\ NodeMatchKey(t[i]) \notin K
                            THEN [t[i] EXCEPT !.stale = stale] ELSE t[i]]
  BY <1>1 DEF MarkedGone
<1> HIDE DEF stale
<1>3. /\ DOMAIN m = 1..n /\ m = [i \in 1..n |-> m[i]]
      /\ \A i \in 1..n : m[i] = IF t[i].source = p /\ NodeMatchKey(t[i]) \notin K
                                  THEN [t[i] EXCEPT !.stale = stale] ELSE t[i]
  BY <1>2
<1> HIDE DEF m
<1>4. \A i \in 1..n : IsNode(t[i])
  BY DEF ButFor
<1>5. ASSUME NEW i \in 1..n
      PROVE  IsNode(m[i]) /\ m[i].source = t[i].source /\ (t[i].source # p => m[i] = t[i])
  <2>1. CASE t[i].source = p /\ NodeMatchKey(t[i]) \notin K
    <3> DEFINE node == t[i]
    <3>1. m[i] = [node EXCEPT !.stale = stale] /\ IsNode(node) /\ node.source = p
      BY <1>3, <1>4, <2>1
    <3> HIDE DEF node
    <3>2. IsNode(m[i]) /\ m[i].source = p
      BY <3>1, NodeWithStale
    <3>3. QED
      BY <2>1, <3>2
  <2>2. CASE ~(t[i].source = p /\ NodeMatchKey(t[i]) \notin K)
    <3>1. m[i] = t[i]
      BY <1>3, <2>2
    <3>2. QED
      BY <1>4, <3>1
  <2>3. QED
    BY <2>1, <2>2
<1>6. IsSeq(m) /\ Len(m) = n
  <2> HIDE DEF n
  <2>1. QED
    BY <1>1, <1>3, FunctionIsSeq
<1>7. /\ Len(s) <= n
      /\ \A i \in 1..Len(s) : (s[i].source = p /\ t[i].source = p) \/ s[i] = t[i]
      /\ \A i \in 1..n : t[i].source = p \/ i \in 1..Len(s)
  BY DEF ButFor
<1>8. Len(s) \in Nat => \A i \in 1..Len(s) : i \in 1..n
  BY <1>1, <1>7
<1>9. \A i \in 1..Len(s) : i \in 1..n => (s[i].source = p /\ m[i].source = p) \/ s[i] = m[i]
  BY <1>5, <1>7
<1>10. \A i \in 1..n : m[i].source = p \/ i \in 1..Len(s)
  BY <1>5, <1>7
<1> HIDE DEF n
<1>11. QED
  BY <1>5, <1>6, <1>7, <1>8, <1>9, <1>10 DEF m, ButFor

\* A document that can be merged into: its nodes are a sequence.
Document(d) == "nodes" \in DOMAIN d /\ IsSeq(d.nodes)

\* The document of a merge is one that can be merged into.
LEMMA MergesLeaveDocument ==
  ASSUME NEW d, Document(d), NEW nodes, IsSeq(nodes)
  PROVE  Document(MergeNodes(d, nodes).doc)
<1>1. "nodes" \in DOMAIN d /\ IsSeq(d.nodes)
  BY DEF Document
<1>2. IsSeq(MergeNodes(d, nodes).doc.nodes)
  BY <1>1, MergesLeaveSeq
<1>3. "nodes" \in DOMAIN MergeNodes(d, nodes).doc
  BY <1>1 DEF MergeNodes
<1>4. QED
  BY <1>2, <1>3 DEF Document

\* What is applied after a feed has been merged: the provider's nodes merged, those gone from
\* the feed marked, and all of them in the order of the feed.
LEMMA PreviewInSteps ==
  ASSUME NEW d, Document(d), NEW p, NEW incoming, IsSeq(incoming),
         \A i \in 1..Len(incoming) : IsNode(incoming[i])
  PROVE  LET scoped == Scoped(incoming, p)
             marked == MarkedGone(MergeNodes(d, scoped).doc.nodes, p, Keys(scoped))
             next   == ApplyPreview(d, p, incoming).doc
         IN "nodes" \in DOMAIN next /\ next.nodes = ReorderProviderNodes(marked, p, OrderOf(scoped))
<1> DEFINE scoped == Scoped(incoming, p)
           m == MergeNodes(d, scoped)
           order == OrderOf(scoped)
           marked == MarkedGone(m.doc.nodes, p, Keys(scoped))
           nodes == ReorderProviderNodes(marked, p, order)
           active == RepairActive(nodes, m.doc.active)
           after == [m.doc EXCEPT !.nodes = nodes, !.active = active]
           caller == IF m.moved THEN m.caller ELSE marked
           outcome == [doc |-> after, caller |-> caller]
           sub == [name |-> IF p \in DOMAIN d.subs THEN d.subs[p].name ELSE NoName,
                   live |-> Len(incoming), gone |-> 0]
<1>1. MergeSubscriptionNodes(d, p, incoming) = outcome
  <2> DEFINE MarkedOf(x) == MarkedGone(x.doc.nodes, p, Keys(scoped))
             NodesOf(x) == ReorderProviderNodes(MarkedOf(x), p, order)
             Merged(x) == [doc    |-> [x.doc EXCEPT !.nodes = NodesOf(x),
                                                    !.active = RepairActive(NodesOf(x), @)],
                           caller |-> IF x.moved THEN x.caller ELSE MarkedOf(x)]
  <2>1. MergeSubscriptionNodes(d, p, incoming) = CHOOSE o \in {Merged(x) : x \in {m}} : TRUE
    BY DEF MergeSubscriptionNodes, Scoped, OrderOf, MarkedGone
  <2>2. Merged(m) = outcome
    OBVIOUS
  <2> HIDE DEF Merged, outcome, m
  <2>3. {Merged(x) : x \in {m}} = {outcome}
    BY <2>2
  <2>4. QED
    BY <2>1, <2>3
<1>2. ApplyPreview(d, p, incoming) = [outcome EXCEPT !.doc.subs = (p :> sub) @@ @]
  BY <1>1 DEF ApplyPreview
<1>3. "nodes" \in DOMAIN m.doc
  BY ScopedFacts, MergesLeaveDocument DEF Document
<1> HIDE DEF scoped, m, order, marked, nodes, active, caller, sub
<1>4. after.nodes = nodes /\ "nodes" \in DOMAIN after
  BY <1>3
<1> HIDE DEF after
<1> DEFINE subs == (p :> sub) @@ after.subs
<1>5. ApplyPreview(d, p, incoming).doc = [after EXCEPT !.subs = subs]
  BY <1>2
<1> HIDE DEF subs
<1>6. [after EXCEPT !.subs = subs].nodes = nodes /\ "nodes" \in DOMAIN [after EXCEPT !.subs = subs]
  BY <1>4
<1>7. QED
  BY <1>5, <1>6 DEF nodes, marked, order, m, scoped

\* Applying a feed leaves a document, and the nodes of others as they are.
LEMMA PreviewKeepsOthers ==
  ASSUME NEW d, Document(d), AllNormal(d.nodes), NEW p, NEW incoming, IsSeq(incoming),
         \A i \in 1..Len(incoming) : IsNode(incoming[i])
  PROVE  /\ Document(ApplyPreview(d, p, incoming).doc)
         /\ Others(ApplyPreview(d, p, incoming).doc.nodes, p) = Others(d.nodes, p)
<1> DEFINE scoped == Scoped(incoming, p)
           merged == MergeNodes(d, scoped).doc.nodes
           keys == Keys(scoped)
           order == OrderOf(scoped)
           marked == MarkedGone(merged, p, keys)
           next == ApplyPreview(d, p, incoming).doc
<1>1. "nodes" \in DOMAIN next /\ next.nodes = ReorderProviderNodes(marked, p, order)
  BY PreviewInSteps
<1>2. IsSeq(scoped) /\ \A i \in 1..Len(scoped) : IsNode(scoped[i]) /\ scoped[i].source = p
  BY ScopedFacts
<1> HIDE DEF scoped, next
<1>3. IsSeq(order)
  BY <1>2, OrderIsSeq
<1>4. ButFor(p, d.nodes, merged)
  <2>1. "nodes" \in DOMAIN d /\ IsSeq(d.nodes) /\ \A i \in 1..Len(d.nodes) : IsNode(d.nodes[i])
    BY DEF Document, AllNormal
  <2>2. QED
    BY <1>2, <2>1, MergesKeepOthers
<1> HIDE DEF merged, keys, order
<1>5. ButFor(p, d.nodes, marked)
  BY <1>4, MarkedFacts
<1> HIDE DEF marked
<1>6. Others(marked, p) = Others(d.nodes, p)
  BY <1>5, OthersStay DEF ButFor, Document
<1>7. /\ IsSeq(ReorderProviderNodes(marked, p, order))
      /\ Others(ReorderProviderNodes(marked, p, order), p) = Others(marked, p)
  <2>1. IsSeq(marked)
    BY <1>5 DEF ButFor
  <2>2. QED
    BY <1>3, <2>1, ReorderKeepsOthers
<1>8. QED
  BY <1>1, <1>6, <1>7 DEF next, Document

-----------------------------------------------------------------------------
(* A refresh leaves the nodes of others alone                              *)

\* A document as it is stored: its nodes are normalised ones.
Stored(d) == Document(d) /\ AllNormal(d.nodes)

\* What passes is stored as such a document.
LEMMA NormalizedIsStored ==
  ASSUME NEW d, IsSeq(d.nodes)
  PROVE  Stored(Normalize(d)) /\ Normalize(d).nodes = NormalizeNodes(d.nodes)
<1> DEFINE nodes == NormalizeNodes(d.nodes)
<1>1. "nodes" \in DOMAIN Normalize(d) /\ Normalize(d).nodes = nodes
  BY DEF Normalize
<1>2. IsSeq(nodes) /\ AllNormal(nodes)
  BY NormalizedNodes
<1>3. QED
  BY <1>1, <1>2 DEF Stored, Document

\* What is stored of an applied feed leaves the nodes of others as they were.
LEMMA StoredFeedKeepsOthers ==
  ASSUME NEW d, Stored(d), NEW p, NEW incoming, IsSeq(incoming),
         \A i \in 1..Len(incoming) : IsNode(incoming[i])
  PROVE  Others(Normalize(ApplyPreview(d, p, incoming).doc).nodes, p) = Others(d.nodes, p)
<1> DEFINE next == ApplyPreview(d, p, incoming).doc
<1>1. Document(d) /\ AllNormal(d.nodes) /\ IsSeq(d.nodes)
  BY DEF Stored, Document
<1>2. Document(next) /\ Others(next.nodes, p) = Others(d.nodes, p)
  BY <1>1, PreviewKeepsOthers
<1> HIDE DEF next
<1>3. IsSeq(next.nodes)
  BY <1>2 DEF Document
<1>4. \A n \in ToSet(Others(d.nodes, p)) : Normal(n)
  <2>1. \A n \in ToSet(Others(d.nodes, p)) : n \in ToSet(d.nodes)
    BY <1>1, OthersFacts
  <2>2. \A n \in ToSet(d.nodes) : Normal(n)
    BY <1>1, SeqFacts DEF AllNormal, ToSet
  <2>3. QED
    BY <2>1, <2>2
<1>5. Others(NormalizeNodes(next.nodes), p) = Others(next.nodes, p)
  BY <1>2, <1>3, <1>4, OthersNormalized
<1>6. Normalize(next).nodes = NormalizeNodes(next.nodes)
  BY <1>3, NormalizedIsStored
<1>7. QED
  BY <1>2, <1>5, <1>6 DEF next

\* What the store holds: a stored document, also as it was read before a download; feeds
\* as they are parsed; chunks of nodes.
StoreInv ==
  /\ Stored(doc)
  /\ fetch.kind = "refresh" => Stored(fetch.base)
  /\ preview # NoPreview => preview.feed \in SomeFeed
  /\ IsSeq(batch.chunks) /\ \A i \in 1..Len(batch.chunks) : IsSeq(batch.chunks[i].nodes)

\* The nodes of a feed, and those of them that are accepted, are a sequence of nodes.
LEMMA FeedFacts ==
  ASSUME NEW feed \in SomeFeed
  PROVE  IsSeq(Accepted(feed)) /\ \A i \in 1..Len(Accepted(feed)) : IsNode(Accepted(feed)[i])
<1> DEFINE S == {n \in ToSet(feed) : IsNode(n)}
           I == {i \in DOMAIN feed : feed[i].out \notin LocalOuts}
           accepted == Those(feed, I)
<1>1. feed \in Seq(S)
  BY ProfileStoreAssumption DEF SomeFeed
<1>2. \A n \in S : IsNode(n)
  OBVIOUS
<1> HIDE DEF S
<1>3. IsSeq(feed) /\ ToSet(feed) \subseteq S
  BY <1>1, SeqIsSeq
<1>4. \A i \in 1..Len(feed) : IsNode(feed[i])
  BY <1>2, <1>3, SeqFacts
<1>5. Accepted(feed) = accepted
  BY DEF Accepted
<1> HIDE DEF I
<1>6. IsSeq(accepted) /\ \A k \in 1..Len(accepted) : \E i \in 1..Len(feed) : i \in I /\ accepted[k] = feed[i]
  BY <1>3, ThoseAreElements
<1>7. QED
  BY <1>4, <1>5, <1>6

\* Imported nodes are a sequence, also as nodes of the user.
LEMMA ImportFacts ==
  ASSUME NEW nodes \in Imports
  PROVE  IsSeq(Manual(nodes))
<1> DEFINE S == {n \in ToSet(nodes) : IsNode(n)}
           n == Len(nodes)
           own == Manual(nodes)
<1>1. nodes \in Seq(S)
  BY ProfileStoreAssumption
<1> HIDE DEF S
<1>2. IsSeq(nodes)
  BY <1>1, SeqIsSeq
<1>3. n \in Nat /\ DOMAIN nodes = 1..n
  BY <1>2, SeqFacts
<1>4. DOMAIN own = 1..n /\ own = [i \in 1..n |-> own[i]]
  BY <1>3 DEF Manual
<1> HIDE DEF own, n
<1>5. IsSeq(own)
  BY <1>3, <1>4, FunctionIsSeq
<1>6. QED
  BY <1>5 DEF own

\* Stripping a node of its name leaves a sequence.
LEMMA StripLeavesSeq ==
  ASSUME NEW nodes, IsSeq(nodes), NEW id
  PROVE  IsSeq(StripNode(nodes, id))
<1> DEFINE n == Len(nodes)
           new == StripNode(nodes, id)
<1>1. n \in Nat /\ DOMAIN nodes = 1..n
  BY SeqFacts
<1>2. DOMAIN new = 1..n /\ new = [i \in 1..n |-> new[i]]
  BY <1>1 DEF StripNode
<1> HIDE DEF new, n
<1>3. IsSeq(new)
  BY <1>1, <1>2, FunctionIsSeq
<1>4. QED
  BY <1>3 DEF new

\* A node written leaves a document, also as the comparison leaves it.
LEMMA UpsertLeavesDocument ==
  ASSUME NEW d, Document(d), NEW node, NEW current
  PROVE  /\ Document(UpsertNode(d, node).doc)
         /\ Document(CompareUpsert(current, UpsertNode(d, node).doc, node.id).next)
<1> DEFINE at == SelectInSeq(d.nodes, LAMBDA n : n.id = node.id)
           nodes == IF at = 0 THEN Append(d.nodes, node) ELSE [d.nodes EXCEPT ![at] = node]
           active == IF d.active = NoId /\ ~node.stale THEN node.id ELSE d.active
           next == [d EXCEPT !.nodes = nodes, !.active = active]
           stripped == [next EXCEPT !.nodes = StripNode(@, node.id)]
<1>1. UpsertNode(d, node).doc = next
  BY DEF UpsertNode
<1>2. "nodes" \in DOMAIN d /\ IsSeq(d.nodes)
  BY DEF Document
<1> HIDE DEF at
<1>3. IsSeq(nodes)
  <2>1. IsSeq(Append(d.nodes, node))
    BY <1>2, Appended
  <2>2. IsSeq([d.nodes EXCEPT ![at] = node])
    BY <1>2, Changed
  <2>3. QED
    BY <2>1, <2>2
<1> HIDE DEF nodes, active
<1>4. next.nodes = nodes /\ "nodes" \in DOMAIN next
  BY <1>2
<1> HIDE DEF next
<1>5. Document(next)
  BY <1>3, <1>4 DEF Document
<1>6. IsSeq(StripNode(next.nodes, node.id))
  BY <1>3, <1>4, StripLeavesSeq
<1>7. stripped.nodes = StripNode(next.nodes, node.id) /\ "nodes" \in DOMAIN stripped
  BY <1>4
<1>8. Document(stripped)
  BY <1>6, <1>7 DEF Document
<1>9. CompareUpsert(current, next, node.id).next \in {next, stripped}
  BY DEF CompareUpsert
<1>10. QED
  BY <1>1, <1>5, <1>8, <1>9

\* Whatever is applied, the document held is a stored one.
LEMMA ApplyKeepsStored ==
  ASSUME NEW next, IsSeq(next.nodes), NEW r, Stored(doc), Apply(next, r)
  PROVE  Stored(doc') /\ (reload' # "none" => doc' = Normalize(next))
BY NormalizedIsStored DEF Apply, Quiet

\* A request without a wait keeps the invariant.
LEMMA ChangeKeepsStore ==
  ASSUME NEW next, IsSeq(next.nodes), NEW r, StoreInv, Change(next, r)
  PROVE  StoreInv'
<1>1. Stored(doc) /\ Apply(next, Flag(r)) /\ UNCHANGED <<fetch, batch, preview>>
  BY DEF StoreInv, Change
<1>2. Stored(doc')
  BY <1>1, ApplyKeepsStored
<1>3. (Stored(doc))' = Stored(doc')
  BY DEF Stored, Document, AllNormal, Normal, IsSeq
<1>4. QED
  BY <1>1, <1>2, <1>3 DEF StoreInv

\* A feed that is applied keeps a stored document, and what is stored leaves the nodes of
\* others as they were in the document it was merged into.
LEMMA FeedKeepsStored ==
  ASSUME NEW base, Stored(base), NEW p, NEW feed \in SomeFeed, Stored(doc), ApplyFeed(base, p, feed)
  PROVE  /\ Stored(doc')
         /\ reload' # "none" => Others(doc'.nodes, p) = Others(base.nodes, p)
<1> DEFINE m == ApplyPreview(base, p, Accepted(feed))
           flag == Flag(ReloadDefault([base EXCEPT !.nodes = m.caller], m.doc))
           next == m.doc
<1>1. Apply(next, flag)
  BY DEF ApplyFeed
<1>2. IsSeq(Accepted(feed)) /\ \A i \in 1..Len(Accepted(feed)) : IsNode(Accepted(feed)[i])
  BY FeedFacts
<1>3. IsSeq(next.nodes)
  <2>1. Document(base) /\ AllNormal(base.nodes)
    BY DEF Stored
  <2>2. Document(next)
    BY <1>2, <2>1, PreviewKeepsOthers
  <2>3. QED
    BY <2>2 DEF Document
<1>4. Others(Normalize(next).nodes, p) = Others(base.nodes, p)
  BY <1>2, StoredFeedKeepsOthers
<1> HIDE DEF next, flag
<1>5. Stored(doc') /\ (reload' # "none" => doc' = Normalize(next))
  BY <1>1, <1>3, ApplyKeepsStored
<1>6. QED
  BY <1>4, <1>5

\* StoreInv is inductive.
LEMMA StoreInvInductive ==
  /\ Init => StoreInv
  /\ StoreInv /\ [Next]_vars => StoreInv'
<1>1. ASSUME Init PROVE StoreInv
  <2>1. PICK s \in Settings \ BadSettings : doc = EmptyDocument(s)
    BY <1>1 DEF Init
  <2>2. doc.nodes = <<>> /\ "nodes" \in DOMAIN doc
    BY <2>1 DEF EmptyDocument
  <2>3. Stored(doc)
    BY <2>2, EmptyIsSeq DEF Stored, Document, AllNormal
  <2>4. fetch.kind = "none" /\ preview = NoPreview /\ batch.chunks = <<>>
    BY <1>1 DEF Init, NoFetch, NoBatch
  <2>5. IsSeq(batch.chunks) /\ \A i \in 1..Len(batch.chunks) : IsSeq(batch.chunks[i].nodes)
    BY <2>4, EmptyIsSeq
  <2>6. QED
    BY <2>3, <2>4, <2>5 DEF StoreInv
<1>2. ASSUME StoreInv, [Next]_vars PROVE StoreInv'
  <2> DEFINE Docs == Stored(doc')
             Held == fetch'.kind = "refresh" => Stored(fetch'.base)
             Kept == preview' # NoPreview => preview'.feed \in SomeFeed
             Whole == IsSeq(batch'.chunks) /\ \A i \in 1..Len(batch'.chunks) : IsSeq(batch'.chunks[i].nodes)
  <2>1. StoreInv' <=> Docs /\ Held /\ Kept /\ Whole
    BY DEF StoreInv, Stored, Document, AllNormal, Normal, IsSeq
  <2>2. Quiet => Docs
    BY <1>2 DEF StoreInv, Quiet
  <2>3. UNCHANGED fetch => Held
    BY <1>2 DEF StoreInv
  <2>4. UNCHANGED preview => Kept
    BY <1>2 DEF StoreInv
  <2>5. UNCHANGED batch => Whole
    BY <1>2 DEF StoreInv
  <2>6. fetch' = NoFetch => Held
    BY DEF NoFetch
  <2>7. preview' = NoPreview => Kept
    OBVIOUS
  <2>8. batch' = NoBatch => Whole
    <3>1. NoBatch.chunks = <<>>
      BY DEF NoBatch
    <3>2. QED
      BY <3>1, EmptyIsSeq
  <2>9. Stored(doc) /\ Document(doc) /\ IsSeq(doc.nodes) /\ "nodes" \in DOMAIN doc
    BY <1>2 DEF StoreInv, Stored, Document
  <2>10. /\ IsSeq(batch.chunks) /\ \A i \in 1..Len(batch.chunks) : IsSeq(batch.chunks[i].nodes)
    BY <1>2 DEF StoreInv
  <2>11. CASE ProfileApply
    <3>1. PICK d \in Documents, r \in BOOLEAN : Change(d, r)
      BY <2>11 DEF ProfileApply
    <3>2. IsSeq(d.nodes)
      <4>1. d.nodes \in Seq(ToSet(d.nodes))
        BY ProfileStoreAssumption
      <4>2. QED
        BY <4>1, SeqIsSeq
    <3>3. QED
      BY <1>2, <3>1, <3>2, ChangeKeepsStore
  <2>12. CASE ImportNodes
    <3>1. PICK nodes \in Imports, r \in BOOLEAN : Change(MergeNodes(doc, Manual(nodes)).doc, r)
      BY <2>12 DEF ImportNodes
    <3> DEFINE next == MergeNodes(doc, Manual(nodes)).doc
    <3>2. IsSeq(next.nodes)
      BY <2>9, ImportFacts, MergesLeaveSeq
    <3> HIDE DEF next
    <3>3. QED
      BY <1>2, <3>1, <3>2, ChangeKeepsStore DEF next
  <2>13. CASE ChooseNode
    <3>1. PICK id \in Ids(doc.nodes), r \in BOOLEAN : Change(SetActiveNode(doc, id), r)
      BY <2>13 DEF ChooseNode
    <3> DEFINE next == SetActiveNode(doc, id)
    <3>2. next.nodes = doc.nodes
      BY <2>9 DEF SetActiveNode
    <3> HIDE DEF next
    <3>3. IsSeq(next.nodes)
      BY <2>9, <3>2
    <3>4. QED
      BY <1>2, <3>1, <3>3, ChangeKeepsStore DEF next
  <2>14. CASE ClearActive
    <3>1. PICK r \in BOOLEAN : Change([doc EXCEPT !.active = NoId], r)
      BY <2>14 DEF ClearActive
    <3> DEFINE next == [doc EXCEPT !.active = NoId]
    <3>2. next.nodes = doc.nodes
      BY <2>9
    <3> HIDE DEF next
    <3>3. IsSeq(next.nodes)
      BY <2>9, <3>2
    <3>4. QED
      BY <1>2, <3>1, <3>3, ChangeKeepsStore DEF next
  <2>15. CASE PatchSettings
    <3>1. PICK s \in Settings, r \in BOOLEAN : Change([doc EXCEPT !.settings = s], r)
      BY <2>15 DEF PatchSettings
    <3> DEFINE next == [doc EXCEPT !.settings = s]
    <3>2. next.nodes = doc.nodes
      BY <2>9
    <3> HIDE DEF next
    <3>3. IsSeq(next.nodes)
      BY <2>9, <3>2
    <3>4. QED
      BY <1>2, <3>1, <3>3, ChangeKeepsStore DEF next
  <2>16. CASE \E node \in Upserts, r \in BOOLEAN : NodeUpsert(node, r)
    <3>1. PICK node \in Upserts, r \in BOOLEAN : NodeUpsert(node, r)
      BY <2>16
    <3> DEFINE u == UpsertNode(doc, node)
               current == [doc EXCEPT !.nodes = u.caller]
               c == CompareUpsert(current, u.doc, node.id)
    <3>2. Change(c.next, ~c.only) \/ Change(u.doc, FALSE)
      BY <3>1 DEF NodeUpsert
    <3> HIDE DEF current
    <3>3. IsSeq(u.doc.nodes) /\ IsSeq(c.next.nodes)
      BY <2>9, UpsertLeavesDocument DEF Document
    <3> HIDE DEF u, c
    <3> DEFINE a == c.next
               b == u.doc
               only == ~c.only
               keep == FALSE
    <3>4. IsSeq(a.nodes) /\ IsSeq(b.nodes) /\ (Change(a, only) \/ Change(b, keep))
      BY <3>2, <3>3
    <3> HIDE DEF a, b, only, keep
    <3>5. QED
      BY <1>2, <3>4, ChangeKeepsStore
  <2>17. CASE NodeRemove
    <3>1. PICK id \in Ids(doc.nodes), r \in BOOLEAN : Change(RemoveNode(doc, id), r)
      BY <2>17 DEF NodeRemove
    <3> DEFINE I == {i \in DOMAIN doc.nodes : doc.nodes[i].id # id}
               nodes == Those(doc.nodes, I)
               active == IF doc.active = id THEN FirstLive(nodes) ELSE doc.active
               next == RemoveNode(doc, id)
    <3>2. next = [doc EXCEPT !.nodes = nodes, !.active = active]
      BY DEF RemoveNode
    <3> HIDE DEF I, active, next
    <3>3. IsSeq(nodes)
      BY <2>9, ThoseAreElements
    <3> HIDE DEF nodes
    <3>4. next.nodes = nodes
      BY <2>9, <3>2
    <3>5. IsSeq(next.nodes)
      BY <3>3, <3>4
    <3>6. QED
      BY <1>2, <3>1, <3>5, ChangeKeepsStore DEF next
  <2>18. CASE \E nodes \in Imports : AddChunk(nodes)
    <3>1. PICK nodes \in Imports : AddChunk(nodes)
      BY <2>18
    <3> DEFINE chunks == Batch.chunks
               chunk == [nodes |-> Manual(nodes), old |-> FALSE]
    <3>2. batch'.chunks = Append(chunks, chunk) /\ Quiet /\ UNCHANGED <<fetch, preview>>
      BY <3>1 DEF AddChunk
    <3>3. IsSeq(chunks) /\ \A i \in 1..Len(chunks) : IsSeq(chunks[i].nodes)
      <4>1. CASE batch.expired
        <5>1. chunks = <<>>
          BY <4>1 DEF Batch, NoBatch
        <5>2. QED
          BY <5>1, EmptyIsSeq
      <4>2. CASE ~batch.expired
        BY <2>10, <4>2 DEF Batch
      <4>3. QED
        BY <4>1, <4>2
    <3>4. chunk.nodes = Manual(nodes) /\ IsSeq(Manual(nodes))
      BY ImportFacts
    <3> HIDE DEF chunks, chunk
    <3> DEFINE new == Append(chunks, chunk)
    <3>5. /\ IsSeq(new) /\ Len(new) = Len(chunks) + 1 /\ Len(chunks) \in Nat
          /\ \A i \in 1..Len(chunks) : new[i] = chunks[i]
          /\ new[Len(chunks) + 1] = chunk
      BY <3>3, Appended, SeqFacts
    <3> HIDE DEF new
    <3>6. \A i \in 1..Len(new) : i \in 1..Len(chunks) \/ i = Len(chunks) + 1
      BY <3>5
    <3>7. Whole
      BY <3>2, <3>3, <3>4, <3>5, <3>6 DEF new
    <3>8. QED
      BY <2>1, <2>2, <2>3, <2>4, <3>2, <3>7
  <2>19. CASE CommitBatch
    <3> DEFINE parts == [i \in DOMAIN batch.chunks |-> batch.chunks[i].nodes]
               nodes == FlattenSeq(parts)
               next == MergeNodes(doc, nodes).doc
    <3>1. PICK r \in BOOLEAN : Apply(next, Flag(r))
      BY <2>19 DEF CommitBatch
    <3>2. IsSeq(nodes)
      <4>1. DOMAIN batch.chunks = 1..Len(batch.chunks) /\ Len(batch.chunks) \in Nat
        BY <2>10, SeqFacts
      <4>2. DOMAIN parts = 1..Len(batch.chunks) /\ parts = [i \in 1..Len(batch.chunks) |-> parts[i]]
            /\ \A i \in 1..Len(batch.chunks) : IsSeq(parts[i])
        BY <2>10, <4>1
      <4> HIDE DEF parts
      <4>3. IsSeq(parts) /\ Len(parts) = Len(batch.chunks)
        BY <4>1, <4>2, FunctionIsSeq
      <4>4. \A i \in 1..Len(parts) : IsSeq(parts[i])
        BY <4>2, <4>3
      <4>5. QED
        BY <4>3, <4>4, Flattened
    <3> HIDE DEF nodes
    <3>3. IsSeq(next.nodes)
      BY <2>9, <3>2, MergesLeaveSeq
    <3> DEFINE flag == Flag(r)
    <3> HIDE DEF next, flag
    <3>4. Docs
      BY <2>9, <3>1, <3>3, ApplyKeepsStored DEF flag
    <3>5. batch' = NoBatch /\ UNCHANGED <<fetch, preview>>
      BY <2>19 DEF CommitBatch
    <3>6. QED
      BY <2>1, <2>3, <2>4, <2>8, <3>4, <3>5
  <2>20. CASE BatchExpires
    <3> DEFINE chunks == batch.chunks
               old == [i \in DOMAIN chunks |-> [chunks[i] EXCEPT !.old = TRUE]]
               n == Len(chunks)
    <3>1. Quiet /\ UNCHANGED <<fetch, preview>> /\ batch'.chunks \in {old, chunks}
      <4>1. batch' = [batch EXCEPT !.expired = TRUE, !.chunks = old]
        BY <2>20 DEF BatchExpires
      <4>2. QED
        BY <2>20, <4>1 DEF BatchExpires
    <3>2. n \in Nat /\ DOMAIN chunks = 1..n
      BY <2>10, SeqFacts
    <3>3. DOMAIN old = 1..n /\ old = [i \in 1..n |-> old[i]] /\ \A i \in 1..n : old[i].nodes = chunks[i].nodes
      BY <3>2
    <3> HIDE DEF old, n
    <3>4. IsSeq(old) /\ Len(old) = n
      BY <3>2, <3>3, FunctionIsSeq
    <3>5. Whole
      BY <2>10, <3>1, <3>3, <3>4 DEF n
    <3>6. QED
      BY <2>1, <2>2, <2>3, <2>4, <3>1, <3>5
  <2>21. CASE StartFetch
    <3>1. Quiet /\ UNCHANGED <<batch, preview>>
      BY <2>21 DEF StartFetch
    <3>2. PICK p \in Providers, k \in {"refresh", "preview"} :
            fetch' = [kind |-> k, provider |-> p, base |-> IF k = "refresh" THEN doc ELSE <<>>]
      BY <2>21 DEF StartFetch
    <3>3. Held
      BY <2>9, <3>2
    <3>4. QED
      BY <2>1, <2>2, <2>4, <2>5, <3>1, <3>3
  <2>22. CASE FetchFails
    BY <2>1, <2>2, <2>4, <2>5, <2>6, <2>22 DEF FetchFails
  <2>23. CASE \E p \in Providers : \E feed \in Feeds[p] : Refresh(feed) \/ PutPreview(feed)
    <3>1. PICK feed \in SomeFeed : Refresh(feed) \/ PutPreview(feed)
      BY <2>23 DEF SomeFeed
    <3>2. feed \in SomeFeed
      OBVIOUS
    <3>3. CASE Refresh(feed)
      <4>1. ApplyFeed(fetch.base, fetch.provider, feed) /\ Stored(fetch.base)
            /\ fetch' = NoFetch /\ UNCHANGED <<batch, preview>>
        BY <1>2, <3>3 DEF Refresh, StoreInv
      <4>2. Docs
        BY <2>9, <3>2, <4>1, FeedKeepsStored
      <4>3. QED
        BY <2>1, <2>4, <2>5, <2>6, <4>1, <4>2
    <3>4. CASE PutPreview(feed)
      <4>1. Quiet /\ UNCHANGED batch /\ fetch' = NoFetch /\ preview'.feed = feed
        BY <3>4 DEF PutPreview
      <4>2. QED
        BY <2>1, <2>2, <2>5, <2>6, <3>2, <4>1
    <3>5. QED
      BY <3>1, <3>3, <3>4
  <2>24. CASE CommitPreview
    <3>1. ApplyFeed(doc, preview.provider, preview.feed) /\ preview.feed \in SomeFeed
          /\ preview' = NoPreview /\ UNCHANGED <<fetch, batch>>
      BY <1>2, <2>24 DEF CommitPreview, StoreInv
    <3>2. Docs
      BY <2>9, <3>1, FeedKeepsStored
    <3>3. QED
      BY <2>1, <2>3, <2>5, <2>7, <3>1, <3>2
  <2>25. CASE PreviewGone
    BY <2>1, <2>2, <2>3, <2>5, <2>7, <2>25 DEF PreviewGone
  <2>26. CASE UNCHANGED vars
    BY <2>1, <2>3, <2>4, <2>5, <2>9, <2>26 DEF vars
  <2>27. QED
    BY <1>2, <2>11, <2>12, <2>13, <2>14, <2>15, <2>16, <2>17, <2>18, <2>19, <2>20, <2>21, <2>22,
       <2>23, <2>24, <2>25, <2>26 DEF Next
<1>3. QED
  BY <1>1, <1>2

\* Spec => RefreshKeepsOthers: whatever the user and other subscriptions do in the meantime,
\* a refresh stores the nodes of others as they were in the document it has read.
THEOREM RefreshLeavesOthersAlone == Spec => RefreshKeepsOthers
<1> DEFINE Keeps == \A feed \in SomeFeed : Refreshed(feed) =>
                      Others(doc'.nodes, fetch.provider) = Others(fetch.base.nodes, fetch.provider)
<1>1. Init => StoreInv
  BY StoreInvInductive
<1>2. StoreInv /\ [Next]_vars => StoreInv'
  BY StoreInvInductive
<1>3. StoreInv /\ [Next]_vars => [Keeps]_vars
  <2>1. SUFFICES ASSUME StoreInv, NEW feed \in SomeFeed, Refreshed(feed)
                 PROVE  Others(doc'.nodes, fetch.provider) = Others(fetch.base.nodes, fetch.provider)
    OBVIOUS
  <2>2. /\ Stored(fetch.base) /\ Stored(doc)
        /\ ApplyFeed(fetch.base, fetch.provider, feed) /\ reload' # "none"
    BY <2>1 DEF StoreInv, Refreshed, Refresh
  <2>3. QED
    BY <2>1, <2>2, FeedKeepsStored
<1>4. QED
  BY <1>1, <1>2, <1>3, PTL DEF Spec, RefreshKeepsOthers

-----------------------------------------------------------------------------
(* The rule that a connection meets                                        *)

\* A route rule that is about the connections of p to dest.
Fits(rule, p, dest) ==
  (rule.who = Everybody \/ p \in rule.who) /\ (rule.to = Anywhere \/ dest \in rule.to)

\* The positions of such rules.
Fitting(rules, p, dest) == {i \in 1..Len(rules) : Fits(rules[i], p, dest)}

\* Where the first of them sends a connection, or other when there is none.
Picked(rules, other, p, dest) ==
  LET i == First(Fitting(rules, p, dest)) IN IF i = 0 THEN other ELSE rules[i].out

\* Routed, by which the runs say where a connection goes, in these terms.
LEMMA RoutedIsPicked ==
  ASSUME NEW b, NEW p, NEW dest
  PROVE  Routed(b, p, dest) = Picked(b.rules, b.final, p, dest)
BY DEF Routed, Picked, Fits, Fitting, First, SelectInSeq

\* Rules that are about other connections decide nothing.
LEMMA NoneFits ==
  ASSUME NEW rules, NEW other, NEW p, NEW dest, \A i \in 1..Len(rules) : ~Fits(rules[i], p, dest)
  PROVE  Picked(rules, other, p, dest) = other
<1>1. Fitting(rules, p, dest) = {}
  BY DEF Fitting
<1>2. QED
  BY <1>1 DEF Picked, First

\* In joined rules, the second ones decide what the first ones leave open.
LEMMA PickedFromTwo ==
  ASSUME NEW a, NEW b, IsSeq(a), IsSeq(b), NEW other, NEW p, NEW dest
  PROVE  Picked(a \o b, other, p, dest) = Picked(a, Picked(b, other, p, dest), p, dest)
<1> DEFINE I == Fitting(a, p, dest)
           J == Fitting(b, p, dest)
           K == Fitting(a \o b, p, dest)
<1>1. I \subseteq 1..Len(a) /\ J \subseteq 1..Len(b) /\ K \subseteq 1..Len(a \o b)
  BY DEF Fitting
<1>2. /\ \A i \in 1..Len(a) : i \in K <=> i \in I
      /\ \A j \in 1..Len(b) : Len(a) + j \in K <=> j \in J
  BY Joined, SeqFacts DEF Fitting
<1> HIDE DEF I, J, K
<1>3. ElementOf(a, b, I, J, K)
  BY <1>1, <1>2, ElementOfTwo
<1>4. QED
  BY <1>3 DEF ElementOf, Picked, I, J, K

\* What Rule renders is a sequence of rules with what it was given.
LEMMA RuleFacts ==
  ASSUME NEW who, NEW to, NEW out
  PROVE  /\ IsSeq(Rule(who, to, out))
         /\ \A i \in 1..Len(Rule(who, to, out)) :
              Rule(who, to, out)[i] = [who |-> who, to |-> to, out |-> out]
<1>1. CASE who # {} /\ to # {}
  BY <1>1, OneIsSeq DEF Rule
<1>2. CASE ~(who # {} /\ to # {})
  <2>1. Rule(who, to, out) = <<>>
    BY <1>2 DEF Rule
  <2>2. QED
    BY <2>1, EmptyIsSeq
<1>3. QED
  BY <1>1, <1>2

\* What a connection meets in one rule, and after it.
LEMMA PickedFromRule ==
  ASSUME NEW who, NEW to, NEW out, NEW other, NEW p, NEW dest
  PROVE  Picked(Rule(who, to, out), other, p, dest) =
           IF (who = Everybody \/ p \in who) /\ (to = Anywhere \/ dest \in to) THEN out ELSE other
<1> DEFINE r == [who |-> who, to |-> to, out |-> out]
<1>1. CASE who # {} /\ to # {}
  <2>1. Rule(who, to, out) = <<r>> /\ Len(<<r>>) = 1 /\ <<r>>[1] = r /\ r.out = out
    BY <1>1 DEF Rule
  <2>2. Fits(r, p, dest) <=> (who = Everybody \/ p \in who) /\ (to = Anywhere \/ dest \in to)
    BY DEF Fits, r
  <2> HIDE DEF r
  <2>3. CASE Fits(r, p, dest)
    <3>1. Fitting(<<r>>, p, dest) = {1}
      BY <2>1, <2>3 DEF Fitting
    <3>2. Picked(<<r>>, other, p, dest) = r.out
      BY <3>1, <2>1, FirstOfOne DEF Picked
    <3>3. QED
      BY <2>1, <2>2, <2>3, <3>2
  <2>4. CASE ~Fits(r, p, dest)
    <3>1. Picked(<<r>>, other, p, dest) = other
      BY <2>1, <2>4, NoneFits
    <3>2. QED
      BY <2>1, <2>2, <2>4, <3>1
  <2>5. QED
    BY <2>3, <2>4
<1>2. CASE who = {} \/ to = {}
  <2>1. Rule(who, to, out) = <<>>
    BY <1>2 DEF Rule
  <2>2. Picked(<<>>, other, p, dest) = other
    BY NoneFits, EmptyIsSeq
  <2>3. ~((who = Everybody \/ p \in who) /\ (to = Anywhere \/ dest \in to))
    BY <1>2 DEF Everybody, Anywhere
  <2>4. QED
    BY <2>1, <2>2, <2>3
<1>3. QED
  BY <1>1, <1>2

-----------------------------------------------------------------------------
(* The rule that a question about a name meets                             *)

\* A DNS rule that is about a question and a name.
Asks(rule, q, name) == q \in rule.questions /\ name \in rule.to

\* The positions of such rules.
Asking(rules, q, name) == {i \in 1..Len(rules) : Asks(rules[i], q, name)}

\* The answer of the first of them, or other when there is none.
Given(rules, other, q, name) ==
  LET i == First(Asking(rules, q, name)) IN IF i = 0 THEN other ELSE rules[i].answer

\* Answered, by which the runs say what answers a question, in these terms.
LEMMA AnsweredIsGiven ==
  ASSUME NEW b, NEW q, NEW name
  PROVE  Answered(b, q, name) = Given(b.names, "remote-dns", q, name)
BY DEF Answered, Given, Asks, Asking, First, SelectInSeq

\* In joined rules, the second ones answer what the first ones leave open.
LEMMA GivenFromTwo ==
  ASSUME NEW a, NEW b, IsSeq(a), IsSeq(b), NEW other, NEW q, NEW name
  PROVE  Given(a \o b, other, q, name) = Given(a, Given(b, other, q, name), q, name)
<1> DEFINE I == Asking(a, q, name)
           J == Asking(b, q, name)
           K == Asking(a \o b, q, name)
<1>1. I \subseteq 1..Len(a) /\ J \subseteq 1..Len(b) /\ K \subseteq 1..Len(a \o b)
  BY DEF Asking
<1>2. /\ \A i \in 1..Len(a) : i \in K <=> i \in I
      /\ \A j \in 1..Len(b) : Len(a) + j \in K <=> j \in J
  BY Joined, SeqFacts DEF Asking
<1> HIDE DEF I, J, K
<1>3. ElementOf(a, b, I, J, K)
  BY <1>1, <1>2, ElementOfTwo
<1>4. QED
  BY <1>3 DEF ElementOf, Given, I, J, K

\* No rules answer nothing.
LEMMA GivenFromNone ==
  ASSUME NEW other, NEW q, NEW name
  PROVE  Given(<<>>, other, q, name) = other
<1>1. Asking(<<>>, q, name) = {}
  BY EmptyIsSeq DEF Asking
<1>2. QED
  BY <1>1 DEF Given, First

\* What NameRule renders answers what it was given, and nothing else.
LEMMA GivenFromRule ==
  ASSUME NEW questions, NEW to, NEW answer, NEW other, NEW q, NEW name
  PROVE  /\ IsSeq(NameRule(questions, to, answer))
         /\ Given(NameRule(questions, to, answer), other, q, name) =
              IF q \in questions /\ name \in to THEN answer ELSE other
<1> DEFINE r == [questions |-> questions, to |-> to, answer |-> answer]
<1>1. CASE to # {}
  <2>1. /\ NameRule(questions, to, answer) = <<r>>
        /\ IsSeq(<<r>>) /\ Len(<<r>>) = 1 /\ <<r>>[1] = r /\ r.answer = answer
    BY <1>1, OneIsSeq DEF NameRule
  <2>2. Asks(r, q, name) <=> q \in questions /\ name \in to
    BY DEF Asks
  <2> HIDE DEF r
  <2>3. CASE Asks(r, q, name)
    <3>1. Asking(<<r>>, q, name) = {1}
      BY <2>1, <2>3 DEF Asking
    <3>2. Given(<<r>>, other, q, name) = r.answer
      BY <3>1, <2>1, FirstOfOne DEF Given
    <3>3. QED
      BY <2>1, <2>2, <2>3, <3>2
  <2>4. CASE ~Asks(r, q, name)
    <3>1. Asking(<<r>>, q, name) = {}
      BY <2>1, <2>4 DEF Asking
    <3>2. Given(<<r>>, other, q, name) = other
      BY <3>1 DEF Given, First
    <3>3. QED
      BY <2>1, <2>2, <2>4, <3>2
  <2>5. QED
    BY <2>3, <2>4
<1>2. CASE to = {}
  <2>1. NameRule(questions, to, answer) = <<>>
    BY <1>2 DEF NameRule
  <2>2. QED
    BY <1>2, <2>1, GivenFromNone, EmptyIsSeq
<1>3. QED
  BY <1>1, <1>2

-----------------------------------------------------------------------------
(* What a configuration is rendered to                                     *)

\* What AddToPlans, the step of the renderer's fold over group profiles, makes of each set
\* of the first profiles; the fold takes the largest position off a set.
Planned(profiles, m, g) ==
  g = [t \in SUBSET (1..m) |->
         IF t = {} THEN <<>> ELSE AddToPlans(g[t \ {Max(t)}], profiles[Max(t)])]

\* Group plans profile by profile: a list of plans for each number of profiles.
LEMMA PlansInSteps ==
  ASSUME NEW profiles, IsSeq(profiles)
  PROVE  \E plans : /\ plans[0] = <<>>
                    /\ \A k \in 1..Len(profiles) : plans[k] = AddToPlans(plans[k - 1], profiles[k])
                    /\ GroupPlans(profiles) = plans[Len(profiles)]
<1> DEFINE G == {m \in Nat : \E g : Planned(profiles, m, g)}
<1>1. 0 \in G
  <2>1. SUBSET (1..0) = {{}}
    OBVIOUS
  <2>2. Planned(profiles, 0, [t \in SUBSET (1..0) |-> <<>>])
    BY <2>1 DEF Planned
  <2>3. QED
    BY <2>2
<1>2. ASSUME NEW m \in Nat, m \in G PROVE m + 1 \in G
  <2>1. PICK g : Planned(profiles, m, g)
    BY <1>2
  <2> DEFINE h == [t \in SUBSET (1..(m + 1)) |->
                     IF m + 1 \in t THEN AddToPlans(g[t \ {m + 1}], profiles[m + 1]) ELSE g[t]]
  <2>2. ASSUME NEW t \in SUBSET (1..(m + 1))
        PROVE  h[t] = IF t = {} THEN <<>> ELSE AddToPlans(h[t \ {Max(t)}], profiles[Max(t)])
    <3>1. CASE m + 1 \in t
      <4>1. h[t \ {m + 1}] = g[t \ {m + 1}]
        OBVIOUS
      <4>2. QED
        BY <3>1, <4>1, MaxOfTop
    <3>2. CASE m + 1 \notin t
      <4>1. t \in SUBSET (1..m) /\ t \ {Max(t)} \in SUBSET (1..m) /\ m + 1 \notin t \ {Max(t)}
        BY <3>2, WithoutMax
      <4>2. h[t] = g[t] /\ h[t \ {Max(t)}] = g[t \ {Max(t)}]
        BY <3>2, <4>1
      <4> HIDE DEF h
      <4>3. QED
        BY <2>1, <4>1, <4>2 DEF Planned
    <3>3. QED
      BY <3>1, <3>2
  <2>3. h = [t \in SUBSET (1..(m + 1)) |-> h[t]]
    OBVIOUS
  <2> HIDE DEF h
  <2>4. Planned(profiles, m + 1, h)
    BY <2>2, <2>3, Zenon DEF Planned
  <2>5. QED
    BY <2>4
<1> HIDE DEF G
<1>3. \E g : Planned(profiles, Len(profiles), g)
  BY <1>1, <1>2, Induction, SeqFacts DEF G
<1> DEFINE n == Len(profiles)
           it == CHOOSE g : Planned(profiles, n, g)
           plans == [k \in 0..n |-> it[1..k]]
<1>4. Planned(profiles, n, it)
  BY <1>3
<1>5. GroupPlans(profiles) = it[1..n]
  <2>1. DOMAIN profiles = 1..n
    BY SeqFacts
  <2>2. QED
    BY <2>1 DEF GroupPlans, FoldLeft, MapThenFoldSet, Planned
<1>6. n \in Nat
  BY SeqFacts
<1> HIDE DEF n, it
<1>7. plans[0] = <<>> /\ plans[n] = it[1..n]
  BY <1>4, <1>6 DEF Planned
<1>8. ASSUME NEW k \in 1..n PROVE plans[k] = AddToPlans(plans[k - 1], profiles[k])
  <2>1. Max(1..k) = k /\ (1..k) \ {k} = 1..(k - 1) /\ 1..k # {} /\ 1..k \in SUBSET (1..n)
    BY <1>6, UpTo
  <2>2. it[1..k] = AddToPlans(it[1..(k - 1)], profiles[k])
    BY <1>4, <2>1 DEF Planned
  <2>3. QED
    BY <2>2, <1>6
<1>9. QED
  BY <1>5, <1>7, <1>8 DEF n

\* Group plans are a sequence.
LEMMA PlansAreSeq ==
  ASSUME NEW profiles, IsSeq(profiles)
  PROVE  IsSeq(GroupPlans(profiles))
<1> DEFINE n == Len(profiles)
<1>1. PICK plans : /\ plans[0] = <<>>
                   /\ \A k \in 1..n : plans[k] = AddToPlans(plans[k - 1], profiles[k])
                   /\ GroupPlans(profiles) = plans[n]
  BY PlansInSteps
<1>2. n \in Nat
  BY SeqFacts
<1> HIDE DEF n
<1> DEFINE G == {k \in 0..n : IsSeq(plans[k])}
<1>3. 0 \in G
  BY <1>1, <1>2, EmptyIsSeq
<1>4. ASSUME NEW k \in 0..(n - 1), k \in G PROVE k + 1 \in G
  <2>1. k + 1 \in 1..n /\ (k + 1) - 1 = k /\ k + 1 \in 0..n
    BY <1>2
  <2>2. plans[k + 1] = AddToPlans(plans[k], profiles[k + 1])
    BY <1>1, <2>1
  <2>3. ASSUME NEW s, IsSeq(s), NEW profile PROVE IsSeq(AddToPlans(s, profile))
    BY <2>3, Appended, Changed DEF AddToPlans
  <2>4. QED
    BY <1>4, <2>1, <2>2, <2>3
<1> HIDE DEF G
<1>5. 0..n \subseteq G
  BY <1>2, <1>3, <1>4, BoundedInduction
<1>6. QED
  BY <1>1, <1>2, <1>5 DEF G

\* The rules of the groups are about apps with a group that do not go around the tunnel.
LEMMA GroupRulesAreOfApps ==
  ASSUME NEW c, IsSeq(c.nodes)
  PROVE  /\ IsSeq(GroupRules(c))
         /\ \A k \in 1..Len(GroupRules(c)) : GroupRules(c)[k].who \subseteq Grouped(c) \ c.direct
<1> DEFINE usable == UsableNodes(c)
           profiles == [i \in DOMAIN usable |-> [id |-> usable[i].id, group |-> usable[i].group,
                                                 tag |-> NodeTag(c, usable[i].id)]]
           plans == GroupPlans(profiles)
           apps(i) == {p \in Grouped(c) \ c.direct : c.groupOf[p] = plans[i].name}
           ss == [i \in DOMAIN plans |-> Rule(apps(i), Anywhere, GroupTag(plans[i]))]
<1>1. IsSeq(usable)
  BY ThoseAreElements DEF UsableNodes
<1>2. IsSeq(profiles)
  <2>1. DOMAIN profiles = 1..Len(usable) /\ Len(usable) \in Nat
    BY <1>1, SeqFacts
  <2>2. profiles = [i \in 1..Len(usable) |-> profiles[i]]
    BY <2>1
  <2> HIDE DEF profiles
  <2>3. QED
    BY <2>1, <2>2, FunctionIsSeq
<1>3. IsSeq(plans)
  BY <1>2, PlansAreSeq
<1>4. GroupRules(c) = FlattenSeq(ss)
  BY DEF GroupRules
<1> HIDE DEF plans
<1>5. /\ DOMAIN ss = 1..Len(plans) /\ Len(plans) \in Nat
      /\ IsSeq(ss) /\ Len(ss) = Len(plans)
  <2>1. DOMAIN ss = 1..Len(plans) /\ Len(plans) \in Nat
    BY <1>3, SeqFacts
  <2>2. ss = [i \in 1..Len(plans) |-> ss[i]]
    BY <2>1
  <2> HIDE DEF ss
  <2>3. QED
    BY <2>1, <2>2, FunctionIsSeq
<1>6. ASSUME NEW i \in 1..Len(ss)
      PROVE  IsSeq(ss[i]) /\ \A r \in ToSet(ss[i]) : r.who \subseteq Grouped(c) \ c.direct
  <2> DEFINE who == apps(i)
             out == GroupTag(plans[i])
             rule == Rule(who, Anywhere, out)
  <2>1. ss[i] = rule
    BY <1>5
  <2>2. who \subseteq Grouped(c) \ c.direct
    OBVIOUS
  <2> HIDE DEF ss, who, out
  <2>3. IsSeq(rule) /\ \A k \in 1..Len(rule) : rule[k] = [who |-> who, to |-> Anywhere, out |-> out]
    BY RuleFacts
  <2> HIDE DEF rule
  <2>4. \A r \in ToSet(rule) : r.who = who
    <3>1. DOMAIN rule = 1..Len(rule)
      BY <2>3, SeqFacts
    <3>2. QED
      BY <2>3, <3>1 DEF ToSet
  <2>5. QED
    BY <2>1, <2>2, <2>3, <2>4
<1>7. IsSeq(FlattenSeq(ss)) /\ \A r \in ToSet(FlattenSeq(ss)) : r.who \subseteq Grouped(c) \ c.direct
  BY <1>5, <1>6, Flattened
<1> HIDE DEF ss
<1>8. QED
  BY <1>4, <1>7, SeqFacts

\* What a connection meets, rule by rule: in the lists, and in the whole route.
LEMMA RouteInSteps ==
  ASSUME NEW c, IsSeq(c.nodes), NEW other, NEW p, NEW dest
  PROVE  /\ IsSeq(Route(c)) /\ IsSeq(ListRules(c))
         /\ Picked(ListRules(c), other, p, dest) =
              IF Listed(c, "lan") = Anywhere \/ dest \in Listed(c, "lan") THEN Direct
              ELSE IF Listed(c, "ads") = Anywhere \/ dest \in Listed(c, "ads") THEN Reject
              ELSE IF Listed(c, "russia") = Anywhere \/ dest \in Listed(c, "russia") THEN Direct
              ELSE IF Listed(c, "china") = Anywhere \/ dest \in Listed(c, "china") THEN Direct
              ELSE IF c.customDirect = Anywhere \/ dest \in c.customDirect THEN Direct
              ELSE IF c.customProxy = Anywhere \/ dest \in c.customProxy THEN Proxy
              ELSE IF c.customBlock = Anywhere \/ dest \in c.customBlock THEN Reject
              ELSE other
         /\ Picked(Route(c), other, p, dest) =
              IF Class["loopback"] = Anywhere \/ dest \in Class["loopback"] THEN Reject
              ELSE IF Endpoints(c) = Anywhere \/ dest \in Endpoints(c) THEN Direct
              ELSE Picked(ForcedRule(c),
                     Picked(GroupRules(c),
                       Picked(ListRules(c),
                         Picked(Rule(c.direct, Anywhere, Direct), other, p, dest),
                         p, dest),
                       p, dest),
                     p, dest)
<1> DEFINE lan == Rule(Everybody, Listed(c, "lan"), Direct)
           ads == Rule(Everybody, Listed(c, "ads"), Reject)
           russia == Rule(Everybody, Listed(c, "russia"), Direct)
           china == Rule(Everybody, Listed(c, "china"), Direct)
           straight == Rule(Everybody, c.customDirect, Direct)
           proxied == Rule(Everybody, c.customProxy, Proxy)
           blocked == Rule(Everybody, c.customBlock, Reject)
           loop == Rule(Everybody, Class["loopback"], Reject)
           servers == Rule(Everybody, Endpoints(c), Direct)
           forced == ForcedRule(c)
           groups == GroupRules(c)
           lists == ListRules(c)
           last == Rule(c.direct, Anywhere, Direct)
<1>1. lists = lan \o ads \o russia \o china \o straight \o proxied \o blocked
  BY DEF ListRules
<1>2. Route(c) = loop \o servers \o forced \o groups \o lists \o last
  BY DEF Route
<1>3. /\ IsSeq(lan) /\ IsSeq(ads) /\ IsSeq(russia) /\ IsSeq(china)
      /\ IsSeq(straight) /\ IsSeq(proxied) /\ IsSeq(blocked)
      /\ IsSeq(loop) /\ IsSeq(servers) /\ IsSeq(last)
  BY RuleFacts
<1>4. IsSeq(forced) /\ IsSeq(groups)
  BY RuleFacts, GroupRulesAreOfApps DEF ForcedRule
<1>5. \A o :
        /\ Picked(lan, o, p, dest) =
             IF Listed(c, "lan") = Anywhere \/ dest \in Listed(c, "lan") THEN Direct ELSE o
        /\ Picked(ads, o, p, dest) =
             IF Listed(c, "ads") = Anywhere \/ dest \in Listed(c, "ads") THEN Reject ELSE o
        /\ Picked(russia, o, p, dest) =
             IF Listed(c, "russia") = Anywhere \/ dest \in Listed(c, "russia") THEN Direct ELSE o
        /\ Picked(china, o, p, dest) =
             IF Listed(c, "china") = Anywhere \/ dest \in Listed(c, "china") THEN Direct ELSE o
        /\ Picked(straight, o, p, dest) =
             IF c.customDirect = Anywhere \/ dest \in c.customDirect THEN Direct ELSE o
        /\ Picked(proxied, o, p, dest) =
             IF c.customProxy = Anywhere \/ dest \in c.customProxy THEN Proxy ELSE o
        /\ Picked(blocked, o, p, dest) =
             IF c.customBlock = Anywhere \/ dest \in c.customBlock THEN Reject ELSE o
        /\ Picked(loop, o, p, dest) =
             IF Class["loopback"] = Anywhere \/ dest \in Class["loopback"] THEN Reject ELSE o
        /\ Picked(servers, o, p, dest) =
             IF Endpoints(c) = Anywhere \/ dest \in Endpoints(c) THEN Direct ELSE o
  BY PickedFromRule
<1> HIDE DEF lan, ads, russia, china, straight, proxied, blocked, loop, servers, forced, groups, lists, last
<1>6. IsSeq(lists)
  BY <1>1, <1>3, Joined
<1>7. Picked(lists, other, p, dest) =
        Picked(lan, Picked(ads, Picked(russia, Picked(china, Picked(straight, Picked(proxied, Picked(blocked,
          other, p, dest), p, dest), p, dest), p, dest), p, dest), p, dest), p, dest)
  BY <1>1, <1>3, Joined, PickedFromTwo
<1>8. IsSeq(Route(c))
  BY <1>2, <1>3, <1>4, <1>6, Joined
<1>9. Picked(Route(c), other, p, dest) =
        Picked(loop, Picked(servers, Picked(forced, Picked(groups, Picked(lists, Picked(last,
          other, p, dest), p, dest), p, dest), p, dest), p, dest), p, dest)
  BY <1>2, <1>3, <1>4, <1>6, Joined, PickedFromTwo
<1>10. QED
  BY <1>5, <1>6, <1>7, <1>8, <1>9 DEF lists, last, forced, groups

\* What a question about a name meets, rule by rule.
LEMMA NamesInSteps ==
  ASSUME NEW c, NEW other, NEW q \in Questions, NEW name \in Names
  PROVE  Given(DNSRules(c), other, q, name) =
           IF c.ipv6 = "off" /\ q = "AAAA" THEN Empty
           ELSE IF name \in Endpoints(c) THEN "direct-dns"
           ELSE IF name \in Listed(c, "ads") THEN Empty
           ELSE IF name \in Listed(c, "russia") THEN "direct-dns"
           ELSE IF name \in Listed(c, "china") THEN "direct-dns"
           ELSE IF name \in c.customDirect THEN "direct-dns"
           ELSE IF name \in c.customBlock THEN Empty
           ELSE IF c.fakeip THEN "fakeip" ELSE other
<1> DEFINE v4 == NameRule({"AAAA"}, IF c.ipv6 = "off" THEN Names ELSE {}, Empty)
           servers == NameRule(Questions, Endpoints(c) \cap Names, "direct-dns")
           ads == NameRule(Questions, Listed(c, "ads") \cap Names, Empty)
           russia == NameRule(Questions, Listed(c, "russia") \cap Names, "direct-dns")
           china == NameRule(Questions, Listed(c, "china") \cap Names, "direct-dns")
           straight == NameRule(Questions, c.customDirect \cap Names, "direct-dns")
           blocked == NameRule(Questions, c.customBlock \cap Names, Empty)
           fake == NameRule(Questions, IF c.fakeip THEN Names ELSE {}, "fakeip")
<1>1. DNSRules(c) = v4 \o servers \o ads \o russia \o china \o straight \o blocked \o fake
  BY DEF DNSRules
<1>2. /\ IsSeq(v4) /\ IsSeq(servers) /\ IsSeq(ads) /\ IsSeq(russia) /\ IsSeq(china)
      /\ IsSeq(straight) /\ IsSeq(blocked) /\ IsSeq(fake)
  BY GivenFromRule
<1>3. \A o :
        /\ Given(v4, o, q, name) = IF c.ipv6 = "off" /\ q = "AAAA" THEN Empty ELSE o
        /\ Given(servers, o, q, name) = IF name \in Endpoints(c) THEN "direct-dns" ELSE o
        /\ Given(ads, o, q, name) = IF name \in Listed(c, "ads") THEN Empty ELSE o
        /\ Given(russia, o, q, name) = IF name \in Listed(c, "russia") THEN "direct-dns" ELSE o
        /\ Given(china, o, q, name) = IF name \in Listed(c, "china") THEN "direct-dns" ELSE o
        /\ Given(straight, o, q, name) = IF name \in c.customDirect THEN "direct-dns" ELSE o
        /\ Given(blocked, o, q, name) = IF name \in c.customBlock THEN Empty ELSE o
        /\ Given(fake, o, q, name) = IF c.fakeip THEN "fakeip" ELSE o
  BY GivenFromRule
<1> HIDE DEF v4, servers, ads, russia, china, straight, blocked, fake
<1>4. Given(DNSRules(c), other, q, name) =
        Given(v4, Given(servers, Given(ads, Given(russia, Given(china, Given(straight, Given(blocked,
          Given(fake, other, q, name), q, name), q, name), q, name), q, name), q, name), q, name), q, name)
  BY <1>1, <1>2, Joined, GivenFromTwo
<1>5. QED
  BY <1>3, <1>4

-----------------------------------------------------------------------------
(* The reading that the UIDs come from                                     *)

\* One step of the choice among the sources of UIDs: a reading replaces the best one so far
\* when it knows more of the packages asked for.
Better(best, reading, requested) ==
  IF \/ reading = {}
     \/ best # {} /\ Cardinality(requested \ best) <= Cardinality(requested \ reading)
  THEN best ELSE reading

\* What the steps make of each set of the first readings.
Chosen(readings, requested, m, g) ==
  g = [t \in SUBSET (1..m) |->
         IF t = {} THEN {} ELSE Better(g[t \ {Max(t)}], readings[Max(t)], requested)]

\* The choice reading by reading: the best of each number of readings.
LEMMA BestInSteps ==
  ASSUME NEW readings, IsSeq(readings), NEW requested
  PROVE  \E best : /\ best[0] = {}
                   /\ \A k \in 1..Len(readings) : best[k] = Better(best[k - 1], readings[k], requested)
                   /\ Best(readings, requested) = best[Len(readings)]
<1> DEFINE G == {m \in Nat : \E g : Chosen(readings, requested, m, g)}
<1>1. 0 \in G
  <2>1. SUBSET (1..0) = {{}}
    OBVIOUS
  <2>2. Chosen(readings, requested, 0, [t \in SUBSET (1..0) |-> {}])
    BY <2>1 DEF Chosen
  <2>3. QED
    BY <2>2
<1>2. ASSUME NEW m \in Nat, m \in G PROVE m + 1 \in G
  <2>1. PICK g : Chosen(readings, requested, m, g)
    BY <1>2
  <2> DEFINE h == [t \in SUBSET (1..(m + 1)) |->
                     IF m + 1 \in t THEN Better(g[t \ {m + 1}], readings[m + 1], requested) ELSE g[t]]
  <2>2. ASSUME NEW t \in SUBSET (1..(m + 1))
        PROVE  h[t] = IF t = {} THEN {} ELSE Better(h[t \ {Max(t)}], readings[Max(t)], requested)
    <3>1. CASE m + 1 \in t
      <4>1. h[t \ {m + 1}] = g[t \ {m + 1}]
        OBVIOUS
      <4>2. QED
        BY <3>1, <4>1, MaxOfTop
    <3>2. CASE m + 1 \notin t
      <4>1. t \in SUBSET (1..m) /\ t \ {Max(t)} \in SUBSET (1..m) /\ m + 1 \notin t \ {Max(t)}
        BY <3>2, WithoutMax
      <4>2. h[t] = g[t] /\ h[t \ {Max(t)}] = g[t \ {Max(t)}]
        BY <3>2, <4>1
      <4> HIDE DEF h
      <4>3. QED
        BY <2>1, <4>1, <4>2 DEF Chosen
    <3>3. QED
      BY <3>1, <3>2
  <2>3. h = [t \in SUBSET (1..(m + 1)) |-> h[t]]
    OBVIOUS
  <2> HIDE DEF h
  <2>4. Chosen(readings, requested, m + 1, h)
    BY <2>2, <2>3, Zenon DEF Chosen
  <2>5. QED
    BY <2>4
<1> HIDE DEF G
<1>3. \E g : Chosen(readings, requested, Len(readings), g)
  BY <1>1, <1>2, Induction, SeqFacts DEF G
<1> DEFINE n == Len(readings)
           it == CHOOSE g : Chosen(readings, requested, n, g)
           best == [k \in 0..n |-> it[1..k]]
<1>4. Chosen(readings, requested, n, it)
  BY <1>3
<1>5. Best(readings, requested) = it[1..n]
  <2>1. DOMAIN readings = 1..n
    BY SeqFacts
  <2>2. QED
    BY <2>1 DEF Best, FoldLeft, MapThenFoldSet, Chosen, Better
<1>6. n \in Nat
  BY SeqFacts
<1> HIDE DEF n, it
<1>7. best[0] = {} /\ best[n] = it[1..n]
  BY <1>4, <1>6 DEF Chosen
<1>8. ASSUME NEW k \in 1..n PROVE best[k] = Better(best[k - 1], readings[k], requested)
  <2>1. Max(1..k) = k /\ (1..k) \ {k} = 1..(k - 1) /\ 1..k # {} /\ 1..k \in SUBSET (1..n)
    BY <1>6, UpTo
  <2>2. it[1..k] = Better(it[1..(k - 1)], readings[k], requested)
    BY <1>4, <2>1 DEF Chosen
  <2>3. QED
    BY <2>2, <1>6
<1>9. QED
  BY <1>5, <1>7, <1>8 DEF n

\* The reading that is taken is one that answered, and misses as few as any.
LEMMA BestFacts ==
  ASSUME NEW readings, IsSeq(readings), NEW requested, IsFiniteSet(requested)
  PROVE  \/ /\ Best(readings, requested) = {}
            /\ \A i \in 1..Len(readings) : readings[i] = {}
         \/ /\ Best(readings, requested) # {}
            /\ \E i \in 1..Len(readings) : Best(readings, requested) = readings[i]
            /\ \A i \in 1..Len(readings) : readings[i] # {} =>
                 Cardinality(requested \ Best(readings, requested)) <= Cardinality(requested \ readings[i])
<1> DEFINE n == Len(readings)
           Missed(x) == Cardinality(requested \ x)
           Good(b, m) ==
             \/ b = {} /\ \A i \in 1..m : readings[i] = {}
             \/ /\ b # {} /\ \E i \in 1..m : b = readings[i]
                /\ \A i \in 1..m : readings[i] # {} => Missed(b) <= Missed(readings[i])
<1>1. \A x : Missed(x) \in Nat
  <2>1. ASSUME NEW x PROVE Cardinality(requested \ x) \in Nat
    <3>1. IsFiniteSet(requested \ x)
      BY FS_Difference
    <3>2. QED
      BY <3>1, FS_CardinalityType
  <2>2. QED
    BY <2>1
<1>2. PICK best : /\ best[0] = {}
                  /\ \A k \in 1..n : best[k] = Better(best[k - 1], readings[k], requested)
                  /\ Best(readings, requested) = best[n]
  BY BestInSteps
<1>3. n \in Nat
  BY SeqFacts
<1>4. \A k \in 1..n :
        best[k] = IF readings[k] = {} \/ (best[k - 1] # {} /\ Missed(best[k - 1]) <= Missed(readings[k]))
                                THEN best[k - 1] ELSE readings[k]
  BY <1>2 DEF Better
<1> HIDE DEF n, Missed
<1> DEFINE G == {k \in 0..n : Good(best[k], k)}
<1>5. 0 \in G
  BY <1>2, <1>3
<1>6. ASSUME NEW k \in 0..(n - 1), k \in G PROVE k + 1 \in G
  <2> DEFINE old == best[k]
             new == best[k + 1]
             r == readings[k + 1]
  <2>1. k \in Nat /\ k + 1 \in 1..n /\ (k + 1) - 1 = k /\ k + 1 \in 0..n
    BY <1>3
  <2>2. new = IF r = {} \/ (old # {} /\ Missed(old) <= Missed(r)) THEN old ELSE r
    BY <1>4, <2>1
  <2>3. Good(old, k)
    BY <1>6
  <2>4. \A i \in 1..(k + 1) : i \in 1..k \/ i = k + 1
    BY <2>1
  <2>5. \A i \in 1..k : i \in 1..(k + 1)
    BY <2>1
  <2>6. k + 1 \in 1..(k + 1)
    BY <2>1
  <2>7. r = readings[k + 1]
    OBVIOUS
  <2> HIDE DEF old, new, r
  <2>8. CASE r = {} \/ (old # {} /\ Missed(old) <= Missed(r))
    <3>1. Good(old, k + 1)
      BY <1>1, <2>3, <2>4, <2>5, <2>7, <2>8
    <3>2. QED
      BY <2>1, <2>2, <2>8, <3>1 DEF new
  <2>9. CASE r # {} /\ old = {}
    <3>1. Good(r, k + 1)
      BY <1>1, <2>3, <2>4, <2>6, <2>7, <2>9
    <3>2. QED
      BY <2>1, <2>2, <2>9, <3>1 DEF new
  <2>10. CASE r # {} /\ old # {} /\ ~(Missed(old) <= Missed(r))
    <3>1. \A i \in 1..k : readings[i] # {} => Missed(r) <= Missed(readings[i])
      BY <1>1, <2>3, <2>10
    <3>2. Good(r, k + 1)
      BY <1>1, <2>4, <2>6, <2>7, <2>10, <3>1
    <3>3. QED
      BY <2>1, <2>2, <2>10, <3>2 DEF new
  <2>11. QED
    BY <2>8, <2>9, <2>10
<1> HIDE DEF G
<1>7. 0..n \subseteq G
  BY <1>3, <1>5, <1>6, BoundedInduction
<1>8. Good(best[n], n)
  BY <1>3, <1>7 DEF G
<1>9. QED
  BY <1>2, <1>8 DEF n, Missed

\* A package is among those that are taken when a source knew every package asked for,
\* or when every source that answered knew this one.
LEMMA KnownIsTaken ==
  ASSUME NEW readings, IsSeq(readings), NEW requested, IsFiniteSet(requested), NEW p,
         \/ p \in requested /\ \E i \in 1..Len(readings) : requested \subseteq readings[i]
         \/ /\ \E i \in 1..Len(readings) : p \in readings[i]
            /\ \A i \in 1..Len(readings) : readings[i] = {} \/ p \in readings[i]
  PROVE  p \in Best(readings, requested)
<1> DEFINE b == Best(readings, requested)
<1>1. \/ b = {} /\ \A i \in 1..Len(readings) : readings[i] = {}
      \/ /\ b # {} /\ \E i \in 1..Len(readings) : b = readings[i]
         /\ \A i \in 1..Len(readings) : readings[i] # {} =>
              Cardinality(requested \ b) <= Cardinality(requested \ readings[i])
  BY BestFacts
<1> HIDE DEF b
<1>2. b # {} /\ \E i \in 1..Len(readings) : b = readings[i]
  BY <1>1
<1>3. CASE p \in requested /\ \E i \in 1..Len(readings) : requested \subseteq readings[i]
  <2>1. PICK i \in 1..Len(readings) : requested \subseteq readings[i]
    BY <1>3
  <2>2. readings[i] # {} /\ requested \ readings[i] = {}
    BY <1>3, <2>1
  <2>3. Cardinality(requested \ readings[i]) = 0
    BY <2>2, FS_EmptySet
  <2>4. Cardinality(requested \ b) <= 0
    BY <1>1, <1>2, <2>2, <2>3
  <2>5. IsFiniteSet(requested \ b)
    BY FS_Difference
  <2>6. Cardinality(requested \ b) = 0
    BY <2>4, <2>5, FS_CardinalityType
  <2>7. requested \ b = {}
    BY <2>5, <2>6, FS_EmptySet
  <2>8. QED
    BY <1>3, <2>7 DEF b
<1>4. CASE \A i \in 1..Len(readings) : readings[i] = {} \/ p \in readings[i]
  BY <1>2, <1>4 DEF b
<1>5. QED
  BY <1>3, <1>4

-----------------------------------------------------------------------------
(* The path of a connection                                                *)

\* What the sources said of the packages that were there.
ReadFrom(readings, packages) ==
  IsSeq(readings) /\ \A i \in 1..Len(readings) : readings[i] \subseteq packages

\* sing-box and the kernel work by one configuration; the kernel knows the packages of
\* the moment when its rules were built, all of which are still there.
PathInv ==
  /\ cfg \in Configs /\ installed \subseteq Packages
  /\ Running =>
       /\ ~RenderFails(cfg) /\ box = Render(cfg)
       /\ \E was \in SUBSET installed :
            /\ ReadFrom(read.always, was) /\ ReadFrom(read.selected, was)
            /\ env = BuildEnv(cfg, read.system, read.always, read.selected)
            /\ read.system \subseteq was

\* They say nothing of packages that are not installed.
LEMMA ReadingsAreOfInstalled ==
  ASSUME NEW packages, NEW f, NEW readings \in Readings(packages, f)
  PROVE  ReadFrom(readings, packages)
<1>1. PICK l, c, s :
        readings = <<l, c, s>> /\ l \subseteq packages /\ c \subseteq packages /\ s \subseteq packages
  BY DEF Readings
<1>2. readings \in Seq({l, c, s}) /\ Len(readings) = 3
  BY <1>1
<1>3. IsSeq(readings)
  BY <1>2, SeqIsSeq
<1>4. \A i \in 1..3 : i = 1 \/ i = 2 \/ i = 3
  OBVIOUS
<1>5. QED
  BY <1>1, <1>2, <1>3, <1>4 DEF ReadFrom

\* PathInv is inductive.
LEMMA PathInvInductive == (PathInit => PathInv) /\ (PathInv /\ [PathNext]_pathVars => PathInv')
<1>1. ASSUME PathInit PROVE PathInv
  <2>1. ~Running
    BY <1>1 DEF PathInit, Running
  <2>2. QED
    BY <1>1, <2>1 DEF PathInit, PathInv, Configs
<1>2. ASSUME PathInv, [PathNext]_pathVars PROVE PathInv'
  <2>1. CASE UNCHANGED pathVars \/ StartFails
    BY <1>2, <2>1 DEF StartFails, pathVars, setup, PathInv, Running
  <2>2. ASSUME ApplyRules, UNCHANGED <<setup, installed>>, ~RenderFails(cfg), box' = Render(cfg)
        PROVE  PathInv'
    <3>1. PICK system \in SystemReadings(cfg, installed, faulty), always, selected \in Readings(installed, faulty) :
            /\ read' = [system |-> system, always |-> always, selected |-> selected]
            /\ env' = BuildEnv(cfg, system, always, selected)
      BY <2>2 DEF ApplyRules
    <3>2. ReadFrom(always, installed) /\ ReadFrom(selected, installed)
      BY ReadingsAreOfInstalled
    <3>3. system \subseteq installed
      BY DEF SystemReadings
    <3>4. /\ cfg' = cfg /\ installed' = installed
          /\ read'.system = system /\ read'.always = always /\ read'.selected = selected
      BY <2>2, <3>1 DEF setup
    <3>5. installed \in SUBSET installed'
      BY <3>4
    <3>6. QED
      BY <1>2, <2>2, <3>1, <3>2, <3>3, <3>4, <3>5 DEF PathInv
  <2>3. CASE Start
    BY <2>2, <2>3 DEF Start
  <2>4. CASE Reapply
    <3>1. ~RenderFails(cfg) /\ box' = Render(cfg)
      BY <1>2, <2>4 DEF Reapply, PathInv, Running
    <3>2. QED
      BY <2>2, <2>4, <3>1 DEF Reapply
  <2>5. CASE Stop
    <3>1. ~Running'
      BY <2>5 DEF Stop, Running
    <3>2. QED
      BY <1>2, <2>5, <3>1 DEF Stop, setup, PathInv
  <2>6. ASSUME NEW p \in Packages, Install(p) PROVE PathInv'
    <3>1. cfg' = cfg /\ box' = box /\ env' = env /\ read' = read /\ installed' = installed \cup {p}
      BY <2>6 DEF Install, setup
    <3>2. Running' = Running
      BY <3>1 DEF Running
    <3>3. installed \subseteq installed' /\ installed' \subseteq Packages
      BY <1>2, <3>1 DEF PathInv
    <3>4. QED
      BY <1>2, <3>1, <3>2, <3>3 DEF PathInv
  <2>7. QED
    BY <1>2, <2>1, <2>3, <2>4, <2>5, <2>6 DEF PathNext
<1>3. QED
  BY <1>1, <1>2

\* It holds in every reachable state.
LEMMA AlwaysPathInv == PathSpec => []PathInv
BY PathInvInductive, PTL DEF PathSpec

\* A list that is on is never the one destination that stands for all.
LEMMA ListsAreDestinations ==
  ASSUME NEW c \in Configs
  PROVE  /\ Class["loopback"] # Anywhere /\ Endpoints(c) # Anywhere
         /\ \A k \in {"lan", "ads", "russia", "china"} :
              Listed(c, k) # Anywhere /\ Listed(c, k) \subseteq Class[k]
         /\ c.customDirect # Anywhere /\ c.customProxy # Anywhere /\ c.customBlock # Anywhere
BY TrafficPathAssumption DEF Anywhere, Listed

\* The nodes of a configuration are a sequence.
LEMMA NodesAreSeq == ASSUME NEW c \in Configs PROVE IsSeq(c.nodes)
BY TrafficPathAssumption DEF IsSeq

\* No app, no rule: what a connection meets in a rule for apps when its own is not named.
LEMMA AppRulesLeaveAlone ==
  ASSUME NEW c \in Configs, NEW p, NEW dest, NEW other
  PROVE  /\ p \notin c.packages \ (c.direct \cup Grouped(c)) => Picked(ForcedRule(c), other, p, dest) = other
         /\ p \notin Grouped(c) \ c.direct => Picked(GroupRules(c), other, p, dest) = other
<1>1. Packages \cap Everybody = {} /\ c.packages \subseteq Packages /\ Grouped(c) \subseteq Packages
  BY TrafficPathAssumption DEF Grouped
<1>2. ASSUME p \notin c.packages \ (c.direct \cup Grouped(c))
      PROVE  Picked(ForcedRule(c), other, p, dest) = other
  <2> DEFINE who == IF c.mode = "rules" /\ c.apps = "all" THEN c.packages \ (c.direct \cup Grouped(c)) ELSE {}
  <2>1. p \notin who /\ who # Everybody
    BY <1>1, <1>2 DEF Everybody
  <2>2. ForcedRule(c) = Rule(who, Anywhere, Proxy)
    BY DEF ForcedRule
  <2> HIDE DEF who
  <2>3. QED
    BY <2>1, <2>2, PickedFromRule
<1>3. ASSUME p \notin Grouped(c) \ c.direct PROVE Picked(GroupRules(c), other, p, dest) = other
  <2>1. \A k \in 1..Len(GroupRules(c)) : GroupRules(c)[k].who \subseteq Grouped(c) \ c.direct
    BY NodesAreSeq, GroupRulesAreOfApps
  <2>2. \A k \in 1..Len(GroupRules(c)) : ~Fits(GroupRules(c)[k], p, dest)
    BY <1>1, <1>3, <2>1 DEF Fits, Everybody
  <2>3. QED
    BY <2>2, NoneFits
<1>4. QED
  BY <1>2, <1>3

\* PathSpec => []NoProxyLoop: whoever makes it and whatever routing says, a connection to the
\* server of a node goes around the tunnel or is cut off, and the name of the server is asked
\* for directly, or has no answer because IPv6 is off.
THEOREM ServersAreReachedDirectly == PathSpec => []NoProxyLoop
<1>1. ASSUME PathInv PROVE NoProxyLoop
  <2>1. SUFFICES ASSUME Running, NEW server \in Endpoints(cfg)
                 PROVE  /\ \A p \in Packages : Path(p, server) \in {Direct, Reject}
                        /\ server \in Names => \A q \in Questions :
                             Answered(box, q, server)
                               \in {"direct-dns"} \cup (IF cfg.ipv6 = "off" /\ q = "AAAA" THEN {Empty} ELSE {})
    BY DEF NoProxyLoop
  <2>2. cfg \in Configs /\ box.rules = Route(cfg) /\ box.final = Final(cfg) /\ box.names = DNSRules(cfg)
    BY <1>1, <2>1 DEF PathInv, Render
  <2>3. ASSUME NEW p \in Packages PROVE Path(p, server) \in {Direct, Reject}
    <3>1. Routed(box, p, server) = Picked(Route(cfg), Final(cfg), p, server)
      BY <2>2, RoutedIsPicked
    <3>2. Routed(box, p, server) \in {Direct, Reject}
      BY <2>2, <3>1, NodesAreSeq, RouteInSteps
    <3>3. QED
      BY <3>2 DEF Path
  <2>4. ASSUME server \in Names, NEW q \in Questions
        PROVE  Answered(box, q, server)
                 \in {"direct-dns"} \cup (IF cfg.ipv6 = "off" /\ q = "AAAA" THEN {Empty} ELSE {})
    <3>1. Answered(box, q, server) = Given(DNSRules(cfg), "remote-dns", q, server)
      BY <2>2, AnsweredIsGiven
    <3>2. QED
      BY <2>4, <3>1, NamesInSteps
  <2>5. QED
    BY <2>3, <2>4
<1>2. QED
  BY <1>1, AlwaysPathInv, PTL

\* The environment of an app mode.
LEMMA EnvIsOfMode ==
  ASSUME NEW c \in Configs, NEW system, NEW always, NEW selected
  PROVE  LET e == BuildEnv(c, system, always, selected)
             app == IF c.mode = "direct" THEN "off" ELSE c.apps
             uids == ResolvePackages(c, selected)
             bypass == {NetworkStack} \cup ResolveAlwaysDirect(c, system, always)
         IN  /\ app = "whitelist" => e = Environment("whitelist", uids, {}, bypass, "uids")
             /\ app = "blacklist" => e = Environment("blacklist", {}, uids, bypass, "all_except_uids")
             /\ app = "off" => e = Environment("off", {}, {}, bypass, "off")
             /\ app = "all" => e = Environment("all", {}, {}, bypass, "all")
             /\ app \in {"all", "whitelist", "blacklist", "off"}
<1>1. c.apps \in {"all", "whitelist", "blacklist", "off"}
  BY TrafficPathAssumption
<1>2. QED
  BY <1>1 DEF BuildEnv, EnvOf

\* An app that no rule for apps is about passes the rules for apps.
LEMMA AppsHaveRules ==
  ASSUME NEW c \in Configs, NEW b, b.rules = Route(c), NEW p \in Packages,
         \A k \in 1..Len(b.rules) : ~(b.rules[k].who # Everybody /\ p \in b.rules[k].who)
  PROVE  \A other, dest :
           /\ Picked(ForcedRule(c), other, p, dest) = other
           /\ Picked(GroupRules(c), other, p, dest) = other
           /\ Picked(Rule(c.direct, Anywhere, Direct), other, p, dest) = other
<1> DEFINE fore == Rule(Everybody, Class["loopback"], Reject) \o Rule(Everybody, Endpoints(c), Direct)
           forced == ForcedRule(c)
           groups == GroupRules(c)
           lists == ListRules(c)
           last == Rule(c.direct, Anywhere, Direct)
<1>1. Route(c) = (((fore \o forced) \o groups) \o lists) \o last
  BY DEF Route
<1>2. IsSeq(fore) /\ IsSeq(forced) /\ IsSeq(groups) /\ IsSeq(lists) /\ IsSeq(last)
  BY NodesAreSeq, RuleFacts, RouteInSteps, GroupRulesAreOfApps, Joined DEF ForcedRule
<1> HIDE DEF fore, forced, groups, lists, last
<1>3. ToSet(Route(c)) = ToSet(fore) \cup ToSet(forced) \cup ToSet(groups) \cup ToSet(lists) \cup ToSet(last)
  BY <1>1, <1>2, Joined, ElementsOfTwo
<1>4. \A r \in ToSet(Route(c)) : ~(r.who # Everybody /\ p \in r.who)
  <2>1. IsSeq(Route(c)) /\ DOMAIN Route(c) = 1..Len(Route(c))
    BY NodesAreSeq, RouteInSteps, SeqFacts
  <2>2. QED
    BY <2>1 DEF ToSet
<1>5. Packages \cap Everybody = {} /\ Everybody # {}
  BY TrafficPathAssumption DEF Everybody
<1>6. ASSUME NEW s, IsSeq(s), ToSet(s) \subseteq ToSet(Route(c)), \A k \in 1..Len(s) : s[k].who # Everybody
      PROVE  \A other, dest : Picked(s, other, p, dest) = other
  <2>1. \A k \in 1..Len(s) : s[k] \in ToSet(s)
    BY <1>6, SeqFacts
  <2>2. \A dest : \A k \in 1..Len(s) : ~Fits(s[k], p, dest)
    BY <1>4, <1>6, <2>1 DEF Fits
  <2>3. QED
    BY <2>2, NoneFits
<1>7. ASSUME NEW who, NEW to, NEW out, who # Everybody
      PROVE  \A k \in 1..Len(Rule(who, to, out)) : Rule(who, to, out)[k].who # Everybody
  <2>1. \A k \in 1..Len(Rule(who, to, out)) : Rule(who, to, out)[k] = [who |-> who, to |-> to, out |-> out]
    BY RuleFacts
  <2>2. QED
    BY <1>7, <2>1
<1>8. \A k \in 1..Len(groups) : groups[k].who # Everybody
  <2>1. \A k \in 1..Len(groups) : groups[k].who \subseteq Grouped(c) \ c.direct
    BY NodesAreSeq, GroupRulesAreOfApps DEF groups
  <2>2. Grouped(c) \subseteq Packages
    BY TrafficPathAssumption DEF Grouped
  <2>3. QED
    BY <1>5, <2>1, <2>2
<1>9. \A k \in 1..Len(forced) : forced[k].who # Everybody
  <2> DEFINE who == IF c.mode = "rules" /\ c.apps = "all" THEN c.packages \ (c.direct \cup Grouped(c)) ELSE {}
  <2>1. forced = Rule(who, Anywhere, Proxy)
    BY DEF forced, ForcedRule
  <2>2. who # Everybody
    BY <1>5, TrafficPathAssumption
  <2> HIDE DEF who
  <2>3. QED
    BY <1>7, <2>1, <2>2
<1>10. \A k \in 1..Len(last) : last[k].who # Everybody
  <2>1. c.direct # Everybody
    BY <1>5, TrafficPathAssumption
  <2>2. QED
    BY <1>7, <2>1 DEF last
<1>11. QED
  BY <1>2, <1>3, <1>6, <1>8, <1>9, <1>10 DEF forced, groups, last

\* Where the question for a name goes.
LEMMA AskedIsGiven ==
  ASSUME PathInv, Running, ~cfg.fakeip, NEW name \in Names
  PROVE  Asked(name) =
           IF name \in Endpoints(cfg) THEN Direct
           ELSE IF name \in Listed(cfg, "ads") THEN Reject
           ELSE IF name \in Listed(cfg, "russia") THEN Direct
           ELSE IF name \in Listed(cfg, "china") THEN Direct
           ELSE IF name \in cfg.customDirect THEN Direct
           ELSE IF name \in cfg.customBlock THEN Reject
           ELSE IF NeedsXray(cfg) THEN Direct ELSE Proxy
<1> DEFINE answer == Answered(box, "A", name)
           remote == IF NeedsXray(cfg) THEN Direct ELSE Proxy
<1>1. box.names = DNSRules(cfg) /\ box.servers = DNSServers(cfg)
  BY DEF PathInv, Render
<1>2. answer = IF name \in Endpoints(cfg) THEN "direct-dns"
               ELSE IF name \in Listed(cfg, "ads") THEN Empty
               ELSE IF name \in Listed(cfg, "russia") THEN "direct-dns"
               ELSE IF name \in Listed(cfg, "china") THEN "direct-dns"
               ELSE IF name \in cfg.customDirect THEN "direct-dns"
               ELSE IF name \in cfg.customBlock THEN Empty ELSE "remote-dns"
  BY <1>1, AnsweredIsGiven, NamesInSteps DEF Questions
<1>3. box.servers = {<<"remote-dns", remote>>, <<"direct-dns", Direct>>, <<"bootstrap-dns", Direct>>}
  BY <1>1 DEF DNSServers
<1> HIDE DEF answer, remote
<1>4. /\ \A s \in box.servers : s[1] = "direct-dns" => s[2] = Direct
      /\ \A s \in box.servers : s[1] = "remote-dns" => s[2] = remote
      /\ \A t \in {"direct-dns", "remote-dns"} : \E s \in box.servers : s[1] = t
  BY <1>3
<1>5. answer # Empty => answer \in {"direct-dns", "remote-dns"}
  BY <1>2
<1>6. /\ answer = "direct-dns" => (CHOOSE s \in box.servers : s[1] = answer)[2] = Direct
      /\ answer = "remote-dns" => (CHOOSE s \in box.servers : s[1] = answer)[2] = remote
  BY <1>4
<1>7. Asked(name) = IF answer = Empty THEN Reject ELSE IF answer = "direct-dns" THEN Direct ELSE remote
  BY <1>5, <1>6 DEF Asked, answer
<1>8. Empty # "direct-dns" /\ Empty # "remote-dns"
  BY DEF Empty
<1>9. QED
  BY <1>2, <1>7, <1>8 DEF remote

\* PathSpec => []DnsAgreesWithRoute: the DNS of an app is redirected exactly when its connections
\* are marked.  The question for a name goes to a node, directly or nowhere like the connections
\* of every app that no rule for apps is about, and to a node for every app that reaches the name
\* through one and whose own rule no list for names contradicts; with an Xray sidecar it goes
\* directly instead.
THEOREM NamesGoTheWayOfConnections == PathSpec => []DnsAgreesWithRoute
<1>1. ASSUME PathInv PROVE DnsAgreesWithRoute
  <2>1. SUFFICES ASSUME Running PROVE DnsAgreesWithRoute
    BY DEF DnsAgreesWithRoute
  <2>2. cfg \in Configs /\ box.rules = Route(cfg) /\ box.final = Final(cfg)
    BY <1>1, <2>1 DEF PathInv, Render
  <2>3. ASSUME NEW uid \in Uids, NEW dest \in Dests \ Reserved
        PROVE  Redirected(env, uid) <=> Marked(env, uid, dest)
    <3>1. PICK system, always, selected : env = BuildEnv(cfg, system, always, selected)
      BY <1>1, <2>1 DEF PathInv
    <3>2. QED
      BY <2>2, <3>1, EnvIsOfMode DEF Redirected, Marked, Environment
  <2>4. ASSUME cfg.mode # "direct", ~cfg.fakeip, NEW p \in Packages,
               NEW name \in Names \ (cfg.customProxy \cap cfg.customBlock)
        PROVE  LET out == Routed(box, p, name)
                   proxy == IF NeedsXray(cfg) THEN Direct ELSE Proxy
               IN  /\ ~HasOwnRule(p) => Asked(name) = IF out = Proxy THEN proxy ELSE out
                   /\ out \notin {Direct, Reject} => Asked(name) = proxy \/ (HasOwnRule(p) /\ name \in ListedNames)
    <3> DEFINE out == Routed(box, p, name)
               asked == Asked(name)
               proxy == IF NeedsXray(cfg) THEN Direct ELSE Proxy
               lists == IF name \in Listed(cfg, "ads") THEN Reject
                        ELSE IF name \in Listed(cfg, "russia") THEN Direct
                        ELSE IF name \in Listed(cfg, "china") THEN Direct
                        ELSE IF name \in cfg.customDirect THEN Direct
                        ELSE IF name \in cfg.customProxy THEN Proxy
                        ELSE IF name \in cfg.customBlock THEN Reject ELSE Proxy
    <3>1. out = Picked(Route(cfg), Final(cfg), p, name)
      BY <2>2, RoutedIsPicked
    <3>2. name \notin Class["loopback"] /\ name \notin Listed(cfg, "lan")
      BY <2>2, TrafficPathAssumption, ListsAreDestinations
    <3>3. Final(cfg) = Proxy
      BY <2>4 DEF Final
    <3>4. asked = IF name \in Endpoints(cfg) THEN Direct
                  ELSE IF name \in Listed(cfg, "ads") THEN Reject
                  ELSE IF name \in Listed(cfg, "russia") THEN Direct
                  ELSE IF name \in Listed(cfg, "china") THEN Direct
                  ELSE IF name \in cfg.customDirect THEN Direct
                  ELSE IF name \in cfg.customBlock THEN Reject ELSE proxy
      BY <1>1, <2>1, <2>4, AskedIsGiven
    <3>5. Direct # Proxy /\ Direct # Reject /\ Proxy # Reject
      BY DEF Direct, Proxy, Reject
    <3>6. name \in Endpoints(cfg) => out = Direct
      BY <2>2, <3>1, <3>2, NodesAreSeq, RouteInSteps, ListsAreDestinations
    <3>7. name \notin ListedNames /\ name \notin Endpoints(cfg) => asked = proxy
      BY <3>4 DEF ListedNames
    <3>8. ASSUME ~HasOwnRule(p)
          PROVE  out = IF name \in Endpoints(cfg) THEN Direct ELSE lists
      <4>1. IsSeq(Route(cfg)) /\ DOMAIN box.rules = 1..Len(box.rules)
        BY <2>2, NodesAreSeq, RouteInSteps, SeqFacts
      <4>2. \A k \in 1..Len(box.rules) : ~(box.rules[k].who # Everybody /\ p \in box.rules[k].who)
        BY <3>8, <4>1 DEF HasOwnRule
      <4>3. \A o : /\ Picked(ForcedRule(cfg), o, p, name) = o /\ Picked(GroupRules(cfg), o, p, name) = o
                   /\ Picked(Rule(cfg.direct, Anywhere, Direct), o, p, name) = o
        BY <2>2, <4>2, AppsHaveRules
      <4>4. Picked(ListRules(cfg), Proxy, p, name) = lists
        BY <2>2, <3>2, NodesAreSeq, RouteInSteps, ListsAreDestinations
      <4> HIDE DEF lists
      <4>5. Picked(Route(cfg), Proxy, p, name) = IF name \in Endpoints(cfg) THEN Direct ELSE lists
        BY <2>2, <3>2, <4>3, <4>4, NodesAreSeq, RouteInSteps, ListsAreDestinations
      <4>6. QED
        BY <3>1, <3>3, <4>5
    <3> HIDE DEF out, asked, proxy
    <3>9. ~HasOwnRule(p) => asked = IF out = Proxy THEN proxy ELSE out
      BY <2>4, <3>4, <3>5, <3>8
    <3>10. out \notin {Direct, Reject} => asked = proxy \/ (HasOwnRule(p) /\ name \in ListedNames)
      <4>1. CASE HasOwnRule(p)
        BY <3>6, <3>7, <4>1
      <4>2. CASE ~HasOwnRule(p)
        <5>1. out \in {Direct, Reject, Proxy}
          BY <3>8, <4>2
        <5>2. QED
          BY <3>9, <4>2, <5>1
      <4>3. QED
        BY <4>1, <4>2
    <3>11. QED
      BY <3>9, <3>10 DEF out, asked, proxy
  <2>5. QED
    BY <2>3, <2>4 DEF DnsAgreesWithRoute
<1>2. QED
  BY <1>1, AlwaysPathInv, PTL

\* A package that was known when the kernel's rules were built was there then, and is taken.
LEMMA KnownThen ==
  ASSUME PathInv, Running, NEW was \in SUBSET installed, NEW readings, ReadFrom(readings, was),
         NEW wanted, IsFiniteSet(wanted), NEW p, KnownWhenBuilt(p, wanted, readings)
  PROVE  p \in was /\ p \in Best(readings, wanted)
<1>1. /\ IsSeq(readings) /\ DOMAIN readings = 1..Len(readings)
      /\ \A i \in 1..Len(readings) : readings[i] \subseteq was
  BY SeqFacts DEF ReadFrom
<1>2. CASE p \in wanted /\ \E i \in DOMAIN readings : wanted \subseteq readings[i]
  <2>1. p \in was /\ p \in wanted /\ \E i \in 1..Len(readings) : wanted \subseteq readings[i]
    BY <1>1, <1>2
  <2>2. QED
    BY <1>1, <2>1, KnownIsTaken
<1>3. CASE /\ \E i \in DOMAIN readings : p \in readings[i]
           /\ \A i \in DOMAIN readings : readings[i] = {} \/ p \in readings[i]
  <2>1. p \in was
    BY <1>1, <1>3
  <2>2. QED
    BY <1>1, <1>3, <2>1, KnownIsTaken
<1>4. QED
  BY <1>2, <1>3 DEF KnownWhenBuilt

\* PathSpec => []DirectAppsGoDirect: an app that must not be proxied is not.  The kernel lets
\* it pass when a source knew it (KnownWhenBuilt), and the rules of sing-box keep one that the
\* user named out of the nodes whatever the sources knew.
THEOREM DirectAppsStayDirect == PathSpec => []DirectAppsGoDirect
<1>1. ASSUME PathInv PROVE DirectAppsGoDirect
  <2>1. SUFFICES ASSUME Running PROVE DirectAppsGoDirect
    BY DEF DirectAppsGoDirect
  <2>2. cfg \in Configs /\ installed \subseteq Packages /\ box.rules = Route(cfg) /\ box.final = Final(cfg)
    BY <1>1, <2>1 DEF PathInv, Render
  <2>3. PICK was \in SUBSET installed :
          /\ ReadFrom(read.always, was) /\ ReadFrom(read.selected, was)
          /\ env = BuildEnv(cfg, read.system, read.always, read.selected)
          /\ read.system \subseteq was
    BY <1>1, <2>1 DEF PathInv
  <2> DEFINE wanted == cfg.direct \cup read.system
  <2>4. /\ IsFiniteSet(Packages) /\ IsFiniteSet(wanted) /\ IsFiniteSet(cfg.packages)
        /\ cfg.direct \subseteq Packages /\ NetworkStack \notin Packages
    <3>1. IsFiniteSet(Packages) /\ cfg.direct \subseteq Packages /\ cfg.packages \subseteq Packages
      BY <2>2, TrafficPathAssumption
    <3>2. wanted \subseteq Packages
      BY <2>2, <2>3, <3>1
    <3>3. QED
      BY <3>1, <3>2, FS_Subset, AppRoutingAssumption
  <2>6. ASSUME NEW p \in installed, KeptDirect(p)
        PROVE  ~Redirected(env, p) /\ \A dest \in Dests : ~Marked(env, p, dest)
    <3>1. CASE /\ p \in cfg.direct \/ (p \in BuiltIn \cup read.system /\ p \notin cfg.excluded)
               /\ KnownWhenBuilt(p, cfg.direct \cup read.system, read.always)
      <4>1. p \in was /\ p \in Best(read.always, wanted)
        BY <1>1, <2>1, <2>3, <2>4, <3>1, KnownThen
      <4>2. p \in ResolveAlwaysDirect(cfg, read.system, read.always)
        BY <3>1, <4>1 DEF ResolveAlwaysDirect, AlwaysDirect
      <4>3. p \in env.bypass
        BY <2>2, <2>3, <4>2, EnvIsOfMode DEF Environment
      <4>4. QED
        BY <4>3 DEF Redirected, Marked
    <3>2. CASE cfg.mode = "direct" \/ cfg.apps = "off"
      <4>1. env.app = "off" /\ env.scope = "off"
        BY <2>2, <2>3, <3>2, EnvIsOfMode DEF Environment
      <4>2. QED
        BY <4>1 DEF Redirected, Marked
    <3>3. CASE cfg.mode # "direct" /\ cfg.apps = "whitelist" /\ p \notin cfg.packages
      <4>1. env.app = "whitelist" /\ env.scope = "uids" /\ env.proxy = ResolvePackages(cfg, read.selected)
        BY <2>2, <2>3, <3>3, EnvIsOfMode DEF Environment
      <4>2. p \notin env.proxy
        BY <3>3, <4>1 DEF ResolvePackages
      <4>3. QED
        BY <4>1, <4>2 DEF Redirected, Marked
    <3>4. CASE /\ cfg.mode # "direct" /\ cfg.apps = "blacklist"
               /\ p \in cfg.packages /\ KnownWhenBuilt(p, cfg.packages, read.selected)
      <4>1. /\ env.app = "blacklist" /\ env.scope = "all_except_uids"
            /\ env.direct = ResolvePackages(cfg, read.selected)
        BY <2>2, <2>3, <3>4, EnvIsOfMode DEF Environment
      <4>2. p \in Best(read.selected, cfg.packages)
        BY <1>1, <2>1, <2>3, <2>4, <3>4, KnownThen
      <4>3. p \in env.direct
        BY <3>4, <4>1, <4>2 DEF ResolvePackages
      <4>4. QED
        BY <4>1, <4>3 DEF Redirected, Marked
    <3>5. QED
      BY <2>6, <3>1, <3>2, <3>3, <3>4 DEF KeptDirect
  <2>7. ASSUME NEW p \in cfg.direct, NEW dest \in Dests \ cfg.customProxy
        PROVE  Path(p, dest) \in {Direct, Reject}
    <3>1. Routed(box, p, dest) = Picked(Route(cfg), Final(cfg), p, dest)
      BY <2>2, RoutedIsPicked
    <3>2. \A o : Picked(ForcedRule(cfg), o, p, dest) = o /\ Picked(GroupRules(cfg), o, p, dest) = o
      BY <2>2, AppRulesLeaveAlone
    <3>3. \A o : Picked(Rule(cfg.direct, Anywhere, Direct), o, p, dest) = Direct
      BY PickedFromRule
    <3>4. Picked(ListRules(cfg), Direct, p, dest) \in {Direct, Reject}
      BY <2>2, <2>7, NodesAreSeq, RouteInSteps, ListsAreDestinations
    <3>5. Picked(Route(cfg), Final(cfg), p, dest) \in {Direct, Reject}
      BY <2>2, <3>2, <3>3, <3>4, NodesAreSeq, RouteInSteps
    <3>6. QED
      BY <3>1, <3>5 DEF Path
  <2>8. QED
    BY <2>6, <2>7 DEF DirectAppsGoDirect, Path
<1>2. QED
  BY <1>1, AlwaysPathInv, PTL

-----------------------------------------------------------------------------
(* The node that a start uses                                              *)

\* The active node is a usable one.
LEMMA ActiveIsUsable ==
  ASSUME NEW c, IsSeq(c.nodes), UsableNodes(c) # <<>>
  PROVE  \E i \in 1..Len(UsableNodes(c)) : ResolveActive(c) = UsableNodes(c)[i]
<1> DEFINE usable == UsableNodes(c)
           I == {i \in 1..Len(usable) : usable[i].id = c.active}
<1>1. IsSeq(usable)
  BY ThoseAreElements DEF UsableNodes
<1>2. Len(usable) \in Nat /\ Len(usable) # 0
  BY <1>1, EmptyOnly, SeqFacts
<1>3. ResolveActive(c) = usable[IF First(I) = 0 THEN 1 ELSE First(I)]
  BY DEF ResolveActive, SelectInSeq, First
<1>4. First(I) # 0 => First(I) \in 1..Len(usable)
  BY <1>1, FirstIsFound
<1> HIDE DEF usable, I
<1>5. QED
  BY <1>2, <1>3, <1>4 DEF usable

\* What is usable: the nodes of the configuration that are not stale.
LEMMA UsableFacts ==
  ASSUME NEW c, IsSeq(c.nodes)
  PROVE  /\ IsSeq(UsableNodes(c))
         /\ \A k \in 1..Len(UsableNodes(c)) : \E i \in 1..Len(c.nodes) : UsableNodes(c)[k] = c.nodes[i]
         /\ \A i \in 1..Len(c.nodes) : c.nodes[i].kind # "stale" =>
              \E k \in 1..Len(UsableNodes(c)) : UsableNodes(c)[k] = c.nodes[i]
<1> DEFINE I == {i \in DOMAIN c.nodes : c.nodes[i].kind # "stale"}
           all == c.nodes
<1>1. \A i \in 1..Len(all) : all[i].kind # "stale" => i \in I
  BY SeqFacts
<1>2. UsableNodes(c) = Those(all, I) /\ IsSeq(all)
  BY DEF UsableNodes
<1> HIDE DEF I, all
<1>3. /\ IsSeq(Those(all, I))
      /\ \A k \in 1..Len(Those(all, I)) : \E i \in 1..Len(all) : i \in I /\ Those(all, I)[k] = all[i]
      /\ \A i \in 1..Len(all) : i \in I => \E k \in 1..Len(Those(all, I)) : Those(all, I)[k] = all[i]
  BY <1>2, ThoseAreElements
<1>4. QED
  BY <1>1, <1>2, <1>3 DEF all

\* What is rendered: the usable nodes that an outbound can be built for, and of those
\* that need Xray the active one only.
LEMMA RenderableFacts ==
  ASSUME NEW c, IsSeq(c.nodes)
  PROVE  /\ IsSeq(RenderableNodes(c))
         /\ \A k \in 1..Len(RenderableNodes(c)) : \E i \in 1..Len(UsableNodes(c)) :
              /\ RenderableNodes(c)[k] = UsableNodes(c)[i]
              /\ UsableNodes(c)[i].kind = "xhttp" => UsableNodes(c)[i].id = ResolveActive(c).id
         /\ \A i \in 1..Len(UsableNodes(c)) :
              UsableNodes(c)[i].kind = "xhttp" /\ UsableNodes(c)[i].id = ResolveActive(c).id =>
                \E k \in 1..Len(RenderableNodes(c)) : RenderableNodes(c)[k] = UsableNodes(c)[i]
<1> DEFINE usable == UsableNodes(c)
           it == ResolveActive(c).id
           I == {i \in DOMAIN usable :
                   usable[i].kind # "bad" /\ (usable[i].kind = "xhttp" => usable[i].id = it)}
<1>1. IsSeq(usable)
  BY UsableFacts
<1>2. DOMAIN usable = 1..Len(usable)
  BY <1>1, SeqFacts
<1>3. RenderableNodes(c) = Those(usable, I)
  BY DEF RenderableNodes
<1> HIDE DEF usable, it
<1>4. \A i \in I : usable[i].kind = "xhttp" => usable[i].id = it
  OBVIOUS
<1>5. \A i \in 1..Len(usable) : usable[i].kind = "xhttp" /\ usable[i].id = it => i \in I
  BY <1>2
<1> HIDE DEF I
<1>6. /\ IsSeq(Those(usable, I))
      /\ \A k \in 1..Len(Those(usable, I)) :
           \E i \in 1..Len(usable) : i \in I /\ Those(usable, I)[k] = usable[i]
      /\ \A i \in 1..Len(usable) :
           i \in I => \E k \in 1..Len(Those(usable, I)) : Those(usable, I)[k] = usable[i]
  BY <1>1, ThoseAreElements
<1>7. QED
  BY <1>3, <1>4, <1>5, <1>6 DEF usable, it

\* The profiles are those of the nodes that are rendered, one for one.
LEMMA ProfilesFacts ==
  ASSUME NEW c, IsSeq(c.nodes)
  PROVE  /\ IsSeq(Profiles(c))
         /\ Len(Profiles(c)) > 1 =>
              \A i \in 1..Len(Profiles(c)) : Profiles(c)[i].tag = NodeTag(c, Profiles(c)[i].id)
         /\ UsableNodes(c) # <<>> =>
              /\ Len(Profiles(c)) = Len(RenderableNodes(c))
              /\ \A i \in 1..Len(Profiles(c)) : Profiles(c)[i].id = RenderableNodes(c)[i].id
         /\ UsableNodes(c) = <<>> => Len(Profiles(c)) = 1
<1> DEFINE own == <<[id |-> "", group |-> NoGroup, kind |-> c.ownKind, addr |-> c.own]>>
           nodes == IF UsableNodes(c) = <<>> THEN own ELSE RenderableNodes(c)
           tag(i) == IF Len(nodes) = 1 THEN Proxy ELSE NodeTag(c, nodes[i].id)
           made == [i \in DOMAIN nodes |-> [id |-> nodes[i].id, group |-> nodes[i].group, tag |-> tag(i)]]
<1>1. Profiles(c) = made
  BY DEF Profiles
<1>2. IsSeq(own) /\ Len(own) = 1
  BY OneIsSeq
<1>3. IsSeq(nodes)
  BY <1>2, RenderableFacts
<1>4. DOMAIN nodes = 1..Len(nodes) /\ Len(nodes) \in Nat
  BY <1>3, SeqFacts
<1>5. /\ UsableNodes(c) # <<>> => nodes = RenderableNodes(c)
      /\ UsableNodes(c) = <<>> => Len(nodes) = 1
  BY <1>2
<1> HIDE DEF own, nodes
<1>6. IsSeq(made) /\ Len(made) = Len(nodes)
  <2>1. DOMAIN made = 1..Len(nodes) /\ made = [i \in 1..Len(nodes) |-> made[i]]
    BY <1>4
  <2> HIDE DEF made
  <2>2. QED
    BY <1>4, <2>1, FunctionIsSeq
<1>7. \A i \in 1..Len(nodes) : /\ made[i].id = nodes[i].id
                               /\ Len(nodes) > 1 => made[i].tag = NodeTag(c, nodes[i].id)
  BY <1>4
<1> HIDE DEF made
<1>8. Len(Profiles(c)) > 1 =>
        \A i \in 1..Len(Profiles(c)) : Profiles(c)[i].tag = NodeTag(c, Profiles(c)[i].id)
  BY <1>1, <1>6, <1>7
<1>9. UsableNodes(c) # <<>> =>
        /\ Len(Profiles(c)) = Len(RenderableNodes(c))
        /\ \A i \in 1..Len(Profiles(c)) : Profiles(c)[i].id = RenderableNodes(c)[i].id
  BY <1>1, <1>5, <1>6, <1>7
<1>10. UsableNodes(c) = <<>> => Len(Profiles(c)) = 1
  BY <1>1, <1>5, <1>6
<1>11. QED
  BY <1>1, <1>6, <1>8, <1>9, <1>10

\* The tags of several nodes begin like no others.
LEMMA SeveralAreNodes ==
  ASSUME NEW c \in Configs, Len(Profiles(c)) > 1, NEW i \in 1..Len(Profiles(c))
  PROVE  Profiles(c)[i].tag[1] = "node"
<1>1. UsableNodes(c) # <<>>
  <2>1. Len(Profiles(c)) # 1
    <3>1. Len(Profiles(c)) \in Nat
      BY NodesAreSeq, ProfilesFacts, SeqFacts
    <3>2. \A n \in Nat : n > 1 => n # 1
      OBVIOUS
    <3>3. QED
      BY <3>1, <3>2, Zenon
  <2>2. QED
    BY <2>1, NodesAreSeq, ProfilesFacts
<1>2. /\ Profiles(c)[i].tag = NodeTag(c, Profiles(c)[i].id)
      /\ i \in 1..Len(RenderableNodes(c)) /\ Profiles(c)[i].id = RenderableNodes(c)[i].id
  BY <1>1, NodesAreSeq, ProfilesFacts
<1>3. PICK u \in 1..Len(UsableNodes(c)) : RenderableNodes(c)[i] = UsableNodes(c)[u]
  BY <1>2, NodesAreSeq, RenderableFacts
<1>4. PICK k \in 1..Len(c.nodes) : UsableNodes(c)[u] = c.nodes[k]
  BY NodesAreSeq, UsableFacts
<1> DEFINE slug == SlugOf[c.nodes[k].id]
           place == <<"node", ToString(SelectInSeq(c.nodes, LAMBDA node : node.id = c.nodes[k].id))>>
           words == IF slug # <<>> THEN slug ELSE place
<1>5. IsSeq(slug)
  <2>1. c.nodes[k] \in ToSet(c.nodes)
    BY NodesAreSeq, SeqFacts
  <2>2. QED
    BY <2>1, TrafficPathAssumption DEF IsSeq
<1>6. IsSeq(place)
  BY TwoAreSeq
<1>7. Profiles(c)[i].tag = <<"node">> \o words
  BY <1>2, <1>3, <1>4 DEF NodeTag
<1> HIDE DEF slug, place
<1>8. IsSeq(words)
  BY <1>5, <1>6
<1> HIDE DEF words
<1>9. IsSeq(<<"node">>) /\ Len(<<"node">>) = 1 /\ <<"node">>[1] = "node" /\ 1 \in 1..1
  BY OneIsSeq
<1>10. (<<"node">> \o words)[1] = "node"
  BY <1>8, <1>9, Joined
<1>11. QED
  BY <1>7, <1>10

\* The members of a group, and its choice by latency, are a sequence of outbounds.
LEMMA GroupOutboundsAreSeq == ASSUME NEW plan PROVE IsSeq(GroupOutbounds(plan))
BY OneIsSeq, TwoAreSeq DEF GroupOutbounds

\* The positions of the outbounds with the tag of the proxy.
Proxies(s) == {i \in 1..Len(s) : s[i].tag = Proxy}

\* The first of them is x.
FirstProxy(s, x) == First(Proxies(s)) # 0 /\ s[First(Proxies(s))] = x

\* The first proxy of two sequences is the first of the first that has one.
LEMMA ProxyOfTwo ==
  ASSUME NEW a, NEW b, IsSeq(a), IsSeq(b), NEW x
  PROVE  /\ FirstProxy(a, x) => FirstProxy(a \o b, x)
         /\ Proxies(a) = {} /\ FirstProxy(b, x) => FirstProxy(a \o b, x)
<1> DEFINE I == Proxies(a)
           J == Proxies(b)
           K == Proxies(a \o b)
<1>1. I \subseteq 1..Len(a) /\ J \subseteq 1..Len(b) /\ K \subseteq 1..Len(a \o b)
  BY DEF Proxies
<1>2. /\ \A i \in 1..Len(a) : i \in K <=> i \in I
      /\ \A j \in 1..Len(b) : Len(a) + j \in K <=> j \in J
  BY Joined, SeqFacts DEF Proxies
<1>3. I = {} => First(I) = 0
  BY DEF First
<1> HIDE DEF I, J, K
<1>4. ElementOf(a, b, I, J, K)
  BY <1>1, <1>2, ElementOfTwo
<1>5. QED
  BY <1>3, <1>4 DEF ElementOf, FirstProxy, I, J, K

\* The selector of all nodes comes before any other outbound with its tag.
LEMMA SelectorOfAll ==
  ASSUME NEW c \in Configs, Len(Profiles(c)) > 1
  PROVE  Outbounds(c)[First(Proxies(Outbounds(c)))].default = SelectorDefault(c, Profiles(c))
<1> DEFINE profiles == Profiles(c)
           n == Len(profiles)
           tags == [i \in DOMAIN profiles |-> profiles[i].tag]
           plans == GroupPlans(profiles)
           groups == [i \in DOMAIN plans |-> GroupTag(plans[i])]
           singles == [i \in DOMAIN tags |-> Single(tags[i])]
           auto == Outbound(AutoGroup, tags, <<>>)
           members == <<AutoGroup>> \o tags \o groups
           start == SelectorDefault(c, profiles)
           all == Outbound(Proxy, members, start)
           two == <<auto, all>>
           ss == [i \in DOMAIN plans |-> GroupOutbounds(plans[i])]
           more == FlattenSeq(ss)
           last == <<Single(Direct)>>
<1>1. IsSeq(profiles) /\ n \in Nat /\ n > 1 /\ DOMAIN profiles = 1..n
  BY NodesAreSeq, ProfilesFacts, SeqFacts
<1>2. \A i \in 1..n : profiles[i].tag # Proxy
  <2>1. \A i \in 1..n : profiles[i].tag[1] = "node"
    BY SeveralAreNodes
  <2>2. Proxy[1] = "proxy"
    BY DEF Proxy
  <2>3. QED
    BY <2>1, <2>2
<1>3. Outbounds(c) = singles \o (IF Len(tags) > 1 THEN two ELSE <<>>) \o more \o last
  BY DEF Outbounds
<1>4. IsSeq(plans)
  BY <1>1, PlansAreSeq
<1> HIDE DEF profiles, n, plans
<1>5. DOMAIN plans = 1..Len(plans) /\ Len(plans) \in Nat
  BY <1>4, SeqFacts
<1>6. DOMAIN tags = 1..n /\ Len(tags) = n
  <2>1. DOMAIN tags = 1..n /\ tags = [i \in 1..n |-> tags[i]]
    BY <1>1
  <2> HIDE DEF tags
  <2>2. QED
    BY <1>1, <2>1, FunctionIsSeq
<1>7. IsSeq(singles) /\ Len(singles) = n /\ \A i \in 1..n : singles[i].tag # Proxy
  <2>1. DOMAIN singles = 1..n /\ singles = [i \in 1..n |-> singles[i]]
    BY <1>6
  <2>2. \A i \in 1..n : singles[i].tag # Proxy
    BY <1>1, <1>2, <1>6 DEF Single, Outbound
  <2> HIDE DEF singles
  <2>3. QED
    BY <1>1, <2>1, <2>2, FunctionIsSeq
<1>8. IsSeq(more)
  <2>1. DOMAIN ss = 1..Len(plans) /\ ss = [i \in 1..Len(plans) |-> ss[i]]
    BY <1>5
  <2>2. \A i \in 1..Len(plans) : IsSeq(ss[i])
    BY <1>5, GroupOutboundsAreSeq
  <2> HIDE DEF ss
  <2>3. IsSeq(ss) /\ Len(ss) = Len(plans)
    BY <1>5, <2>1, FunctionIsSeq
  <2>4. QED
    BY <2>2, <2>3, Flattened
<1>9. IsSeq(last)
  BY OneIsSeq
<1>10. IsSeq(two) /\ Len(two) = 2 /\ two[1] = auto /\ two[2] = all
  <2> HIDE DEF auto, all
  <2>1. QED
    BY TwoAreSeq
<1>11. Outbounds(c) = ((singles \o two) \o more) \o last
  BY <1>1, <1>3, <1>6
<1>12. auto.tag # Proxy /\ all.tag = Proxy /\ all.default = start
  BY DEF Outbound, AutoGroup, Proxy
<1> HIDE DEF singles, auto, all, two, more, last, start
<1>13. Proxies(singles) = {}
  BY <1>7 DEF Proxies
<1>14. FirstProxy(two, all)
  <2>1. Proxies(two) = {2}
    BY <1>10, <1>12 DEF Proxies
  <2>2. First(Proxies(two)) \in {2}
    <3>1. {2} \subseteq 1..Len(two) /\ {2} # {}
      BY <1>10
    <3>2. QED
      BY <1>10, <2>1, <3>1, FirstIsFound
  <2>3. QED
    BY <1>10, <2>2 DEF FirstProxy
<1>15. FirstProxy(Outbounds(c), all)
  <2> DEFINE a == singles \o two
             b == a \o more
  <2>1. IsSeq(a) /\ IsSeq(b)
    BY <1>7, <1>8, <1>10, Joined
  <2>2. FirstProxy(a, all)
    BY <1>7, <1>10, <1>13, <1>14, ProxyOfTwo
  <2>3. FirstProxy(b, all)
    BY <1>8, <2>1, <2>2, ProxyOfTwo
  <2>4. FirstProxy(b \o last, all)
    BY <1>9, <2>1, <2>3, ProxyOfTwo
  <2>5. QED
    BY <1>11, <2>4
<1>16. QED
  BY <1>12, <1>15 DEF FirstProxy, start, profiles

\* PathSpec => []StartUsesActiveNode: the selector of all nodes starts with the active one, and
\* of the nodes that need Xray the active one alone has an outbound, whatever else is listed.
THEOREM ActiveNodeIsUsed == PathSpec => []StartUsesActiveNode
<1>1. ASSUME PathInv PROVE StartUsesActiveNode
  <2> DEFINE profiles == Profiles(cfg)
             active == {i \in DOMAIN profiles : profiles[i].id = cfg.active /\ cfg.active # ""}
             proxy == box.outbounds[SelectInSeq(box.outbounds, LAMBDA o : o.tag = Proxy)]
  <2>1. SUFFICES ASSUME Running PROVE StartUsesActiveNode
    BY DEF StartUsesActiveNode
  <2>2. cfg \in Configs /\ box.outbounds = Outbounds(cfg)
    BY <1>1, <2>1 DEF PathInv, Render
  <2>3. IsSeq(cfg.nodes) /\ IsSeq(profiles) /\ DOMAIN profiles = 1..Len(profiles)
    BY <2>2, NodesAreSeq, ProfilesFacts, SeqFacts
  <2>4. ASSUME Len(profiles) > 1
        PROVE  proxy.default
                 \in {profiles[i].tag : i \in active} \cup (IF active = {} THEN {AutoGroup} ELSE {})
    <3>1. proxy = Outbounds(cfg)[First(Proxies(Outbounds(cfg)))]
      BY <2>2 DEF SelectInSeq, First, Proxies
    <3>2. proxy.default = SelectorDefault(cfg, profiles)
      BY <2>2, <2>4, <3>1, SelectorOfAll
    <3> DEFINE I == {i \in 1..Len(profiles) : profiles[i].id = cfg.active}
    <3>3. SelectorDefault(cfg, profiles) =
            IF cfg.active = "" \/ First(I) = 0 THEN AutoGroup ELSE profiles[First(I)].tag
      BY DEF SelectorDefault, SelectInSeq, First
    <3>4. active = IF cfg.active = "" THEN {} ELSE I
      BY <2>3
    <3>5. (I # {} => First(I) \in I) /\ (I = {} => First(I) = 0) /\ (I # {} => First(I) # 0)
      BY <2>3, FirstIsFound
    <3> HIDE DEF profiles, active, proxy, I
    <3>6. QED
      BY <3>2, <3>3, <3>4, <3>5
  <2>5. ASSUME NeedsXray(cfg), UsableNodes(cfg) # <<>>
        PROVE  \E i \in DOMAIN profiles : profiles[i].id = ResolveActive(cfg).id
    <3>1. UsableNodes(cfg) # <<>> /\ ResolveActive(cfg).kind = "xhttp"
      BY <2>5 DEF NeedsXray
    <3>2. PICK i \in 1..Len(UsableNodes(cfg)) : ResolveActive(cfg) = UsableNodes(cfg)[i]
      BY <2>3, <3>1, ActiveIsUsable
    <3>3. PICK k \in 1..Len(RenderableNodes(cfg)) : RenderableNodes(cfg)[k] = UsableNodes(cfg)[i]
      BY <2>3, <3>1, <3>2, RenderableFacts
    <3>4. QED
      BY <2>3, <3>1, <3>2, <3>3, ProfilesFacts
  <2>6. ASSUME NEW n \in ToSet(cfg.nodes), NEW i \in DOMAIN profiles, n.kind = "xhttp", profiles[i].id = n.id
        PROVE  n.id = ResolveActive(cfg).id
    <3>1. PICK j \in 1..Len(cfg.nodes) : n = cfg.nodes[j]
      BY <2>3, SeqFacts DEF ToSet
    <3>2. PICK k \in 1..Len(UsableNodes(cfg)) : UsableNodes(cfg)[k] = n
      BY <2>3, <2>6, <3>1, UsableFacts
    <3>3. UsableNodes(cfg) # <<>>
      <4>1. Len(UsableNodes(cfg)) # 0
        BY <3>2
      <4>2. QED
        BY <4>1, EmptyIsSeq
    <3>4. i \in 1..Len(RenderableNodes(cfg)) /\ RenderableNodes(cfg)[i].id = n.id
      BY <2>3, <2>6, <3>3, ProfilesFacts
    <3>5. PICK u \in 1..Len(UsableNodes(cfg)) :
            /\ RenderableNodes(cfg)[i] = UsableNodes(cfg)[u]
            /\ UsableNodes(cfg)[u].kind = "xhttp" => UsableNodes(cfg)[u].id = ResolveActive(cfg).id
      BY <2>3, <3>4, RenderableFacts
    <3>6. PICK v \in 1..Len(cfg.nodes) : UsableNodes(cfg)[u] = cfg.nodes[v]
      BY <2>3, UsableFacts
    <3>7. cfg.nodes[v] = n
      <4>1. DOMAIN cfg.nodes = 1..Len(cfg.nodes)
        BY <2>3, SeqFacts
      <4>2. v = j
        BY <2>2, <3>1, <3>4, <3>5, <3>6, <4>1, TrafficPathAssumption
      <4>3. QED
        BY <3>1, <4>2
    <3>8. QED
      BY <2>6, <3>4, <3>5, <3>6, <3>7
  <2>7. QED
    BY <2>4, <2>5, <2>6 DEF StartUsesActiveNode
<1>2. QED
  BY <1>1, AlwaysPathInv, PTL

-----------------------------------------------------------------------------
(* The outbounds of a configuration: where each of them comes from         *)

\* No two outbounds have one tag.
TagsOnce(s) == \A i, j \in 1..Len(s) : s[i].tag = s[j].tag => i = j

\* None of one has a tag of the other.
TagsApart(a, b) == \A x \in ToSet(a), y \in ToSet(b) : x.tag # y.tag

\* Joining outbounds whose tags are apart leaves each tag once.
LEMMA OnceOfTwo ==
  ASSUME NEW a, NEW b, IsSeq(a), IsSeq(b), TagsOnce(a), TagsOnce(b), TagsApart(a, b)
  PROVE  TagsOnce(a \o b)
<1> DEFINE c == a \o b
           n == Len(a)
           k == Len(b)
<1>1. /\ IsSeq(c) /\ Len(c) = n + k
      /\ \A i \in 1..n : c[i] = a[i]
      /\ \A i \in 1..k : c[n + i] = b[i]
  BY Joined
<1>2. n \in Nat /\ k \in Nat
  BY SeqFacts
<1>3. \A i \in 1..n, j \in 1..k : a[i].tag # b[j].tag
  BY SeqFacts DEF TagsApart
<1>4. /\ \A i, j \in 1..n : a[i].tag = a[j].tag => i = j
      /\ \A i, j \in 1..k : b[i].tag = b[j].tag => i = j
  BY DEF TagsOnce
<1> HIDE DEF c, n, k
<1>5. ASSUME NEW i \in 1..(n + k)
      PROVE  \/ i \in 1..n /\ c[i] = a[i]
             \/ i - n \in 1..k /\ c[i] = b[i - n]
  <2>1. CASE i <= n
    BY <1>1, <1>2, <2>1
  <2>2. CASE ~(i <= n)
    <3>1. i - n \in 1..k /\ n + (i - n) = i
      BY <1>2, <2>2
    <3>2. QED
      BY <1>1, <3>1
  <2>3. QED
    BY <2>1, <2>2
<1>6. ASSUME NEW i \in 1..(n + k), NEW j \in 1..(n + k), c[i].tag = c[j].tag PROVE i = j
  <2>1. CASE i \in 1..n /\ c[i] = a[i]
    <3>1. CASE j \in 1..n /\ c[j] = a[j]
      BY <1>4, <1>6, <2>1, <3>1
    <3>2. CASE j - n \in 1..k /\ c[j] = b[j - n]
      BY <1>3, <1>6, <2>1, <3>2
    <3>3. QED
      BY <1>5, <3>1, <3>2
  <2>2. CASE i - n \in 1..k /\ c[i] = b[i - n]
    <3>1. CASE j \in 1..n /\ c[j] = a[j]
      BY <1>3, <1>6, <2>2, <3>1
    <3>2. CASE j - n \in 1..k /\ c[j] = b[j - n]
      <4>1. i - n = j - n
        BY <1>4, <1>6, <2>2, <3>2
      <4>2. QED
        BY <1>2, <4>1
    <3>3. QED
      BY <1>5, <3>1, <3>2
  <2>3. QED
    BY <1>5, <2>1, <2>2
<1>7. QED
  BY <1>1, <1>6 DEF TagsOnce, c, n, k

\* The same of many sequences, any two of which have tags that are apart.
LEMMA OnceOfMany ==
  ASSUME NEW ss, IsSeq(ss), \A i \in 1..Len(ss) : IsSeq(ss[i]) /\ TagsOnce(ss[i]),
         \A i, j \in 1..Len(ss) : i # j => TagsApart(ss[i], ss[j])
  PROVE  TagsOnce(FlattenSeq(ss))
<1> DEFINE n == Len(ss)
<1>1. PICK joined : /\ joined[0] = <<>>
                    /\ \A m \in 1..n : joined[m] = joined[m - 1] \o ss[m]
                    /\ \A m \in 0..n : IsSeq(joined[m])
                    /\ FlattenSeq(ss) = joined[n]
  BY FlattenInSteps
<1>2. /\ n \in Nat /\ \A i \in 1..n : IsSeq(ss[i]) /\ TagsOnce(ss[i])
      /\ \A i, j \in 1..n : i # j => TagsApart(ss[i], ss[j])
  BY SeqFacts
<1> HIDE DEF n
<1> DEFINE Good(m) == /\ \A x \in ToSet(joined[m]) : \E i \in 1..m : x \in ToSet(ss[i])
                      /\ TagsOnce(joined[m])
           G == {m \in 0..n : Good(m)}
<1>3. 0 \in G
  <2>1. ToSet(joined[0]) = {} /\ TagsOnce(joined[0])
    BY <1>1, EmptyIsSeq DEF ToSet, TagsOnce
  <2>2. QED
    BY <1>2, <2>1
<1>4. ASSUME NEW m \in 0..(n - 1), m \in G PROVE m + 1 \in G
  <2>1. m + 1 \in 1..n /\ (m + 1) - 1 = m /\ m + 1 \in 0..n /\ m \in 0..n /\ m \in Nat
    BY <1>2
  <2>2. joined[m + 1] = joined[m] \o ss[m + 1]
    BY <1>1, <2>1
  <2>3. /\ ToSet(joined[m + 1]) = ToSet(joined[m]) \cup ToSet(ss[m + 1])
        /\ IsSeq(joined[m]) /\ IsSeq(ss[m + 1]) /\ TagsOnce(ss[m + 1])
    BY <1>1, <1>2, <2>1, <2>2, ElementsOfTwo
  <2>4. Good(m)
    BY <1>4
  <2>5. m + 1 \in 1..(m + 1) /\ \A i \in 1..m : i \in 1..(m + 1) /\ i \in 1..n /\ i # m + 1
    BY <1>2, <2>1
  <2>6. \A x \in ToSet(joined[m + 1]) : \E i \in 1..(m + 1) : x \in ToSet(ss[i])
    BY <2>3, <2>4, <2>5
  <2>7. TagsApart(joined[m], ss[m + 1])
    <3>1. SUFFICES ASSUME NEW x \in ToSet(joined[m]), NEW y \in ToSet(ss[m + 1])
                   PROVE  x.tag # y.tag
      BY DEF TagsApart
    <3>2. PICK i \in 1..m : x \in ToSet(ss[i])
      BY <2>4
    <3>3. TagsApart(ss[i], ss[m + 1])
      BY <1>2, <2>1, <2>5
    <3>4. QED
      BY <3>2, <3>3 DEF TagsApart
  <2>8. TagsOnce(joined[m + 1])
    BY <2>2, <2>3, <2>4, <2>7, OnceOfTwo
  <2>9. QED
    BY <2>1, <2>6, <2>8
<1> HIDE DEF G
<1>5. n \in G
  <2>1. 0..n \subseteq G
    BY <1>2, <1>3, <1>4, BoundedInduction
  <2>2. n \in 0..n
    BY <1>2
  <2>3. QED
    BY <2>1, <2>2
<1>6. QED
  BY <1>1, <1>5 DEF G

\* Tags that occur once are as many as there are outbounds.
LEMMA OnceIsCounted ==
  ASSUME NEW s, IsSeq(s), TagsOnce(s)
  PROVE  Cardinality({s[i].tag : i \in DOMAIN s}) = Len(s)
<1> DEFINE n == Len(s)
           T == {s[i].tag : i \in 1..n}
           f == [i \in 1..n |-> s[i].tag]
<1>1. n \in Nat /\ DOMAIN s = 1..n
  BY SeqFacts
<1>2. f \in Bijection(1..n, T)
  <2>1. f \in [1..n -> T] /\ \A t \in T : \E i \in 1..n : f[i] = t
    OBVIOUS
  <2>2. \A i, j \in 1..n : f[i] = f[j] => i = j
    BY DEF TagsOnce
  <2> HIDE DEF f, n, T
  <2>3. QED
    BY <2>1, <2>2 DEF Bijection, Injection, Surjection, IsInjective
<1>3. ExistsBijection(1..n, T)
  BY <1>2 DEF ExistsBijection
<1>4. Cardinality(T) = n
  BY <1>1, <1>3, FS_CountingElements
<1>5. QED
  BY <1>1, <1>4

\* A tag that a group has begins like no other, and tells the base of the group.
LEMMA GroupTagFacts ==
  ASSUME NEW b, NEW d, IsSeq(b), IsSeq(d)
  PROVE  /\ (<<"group">> \o b)[1] = "group"
         /\ Append(<<"group">> \o b, "auto")[1] = "group"
         /\ <<"group">> \o b = <<"group">> \o d => b = d
         /\ <<"group">> \o b = Append(<<"group">> \o d, "auto") => b = Append(d, "auto")
         /\ Append(<<"group">> \o b, "auto") = Append(<<"group">> \o d, "auto") => b = d
         /\ Append(<<"group">> \o b, "auto") # <<"group">> \o b
<1> DEFINE a == <<"group">>
<1>1. IsSeq(a) /\ Len(a) = 1 /\ a[1] = "group" /\ IsSeq(b) /\ IsSeq(d)
  BY OneIsSeq
<1> HIDE DEF a
<1>2. ASSUME NEW x, IsSeq(x)
      PROVE  /\ IsSeq(a \o x) /\ Len(a \o x) = Len(x) + 1 /\ (a \o x)[1] = "group"
             /\ Append(a \o x, "auto") = a \o Append(x, "auto")
             /\ Len(x) \in Nat
             /\ \A i \in 1..Len(x) : (a \o x)[i + 1] = x[i]
  <2> DEFINE y == a \o x
  <2>. IsSeq(a) /\ IsSeq(x)
    BY <1>1, <1>2
  <2>0. /\ IsSeq(y) /\ Len(y) = Len(a) + Len(x)
        /\ \A i \in 1..Len(a) : y[i] = a[i]
        /\ \A i \in 1..Len(x) : y[Len(a) + i] = x[i]
    BY Joined
  <2> HIDE DEF y
  <2>1. /\ IsSeq(y) /\ Len(y) = 1 + Len(x)
        /\ y[1] = a[1]
        /\ \A i \in 1..Len(x) : y[1 + i] = x[i]
    BY <1>1, <2>0
  <2>2. Len(x) \in Nat
    BY <1>2, SeqFacts
  <2>3. AppendedLast(a, x, "auto")
    BY <1>1, <1>2, AppendJoined
  <2>4. \A i \in 1..Len(x) : 1 + i = i + 1
    BY <2>2
  <2>5. QED
    BY <1>1, <2>1, <2>2, <2>3, <2>4 DEF AppendedLast, y
<1>3. ASSUME NEW x, NEW y, IsSeq(x), IsSeq(y), a \o x = a \o y PROVE x = y
  <2>1. Len(x) = Len(y)
    BY <1>2, <1>3
  <2>2. \A i \in 1..Len(x) : x[i] = y[i]
    <3> DEFINE z == a \o x
    <3>1. z = a \o y
      BY <1>3
    <3> HIDE DEF z
    <3>2. \A i \in 1..Len(x) : z[i + 1] = x[i]
      BY <1>2, <1>3 DEF z
    <3>3. \A i \in 1..Len(y) : z[i + 1] = y[i]
      BY <1>2, <1>3, <3>1
    <3>4. QED
      BY <2>1, <3>2, <3>3
  <2>3. QED
    BY <1>3, <2>1, <2>2, SameSeq
<1>4. ASSUME NEW x, IsSeq(x)
      PROVE  /\ IsSeq(Append(x, "auto")) /\ Len(Append(x, "auto")) = Len(x) + 1
             /\ \A i \in 1..Len(x) : Append(x, "auto")[i] = x[i]
             /\ Len(x) \in Nat
  BY <1>4, Appended, SeqFacts
<1>5. ASSUME Append(b, "auto") = Append(d, "auto") PROVE b = d
  <2>1. Len(b) = Len(d) /\ \A i \in 1..Len(b) : b[i] = d[i]
    BY <1>1, <1>4, <1>5
  <2>2. QED
    BY <1>1, <2>1, SameSeq
<1>6. Append(b, "auto") # b
  <2>1. Len(Append(b, "auto")) = Len(b) + 1 /\ Len(b) \in Nat
    BY <1>1, <1>4
  <2>2. QED
    BY <2>1
<1>7. IsSeq(Append(b, "auto")) /\ IsSeq(Append(d, "auto"))
  BY <1>1, <1>4
<1>8. (a \o b)[1] = "group" /\ Append(a \o b, "auto")[1] = "group"
  BY <1>1, <1>2, <1>7
<1>9. a \o b = a \o d => b = d
  BY <1>1, <1>3
<1>10. a \o b = Append(a \o d, "auto") => b = Append(d, "auto")
  BY <1>1, <1>2, <1>3, <1>7
<1>11. ASSUME Append(a \o b, "auto") = Append(a \o d, "auto") PROVE b = d
  <2>1. a \o Append(b, "auto") = a \o Append(d, "auto")
    BY <1>1, <1>2, <1>11
  <2>2. Append(b, "auto") = Append(d, "auto")
    BY <1>3, <1>7, <2>1
  <2>3. QED
    BY <1>5, <2>2
<1>12. Append(a \o b, "auto") # a \o b
  BY <1>1, <1>2, <1>3, <1>6, <1>7
<1>13. QED
  BY <1>8, <1>9, <1>10, <1>11, <1>12 DEF a

\* The tags of the profiles in a group, among the first k.
TagsIn(profiles, k, group) == {profiles[j].tag : j \in {i \in 1..k : profiles[i].group = group}}

\* The plan of a group that one of the first k profiles is in.
IsPlan(plan, profiles, k) ==
  /\ plan = [name |-> plan.name, base |-> plan.base, tags |-> plan.tags]
  /\ plan.name # NoGroup /\ plan.base = Base(plan.name)
  /\ IsSeq(plan.tags) /\ ToSet(plan.tags) = TagsIn(profiles, k, plan.name)
  /\ \E j \in 1..k : profiles[j].group = plan.name

\* A plan for each group of the first k profiles.
ArePlans(plans, profiles, k) ==
  /\ IsSeq(plans)
  /\ \A i \in 1..Len(plans) : IsPlan(plans[i], profiles, k)
  /\ \A i, j \in 1..Len(plans) : plans[i].name = plans[j].name => i = j
  /\ \A j \in 1..k : profiles[j].group # NoGroup => \E i \in 1..Len(plans) : plans[i].name = profiles[j].group

\* What the tags leave of the groups' names differs.
BasesDiffer(profiles) ==
  \A i, j \in 1..Len(profiles) :
    /\ profiles[i].group # NoGroup /\ profiles[j].group # NoGroup
    /\ Base(profiles[i].group) = Base(profiles[j].group)
    => profiles[i].group = profiles[j].group

\* One profile more adds its tag to those of its group.
LEMMA TagsOfMore ==
  ASSUME NEW profiles, NEW k \in Nat, NEW group
  PROVE  /\ profiles[k + 1].group = group =>
              TagsIn(profiles, k + 1, group) = TagsIn(profiles, k, group) \cup {profiles[k + 1].tag}
         /\ profiles[k + 1].group # group => TagsIn(profiles, k + 1, group) = TagsIn(profiles, k, group)
<1>1. \A i \in 1..(k + 1) : i = k + 1 \/ i \in 1..k
  OBVIOUS
<1>2. k + 1 \in 1..(k + 1) /\ \A i \in 1..k : i \in 1..(k + 1)
  OBVIOUS
<1>3. QED
  BY <1>1, <1>2 DEF TagsIn

\* A plan with other tags.
LEMMA PlanWithTags ==
  ASSUME NEW x, x = [name |-> x.name, base |-> x.base, tags |-> x.tags], NEW t
  PROVE  [x EXCEPT !.tags = t] = [name |-> x.name, base |-> x.base, tags |-> t]
OBVIOUS

\* A plan stays one when a profile is added that is in another group.
LEMMA PlanStays ==
  ASSUME NEW profiles, NEW k \in Nat, NEW x, IsPlan(x, profiles, k), profiles[k + 1].group # x.name
  PROVE  IsPlan(x, profiles, k + 1)
<1>1. TagsIn(profiles, k + 1, x.name) = TagsIn(profiles, k, x.name)
  BY TagsOfMore
<1>2. \A j \in 1..k : j \in 1..(k + 1)
  OBVIOUS
<1>3. QED
  BY <1>1, <1>2 DEF IsPlan

\* A profile is planned into its group, whose base needs no number.
LEMMA PlanAdded ==
  ASSUME NEW profiles, IsSeq(profiles), BasesDiffer(profiles),
         NEW k \in Nat, k + 1 \in 1..Len(profiles),
         NEW plans, ArePlans(plans, profiles, k)
  PROVE  ArePlans(AddToPlans(plans, profiles[k + 1]), profiles, k + 1)
<1> DEFINE profile == profiles[k + 1]
           group == profile.group
           new == AddToPlans(plans, profile)
           I == {i \in 1..Len(plans) : plans[i].name = group}
           n == Len(plans)
<1>1. /\ n \in Nat /\ DOMAIN plans = 1..n /\ IsSeq(plans)
      /\ k \in 1..Len(profiles) \/ k = 0
  BY SeqFacts DEF ArePlans
<1>2. \A i \in 1..(k + 1) : i = k + 1 \/ i \in 1..k
  OBVIOUS
<1>3. k + 1 \in 1..(k + 1) /\ \A i \in 1..k : i \in 1..(k + 1) /\ i \in 1..Len(profiles)
  BY SeqFacts
<1>4. I # {} => First(I) \in I /\ First(I) # 0
  BY <1>1, FirstIsFound
<1>5. I = {} => First(I) = 0
  BY DEF First
<1>6. \A x : IsPlan(x, profiles, k) /\ x.name # group => IsPlan(x, profiles, k + 1)
  BY PlanStays
<1>7. CASE group = NoGroup
  <2>1. new = plans
    BY <1>7 DEF AddToPlans
  <2>2. \A i \in 1..n : IsPlan(plans[i], profiles, k) /\ plans[i].name # group
    BY <1>7 DEF ArePlans, IsPlan
  <2>3. QED
    BY <1>2, <1>6, <1>7, <2>1, <2>2 DEF ArePlans
<1>8. CASE group # NoGroup /\ I # {}
  <2> DEFINE at == First(I)
             old == plans[at]
             changed == [name |-> old.name, base |-> old.base, tags |-> Append(old.tags, profile.tag)]
  <2>1. at \in 1..n /\ old.name = group /\ at # 0
    BY <1>4, <1>8
  <2>2. IsPlan(old, profiles, k)
    BY <2>1 DEF ArePlans
  <2>3. new = [plans EXCEPT ![at].tags = Append(@, profile.tag)]
    BY <1>8, <2>1 DEF AddToPlans, SelectInSeq, First
  <2>4. [old EXCEPT !.tags = Append(old.tags, profile.tag)] = changed
    <3> HIDE DEF old, profile
    <3>1. old = [name |-> old.name, base |-> old.base, tags |-> old.tags]
      BY <2>2 DEF IsPlan
    <3>2. QED
      BY <3>1, PlanWithTags
  <2> HIDE DEF at, changed, new
  <2>5. new = [plans EXCEPT ![at] = changed]
    BY <2>3, <2>4
  <2>6. IsSeq(new) /\ Len(new) = n
    BY <1>1, <2>5, Changed
  <2>7. \A i \in 1..n : new[i] = IF i = at THEN changed ELSE plans[i]
    BY <1>1, <2>1, <2>5
  <2>8. changed.name = group /\ changed.base = old.base /\ changed.tags = Append(old.tags, profile.tag)
    BY <2>1 DEF changed
  <2>9. IsPlan(changed, profiles, k + 1)
    <3>1. changed = [name |-> changed.name, base |-> changed.base, tags |-> changed.tags]
      BY DEF changed
    <3>2. IsSeq(changed.tags) /\ ToSet(changed.tags) = ToSet(old.tags) \cup {profile.tag}
      BY <2>2, <2>8, Appended, ElementsOfAppended DEF IsPlan
    <3>3. ToSet(changed.tags) = TagsIn(profiles, k + 1, group)
      <4>1. ToSet(old.tags) = TagsIn(profiles, k, group)
        BY <2>1, <2>2 DEF IsPlan
      <4>2. TagsIn(profiles, k + 1, group) = TagsIn(profiles, k, group) \cup {profile.tag}
        BY TagsOfMore
      <4>3. QED
        BY <3>2, <4>1, <4>2
    <3>4. QED
      BY <1>3, <1>8, <2>1, <2>2, <2>8, <3>1, <3>2, <3>3 DEF IsPlan
  <2>10. \A i \in 1..n : i # at => plans[i].name # group
    BY <2>1 DEF ArePlans
  <2>11. \A i \in 1..n : IsPlan(new[i], profiles, k + 1) /\ new[i].name = plans[i].name
    BY <1>6, <2>1, <2>7, <2>8, <2>9, <2>10 DEF ArePlans
  <2>12. \A j \in 1..(k + 1) : profiles[j].group # NoGroup => \E i \in 1..n : plans[i].name = profiles[j].group
    BY <1>2, <2>1 DEF ArePlans
  <2>13. QED
    BY <2>6, <2>11, <2>12 DEF ArePlans, new
<1>9. CASE group # NoGroup /\ I = {}
  <2> DEFINE base == Base(group)
             fresh == [name |-> group, base |-> base, tags |-> <<profile.tag>>]
  <2>1. \A i \in 1..n : plans[i].name # group
    BY <1>9
  <2>2. \A i \in 1..n : plans[i].base # base
    <3>1. SUFFICES ASSUME NEW i \in 1..n, plans[i].base = base PROVE FALSE
      OBVIOUS
    <3>2. IsPlan(plans[i], profiles, k)
      BY DEF ArePlans
    <3>3. PICK j \in 1..k : profiles[j].group = plans[i].name
      BY <3>2 DEF IsPlan
    <3>4. profiles[j].group # NoGroup /\ Base(profiles[j].group) = Base(group) /\ j \in 1..Len(profiles)
      BY <1>3, <3>1, <3>2, <3>3 DEF IsPlan
    <3>5. profiles[j].group = group
      BY <1>9, <3>4 DEF BasesDiffer
    <3>6. QED
      BY <2>1, <3>3, <3>5
  <2>3. Cardinality({i \in DOMAIN plans : plans[i].base = base}) = 0
    <3>1. {i \in DOMAIN plans : plans[i].base = base} = {}
      BY <1>1, <2>2
    <3>2. QED
      BY <3>1, FS_EmptySet
  <2>4. new = Append(plans, fresh)
    <3>1. SelectInSeq(plans, LAMBDA plan : plan.name = profile.group) = 0
      BY <1>5, <1>9 DEF SelectInSeq, First
    <3>2. QED
      BY <1>9, <2>3, <3>1 DEF AddToPlans
  <2>5. fresh.name = group /\ fresh.base = base /\ fresh.tags = <<profile.tag>>
    OBVIOUS
  <2>6. fresh = [name |-> fresh.name, base |-> fresh.base, tags |-> fresh.tags]
    OBVIOUS
  <2> HIDE DEF fresh
  <2>7. /\ IsSeq(new) /\ Len(new) = n + 1
        /\ \A i \in 1..n : new[i] = plans[i]
        /\ new[n + 1] = fresh
    BY <1>1, <2>4, Appended
  <2>8. IsPlan(fresh, profiles, k + 1)
    <3>1. TagsIn(profiles, k, group) = {}
      <4>1. \A j \in 1..k : profiles[j].group # group
        BY <1>9, <2>1 DEF ArePlans
      <4>2. QED
        BY <4>1 DEF TagsIn
    <3>2. ToSet(fresh.tags) = TagsIn(profiles, k + 1, group) /\ IsSeq(fresh.tags)
      <4>1. TagsIn(profiles, k + 1, group) = {profile.tag}
        BY <3>1, TagsOfMore
      <4>2. QED
        BY <2>5, <4>1, ElementOfOne, OneIsSeq
    <3>3. QED
      BY <1>3, <1>9, <2>5, <2>6, <3>2 DEF IsPlan
  <2> HIDE DEF new, n
  <2>9. \A i \in 1..(n + 1) : i = n + 1 \/ i \in 1..n
    BY <1>1
  <2>10. \A i \in 1..n : IsPlan(new[i], profiles, k + 1)
    BY <1>6, <2>1, <2>7 DEF ArePlans, n
  <2>11. \A i \in 1..(n + 1) : IsPlan(new[i], profiles, k + 1)
    BY <2>7, <2>8, <2>9, <2>10
  <2>12. \A i, j \in 1..(n + 1) : new[i].name = new[j].name => i = j
    <3>1. \A i, j \in 1..n : plans[i].name = plans[j].name => i = j
      BY DEF ArePlans, n
    <3>2. QED
      BY <2>1, <2>5, <2>7, <2>9, <3>1
  <2>13. \A j \in 1..(k + 1) : profiles[j].group # NoGroup =>
           \E i \in 1..(n + 1) : new[i].name = profiles[j].group
    <3>1. ASSUME NEW j \in 1..k, profiles[j].group # NoGroup
          PROVE  \E i \in 1..(n + 1) : new[i].name = profiles[j].group
      <4>1. PICK i \in 1..n : plans[i].name = profiles[j].group
        BY <3>1 DEF ArePlans, n
      <4>2. i \in 1..(n + 1)
        BY <1>1
      <4>3. QED
        BY <2>7, <4>1, <4>2
    <3>2. n + 1 \in 1..(n + 1)
      BY <1>1
    <3>3. QED
      BY <1>2, <2>5, <2>7, <3>1, <3>2
  <2>14. QED
    BY <2>7, <2>11, <2>12, <2>13 DEF ArePlans, new
<1>10. QED
  BY <1>7, <1>8, <1>9

\* The renderer plans each group once, with the tags of its nodes.
LEMMA PlansFacts ==
  ASSUME NEW profiles, IsSeq(profiles), BasesDiffer(profiles)
  PROVE  ArePlans(GroupPlans(profiles), profiles, Len(profiles))
<1> DEFINE n == Len(profiles)
<1>1. PICK plans : /\ plans[0] = <<>>
                   /\ \A k \in 1..n : plans[k] = AddToPlans(plans[k - 1], profiles[k])
                   /\ GroupPlans(profiles) = plans[n]
  BY PlansInSteps
<1>2. n \in Nat
  BY SeqFacts
<1> DEFINE G == {k \in 0..n : ArePlans(plans[k], profiles, k)}
<1>3. 0 \in G
  BY <1>1, <1>2, EmptyIsSeq DEF ArePlans
<1>4. ASSUME NEW k \in 0..(n - 1), k \in G PROVE k + 1 \in G
  <2>1. k + 1 \in 1..n /\ (k + 1) - 1 = k /\ k + 1 \in 0..n /\ k \in Nat
    BY <1>2
  <2>2. plans[k + 1] = AddToPlans(plans[k], profiles[k + 1])
    BY <1>1, <2>1
  <2>3. ArePlans(plans[k], profiles, k)
    BY <1>4
  <2>4. ArePlans(plans[k + 1], profiles, k + 1)
    BY <2>1, <2>2, <2>3, PlanAdded
  <2>5. QED
    BY <2>1, <2>4
<1> HIDE DEF G
<1>5. 0..n \subseteq G
  BY <1>2, <1>3, <1>4, BoundedInduction
<1>6. n \in 0..n
  BY <1>2
<1>7. n \in G
  BY <1>5, <1>6
<1>8. QED
  BY <1>1, <1>7 DEF G

\* No two nodes have one id.
IdsOnce(s) == \A i, j \in 1..Len(s) : s[i].id = s[j].id => i = j

\* Nor have two of those that are kept.
LEMMA ThoseHaveIdsOnce ==
  ASSUME NEW s, IsSeq(s), IdsOnce(s), NEW I
  PROVE  IdsOnce(Those(s, I))
<1> DEFINE n == Len(s)
<1>1. PICK kept : /\ kept[0] = <<>>
                  /\ \A m \in 1..n : kept[m] = IF m \in I THEN Append(kept[m - 1], s[m]) ELSE kept[m - 1]
                  /\ \A m \in 0..n : IsSeq(kept[m])
                  /\ Those(s, I) = kept[n]
  BY ThoseInSteps
<1>2. n \in Nat
  BY SeqFacts
<1>3. \A i, j \in 1..n : s[i].id = s[j].id => i = j
  BY DEF IdsOnce
<1> HIDE DEF n
<1> DEFINE Good(t, m) == /\ IdsOnce(t)
                         /\ \A k \in 1..Len(t) : \E i \in 1..m : t[k] = s[i]
           G == {m \in 0..n : Good(kept[m], m)}
<1>4. 0 \in G
  BY <1>1, <1>2, EmptyIsSeq DEF IdsOnce
<1>5. ASSUME NEW m \in 0..(n - 1), m \in G PROVE m + 1 \in G
  <2> DEFINE t == kept[m]
             u == kept[m + 1]
  <2>1. m + 1 \in 1..n /\ (m + 1) - 1 = m /\ m + 1 \in 0..n /\ m \in 0..n /\ m \in Nat
    BY <1>2
  <2>2. Good(t, m) /\ IsSeq(t)
    BY <1>1, <1>5, <2>1
  <2>3. u = IF m + 1 \in I THEN Append(t, s[m + 1]) ELSE t
    BY <1>1, <2>1
  <2>4. \A i \in 1..m : i \in 1..(m + 1) /\ i \in 1..n /\ i # m + 1
    BY <1>2, <2>1
  <2> HIDE DEF t, u
  <2>5. Len(t) \in Nat
    BY <2>2, SeqFacts
  <2>6. CASE m + 1 \notin I
    <3>1. Good(u, m + 1)
      BY <2>2, <2>3, <2>4, <2>6
    <3>2. QED
      BY <2>1, <3>1 DEF u
  <2>7. CASE m + 1 \in I
    <3>1. /\ IsSeq(u) /\ Len(u) = Len(t) + 1
          /\ \A k \in 1..Len(t) : u[k] = t[k]
          /\ u[Len(t) + 1] = s[m + 1]
      BY <2>2, <2>3, <2>7, Appended
    <3>2. \A k \in 1..Len(u) : k = Len(t) + 1 \/ k \in 1..Len(t)
      BY <2>5, <3>1
    <3>3. m + 1 \in 1..(m + 1)
      BY <2>1
    <3>4. \A k \in 1..Len(u) : \E i \in 1..(m + 1) : u[k] = s[i]
      BY <2>2, <2>4, <3>1, <3>2, <3>3
    <3>5. ASSUME NEW k \in 1..Len(t) PROVE t[k].id # s[m + 1].id
      <4>1. PICK i \in 1..m : t[k] = s[i]
        BY <2>2
      <4>2. QED
        BY <1>3, <2>1, <2>4, <4>1
    <3>6. \A k, l \in 1..Len(t) : t[k].id = t[l].id => k = l
      BY <2>2 DEF IdsOnce
    <3>7. \A k, l \in 1..Len(u) : u[k].id = u[l].id => k = l
      BY <3>1, <3>2, <3>5, <3>6
    <3>8. Good(u, m + 1)
      BY <3>4, <3>7 DEF IdsOnce
    <3>9. QED
      BY <2>1, <3>8 DEF u
  <2>8. QED
    BY <2>6, <2>7
<1> HIDE DEF G
<1>6. 0..n \subseteq G
  BY <1>2, <1>4, <1>5, BoundedInduction
<1>7. n \in 0..n
  BY <1>2
<1>8. n \in G
  BY <1>6, <1>7
<1>9. QED
  BY <1>1, <1>8 DEF G

\* A group of c, and what its tags leave of it.
IsGroupOf(c, group) ==
  /\ group # NoGroup /\ IsSeq(Base(group))
  /\ \E i \in 1..Len(UsableNodes(c)) : UsableNodes(c)[i].group = group

\* A node in a group makes it one.
LEMMA GroupIsUsed ==
  ASSUME NEW c \in Configs, NEW i \in 1..Len(UsableNodes(c)), UsableNodes(c)[i].group # NoGroup
  PROVE  IsGroupOf(c, UsableNodes(c)[i].group)
<1> DEFINE group == UsableNodes(c)[i].group
<1>1. PICK k \in 1..Len(c.nodes) : UsableNodes(c)[i] = c.nodes[k]
  BY NodesAreSeq, UsableFacts
<1>2. c.nodes[k] \in ToSet(c.nodes)
  BY NodesAreSeq, SeqFacts
<1>3. IsSeq(BaseOf[group])
  BY <1>1, <1>2, TrafficPathAssumption DEF IsSeq
<1>4. IsSeq(<<"default">>)
  BY OneIsSeq
<1>5. IsSeq(Base(group))
  BY <1>3, <1>4 DEF Base
<1>6. QED
  BY <1>5 DEF IsGroupOf

\* The profiles again: the tag of one alone, and the groups and the ids of several.
LEMMA ProfilesAre ==
  ASSUME NEW c \in Configs
  PROVE  /\ Len(Profiles(c)) = 1 => Profiles(c)[1].tag = Proxy
         /\ IdsOnce(Profiles(c))
         /\ \A i \in 1..Len(Profiles(c)) :
              Profiles(c)[i].group # NoGroup => IsGroupOf(c, Profiles(c)[i].group)
         /\ \A k \in 1..Len(RenderableNodes(c)) :
              \E i \in 1..Len(Profiles(c)) : Profiles(c)[i].group = RenderableNodes(c)[k].group
         /\ ~RenderFails(c) => Len(Profiles(c)) # 0
<1> DEFINE own == <<[id |-> "", group |-> NoGroup, kind |-> c.ownKind, addr |-> c.own]>>
           usable == UsableNodes(c)
           some == RenderableNodes(c)
           nodes == IF usable = <<>> THEN own ELSE some
           tag(i) == IF Len(nodes) = 1 THEN Proxy ELSE NodeTag(c, nodes[i].id)
           made == [i \in DOMAIN nodes |-> [id |-> nodes[i].id, group |-> nodes[i].group, tag |-> tag(i)]]
<1>1. Profiles(c) = made
  BY DEF Profiles
<1>2. /\ IsSeq(own) /\ Len(own) = 1 /\ own[1].group = NoGroup /\ IsSeq(usable) /\ IsSeq(some)
      /\ \A k \in 1..Len(some) : \E i \in 1..Len(usable) : some[k] = usable[i]
  BY OneIsSeq, NodesAreSeq, UsableFacts, RenderableFacts
<1>3. IdsOnce(own)
  <2>1. \A i, j \in 1..1 : i = j
    OBVIOUS
  <2>2. QED
    BY <1>2, <2>1 DEF IdsOnce
<1>4. IdsOnce(some)
  <2>1. IsSeq(c.nodes) /\ DOMAIN c.nodes = 1..Len(c.nodes)
    BY NodesAreSeq, SeqFacts
  <2>2. IdsOnce(c.nodes)
    BY <2>1, TrafficPathAssumption DEF IdsOnce
  <2>3. IdsOnce(usable)
    BY <2>1, <2>2, ThoseHaveIdsOnce DEF UsableNodes
  <2> HIDE DEF usable
  <2>4. \E I : some = Those(usable, I)
    BY DEF RenderableNodes, usable
  <2>5. QED
    BY <1>2, <2>3, <2>4, ThoseHaveIdsOnce
<1>5. /\ Len(nodes) \in Nat /\ DOMAIN nodes = 1..Len(nodes) /\ IsSeq(nodes) /\ IdsOnce(nodes)
  <2> HIDE DEF own, some, usable
  <2>1. IsSeq(nodes) /\ IdsOnce(nodes)
    BY <1>2, <1>3, <1>4
  <2> HIDE DEF nodes
  <2>2. QED
    BY <2>1, SeqFacts
<1>6. /\ usable = <<>> => nodes = own /\ \A k \in 1..Len(some) : FALSE
      /\ usable # <<>> => nodes = some
  <2> HIDE DEF own, some
  <2>1. usable = <<>> => \A i \in 1..Len(usable) : FALSE
    BY EmptyIsSeq
  <2>2. QED
    BY <1>2, <2>1
<1> HIDE DEF own, nodes
<1>7. IsSeq(made) /\ Len(made) = Len(nodes)
  <2>1. DOMAIN made = 1..Len(nodes) /\ made = [i \in 1..Len(nodes) |-> made[i]]
    BY <1>5
  <2> HIDE DEF made
  <2>2. QED
    BY <1>5, <2>1, FunctionIsSeq
<1>8. \A i \in 1..Len(nodes) : /\ made[i].id = nodes[i].id /\ made[i].group = nodes[i].group
                               /\ Len(nodes) = 1 => made[i].tag = Proxy
  BY <1>5
<1> HIDE DEF made, some
<1>9. IdsOnce(made)
  BY <1>5, <1>7, <1>8 DEF IdsOnce
<1>10. ASSUME NEW i \in 1..Len(made), made[i].group # NoGroup PROVE IsGroupOf(c, made[i].group)
  <2>1. nodes[i].group # NoGroup /\ made[i].group = nodes[i].group /\ i \in 1..Len(nodes)
    BY <1>7, <1>8, <1>10
  <2>2. nodes = some
    <3>1. CASE usable = <<>>
      <4>1. nodes = own /\ \A k \in 1..1 : k = 1
        BY <1>6, <3>1
      <4>2. QED
        BY <1>2, <2>1, <4>1
    <3>2. QED
      BY <1>6, <3>1
  <2>3. PICK k \in 1..Len(usable) : some[i] = usable[k]
    BY <1>2, <2>1, <2>2
  <2>4. QED
    BY <2>1, <2>2, <2>3, GroupIsUsed
<1>11. ASSUME NEW k \in 1..Len(some) PROVE \E i \in 1..Len(made) : made[i].group = some[k].group
  <2>1. nodes = some
    BY <1>6
  <2>2. QED
    BY <1>7, <1>8, <2>1
<1>12. ~RenderFails(c) => Len(made) # 0
  <2>1. ASSUME ~RenderFails(c) PROVE Len(made) # 0
    <3>1. CASE usable = <<>>
      BY <1>2, <1>6, <1>7, <3>1
    <3>2. CASE usable # <<>>
      <4>1. some # <<>>
        BY <2>1, <3>2 DEF RenderFails, some
      <4>2. QED
        BY <1>2, <1>6, <1>7, <3>2, <4>1, EmptyOnly
    <3>3. QED
      BY <3>1, <3>2
  <2>2. QED
    BY <2>1
<1>13. Len(made) = 1 => made[1].tag = Proxy
  <2>1. Len(made) = 1 => 1 \in 1..Len(nodes) /\ Len(nodes) = 1
    BY <1>7
  <2>2. QED
    BY <1>8, <2>1
<1>14. QED
  BY <1>1, <1>9, <1>10, <1>11, <1>12, <1>13 DEF some

\* The parts of the outbounds: one of each node, the selector of all nodes with its choice by
\* latency, and those of each group.
NodeTags(c) == [i \in DOMAIN Profiles(c) |-> Profiles(c)[i].tag]
Plans(c) == GroupPlans(Profiles(c))
GroupTags(c) == [i \in DOMAIN Plans(c) |-> GroupTag(Plans(c)[i])]
Singles(c) == [i \in DOMAIN NodeTags(c) |-> Single(NodeTags(c)[i])]
AutoOf(c) == Outbound(AutoGroup, NodeTags(c), <<>>)
AllMembers(c) == <<AutoGroup>> \o NodeTags(c) \o GroupTags(c)
AllOf(c) == Outbound(Proxy, AllMembers(c), SelectorDefault(c, Profiles(c)))
Several(c) == IF Len(NodeTags(c)) > 1 THEN <<AutoOf(c), AllOf(c)>> ELSE <<>>
OfGroups(c) == [i \in DOMAIN Plans(c) |-> GroupOutbounds(Plans(c)[i])]

\* They are all there is, besides the direct one.
LEMMA OutboundsInParts ==
  ASSUME NEW c
  PROVE  Outbounds(c) = Singles(c) \o Several(c) \o FlattenSeq(OfGroups(c)) \o <<Single(Direct)>>
BY DEF Outbounds, Singles, Several, OfGroups, AutoOf, AllOf, AllMembers, NodeTags, Plans, GroupTags

\* The parts are sequences.
LEMMA PartsAreSeq ==
  ASSUME NEW c, IsSeq(c.nodes)
  PROVE  /\ IsSeq(NodeTags(c)) /\ Len(NodeTags(c)) = Len(Profiles(c))
         /\ \A i \in 1..Len(Profiles(c)) : NodeTags(c)[i] = Profiles(c)[i].tag
         /\ IsSeq(Singles(c)) /\ Len(Singles(c)) = Len(Profiles(c))
         /\ \A i \in 1..Len(Profiles(c)) : Singles(c)[i] = Single(Profiles(c)[i].tag)
         /\ IsSeq(Plans(c))
         /\ IsSeq(GroupTags(c)) /\ Len(GroupTags(c)) = Len(Plans(c))
         /\ \A i \in 1..Len(Plans(c)) : GroupTags(c)[i] = GroupTag(Plans(c)[i])
         /\ IsSeq(OfGroups(c)) /\ Len(OfGroups(c)) = Len(Plans(c))
         /\ \A i \in 1..Len(Plans(c)) :
              OfGroups(c)[i] = GroupOutbounds(Plans(c)[i]) /\ IsSeq(OfGroups(c)[i])
         /\ IsSeq(Several(c))
<1> DEFINE profiles == Profiles(c)
           plans == Plans(c)
           n == Len(profiles)
           m == Len(plans)
           tags == NodeTags(c)
           singles == Singles(c)
           groups == GroupTags(c)
           ss == OfGroups(c)
<1>1. IsSeq(profiles) /\ n \in Nat /\ DOMAIN profiles = 1..n
  BY ProfilesFacts, SeqFacts
<1>2. IsSeq(plans) /\ m \in Nat /\ DOMAIN plans = 1..m
  BY <1>1, PlansAreSeq, SeqFacts DEF Plans
<1>3. IsSeq(tags) /\ Len(tags) = n /\ DOMAIN tags = 1..n /\ \A i \in 1..n : tags[i] = profiles[i].tag
  <2>1. tags = [i \in 1..n |-> profiles[i].tag]
    BY <1>1 DEF NodeTags
  <2> HIDE DEF tags, profiles, n
  <2>2. DOMAIN tags = 1..n /\ tags = [i \in 1..n |-> tags[i]] /\ \A i \in 1..n : tags[i] = profiles[i].tag
    BY <2>1
  <2>3. QED
    BY <1>1, <2>2, FunctionIsSeq
<1>4. IsSeq(singles) /\ Len(singles) = n /\ \A i \in 1..n : singles[i] = Single(profiles[i].tag)
  <2>1. singles = [i \in 1..n |-> Single(tags[i])]
    BY <1>3 DEF Singles
  <2> HIDE DEF tags, profiles, n, singles
  <2>2. DOMAIN singles = 1..n /\ singles = [i \in 1..n |-> singles[i]] /\ \A i \in 1..n : singles[i] = Single(tags[i])
    BY <2>1
  <2>3. QED
    BY <1>1, <1>3, <2>2, FunctionIsSeq
<1>5. IsSeq(groups) /\ Len(groups) = m /\ \A i \in 1..m : groups[i] = GroupTag(plans[i])
  <2>1. groups = [i \in 1..m |-> GroupTag(plans[i])]
    BY <1>2 DEF GroupTags
  <2> HIDE DEF groups, plans, m
  <2>2. DOMAIN groups = 1..m /\ groups = [i \in 1..m |-> groups[i]] /\ \A i \in 1..m : groups[i] = GroupTag(plans[i])
    BY <2>1
  <2>3. QED
    BY <1>2, <2>2, FunctionIsSeq
<1>6. IsSeq(ss) /\ Len(ss) = m /\ \A i \in 1..m : ss[i] = GroupOutbounds(plans[i])
  <2>1. ss = [i \in 1..m |-> GroupOutbounds(plans[i])]
    BY <1>2 DEF OfGroups
  <2> HIDE DEF ss, plans, m
  <2>2. DOMAIN ss = 1..m /\ ss = [i \in 1..m |-> ss[i]] /\ \A i \in 1..m : ss[i] = GroupOutbounds(plans[i])
    BY <2>1
  <2>3. QED
    BY <1>2, <2>2, FunctionIsSeq
<1>7. IsSeq(Several(c))
  BY TwoAreSeq, EmptyIsSeq DEF Several
<1>8. QED
  BY <1>2, <1>3, <1>4, <1>5, <1>6, <1>7, GroupOutboundsAreSeq

\* An outbound of c: of a node, of all nodes, of a group, or the direct one.
IsOutbound(c, o) ==
  \/ \E i \in 1..Len(Profiles(c)) : o = Single(Profiles(c)[i].tag)
  \/ Len(Profiles(c)) > 1 /\ (o = AutoOf(c) \/ o = AllOf(c))
  \/ \E i \in 1..Len(Plans(c)) : o \in ToSet(GroupOutbounds(Plans(c)[i]))
  \/ o = Single(Direct)

\* The elements of a sequence of two.
LEMMA ElementsOfPair == ASSUME NEW x, NEW y PROVE ToSet(<<x, y>>) = {x, y}
<1>1. DOMAIN <<x, y>> = 1..2 /\ <<x, y>>[1] = x /\ <<x, y>>[2] = y
  BY TwoAreSeq, SeqFacts
<1>2. \A i \in 1..2 : i = 1 \/ i = 2
  OBVIOUS
<1>3. 1 \in 1..2 /\ 2 \in 1..2
  OBVIOUS
<1>4. QED
  BY <1>1, <1>2, <1>3 DEF ToSet

\* These are the outbounds that are rendered.
LEMMA OutboundsAre ==
  ASSUME NEW c, IsSeq(c.nodes)
  PROVE  /\ IsSeq(Outbounds(c))
         /\ \A o : o \in ToSet(Outbounds(c)) <=> IsOutbound(c, o)
<1> DEFINE a == Singles(c)
           b == Several(c)
           d == FlattenSeq(OfGroups(c))
           e == <<Single(Direct)>>
<1>1. IsSeq(a) /\ IsSeq(b)
  BY PartsAreSeq
<1>2. /\ IsSeq(d)
      /\ \A o : o \in ToSet(d) <=> \E i \in 1..Len(Plans(c)) : o \in ToSet(GroupOutbounds(Plans(c)[i]))
  <2> DEFINE ss == OfGroups(c)
             n == Len(Plans(c))
  <2>1. /\ IsSeq(ss) /\ Len(ss) = n
        /\ \A i \in 1..n : ss[i] = GroupOutbounds(Plans(c)[i]) /\ IsSeq(ss[i])
    BY PartsAreSeq
  <2> HIDE DEF ss, n
  <2>2. /\ IsSeq(FlattenSeq(ss))
        /\ \A x \in ToSet(FlattenSeq(ss)) : \E i \in 1..n : x \in ToSet(ss[i])
        /\ \A i \in 1..n : ToSet(ss[i]) \subseteq ToSet(FlattenSeq(ss))
    BY <2>1, Flattened
  <2>3. QED
    BY <2>1, <2>2 DEF ss, n
<1>3. IsSeq(e) /\ ToSet(e) = {Single(Direct)}
  BY OneIsSeq, ElementOfOne
<1>4. \A o : o \in ToSet(a) <=> \E i \in 1..Len(Profiles(c)) : o = Single(Profiles(c)[i].tag)
  <2>1. /\ DOMAIN a = 1..Len(Profiles(c))
        /\ \A i \in 1..Len(Profiles(c)) : a[i] = Single(Profiles(c)[i].tag)
    BY PartsAreSeq, SeqFacts
  <2>2. QED
    BY <2>1 DEF ToSet
<1>5. \A o : o \in ToSet(b) <=> Len(Profiles(c)) > 1 /\ (o = AutoOf(c) \/ o = AllOf(c))
  <2>1. Len(NodeTags(c)) = Len(Profiles(c))
    BY PartsAreSeq
  <2>2. CASE Len(Profiles(c)) > 1
    <3>1. b = <<AutoOf(c), AllOf(c)>>
      BY <2>1, <2>2 DEF Several
    <3>2. QED
      BY <2>2, <3>1, ElementsOfPair
  <2>3. CASE ~(Len(Profiles(c)) > 1)
    <3>1. b = <<>> /\ ToSet(<<>>) = {}
      BY <2>1, <2>3, EmptyIsSeq DEF Several, ToSet
    <3>2. QED
      BY <2>3, <3>1
  <2>4. QED
    BY <2>2, <2>3
<1>6. Outbounds(c) = ((a \o b) \o d) \o e
  BY OutboundsInParts
<1> HIDE DEF a, b, d, e
<1>7. IsSeq(a \o b) /\ ToSet(a \o b) = ToSet(a) \cup ToSet(b)
  BY <1>1, Joined, ElementsOfTwo
<1>8. IsSeq((a \o b) \o d) /\ ToSet((a \o b) \o d) = ToSet(a \o b) \cup ToSet(d)
  BY <1>2, <1>7, Joined, ElementsOfTwo
<1>9. /\ IsSeq(((a \o b) \o d) \o e)
      /\ ToSet(((a \o b) \o d) \o e) = ToSet((a \o b) \o d) \cup ToSet(e)
  BY <1>3, <1>8, Joined, ElementsOfTwo
<1>10. ToSet(Outbounds(c)) = (ToSet(a) \cup ToSet(b) \cup ToSet(d)) \cup {Single(Direct)}
  BY <1>3, <1>6, <1>7, <1>8, <1>9
<1>11. QED
  BY <1>2, <1>4, <1>5, <1>6, <1>9, <1>10 DEF IsOutbound

\* The groups of c leave different bases, and none of them looks like the choice by latency of
\* another: GroupsDiffer, of one configuration.
GroupsApart(c) ==
  \A i, j \in 1..Len(UsableNodes(c)) :
    UsableNodes(c)[i].group # NoGroup /\ UsableNodes(c)[j].group # NoGroup =>
      /\ Base(UsableNodes(c)[i].group) = Base(UsableNodes(c)[j].group) =>
           UsableNodes(c)[i].group = UsableNodes(c)[j].group
      /\ Base(UsableNodes(c)[i].group) # Append(Base(UsableNodes(c)[j].group), "auto")

\* The nodes of c that are rendered leave different tags: NodesDiffer, of one configuration.
NodesApart(c) ==
  \A i, j \in 1..Len(RenderableNodes(c)) :
    NodeTag(c, RenderableNodes(c)[i].id) = NodeTag(c, RenderableNodes(c)[j].id) => i = j

\* Then no two profiles share a tag.
LEMMA ProfilesApart ==
  ASSUME NEW c \in Configs, NodesApart(c), Len(Profiles(c)) > 1,
         NEW i \in 1..Len(Profiles(c)), NEW j \in 1..Len(Profiles(c)), Profiles(c)[i].tag = Profiles(c)[j].tag
  PROVE  i = j
<1>1. UsableNodes(c) # <<>>
  <2>1. Len(Profiles(c)) # 1
    <3>1. Len(Profiles(c)) \in Nat
      BY NodesAreSeq, ProfilesFacts, SeqFacts
    <3>2. \A n \in Nat : n > 1 => n # 1
      OBVIOUS
    <3>3. QED
      BY <3>1, <3>2, Zenon
  <2>2. QED
    BY <2>1, NodesAreSeq, ProfilesFacts
<1>2. /\ i \in 1..Len(RenderableNodes(c)) /\ j \in 1..Len(RenderableNodes(c))
      /\ NodeTag(c, RenderableNodes(c)[i].id) = NodeTag(c, RenderableNodes(c)[j].id)
  BY <1>1, NodesAreSeq, ProfilesFacts
<1>3. QED
  BY <1>2 DEF NodesApart

\* And no two groups.
LEMMA GroupsHaveTags ==
  ASSUME NEW c, GroupsApart(c), NEW g, NEW h, IsGroupOf(c, g), IsGroupOf(c, h)
  PROVE  /\ Base(g) = Base(h) => g = h
         /\ Base(g) # Append(Base(h), "auto")
BY DEF GroupsApart, IsGroupOf

\* The plans of c, one for each of its groups that has a node that is rendered.
LEMMA PlansOfConfig ==
  ASSUME NEW c \in Configs, GroupsApart(c)
  PROVE  /\ ArePlans(Plans(c), Profiles(c), Len(Profiles(c)))
         /\ \A i \in 1..Len(Plans(c)) :
              /\ IsPlan(Plans(c)[i], Profiles(c), Len(Profiles(c)))
              /\ IsGroupOf(c, Plans(c)[i].name)
              /\ GroupTag(Plans(c)[i]) = <<"group">> \o Base(Plans(c)[i].name)
<1>1. BasesDiffer(Profiles(c))
  BY ProfilesAre, GroupsHaveTags DEF BasesDiffer
<1>2. ArePlans(Plans(c), Profiles(c), Len(Profiles(c)))
  BY <1>1, NodesAreSeq, ProfilesFacts, PlansFacts DEF Plans
<1>3. ASSUME NEW i \in 1..Len(Plans(c)) PROVE IsPlan(Plans(c)[i], Profiles(c), Len(Profiles(c)))
  BY <1>2 DEF ArePlans
<1>4. ASSUME NEW i \in 1..Len(Plans(c)) PROVE IsGroupOf(c, Plans(c)[i].name)
  BY <1>3, ProfilesAre DEF IsPlan
<1>5. ASSUME NEW i \in 1..Len(Plans(c))
      PROVE  GroupTag(Plans(c)[i]) = <<"group">> \o Base(Plans(c)[i].name)
  BY <1>3 DEF IsPlan, GroupTag
<1>6. QED
  BY <1>2, <1>3, <1>4, <1>5

\* The first words of the tags that belong to no group.
LEMMA FixedWords ==
  /\ Proxy[1] = "proxy" /\ Direct[1] = "direct" /\ AutoGroup[1] = "auto" /\ Reject[1] = "reject"
BY DEF Proxy, Direct, AutoGroup, Reject

\* The outbounds of a plan: a selector, and the choice by latency of several nodes.
LEMMA PlanOutbounds ==
  ASSUME NEW plan
  PROVE  LET G == GroupTag(plan)
             A == Append(G, "auto")
             a == Outbound(A, plan.tags, <<>>)
             s == Outbound(G, <<A>> \o plan.tags, A)
             one == Outbound(G, plan.tags, plan.tags[1])
         IN  /\ Len(plan.tags) > 1 => ToSet(GroupOutbounds(plan)) = {a, s}
             /\ ~(Len(plan.tags) > 1) => ToSet(GroupOutbounds(plan)) = {one}
<1> DEFINE G == GroupTag(plan)
           A == Append(G, "auto")
           a == Outbound(A, plan.tags, <<>>)
           s == Outbound(G, <<A>> \o plan.tags, A)
           one == Outbound(G, plan.tags, plan.tags[1])
<1>1. GroupOutbounds(plan) = IF Len(plan.tags) > 1 THEN <<a, s>> ELSE <<one>>
  BY DEF GroupOutbounds
<1> HIDE DEF a, s, one
<1>2. Len(plan.tags) > 1 => ToSet(GroupOutbounds(plan)) = {a, s}
  BY <1>1, ElementsOfPair
<1>3. ~(Len(plan.tags) > 1) => ToSet(GroupOutbounds(plan)) = {one}
  BY <1>1, ElementOfOne
<1>4. QED
  BY <1>2, <1>3 DEF a, s, one

\* A group has an outbound with its tag.
LEMMA GroupHasOutbound ==
  ASSUME NEW c, NEW i \in 1..Len(Plans(c))
  PROVE  \E o : IsOutbound(c, o) /\ o.tag = GroupTag(Plans(c)[i])
<1> DEFINE plan == Plans(c)[i]
           G == GroupTag(plan)
           A == Append(G, "auto")
           s == Outbound(G, <<A>> \o plan.tags, A)
           one == Outbound(G, plan.tags, plan.tags[1])
<1>1. s \in ToSet(GroupOutbounds(plan)) \/ one \in ToSet(GroupOutbounds(plan))
  BY PlanOutbounds
<1>2. s.tag = G /\ one.tag = G
  BY DEF Outbound
<1> HIDE DEF s, one
<1>3. QED
  BY <1>1, <1>2 DEF IsOutbound

\* Their tags: a group's, and that of its choice by latency.
LEMMA TagsOfPlan ==
  ASSUME NEW plan, NEW o \in ToSet(GroupOutbounds(plan))
  PROVE  o.tag = GroupTag(plan) \/ o.tag = Append(GroupTag(plan), "auto")
<1> DEFINE G == GroupTag(plan)
           A == Append(G, "auto")
           a == Outbound(A, plan.tags, <<>>)
           s == Outbound(G, <<A>> \o plan.tags, A)
           one == Outbound(G, plan.tags, plan.tags[1])
<1>1. o \in {a, s, one}
  <2>1. /\ Len(plan.tags) > 1 => ToSet(GroupOutbounds(plan)) = {a, s}
        /\ ~(Len(plan.tags) > 1) => ToSet(GroupOutbounds(plan)) = {one}
    BY PlanOutbounds
  <2> HIDE DEF a, s, one
  <2>2. QED
    BY <2>1
<1>2. a.tag = A /\ s.tag = G /\ one.tag = G
  BY DEF Outbound
<1> HIDE DEF a, s, one
<1>3. QED
  BY <1>1, <1>2

\* The tags of the groups of c begin like no others.
LEMMA GroupWords ==
  ASSUME NEW c \in Configs, GroupsApart(c), NEW i \in 1..Len(Plans(c)),
         NEW o \in ToSet(GroupOutbounds(Plans(c)[i]))
  PROVE  o.tag[1] = "group"
<1> DEFINE base == Base(Plans(c)[i].name)
<1>1. IsSeq(base) /\ GroupTag(Plans(c)[i]) = <<"group">> \o base
  BY PlansOfConfig DEF IsGroupOf
<1>2. o.tag = <<"group">> \o base \/ o.tag = Append(<<"group">> \o base, "auto")
  BY <1>1, TagsOfPlan
<1> HIDE DEF base
<1>3. QED
  BY <1>1, <1>2, GroupTagFacts

\* No two groups share a tag.
LEMMA PlansApart ==
  ASSUME NEW c \in Configs, GroupsApart(c), NEW i \in 1..Len(Plans(c)), NEW j \in 1..Len(Plans(c)), i # j
  PROVE  TagsApart(GroupOutbounds(Plans(c)[i]), GroupOutbounds(Plans(c)[j]))
<1> DEFINE b == Base(Plans(c)[i].name)
           d == Base(Plans(c)[j].name)
<1>1. /\ IsSeq(b) /\ GroupTag(Plans(c)[i]) = <<"group">> \o b
      /\ IsSeq(d) /\ GroupTag(Plans(c)[j]) = <<"group">> \o d
      /\ IsGroupOf(c, Plans(c)[i].name) /\ IsGroupOf(c, Plans(c)[j].name)
  BY PlansOfConfig DEF IsGroupOf
<1>2. Plans(c)[i].name # Plans(c)[j].name
  BY PlansOfConfig DEF ArePlans
<1>3. b # d /\ b # Append(d, "auto") /\ d # Append(b, "auto")
  BY <1>1, <1>2, GroupsHaveTags
<1> HIDE DEF b, d
<1> DEFINE B == <<"group">> \o b
           D == <<"group">> \o d
<1>4. B # D /\ B # Append(D, "auto") /\ D # Append(B, "auto") /\ Append(B, "auto") # Append(D, "auto")
  <2>1. B # D /\ B # Append(D, "auto") /\ Append(B, "auto") # Append(D, "auto")
    BY <1>1, <1>3, GroupTagFacts
  <2>2. D # Append(B, "auto")
    BY <1>1, <1>3, GroupTagFacts
  <2>3. QED
    BY <2>1, <2>2
<1>5. GroupTag(Plans(c)[i]) = B /\ GroupTag(Plans(c)[j]) = D
  BY <1>1
<1> HIDE DEF B, D
<1>6. ASSUME NEW x \in ToSet(GroupOutbounds(Plans(c)[i])), NEW y \in ToSet(GroupOutbounds(Plans(c)[j]))
      PROVE  x.tag # y.tag
  <2>1. x.tag = B \/ x.tag = Append(B, "auto")
    BY <1>5, TagsOfPlan
  <2>2. y.tag = D \/ y.tag = Append(D, "auto")
    BY <1>5, TagsOfPlan
  <2>3. QED
    BY <1>4, <2>1, <2>2
<1>7. QED
  BY <1>6 DEF TagsApart

\* A group and its choice by latency have two tags.
LEMMA PlanOnce ==
  ASSUME NEW c \in Configs, GroupsApart(c), NEW i \in 1..Len(Plans(c))
  PROVE  TagsOnce(GroupOutbounds(Plans(c)[i]))
<1> DEFINE plan == Plans(c)[i]
           G == GroupTag(plan)
           A == Append(G, "auto")
           a == Outbound(A, plan.tags, <<>>)
           s == Outbound(G, <<A>> \o plan.tags, A)
           one == Outbound(G, plan.tags, plan.tags[1])
<1>1. GroupOutbounds(plan) = IF Len(plan.tags) > 1 THEN <<a, s>> ELSE <<one>>
  BY DEF GroupOutbounds
<1>2. a.tag = A /\ s.tag = G
  BY DEF Outbound
<1>3. A # G
  <2>1. IsSeq(Base(plan.name)) /\ G = <<"group">> \o Base(plan.name)
    BY PlansOfConfig DEF IsGroupOf
  <2>2. QED
    BY <2>1, GroupTagFacts
<1> HIDE DEF a, s, one, G, A
<1>4. TagsOnce(<<a, s>>)
  <2>1. Len(<<a, s>>) = 2 /\ <<a, s>>[1] = a /\ <<a, s>>[2] = s
    BY TwoAreSeq
  <2>2. \A k \in 1..2 : k = 1 \/ k = 2
    OBVIOUS
  <2>3. QED
    BY <1>2, <1>3, <2>1, <2>2 DEF TagsOnce
<1>5. TagsOnce(<<one>>)
  <2>1. Len(<<one>>) = 1 /\ \A k \in 1..1 : k = 1
    BY OneIsSeq
  <2>2. QED
    BY <2>1 DEF TagsOnce
<1>6. QED
  BY <1>1, <1>4, <1>5

\* No two outbounds of c have one tag.
LEMMA OutboundsOnce ==
  ASSUME NEW c \in Configs, NodesApart(c), GroupsApart(c)
  PROVE  TagsOnce(Outbounds(c))
<1> DEFINE n == Len(Profiles(c))
           a == Singles(c)
           b == Several(c)
           ss == OfGroups(c)
           d == FlattenSeq(ss)
           e == <<Single(Direct)>>
<1>1. IsSeq(c.nodes) /\ n \in Nat
  BY NodesAreSeq, ProfilesFacts, SeqFacts
<1>2. /\ IsSeq(a) /\ Len(a) = n /\ \A i \in 1..n : a[i].tag = Profiles(c)[i].tag
      /\ IsSeq(b) /\ IsSeq(ss) /\ Len(ss) = Len(Plans(c))
      /\ \A i \in 1..Len(Plans(c)) : ss[i] = GroupOutbounds(Plans(c)[i]) /\ IsSeq(ss[i])
  <2>1. /\ IsSeq(a) /\ Len(a) = n /\ \A i \in 1..n : a[i] = Single(Profiles(c)[i].tag)
        /\ IsSeq(b) /\ IsSeq(ss) /\ Len(ss) = Len(Plans(c))
        /\ \A i \in 1..Len(Plans(c)) : ss[i] = GroupOutbounds(Plans(c)[i]) /\ IsSeq(ss[i])
    BY <1>1, PartsAreSeq
  <2>2. \A x : Single(x).tag = x
    BY DEF Single, Outbound
  <2> HIDE DEF a, b, ss, n
  <2>3. QED
    BY <2>1, <2>2
<1>3. /\ n = 1 => Profiles(c)[1].tag = Proxy
      /\ n > 1 => \A i, j \in 1..n : /\ Profiles(c)[i].tag[1] = "node"
                                     /\ Profiles(c)[i].tag = Profiles(c)[j].tag => i = j
  BY <1>1, ProfilesAre, SeveralAreNodes, ProfilesApart
<1>4. /\ n > 1 => b = <<AutoOf(c), AllOf(c)>>
      /\ ~(n > 1) => b = <<>>
  BY <1>1, PartsAreSeq DEF Several
<1>5. AutoOf(c).tag = AutoGroup /\ AllOf(c).tag = Proxy /\ Single(Direct).tag = Direct
  BY DEF AutoOf, AllOf, Single, Outbound
<1>6. Outbounds(c) = ((a \o b) \o d) \o e
  BY OutboundsInParts
<1>7. \A i \in 1..Len(ss) : TagsOnce(ss[i])
  BY <1>2, PlanOnce
<1>8. \A i, j \in 1..Len(ss) : i # j => TagsApart(ss[i], ss[j])
  BY <1>2, PlansApart
<1>9. \A i \in 1..Len(ss) : \A o \in ToSet(ss[i]) : o.tag[1] = "group"
  BY <1>2, GroupWords
<1> HIDE DEF n, a, b, ss, e
<1>11. TagsOnce(a) /\ \A o \in ToSet(a) : o.tag[1] = IF n > 1 THEN "node" ELSE "proxy"
  <2>1. DOMAIN a = 1..n
    BY <1>2, SeqFacts
  <2>2. CASE n > 1
    <3>1. TagsOnce(a)
      BY <1>2, <1>3, <2>2 DEF TagsOnce
    <3>2. \A i \in 1..n : a[i].tag[1] = "node"
      BY <1>2, <1>3, <2>2
    <3>3. QED
      BY <2>1, <2>2, <3>1, <3>2 DEF ToSet
  <2>3. CASE ~(n > 1)
    <3>1. \A i \in 1..n : i = 1 /\ n = 1
      BY <1>1, <2>3
    <3>2. TagsOnce(a)
      BY <1>2, <3>1 DEF TagsOnce
    <3>3. \A i \in 1..n : a[i].tag[1] = "proxy"
      BY <1>2, <1>3, <3>1, FixedWords
    <3>4. QED
      BY <2>1, <2>3, <3>2, <3>3 DEF ToSet
  <2>4. QED
    BY <2>2, <2>3
<1>12. TagsOnce(b) /\ \A o \in ToSet(b) : n > 1 /\ o.tag[1] \in {"auto", "proxy"}
  <2>1. CASE n > 1
    <3> DEFINE x == AutoOf(c)
               y == AllOf(c)
    <3>1. b = <<x, y>> /\ ToSet(<<x, y>>) = {x, y}
      BY <1>4, <2>1, ElementsOfPair
    <3>2. x.tag[1] = "auto" /\ y.tag[1] = "proxy"
      BY <1>5, FixedWords
    <3> HIDE DEF x, y
    <3>3. Len(b) = 2 /\ b[1] = x /\ b[2] = y /\ \A k \in 1..2 : k = 1 \/ k = 2
      BY <3>1, TwoAreSeq
    <3>4. TagsOnce(b)
      BY <3>2, <3>3 DEF TagsOnce
    <3>5. QED
      BY <2>1, <3>1, <3>2, <3>4
  <2>2. CASE ~(n > 1)
    <3>1. ToSet(b) = {} /\ \A k \in 1..Len(b) : FALSE
      BY <1>4, <2>2, EmptyIsSeq DEF ToSet
    <3>2. QED
      BY <3>1 DEF TagsOnce
  <2>3. QED
    BY <2>1, <2>2
<1>13. IsSeq(d) /\ TagsOnce(d) /\ \A o \in ToSet(d) : o.tag[1] = "group"
  <2>1. /\ IsSeq(d)
        /\ \A o \in ToSet(d) : \E i \in 1..Len(ss) : o \in ToSet(ss[i])
    BY <1>2, Flattened
  <2>2. TagsOnce(d)
    BY <1>2, <1>7, <1>8, OnceOfMany
  <2>3. QED
    BY <1>9, <2>1, <2>2
<1> HIDE DEF d
<1>14. IsSeq(e) /\ TagsOnce(e) /\ \A o \in ToSet(e) : o.tag[1] = "direct"
  <2>1. IsSeq(e) /\ Len(e) = 1 /\ ToSet(e) = {Single(Direct)} /\ \A k \in 1..1 : k = 1
    BY OneIsSeq, ElementOfOne DEF e
  <2>2. TagsOnce(e)
    BY <2>1 DEF TagsOnce
  <2>3. QED
    BY <1>5, <2>1, <2>2, FixedWords
<1>15. IsSeq(a \o b) /\ ToSet(a \o b) = ToSet(a) \cup ToSet(b) /\ TagsOnce(a \o b)
  <2>1. TagsApart(a, b)
    BY <1>11, <1>12 DEF TagsApart
  <2>2. QED
    BY <1>2, <1>11, <1>12, <2>1, Joined, ElementsOfTwo, OnceOfTwo
<1>16. /\ IsSeq((a \o b) \o d) /\ ToSet((a \o b) \o d) = ToSet(a \o b) \cup ToSet(d)
       /\ TagsOnce((a \o b) \o d)
  <2>1. TagsApart(a \o b, d)
    BY <1>11, <1>12, <1>13, <1>15 DEF TagsApart
  <2>2. QED
    BY <1>13, <1>15, <2>1, Joined, ElementsOfTwo, OnceOfTwo
<1>17. TagsOnce(((a \o b) \o d) \o e)
  <2>1. TagsApart((a \o b) \o d, e)
    BY <1>11, <1>12, <1>13, <1>14, <1>15, <1>16 DEF TagsApart
  <2>2. QED
    BY <1>14, <1>16, <2>1, OnceOfTwo
<1>18. QED
  BY <1>6, <1>17

-----------------------------------------------------------------------------
(* What sing-box is told to use is there                                   *)

\* The tags of the outbounds of c.
TagsOf(c) == {Outbounds(c)[i].tag : i \in DOMAIN Outbounds(c)}

\* An outbound has its tag among them: those of the nodes, of the groups, and the fixed ones.
LEMMA TagsAre ==
  ASSUME NEW c \in Configs
  PROVE  /\ \A o : IsOutbound(c, o) => o.tag \in TagsOf(c)
         /\ Direct \in TagsOf(c)
         /\ \A i \in 1..Len(Profiles(c)) : Profiles(c)[i].tag \in TagsOf(c)
         /\ Len(Profiles(c)) # 0 => Proxy \in TagsOf(c)
         /\ Len(Profiles(c)) > 1 => AutoGroup \in TagsOf(c)
<1>1. IsSeq(Outbounds(c)) /\ \A o : o \in ToSet(Outbounds(c)) <=> IsOutbound(c, o)
  BY NodesAreSeq, OutboundsAre
<1>2. ASSUME NEW o, IsOutbound(c, o) PROVE o.tag \in TagsOf(c)
  BY <1>1, <1>2 DEF ToSet, TagsOf
<1>3. \A x : Single(x).tag = x
  BY DEF Single, Outbound
<1>4. AutoOf(c).tag = AutoGroup /\ AllOf(c).tag = Proxy
  BY DEF AutoOf, AllOf, Outbound
<1>5. Direct \in TagsOf(c)
  <2>1. IsOutbound(c, Single(Direct))
    BY DEF IsOutbound
  <2>2. QED
    BY <1>2, <1>3, <2>1
<1>6. ASSUME NEW i \in 1..Len(Profiles(c)) PROVE Profiles(c)[i].tag \in TagsOf(c)
  <2>1. IsOutbound(c, Single(Profiles(c)[i].tag))
    BY DEF IsOutbound
  <2>2. QED
    BY <1>2, <1>3, <2>1
<1>7. ASSUME Len(Profiles(c)) > 1 PROVE AutoGroup \in TagsOf(c) /\ Proxy \in TagsOf(c)
  <2>1. IsOutbound(c, AutoOf(c)) /\ IsOutbound(c, AllOf(c))
    BY <1>7 DEF IsOutbound
  <2>2. QED
    BY <1>2, <1>4, <2>1
<1>8. ASSUME Len(Profiles(c)) # 0 PROVE Proxy \in TagsOf(c)
  <2>1. Len(Profiles(c)) \in Nat
    BY NodesAreSeq, ProfilesFacts, SeqFacts
  <2>2. CASE Len(Profiles(c)) = 1
    <3>1. 1 \in 1..Len(Profiles(c))
      BY <2>2
    <3>2. QED
      BY <1>6, <2>2, <3>1, ProfilesAre
  <2>3. Len(Profiles(c)) = 1 \/ Len(Profiles(c)) > 1
    <3> DEFINE n == Len(Profiles(c))
    <3>1. n \in Nat /\ n # 0
      BY <1>8, <2>1
    <3> HIDE DEF n
    <3>2. n = 1 \/ n > 1
      BY <3>1
    <3>3. QED
      BY <3>2 DEF n
  <2>4. QED
    BY <1>7, <2>2, <2>3
<1>9. QED
  BY <1>2, <1>5, <1>6, <1>7, <1>8

\* The members of an outbound have outbounds, and it starts with one of them.
MembersExist(c, o) ==
  /\ ToSet(o.members) \subseteq TagsOf(c)
  /\ o.default # <<>> => o.default \in ToSet(o.members)

\* So it is for a group ...
LEMMA GroupMembersExist ==
  ASSUME NEW c \in Configs, GroupsApart(c), NEW i \in 1..Len(Plans(c)),
         NEW o \in ToSet(GroupOutbounds(Plans(c)[i]))
  PROVE  MembersExist(c, o)
<1> DEFINE plan == Plans(c)[i]
           tags == plan.tags
           G == GroupTag(plan)
           A == Append(G, "auto")
           a == Outbound(A, tags, <<>>)
           s == Outbound(G, <<A>> \o tags, A)
           one == Outbound(G, tags, tags[1])
<1>1. /\ IsSeq(tags) /\ ToSet(tags) = TagsIn(Profiles(c), Len(Profiles(c)), plan.name)
      /\ \E j \in 1..Len(Profiles(c)) : Profiles(c)[j].group = plan.name
  BY PlansOfConfig DEF IsPlan
<1>2. ToSet(tags) \subseteq TagsOf(c) /\ ToSet(tags) # {}
  BY <1>1, TagsAre DEF TagsIn
<1>3. Len(tags) \in Nat /\ tags[1] \in ToSet(tags)
  <2>1. Len(tags) \in Nat /\ DOMAIN tags = 1..Len(tags)
    BY <1>1, SeqFacts
  <2>2. PICK k \in 1..Len(tags) : TRUE
    BY <1>2, <2>1 DEF ToSet
  <2>3. 1 \in 1..Len(tags)
    BY <2>1, <2>2
  <2>4. QED
    BY <1>1, <2>1, <2>3, SeqFacts
<1>4. /\ Len(tags) > 1 => o \in {a, s} /\ a \in ToSet(GroupOutbounds(plan))
      /\ ~(Len(tags) > 1) => o = one
  BY PlanOutbounds
<1>5. a.tag = A /\ a.members = tags /\ a.default = <<>>
  BY DEF Outbound
<1>6. s.members = <<A>> \o tags /\ s.default = A
  BY DEF Outbound
<1>7. one.members = tags /\ one.default = tags[1]
  BY DEF Outbound
<1> HIDE DEF a, s, one, A, tags
<1>8. ToSet(<<A>> \o tags) = {A} \cup ToSet(tags)
  BY <1>1, OneIsSeq, ElementOfOne, ElementsOfTwo
<1>9. CASE Len(tags) > 1
  <2>1. IsOutbound(c, a)
    BY <1>4, <1>9 DEF IsOutbound
  <2>2. A \in TagsOf(c)
    BY <1>5, <2>1, TagsAre
  <2>3. MembersExist(c, a)
    BY <1>2, <1>5 DEF MembersExist
  <2>4. MembersExist(c, s)
    BY <1>2, <1>6, <1>8, <2>2 DEF MembersExist
  <2>5. QED
    BY <1>4, <1>9, <2>3, <2>4
<1>10. CASE ~(Len(tags) > 1)
  BY <1>2, <1>3, <1>4, <1>7, <1>10 DEF MembersExist
<1>11. QED
  BY <1>9, <1>10

\* ... and for the selector of all nodes.
LEMMA AllMembersExist ==
  ASSUME NEW c \in Configs, GroupsApart(c), Len(Profiles(c)) > 1
  PROVE  MembersExist(c, AutoOf(c)) /\ MembersExist(c, AllOf(c))
<1> DEFINE n == Len(Profiles(c))
           tags == NodeTags(c)
           groups == GroupTags(c)
<1>1. /\ IsSeq(tags) /\ Len(tags) = n /\ \A i \in 1..n : tags[i] = Profiles(c)[i].tag
      /\ IsSeq(groups) /\ Len(groups) = Len(Plans(c))
      /\ \A i \in 1..Len(Plans(c)) : groups[i] = GroupTag(Plans(c)[i])
  BY NodesAreSeq, PartsAreSeq
<1>2. /\ AutoOf(c).members = tags /\ AutoOf(c).default = <<>>
      /\ AllOf(c).members = <<AutoGroup>> \o tags \o groups
      /\ AllOf(c).default = SelectorDefault(c, Profiles(c))
  BY DEF AutoOf, AllOf, AllMembers, Outbound
<1> HIDE DEF tags, groups
<1>3. ToSet(tags) \subseteq TagsOf(c) /\ \A i \in 1..n : Profiles(c)[i].tag \in ToSet(tags)
  <2>1. DOMAIN tags = 1..n
    BY <1>1, SeqFacts
  <2>2. QED
    BY <1>1, <2>1, TagsAre DEF ToSet
<1>4. ToSet(groups) \subseteq TagsOf(c)
  <2>1. DOMAIN groups = 1..Len(Plans(c))
    BY <1>1, SeqFacts
  <2>2. ASSUME NEW i \in 1..Len(Plans(c)) PROVE groups[i] \in TagsOf(c)
    <3>1. PICK o : IsOutbound(c, o) /\ o.tag = GroupTag(Plans(c)[i])
      BY GroupHasOutbound
    <3>2. QED
      BY <1>1, <3>1, TagsAre
  <2>3. QED
    BY <2>1, <2>2 DEF ToSet
<1>5. ToSet(<<AutoGroup>> \o tags \o groups) = ({AutoGroup} \cup ToSet(tags)) \cup ToSet(groups)
  <2> DEFINE x == <<AutoGroup>>
  <2>1. IsSeq(x) /\ ToSet(x) = {AutoGroup}
    BY OneIsSeq, ElementOfOne
  <2> HIDE DEF x
  <2>2. IsSeq(x \o tags) /\ ToSet(x \o tags) = ToSet(x) \cup ToSet(tags)
    BY <1>1, <2>1, Joined, ElementsOfTwo
  <2>3. ToSet((x \o tags) \o groups) = ToSet(x \o tags) \cup ToSet(groups)
    BY <1>1, <2>2, ElementsOfTwo
  <2>4. QED
    BY <2>1, <2>2, <2>3 DEF x
<1>6. SelectorDefault(c, Profiles(c)) \in {AutoGroup} \cup ToSet(tags)
  <2> DEFINE I == {i \in 1..n : Profiles(c)[i].id = c.active}
  <2>1. SelectorDefault(c, Profiles(c)) =
          IF c.active = "" \/ First(I) = 0 THEN AutoGroup ELSE Profiles(c)[First(I)].tag
    BY DEF SelectorDefault, SelectInSeq, First
  <2>2. (I # {} => First(I) \in I) /\ (I = {} => First(I) = 0)
    BY NodesAreSeq, ProfilesFacts, FirstIsFound
  <2>3. I \subseteq 1..n
    OBVIOUS
  <2> HIDE DEF I
  <2>4. QED
    BY <1>3, <2>1, <2>2, <2>3
<1>7. AutoGroup \in TagsOf(c)
  BY TagsAre
<1>8. QED
  BY <1>2, <1>3, <1>4, <1>5, <1>6, <1>7 DEF MembersExist

\* Hence every outbound finds its members.
LEMMA OutboundsFindMembers ==
  ASSUME NEW c \in Configs, GroupsApart(c), NEW o, IsOutbound(c, o)
  PROVE  MembersExist(c, o)
<1>1. \A x : Single(x).members = <<>> /\ Single(x).default = <<>>
  BY DEF Single, Outbound
<1>2. ToSet(<<>>) = {}
  BY EmptyIsSeq DEF ToSet
<1>3. \A x : MembersExist(c, Single(x))
  BY <1>1, <1>2 DEF MembersExist
<1>4. QED
  BY <1>3, AllMembersExist, GroupMembersExist DEF IsOutbound

\* The apps of c that have the group and do not go around the tunnel.
AppsOf(c, group) == {p \in Grouped(c) \ c.direct : c.groupOf[p] = group}

\* The rules of the groups: one for each group that a usable node and an app are in.
LEMMA GroupRulesAre ==
  ASSUME NEW c \in Configs, GroupsApart(c)
  PROVE  /\ \A r \in ToSet(GroupRules(c)) : \E p \in Grouped(c) \ c.direct :
              /\ IsGroupOf(c, c.groupOf[p])
              /\ r = [who |-> AppsOf(c, c.groupOf[p]), to |-> Anywhere,
                      out |-> <<"group">> \o Base(c.groupOf[p])]
         /\ \A p \in Grouped(c) \ c.direct : IsGroupOf(c, c.groupOf[p]) =>
              \E r \in ToSet(GroupRules(c)) : p \in r.who /\ r.to = Anywhere
<1> DEFINE usable == UsableNodes(c)
           profiles == [i \in DOMAIN usable |-> [id |-> usable[i].id, group |-> usable[i].group,
                                                 tag |-> NodeTag(c, usable[i].id)]]
           plans == GroupPlans(profiles)
           apps(i) == {p \in Grouped(c) \ c.direct : c.groupOf[p] = plans[i].name}
           ss == [i \in DOMAIN plans |-> Rule(apps(i), Anywhere, GroupTag(plans[i]))]
           n == Len(usable)
<1>1. IsSeq(usable) /\ n \in Nat /\ DOMAIN usable = 1..n
  BY NodesAreSeq, UsableFacts, SeqFacts
<1>2. IsSeq(profiles) /\ Len(profiles) = n /\ \A i \in 1..n : profiles[i].group = usable[i].group
  <2>1. DOMAIN profiles = 1..n /\ profiles = [i \in 1..n |-> profiles[i]]
    BY <1>1
  <2>2. \A i \in 1..n : profiles[i].group = usable[i].group
    BY <1>1
  <2> HIDE DEF profiles, n
  <2>3. QED
    BY <1>1, <2>1, <2>2, FunctionIsSeq
<1>3. GroupRules(c) = FlattenSeq(ss)
  BY DEF GroupRules
<1>4. \A i \in 1..n : usable[i].group # NoGroup => IsGroupOf(c, usable[i].group)
  BY GroupIsUsed
<1> HIDE DEF profiles
<1>5. ArePlans(plans, profiles, n)
  <2>1. BasesDiffer(profiles)
    BY <1>2, <1>4, GroupsHaveTags DEF BasesDiffer
  <2>2. QED
    BY <1>2, <2>1, PlansFacts
<1> HIDE DEF plans, usable, n
<1>6. ASSUME NEW i \in 1..Len(plans)
      PROVE  /\ IsGroupOf(c, plans[i].name)
             /\ GroupTag(plans[i]) = <<"group">> \o Base(plans[i].name)
             /\ apps(i) = AppsOf(c, plans[i].name)
  <2>1. IsPlan(plans[i], profiles, n)
    BY <1>5 DEF ArePlans
  <2>2. GroupTag(plans[i]) = <<"group">> \o Base(plans[i].name)
    BY <2>1 DEF IsPlan, GroupTag
  <2>3. IsGroupOf(c, plans[i].name)
    BY <1>2, <1>4, <2>1 DEF IsPlan
  <2>4. apps(i) = AppsOf(c, plans[i].name)
    BY DEF AppsOf
  <2>5. QED
    BY <2>2, <2>3, <2>4
<1>7. IsSeq(plans) /\ DOMAIN plans = 1..Len(plans) /\ Len(plans) \in Nat
  BY <1>5, SeqFacts DEF ArePlans
<1>8. ASSUME NEW p \in Grouped(c), IsGroupOf(c, c.groupOf[p])
      PROVE  \E i \in 1..Len(plans) : plans[i].name = c.groupOf[p]
  <2>1. PICK j \in 1..Len(usable) : usable[j].group = c.groupOf[p]
    BY <1>8 DEF IsGroupOf, usable
  <2>2. j \in 1..n /\ profiles[j].group = c.groupOf[p] /\ c.groupOf[p] # NoGroup
    BY <1>2, <1>8, <2>1 DEF n, IsGroupOf
  <2>3. QED
    BY <1>5, <2>2 DEF ArePlans
<1>9. /\ IsSeq(ss) /\ Len(ss) = Len(plans)
      /\ \A i \in 1..Len(plans) :
           ss[i] = Rule(AppsOf(c, plans[i].name), Anywhere, <<"group">> \o Base(plans[i].name))
  <2>1. DOMAIN ss = 1..Len(plans) /\ ss = [i \in 1..Len(plans) |-> ss[i]]
    BY <1>7
  <2>2. \A i \in 1..Len(plans) : ss[i] = Rule(apps(i), Anywhere, GroupTag(plans[i]))
    BY <1>7
  <2> HIDE DEF ss, apps
  <2>3. QED
    BY <1>6, <1>7, <2>1, <2>2, FunctionIsSeq
<1> HIDE DEF ss, apps
<1>10. ASSUME NEW i \in 1..Len(ss)
       PROVE  /\ IsSeq(ss[i])
              /\ \A r \in ToSet(ss[i]) :
                   /\ r = [who |-> AppsOf(c, plans[i].name), to |-> Anywhere,
                           out |-> <<"group">> \o Base(plans[i].name)]
                   /\ AppsOf(c, plans[i].name) # {}
              /\ AppsOf(c, plans[i].name) # {} =>
                   [who |-> AppsOf(c, plans[i].name), to |-> Anywhere,
                    out |-> <<"group">> \o Base(plans[i].name)] \in ToSet(ss[i])
  <2> DEFINE who == AppsOf(c, plans[i].name)
             out == <<"group">> \o Base(plans[i].name)
             r == [who |-> who, to |-> Anywhere, out |-> out]
  <2>1. ss[i] = Rule(who, Anywhere, out)
    BY <1>9
  <2>2. Anywhere # {}
    BY DEF Anywhere
  <2>3. CASE who # {}
    <3>1. ss[i] = <<r>>
      BY <2>1, <2>2, <2>3 DEF Rule
    <3> HIDE DEF r
    <3>2. IsSeq(<<r>>) /\ ToSet(<<r>>) = {r}
      BY OneIsSeq, ElementOfOne
    <3>3. QED
      BY <2>3, <3>1, <3>2 DEF r
  <2>4. CASE who = {}
    <3>1. ss[i] = <<>>
      BY <2>1, <2>4 DEF Rule
    <3>2. IsSeq(<<>>) /\ ToSet(<<>>) = {}
      BY EmptyIsSeq DEF ToSet
    <3>3. QED
      BY <2>4, <3>1, <3>2
  <2>5. QED
    BY <2>3, <2>4
<1>11. /\ \A r \in ToSet(GroupRules(c)) : \E i \in 1..Len(ss) : r \in ToSet(ss[i])
       /\ \A i \in 1..Len(ss) : ToSet(ss[i]) \subseteq ToSet(GroupRules(c))
  BY <1>3, <1>9, <1>10, Flattened
<1>12. ASSUME NEW r \in ToSet(GroupRules(c))
       PROVE  \E p \in Grouped(c) \ c.direct :
                /\ IsGroupOf(c, c.groupOf[p])
                /\ r = [who |-> AppsOf(c, c.groupOf[p]), to |-> Anywhere,
                        out |-> <<"group">> \o Base(c.groupOf[p])]
  <2>1. PICK i \in 1..Len(ss) : r \in ToSet(ss[i])
    BY <1>11
  <2>2. PICK p \in Grouped(c) \ c.direct : c.groupOf[p] = plans[i].name
    BY <1>10, <2>1 DEF AppsOf
  <2>3. QED
    BY <1>6, <1>9, <1>10, <2>1, <2>2
<1>13. ASSUME NEW p \in Grouped(c) \ c.direct, IsGroupOf(c, c.groupOf[p])
       PROVE  \E r \in ToSet(GroupRules(c)) : p \in r.who /\ r.to = Anywhere
  <2>1. PICK i \in 1..Len(plans) : plans[i].name = c.groupOf[p]
    BY <1>8, <1>13
  <2> DEFINE who == AppsOf(c, plans[i].name)
             r == [who |-> who, to |-> Anywhere, out |-> <<"group">> \o Base(plans[i].name)]
  <2>2. p \in who
    BY <2>1 DEF AppsOf
  <2>3. r \in ToSet(GroupRules(c))
    BY <1>9, <1>10, <1>11, <2>2
  <2>4. r.who = who /\ r.to = Anywhere
    OBVIOUS
  <2>5. QED
    BY <2>2, <2>3, <2>4
<1>14. QED
  BY <1>12, <1>13

\* The outbounds of rules are in S.
OutsIn(rules, S) == IsSeq(rules) /\ \A r \in ToSet(rules) : r.out \in S

\* They are for joined rules ...
LEMMA OutsOfTwo ==
  ASSUME NEW a, NEW b, NEW S, OutsIn(a, S), OutsIn(b, S)
  PROVE  OutsIn(a \o b, S)
BY Joined, ElementsOfTwo DEF OutsIn

\* ... and for a rule that names one in S.
LEMMA OutsOfRule ==
  ASSUME NEW who, NEW to, NEW S, NEW out \in S
  PROVE  OutsIn(Rule(who, to, out), S)
<1> DEFINE rule == Rule(who, to, out)
           r == [who |-> who, to |-> to, out |-> out]
<1>1. IsSeq(rule) /\ \A i \in 1..Len(rule) : rule[i].out = out
  <2>1. IsSeq(rule) /\ \A i \in 1..Len(rule) : rule[i] = r
    BY RuleFacts
  <2>2. r.out = out
    OBVIOUS
  <2> HIDE DEF rule, r
  <2>3. QED
    BY <2>1, <2>2
<1> HIDE DEF rule
<1>2. DOMAIN rule = 1..Len(rule)
  BY <1>1, SeqFacts
<1>3. \A e \in ToSet(rule) : e.out = out
  BY <1>1, <1>2 DEF ToSet
<1>4. QED
  BY <1>1, <1>3 DEF OutsIn, rule

\* A group of c has a node that is rendered, when it is used: GroupsAreRendered, of one
\* configuration.
UsedAreRendered(c) ==
  \A p \in Grouped(c) :
    \/ \E i \in DOMAIN RenderableNodes(c) : RenderableNodes(c)[i].group = c.groupOf[p]
    \/ \A i \in DOMAIN UsableNodes(c) : UsableNodes(c)[i].group # c.groupOf[p]

\* Then the group has an outbound.
LEMMA UsedHavePlans ==
  ASSUME NEW c \in Configs, GroupsApart(c), UsedAreRendered(c),
         NEW p \in Grouped(c), IsGroupOf(c, c.groupOf[p])
  PROVE  <<"group">> \o Base(c.groupOf[p]) \in TagsOf(c)
<1> DEFINE group == c.groupOf[p]
<1>1. /\ DOMAIN RenderableNodes(c) = 1..Len(RenderableNodes(c))
      /\ DOMAIN UsableNodes(c) = 1..Len(UsableNodes(c))
  BY NodesAreSeq, RenderableFacts, UsableFacts, SeqFacts
<1>2. PICK k \in 1..Len(RenderableNodes(c)) : RenderableNodes(c)[k].group = group
  BY <1>1 DEF UsedAreRendered, IsGroupOf
<1>3. PICK i \in 1..Len(Profiles(c)) : Profiles(c)[i].group = group
  BY <1>2, ProfilesAre
<1>4. PICK j \in 1..Len(Plans(c)) : Plans(c)[j].name = group
  BY <1>3, PlansOfConfig DEF ArePlans, IsGroupOf
<1>5. GroupTag(Plans(c)[j]) = <<"group">> \o Base(group)
  BY <1>4, PlansOfConfig
<1>6. QED
  BY <1>5, GroupHasOutbound, TagsAre

\* Every rule of the route names an outbound that is there, or rejects.
LEMMA RulesFindOutbounds ==
  ASSUME NEW c \in Configs, GroupsApart(c), UsedAreRendered(c), ~RenderFails(c)
  PROVE  OutsIn(Route(c), TagsOf(c) \cup {Reject})
<1> DEFINE S == TagsOf(c) \cup {Reject}
<1>1. Direct \in S /\ Proxy \in S /\ Reject \in S
  BY TagsAre, ProfilesAre
<1>2. OutsIn(GroupRules(c), S)
  <2>1. IsSeq(GroupRules(c))
    BY NodesAreSeq, GroupRulesAreOfApps
  <2>2. ASSUME NEW r \in ToSet(GroupRules(c)) PROVE r.out \in S
    <3>1. PICK p \in Grouped(c) \ c.direct :
            /\ IsGroupOf(c, c.groupOf[p])
            /\ r = [who |-> AppsOf(c, c.groupOf[p]), to |-> Anywhere,
                    out |-> <<"group">> \o Base(c.groupOf[p])]
      BY GroupRulesAre
    <3>2. r.out = <<"group">> \o Base(c.groupOf[p])
      BY <3>1
    <3>3. QED
      BY <3>1, <3>2, UsedHavePlans
  <2>3. QED
    BY <2>1, <2>2 DEF OutsIn
<1> HIDE DEF S
<1>3. OutsIn(ForcedRule(c), S)
  BY <1>1, OutsOfRule DEF ForcedRule
<1>4. OutsIn(ListRules(c), S)
  <2> DEFINE r1 == Rule(Everybody, Listed(c, "lan"), Direct)
             r2 == Rule(Everybody, Listed(c, "ads"), Reject)
             r3 == Rule(Everybody, Listed(c, "russia"), Direct)
             r4 == Rule(Everybody, Listed(c, "china"), Direct)
             r5 == Rule(Everybody, c.customDirect, Direct)
             r6 == Rule(Everybody, c.customProxy, Proxy)
             r7 == Rule(Everybody, c.customBlock, Reject)
  <2>1. /\ OutsIn(r1, S) /\ OutsIn(r2, S) /\ OutsIn(r3, S) /\ OutsIn(r4, S)
        /\ OutsIn(r5, S) /\ OutsIn(r6, S) /\ OutsIn(r7, S)
    BY <1>1, OutsOfRule
  <2>2. ListRules(c) = r1 \o r2 \o r3 \o r4 \o r5 \o r6 \o r7
    BY DEF ListRules
  <2> HIDE DEF r1, r2, r3, r4, r5, r6, r7
  <2>3. OutsIn(r1 \o r2, S)
    BY <2>1, OutsOfTwo
  <2>4. OutsIn(r1 \o r2 \o r3, S)
    BY <2>1, <2>3, OutsOfTwo
  <2>5. OutsIn(r1 \o r2 \o r3 \o r4, S)
    BY <2>1, <2>4, OutsOfTwo
  <2>6. OutsIn(r1 \o r2 \o r3 \o r4 \o r5, S)
    BY <2>1, <2>5, OutsOfTwo
  <2>7. OutsIn(r1 \o r2 \o r3 \o r4 \o r5 \o r6, S)
    BY <2>1, <2>6, OutsOfTwo
  <2>8. QED
    BY <2>1, <2>2, <2>7, OutsOfTwo
<1>5. QED
  <2> DEFINE r1 == Rule(Everybody, Class["loopback"], Reject)
             r2 == Rule(Everybody, Endpoints(c), Direct)
             r3 == ForcedRule(c)
             r4 == GroupRules(c)
             r5 == ListRules(c)
             r6 == Rule(c.direct, Anywhere, Direct)
  <2>1. OutsIn(r1, S) /\ OutsIn(r2, S) /\ OutsIn(r6, S)
    BY <1>1, OutsOfRule
  <2>2. Route(c) = r1 \o r2 \o r3 \o r4 \o r5 \o r6
    BY DEF Route
  <2>3. OutsIn(r3, S) /\ OutsIn(r4, S) /\ OutsIn(r5, S)
    BY <1>2, <1>3, <1>4
  <2> HIDE DEF r1, r2, r3, r4, r5, r6
  <2>4. OutsIn(r1 \o r2, S)
    BY <2>1, OutsOfTwo
  <2>5. OutsIn(r1 \o r2 \o r3, S)
    BY <2>3, <2>4, OutsOfTwo
  <2>6. OutsIn(r1 \o r2 \o r3 \o r4, S)
    BY <2>3, <2>5, OutsOfTwo
  <2>7. OutsIn(r1 \o r2 \o r3 \o r4 \o r5, S)
    BY <2>3, <2>6, OutsOfTwo
  <2>8. QED
    BY <2>1, <2>2, <2>7, OutsOfTwo DEF S

\* The answers of name rules are in S.
AnswersIn(rules, S) == IsSeq(rules) /\ \A r \in ToSet(rules) : r.answer \in S

\* They are for joined rules ...
LEMMA AnswersOfTwo ==
  ASSUME NEW a, NEW b, NEW S, AnswersIn(a, S), AnswersIn(b, S)
  PROVE  AnswersIn(a \o b, S)
BY Joined, ElementsOfTwo DEF AnswersIn

\* ... and for a rule that is left out or gives one in S.
LEMMA AnswersOfRule ==
  ASSUME NEW questions, NEW to, NEW S, NEW answer, to # {} => answer \in S
  PROVE  AnswersIn(NameRule(questions, to, answer), S)
<1> DEFINE r == [questions |-> questions, to |-> to, answer |-> answer]
<1>1. r.answer = answer
  OBVIOUS
<1>2. NameRule(questions, to, answer) = IF to # {} THEN <<r>> ELSE <<>>
  BY DEF NameRule
<1> HIDE DEF r
<1>3. IsSeq(<<r>>) /\ ToSet(<<r>>) = {r} /\ IsSeq(<<>>) /\ ToSet(<<>>) = {}
  BY OneIsSeq, ElementOfOne, EmptyIsSeq DEF ToSet
<1>4. QED
  BY <1>1, <1>2, <1>3 DEF AnswersIn

\* Every rule for names asks a server that is there, or answers without address.
LEMMA NamesFindServers ==
  ASSUME NEW c
  PROVE  AnswersIn(DNSRules(c), {server[1] : server \in DNSServers(c)} \cup {Empty})
<1> DEFINE S == {server[1] : server \in DNSServers(c)} \cup {Empty}
           r1 == NameRule({"AAAA"}, IF c.ipv6 = "off" THEN Names ELSE {}, Empty)
           r2 == NameRule(Questions, Endpoints(c) \cap Names, "direct-dns")
           r3 == NameRule(Questions, Listed(c, "ads") \cap Names, Empty)
           r4 == NameRule(Questions, Listed(c, "russia") \cap Names, "direct-dns")
           r5 == NameRule(Questions, Listed(c, "china") \cap Names, "direct-dns")
           r6 == NameRule(Questions, c.customDirect \cap Names, "direct-dns")
           r7 == NameRule(Questions, c.customBlock \cap Names, Empty)
           r8 == NameRule(Questions, IF c.fakeip THEN Names ELSE {}, "fakeip")
<1>1. "direct-dns" \in S /\ Empty \in S
  <2>1. <<"direct-dns", Direct>> \in DNSServers(c) /\ <<"direct-dns", Direct>>[1] = "direct-dns"
    BY DEF DNSServers
  <2>2. QED
    BY <2>1
<1>2. c.fakeip => "fakeip" \in S
  <2>1. c.fakeip => <<"fakeip", Direct>> \in DNSServers(c)
    BY DEF DNSServers
  <2>2. <<"fakeip", Direct>>[1] = "fakeip"
    OBVIOUS
  <2>3. QED
    BY <2>1, <2>2
<1> HIDE DEF S
<1>3. /\ AnswersIn(r1, S) /\ AnswersIn(r2, S) /\ AnswersIn(r3, S) /\ AnswersIn(r4, S)
      /\ AnswersIn(r5, S) /\ AnswersIn(r6, S) /\ AnswersIn(r7, S)
  BY <1>1, AnswersOfRule
<1>4. AnswersIn(r8, S)
  BY <1>2, AnswersOfRule
<1>5. DNSRules(c) = r1 \o r2 \o r3 \o r4 \o r5 \o r6 \o r7 \o r8
  BY DEF DNSRules
<1> HIDE DEF r1, r2, r3, r4, r5, r6, r7, r8
<1>6. AnswersIn(r1 \o r2, S)
  BY <1>3, AnswersOfTwo
<1>7. AnswersIn(r1 \o r2 \o r3, S)
  BY <1>3, <1>6, AnswersOfTwo
<1>8. AnswersIn(r1 \o r2 \o r3 \o r4, S)
  BY <1>3, <1>7, AnswersOfTwo
<1>9. AnswersIn(r1 \o r2 \o r3 \o r4 \o r5, S)
  BY <1>3, <1>8, AnswersOfTwo
<1>10. AnswersIn(r1 \o r2 \o r3 \o r4 \o r5 \o r6, S)
  BY <1>3, <1>9, AnswersOfTwo
<1>11. AnswersIn(r1 \o r2 \o r3 \o r4 \o r5 \o r6 \o r7, S)
  BY <1>3, <1>10, AnswersOfTwo
<1>12. QED
  BY <1>4, <1>5, <1>11, AnswersOfTwo DEF S

\* The conditions on nodes and groups, of the configuration that runs.
LEMMA GroupsOfConfig ==
  ASSUME PathInv
  PROVE  /\ NodesDiffer => NodesApart(cfg)
         /\ GroupsDiffer => GroupsApart(cfg)
         /\ GroupsAreRendered => UsedAreRendered(cfg)
<1>1. /\ IsSeq(UsableNodes(cfg)) /\ DOMAIN UsableNodes(cfg) = 1..Len(UsableNodes(cfg))
      /\ DOMAIN RenderableNodes(cfg) = 1..Len(RenderableNodes(cfg))
  BY NodesAreSeq, UsableFacts, RenderableFacts, SeqFacts DEF PathInv
<1>2. QED
  BY <1>1 DEF NodesDiffer, NodesApart, GroupsDiffer, GroupOf, GroupsApart, GroupsAreRendered, Rendered, UsedAreRendered

\* PathSpec => [](GroupsDiffer => SingBoxAccepts): whatever nodes, groups, lists and apps a
\* configuration names, sing-box is given every tag it is told to use, and, when the ids of
\* its nodes leave different words, no tag twice.
THEOREM SingBoxIsSatisfied == PathSpec => [](GroupsDiffer => SingBoxAccepts)
<1>1. ASSUME PathInv, GroupsDiffer PROVE SingBoxAccepts
  <2>1. SUFFICES ASSUME Running PROVE SingBoxAccepts
    BY DEF SingBoxAccepts
  <2>2. /\ cfg \in Configs /\ GroupsApart(cfg) /\ ~RenderFails(cfg)
        /\ box.outbounds = Outbounds(cfg) /\ box.rules = Route(cfg) /\ box.final = Final(cfg)
        /\ box.names = DNSRules(cfg) /\ box.servers = DNSServers(cfg)
    BY <1>1, <2>1, GroupsOfConfig DEF PathInv, Render
  <2>3. /\ IsSeq(Outbounds(cfg)) /\ \A o \in ToSet(Outbounds(cfg)) : IsOutbound(cfg, o)
    BY <2>2, NodesAreSeq, OutboundsAre
  <2>4. Tags = TagsOf(cfg) /\ (NodesDiffer => Cardinality(Tags) = Len(box.outbounds))
    <3>1. Tags = TagsOf(cfg)
      BY <2>2 DEF Tags, TagsOf
    <3>2. NodesDiffer => TagsOnce(Outbounds(cfg))
      BY <1>1, <2>2, GroupsOfConfig, OutboundsOnce
    <3>3. QED
      BY <2>2, <2>3, <3>1, <3>2, OnceIsCounted DEF TagsOf
  <2>5. ASSUME NEW i \in DOMAIN box.outbounds
        PROVE  LET o == box.outbounds[i]
               IN  /\ ToSet(o.members) \subseteq Tags
                   /\ o.default # <<>> => o.default \in ToSet(o.members)
    <3>1. box.outbounds[i] \in ToSet(Outbounds(cfg))
      BY <2>2 DEF ToSet
    <3>2. MembersExist(cfg, box.outbounds[i])
      BY <2>2, <2>3, <3>1, OutboundsFindMembers
    <3>3. QED
      BY <2>4, <3>2 DEF MembersExist
  <2>6. ASSUME GroupsAreRendered, NEW i \in DOMAIN box.rules
        PROVE  box.rules[i].out \in Tags \cup {Reject}
    <3>1. OutsIn(Route(cfg), TagsOf(cfg) \cup {Reject})
      BY <1>1, <2>2, <2>6, GroupsOfConfig, RulesFindOutbounds
    <3>2. box.rules[i] \in ToSet(Route(cfg))
      BY <2>2, <2>6 DEF ToSet
    <3>3. QED
      BY <2>4, <3>1, <3>2 DEF OutsIn
  <2>7. Direct \in Tags /\ Proxy \in Tags
    BY <2>2, <2>4, TagsAre, ProfilesAre
  <2>8. box.final \in Tags
    BY <2>2, <2>7 DEF Final
  <2>9. \A server \in box.servers : server[2] \in Tags
    BY <2>2, <2>7 DEF DNSServers
  <2>10. ASSUME NEW i \in DOMAIN box.names
         PROVE  box.names[i].answer \in {server[1] : server \in box.servers} \cup {Empty}
    <3>1. box.names[i] \in ToSet(DNSRules(cfg))
      BY <2>2, <2>10 DEF ToSet
    <3>2. QED
      BY <2>2, <3>1, NamesFindServers DEF AnswersIn
  <2>11. QED
    BY <2>4, <2>5, <2>6, <2>8, <2>9, <2>10 DEF SingBoxAccepts
<1>2. QED
  BY <1>1, AlwaysPathInv, PTL

-----------------------------------------------------------------------------
(* The nodes of an app                                                     *)

\* Two outbounds of c that share a tag are one.
LEMMA SameOutbound ==
  ASSUME NEW c \in Configs, NodesApart(c), GroupsApart(c), NEW x, NEW y, IsOutbound(c, x), IsOutbound(c, y), x.tag = y.tag
  PROVE  x = y
<1> DEFINE s == Outbounds(c)
<1>1. IsSeq(s) /\ TagsOnce(s) /\ x \in ToSet(s) /\ y \in ToSet(s)
  BY NodesAreSeq, OutboundsAre, OutboundsOnce
<1> HIDE DEF s
<1>2. DOMAIN s = 1..Len(s)
  BY <1>1, SeqFacts
<1>3. PICK i \in 1..Len(s) : x = s[i]
  BY <1>1, <1>2 DEF ToSet
<1>4. PICK j \in 1..Len(s) : y = s[j]
  BY <1>1, <1>2 DEF ToSet
<1>5. QED
  BY <1>1, <1>3, <1>4 DEF TagsOnce

\* The tag of a node begins like that of no group.
LEMMA NodeWords ==
  ASSUME NEW c \in Configs, NEW i \in 1..Len(Profiles(c))
  PROVE  Profiles(c)[i].tag[1] # "group"
<1> DEFINE n == Len(Profiles(c))
<1>1. /\ n = 1 => Profiles(c)[1].tag = Proxy
      /\ n > 1 => Profiles(c)[i].tag[1] = "node"
  BY ProfilesAre, SeveralAreNodes
<1>2. n \in Nat /\ i \in 1..n
  BY NodesAreSeq, ProfilesFacts, SeqFacts
<1> HIDE DEF n
<1>3. n > 1 \/ (n = 1 /\ i = 1)
  BY <1>2
<1>4. QED
  BY <1>1, <1>3, FixedWords

\* The tags of the nodes in a group of c.
NodesOf(c, group) == {Profiles(c)[i].tag : i \in {k \in DOMAIN Profiles(c) : Profiles(c)[k].group = group}}

\* A group of one or several nodes, with its choice by latency: what its selector leads to.
Closed(c, plan) ==
  {GroupTag(plan)} \cup ToSet(plan.tags)
    \cup (IF Len(plan.tags) > 1 THEN {Append(GroupTag(plan), "auto")} ELSE {})

\* The outbound of a plan with members, for each of its tags.
LEMMA PlanMembers ==
  ASSUME NEW c \in Configs, NodesApart(c), GroupsApart(c), NEW i \in 1..Len(Plans(c)),
         NEW o, IsOutbound(c, o), o.tag \in Closed(c, Plans(c)[i])
  PROVE  \/ o.tag \in ToSet(Plans(c)[i].tags) /\ o.members = <<>>
         \/ /\ o.tag \notin ToSet(Plans(c)[i].tags)
            /\ o.members # <<>> /\ ToSet(o.members) \subseteq Closed(c, Plans(c)[i])
            /\ o.tag = GroupTag(Plans(c)[i]) => ToSet(Plans(c)[i].tags) \subseteq ToSet(o.members)
<1> DEFINE plan == Plans(c)[i]
           tags == plan.tags
           G == GroupTag(plan)
           A == Append(G, "auto")
           a == Outbound(A, tags, <<>>)
           s == Outbound(G, <<A>> \o tags, A)
           one == Outbound(G, tags, tags[1])
           C == Closed(c, plan)
<1>1. /\ IsSeq(tags) /\ ToSet(tags) = TagsIn(Profiles(c), Len(Profiles(c)), plan.name)
      /\ \E j \in 1..Len(Profiles(c)) : Profiles(c)[j].group = plan.name
  BY PlansOfConfig DEF IsPlan
<1>2. ToSet(tags) # {} /\ tags # <<>>
  <2>1. ToSet(tags) # {}
    BY <1>1 DEF TagsIn
  <2>2. QED
    BY <2>1, EmptyIsSeq DEF ToSet
<1>3. a.tag = A /\ a.members = tags
  BY DEF Outbound
<1>4. s.tag = G /\ s.members = <<A>> \o tags
  BY DEF Outbound
<1>5. one.tag = G /\ one.members = tags
  BY DEF Outbound
<1>6. /\ Len(tags) > 1 => IsOutbound(c, a) /\ IsOutbound(c, s)
      /\ ~(Len(tags) > 1) => IsOutbound(c, one)
  <2>1. /\ Len(tags) > 1 => a \in ToSet(GroupOutbounds(plan)) /\ s \in ToSet(GroupOutbounds(plan))
        /\ ~(Len(tags) > 1) => one \in ToSet(GroupOutbounds(plan))
    BY PlanOutbounds
  <2> HIDE DEF a, s, one
  <2>2. QED
    BY <2>1 DEF IsOutbound
<1>7. C = {G} \cup ToSet(tags) \cup (IF Len(tags) > 1 THEN {A} ELSE {})
  BY DEF Closed
<1>8. \A t \in ToSet(tags) : \E p \in 1..Len(Profiles(c)) : t = Profiles(c)[p].tag
  BY <1>1 DEF TagsIn
<1>9. \A x : Single(x).tag = x /\ Single(x).members = <<>>
  BY DEF Single, Outbound
<1> HIDE DEF a, s, one, A, G, C, tags
<1>10. ToSet(<<A>> \o tags) = {A} \cup ToSet(tags) /\ <<A>> \o tags # <<>>
  <2>1. ToSet(<<A>> \o tags) = {A} \cup ToSet(tags)
    BY <1>1, OneIsSeq, ElementOfOne, ElementsOfTwo
  <2>2. ToSet(<<>>) = {}
    BY EmptyIsSeq DEF ToSet
  <2>3. QED
    BY <2>1, <2>2
<1>11. ASSUME o.tag \in ToSet(tags) PROVE o.members = <<>>
  <2>1. PICK p \in 1..Len(Profiles(c)) : o.tag = Profiles(c)[p].tag
    BY <1>8, <1>11
  <2>2. IsOutbound(c, Single(Profiles(c)[p].tag))
    BY DEF IsOutbound
  <2>3. o = Single(Profiles(c)[p].tag)
    BY <1>9, <2>1, <2>2, SameOutbound
  <2>4. QED
    BY <1>9, <2>3
<1>12. ASSUME o.tag \notin ToSet(tags)
       PROVE  /\ o.members # <<>> /\ ToSet(o.members) \subseteq C
              /\ o.tag = G => ToSet(tags) \subseteq ToSet(o.members)
  <2>1. CASE Len(tags) > 1
    <3>1. IsOutbound(c, a) /\ IsOutbound(c, s) /\ (o.tag = a.tag \/ o.tag = s.tag)
      BY <1>3, <1>4, <1>6, <1>7, <1>12, <2>1 DEF C, plan
    <3>2. o = a \/ o = s
      BY <3>1, SameOutbound
    <3>3. o.tag = G => o = s
      BY <1>4, <3>1, SameOutbound
    <3>4. QED
      BY <1>2, <1>3, <1>4, <1>7, <1>10, <2>1, <3>2, <3>3
  <2>2. CASE ~(Len(tags) > 1)
    <3>1. IsOutbound(c, one) /\ o.tag = one.tag
      BY <1>5, <1>6, <1>7, <1>12, <2>2 DEF C, plan
    <3>2. o = one
      BY <3>1, SameOutbound
    <3>3. QED
      BY <1>2, <1>5, <1>7, <3>2
  <2>3. QED
    BY <2>1, <2>2
<1>13. QED
  BY <1>11, <1>12 DEF C, G, tags

\* The members of a set of tags, of the outbounds that run.
LEMMA MembersAre ==
  ASSUME PathInv, Running, NEW t, NEW m
  PROVE  m \in Members(t) <=> m \in t \/ \E o : IsOutbound(cfg, o) /\ o.tag \in t /\ m \in ToSet(o.members)
<1>1. box.outbounds = Outbounds(cfg) /\ cfg \in Configs
  BY DEF PathInv, Render
<1>2. \A o : o \in ToSet(box.outbounds) <=> IsOutbound(cfg, o)
  BY <1>1, NodesAreSeq, OutboundsAre
<1>3. m \in Members(t) <=> m \in t \/ \E i \in DOMAIN box.outbounds :
        box.outbounds[i].tag \in t /\ m \in ToSet(box.outbounds[i].members)
  BY DEF Members
<1>4. \A o : o \in ToSet(box.outbounds) <=> \E i \in DOMAIN box.outbounds : o = box.outbounds[i]
  BY DEF ToSet
<1>5. QED
  BY <1>2, <1>3, <1>4

\* The selector of a group uses the nodes of the group in the end.
LEMMA GroupLeaves ==
  ASSUME PathInv, Running, NodesApart(cfg), GroupsApart(cfg), NEW g, NEW j \in 1..Len(Profiles(cfg)),
         Profiles(cfg)[j].group = g, g # NoGroup
  PROVE  Leaves(<<"group">> \o Base(g)) = NodesOf(cfg, g)
<1>1. cfg \in Configs /\ DOMAIN Profiles(cfg) = 1..Len(Profiles(cfg))
  BY NodesAreSeq, ProfilesFacts, SeqFacts DEF PathInv
<1>2. PICK i \in 1..Len(Plans(cfg)) : Plans(cfg)[i].name = g
  BY <1>1, PlansOfConfig DEF ArePlans
<1> DEFINE plan == Plans(cfg)[i]
           N == ToSet(plan.tags)
           G == GroupTag(plan)
           C == Closed(cfg, plan)
<1>3. G = <<"group">> \o Base(g) /\ N = NodesOf(cfg, g)
  <2>1. N = TagsIn(Profiles(cfg), Len(Profiles(cfg)), g)
    BY <1>1, <1>2, PlansOfConfig DEF IsPlan
  <2>2. QED
    BY <1>1, <1>2, <2>1, PlansOfConfig DEF TagsIn, NodesOf
<1>4. G \in C /\ N \subseteq C
  BY DEF Closed
<1>5. \A o : IsOutbound(cfg, o) /\ o.tag \in C =>
        \/ o.tag \in N /\ o.members = <<>>
        \/ /\ o.tag \notin N /\ o.members # <<>> /\ ToSet(o.members) \subseteq C
           /\ o.tag = G => N \subseteq ToSet(o.members)
  BY <1>1, PlanMembers
<1>6. \A x \in N : \E o : IsOutbound(cfg, o) /\ o.tag = x /\ o.members = <<>>
  <2>1. \A x : Single(x).tag = x /\ Single(x).members = <<>>
    BY DEF Single, Outbound
  <2>2. \A k \in 1..Len(Profiles(cfg)) : IsOutbound(cfg, Single(Profiles(cfg)[k].tag))
    BY DEF IsOutbound
  <2>3. \A x \in N : \E k \in 1..Len(Profiles(cfg)) : x = Profiles(cfg)[k].tag
    BY <1>1, <1>3 DEF NodesOf
  <2>4. QED
    BY <2>1, <2>2, <2>3
<1>7. \E o : IsOutbound(cfg, o) /\ o.tag = G
  BY GroupHasOutbound
<1>8. ToSet(<<>>) = {}
  BY EmptyIsSeq DEF ToSet
<1>9. G \notin N
  <2>1. G[1] = "group"
    BY <1>1, <1>2, <1>3, PlansOfConfig, GroupTagFacts, EmptyIsSeq DEF IsGroupOf
  <2>2. \A x \in N : x[1] # "group"
    BY <1>1, <1>3, NodeWords DEF NodesOf
  <2>3. QED
    BY <2>1, <2>2
<1> HIDE DEF G, N, C
<1>10. ASSUME NEW t, t \subseteq C PROVE t \subseteq Members(t) /\ Members(t) \subseteq C
  <2>1. ASSUME NEW m \in Members(t) PROVE m \in C
    BY <1>5, <1>8, <1>10, <2>1, MembersAre
  <2>2. ASSUME NEW m \in t PROVE m \in Members(t)
    BY <2>2, MembersAre
  <2>3. QED
    BY <2>1, <2>2
<1> DEFINE one == Members({G})
           two == Members(one)
           all == Members(two)
<1>11. N \subseteq one /\ one \subseteq C
  <2>1. ASSUME NEW m \in N PROVE m \in one
    <3>1. PICK o : IsOutbound(cfg, o) /\ o.tag = G
      BY <1>7
    <3>2. m \in ToSet(o.members)
      BY <1>4, <1>5, <1>9, <3>1
    <3>3. QED
      BY <3>1, <3>2, MembersAre
  <2>2. {G} \subseteq C
    BY <1>4
  <2>3. QED
    BY <1>10, <2>1, <2>2
<1> HIDE DEF one
<1>12. N \subseteq two /\ two \subseteq C
  BY <1>10, <1>11
<1> HIDE DEF two
<1>13. N \subseteq all /\ all \subseteq C
  BY <1>10, <1>12
<1>14. Leaves(G) = {x \in all : \E o : IsOutbound(cfg, o) /\ o.tag = x /\ o.members = <<>>}
  <2>1. box.outbounds = Outbounds(cfg)
    BY DEF PathInv, Render
  <2>2. \A o : o \in ToSet(box.outbounds) <=> IsOutbound(cfg, o)
    BY <1>1, <2>1, NodesAreSeq, OutboundsAre
  <2>3. \A o : o \in ToSet(box.outbounds) <=> \E k \in DOMAIN box.outbounds : o = box.outbounds[k]
    BY DEF ToSet
  <2>4. \A x : (\E k \in DOMAIN box.outbounds : box.outbounds[k].tag = x /\ box.outbounds[k].members = <<>>)
               <=> \E o : IsOutbound(cfg, o) /\ o.tag = x /\ o.members = <<>>
    BY <2>2, <2>3
  <2>5. QED
    BY <2>4 DEF Leaves, all, two, one
<1> HIDE DEF all
<1>15. Leaves(G) = N
  BY <1>5, <1>6, <1>13, <1>14
<1>16. QED
  BY <1>3, <1>15

\* An app with a group is sent to the selector of its group, whatever else the route says.
LEMMA PickedFromGroups ==
  ASSUME NEW c \in Configs, GroupsApart(c), NEW p \in Grouped(c) \ c.direct, IsGroupOf(c, c.groupOf[p]),
         NEW other, NEW dest
  PROVE  Picked(GroupRules(c), other, p, dest) = <<"group">> \o Base(c.groupOf[p])
<1> DEFINE rules == GroupRules(c)
           out == <<"group">> \o Base(c.groupOf[p])
           I == Fitting(rules, p, dest)
<1>1. IsSeq(rules) /\ DOMAIN rules = 1..Len(rules)
  BY NodesAreSeq, GroupRulesAreOfApps, SeqFacts
<1>2. ASSUME NEW k \in 1..Len(rules), Fits(rules[k], p, dest) PROVE rules[k].out = out
  <2>1. rules[k] \in ToSet(rules)
    BY <1>1, SeqFacts
  <2>2. PICK q \in Grouped(c) \ c.direct :
          rules[k] = [who |-> AppsOf(c, c.groupOf[q]), to |-> Anywhere, out |-> <<"group">> \o Base(c.groupOf[q])]
    BY <2>1, GroupRulesAre
  <2>3. rules[k].who = AppsOf(c, c.groupOf[q]) /\ rules[k].out = <<"group">> \o Base(c.groupOf[q])
    BY <2>2
  <2>4. p \in rules[k].who
    <3>1. AppsOf(c, c.groupOf[q]) # Everybody
      <4>1. Packages \cap Everybody = {} /\ Grouped(c) \subseteq Packages
        BY TrafficPathAssumption DEF Grouped
      <4>2. QED
        BY <4>1 DEF AppsOf, Everybody
    <3>2. QED
      BY <1>2, <2>3, <3>1 DEF Fits
  <2>5. QED
    BY <2>3, <2>4 DEF AppsOf
<1>3. \E k \in 1..Len(rules) : Fits(rules[k], p, dest)
  <2>1. PICK r \in ToSet(rules) : p \in r.who /\ r.to = Anywhere
    BY GroupRulesAre
  <2>2. PICK k \in 1..Len(rules) : r = rules[k]
    BY <1>1 DEF ToSet
  <2>3. QED
    BY <2>1, <2>2 DEF Fits
<1> HIDE DEF rules, out
<1>4. I # {} /\ I \subseteq 1..Len(rules)
  BY <1>3 DEF Fitting
<1>5. First(I) \in I /\ First(I) # 0
  BY <1>1, <1>4, FirstIsFound
<1>6. rules[First(I)].out = out
  BY <1>2, <1>5 DEF Fitting
<1>7. QED
  BY <1>5, <1>6 DEF Picked, rules, out

\* PathSpec => []AppUsesItsNodes: whatever the lists say, an app with a group reaches the nodes of
\* its group and no others, and an app that is picked in rules mode reaches the proxy.
THEOREM AppsReachTheirNodes == PathSpec => []AppUsesItsNodes
<1>1. ASSUME PathInv PROVE AppUsesItsNodes
  <2>1. SUFFICES ASSUME Running, NodesDiffer, GroupsDiffer, GroupsAreRendered,
                        NEW p \in installed \ cfg.direct,
                        NEW dest \in Dests \ (Endpoints(cfg) \cup Class["loopback"]),
                        Marked(env, p, dest)
                 PROVE  LET nodes == {i \in DOMAIN Profiles(cfg) : Profiles(cfg)[i].group = cfg.groupOf[p]}
                        IN  /\ p \in Grouped(cfg) /\ nodes # {} =>
                                 Leaves(Path(p, dest)) = {Profiles(cfg)[i].tag : i \in nodes}
                            /\ p \in cfg.packages \ Grouped(cfg) /\ cfg.mode = "rules" /\ cfg.apps = "all" =>
                                 Path(p, dest) = Proxy
    BY DEF AppUsesItsNodes
  <2>2. cfg \in Configs /\ NodesApart(cfg) /\ GroupsApart(cfg) /\ box = Render(cfg)
    BY <1>1, <2>1, GroupsOfConfig DEF PathInv
  <2> DEFINE other == Picked(ListRules(cfg), Picked(Rule(cfg.direct, Anywhere, Direct), Final(cfg), p, dest), p, dest)
             more == Picked(GroupRules(cfg), other, p, dest)
  <2>3. Path(p, dest) = Picked(ForcedRule(cfg), more, p, dest)
    <3>1. box.rules = Route(cfg) /\ box.final = Final(cfg)
      BY <2>2 DEF Render
    <3>2. Path(p, dest) = Picked(Route(cfg), Final(cfg), p, dest)
      BY <2>1, <3>1, RoutedIsPicked DEF Path
    <3>3. Class["loopback"] # Anywhere /\ Endpoints(cfg) # Anywhere
      BY <2>2, ListsAreDestinations
    <3>4. QED
      BY <2>1, <2>2, <3>2, <3>3, NodesAreSeq, RouteInSteps
  <2> HIDE DEF other
  <2>4. ASSUME p \in cfg.packages \ Grouped(cfg), cfg.mode = "rules", cfg.apps = "all"
        PROVE  Path(p, dest) = Proxy
    <3> DEFINE who == cfg.packages \ (cfg.direct \cup Grouped(cfg))
    <3>1. p \in who
      BY <2>4
    <3>2. ForcedRule(cfg) = Rule(who, Anywhere, Proxy)
      BY <2>4 DEF ForcedRule
    <3> HIDE DEF who, more
    <3>3. Picked(Rule(who, Anywhere, Proxy), more, p, dest) = Proxy
      BY <3>1, PickedFromRule DEF Anywhere
    <3>4. QED
      BY <2>3, <3>2, <3>3
  <2>5. ASSUME p \in Grouped(cfg), NEW i \in DOMAIN Profiles(cfg), Profiles(cfg)[i].group = cfg.groupOf[p]
        PROVE  Leaves(Path(p, dest)) = NodesOf(cfg, cfg.groupOf[p])
    <3>1. cfg.groupOf[p] # NoGroup
      BY <2>5 DEF Grouped
    <3>2. i \in 1..Len(Profiles(cfg))
      BY <2>2, <2>5, NodesAreSeq, ProfilesFacts, SeqFacts
    <3>3. IsGroupOf(cfg, cfg.groupOf[p])
      BY <2>2, <2>5, <3>1, <3>2, ProfilesAre
    <3>4. more = <<"group">> \o Base(cfg.groupOf[p])
      BY <2>1, <2>2, <2>5, <3>3, PickedFromGroups
    <3> HIDE DEF more
    <3>5. Path(p, dest) = more
      BY <2>2, <2>3, <2>5, AppRulesLeaveAlone
    <3>6. QED
      BY <1>1, <2>1, <2>2, <2>5, <3>1, <3>2, <3>4, <3>5, GroupLeaves
  <2>6. QED
    BY <2>4, <2>5 DEF NodesOf
<1>2. QED
  BY <1>1, AlwaysPathInv, PTL
=============================================================================
