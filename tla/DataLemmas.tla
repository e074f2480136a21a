----------------------------- MODULE DataLemmas -----------------------------
(***************************************************************************)
(* What the proofs need to know of data.  Counting: the size of a set of   *)
(* pledges, of an injective sequence's elements, and the multiples of a    *)
(* block size.  Induction, stated of sets: a property of the numbers is the*)
(* set of the numbers that have it.  And what it shows of the recursive    *)
(* functions that walk a sequence.                                         *)
(***************************************************************************)
EXTENDS Integers, Sequences, SequencesExt, SequenceTheorems, FiniteSets,
        FiniteSetTheorems, FunctionTheorems, WellFoundedInduction, TLAPS

(* One element for each unit that f pledges to a member of S: its          *)
(* cardinality is the sum of f over S.                                     *)
PledgesOf(f, S) == UNION { {r} \X (1 .. f[r]) : r \in S }

(* A pledge is a member of S and the number of one of its units.           *)
LEMMA PledgeElement ==
  ASSUME NEW S, NEW f, NEW x
  PROVE  x \in PledgesOf(f, S) <=> \E r \in S : \E n \in 1 .. f[r] : x = <<r, n>>
  BY DEF PledgesOf

(* Only the units pledged to members of S count.                           *)
LEMMA PledgesAgree ==
  ASSUME NEW S, NEW f, NEW g, \A r \in S : f[r] = g[r]
  PROVE  PledgesOf(f, S) = PledgesOf(g, S)
  <1>1. \A x : x \in PledgesOf(f, S) <=> x \in PledgesOf(g, S)
    BY PledgeElement
  <1>. QED  BY <1>1

(* A finite set of requests is pledged finitely much.                      *)
LEMMA PledgesFinite ==
  ASSUME NEW S, IsFiniteSet(S), NEW f, \A r \in S : f[r] \in Nat
  PROVE  /\ IsFiniteSet(PledgesOf(f, S))
         /\ Cardinality(PledgesOf(f, S)) \in Nat
  <1> DEFINE Of(r) == {r} \X (1 .. f[r])
             g == [r \in S |-> Of(r)]
  <1>1. g \in Surjection(S, { Of(r) : r \in S })
    BY DEF Surjection
  <1>2. IsFiniteSet({ Of(r) : r \in S })
    BY <1>1, FS_Surjection
  <1>3. \A T \in { Of(r) : r \in S } : IsFiniteSet(T)
    <2> SUFFICES ASSUME NEW r \in S PROVE IsFiniteSet(Of(r))
      OBVIOUS
    <2>1. IsFiniteSet({r})  BY FS_Singleton
    <2>2. IsFiniteSet(1 .. f[r])  BY FS_Interval
    <2>. QED  BY <2>1, <2>2, FS_Product
  <1>4. PledgesOf(f, S) = UNION { Of(r) : r \in S }
    BY DEF PledgesOf
  <1>5. IsFiniteSet(PledgesOf(f, S))
    BY <1>2, <1>3, <1>4, FS_UNION
  <1>. QED  BY <1>5, FS_CardinalityType

(* What two disjoint sets of requests are pledged adds up.                 *)
LEMMA PledgesAddUp ==
  ASSUME NEW S, NEW T, IsFiniteSet(S), IsFiniteSet(T), S \cap T = {},
         NEW f, \A r \in S \cup T : f[r] \in Nat
  PROVE  Cardinality(PledgesOf(f, S \cup T)) =
           Cardinality(PledgesOf(f, S)) + Cardinality(PledgesOf(f, T))
  <1>1. PledgesOf(f, S \cup T) = PledgesOf(f, S) \cup PledgesOf(f, T)
    <2>1. \A x : x \in PledgesOf(f, S \cup T) <=>
                   x \in PledgesOf(f, S) \/ x \in PledgesOf(f, T)
      BY PledgeElement
    <2>. QED  BY <2>1
  <1>2. PledgesOf(f, S) \cap PledgesOf(f, T) = {}
    BY PledgeElement
  <1>3. IsFiniteSet(PledgesOf(f, S)) /\ IsFiniteSet(PledgesOf(f, T))
    BY PledgesFinite
  <1>4. /\ Cardinality(PledgesOf(f, S)) \in Nat
        /\ Cardinality(PledgesOf(f, T)) \in Nat
    BY PledgesFinite
  <1>5. Cardinality(PledgesOf(f, S) \cup PledgesOf(f, T)) =
          Cardinality(PledgesOf(f, S)) + Cardinality(PledgesOf(f, T))
            - Cardinality(PledgesOf(f, S) \cap PledgesOf(f, T))
    BY <1>3, FS_Union
  <1>6. Cardinality(PledgesOf(f, S) \cap PledgesOf(f, T)) = 0
    BY <1>2, FS_EmptySet
  <1>7. Cardinality(PledgesOf(f, S \cup T)) =
          Cardinality(PledgesOf(f, S) \cup PledgesOf(f, T))
    BY <1>1, Zenon
  <1>. QED  BY <1>4, <1>5, <1>6, <1>7

(* What one request is pledged.                                            *)
LEMMA PledgesOfOne ==
  ASSUME NEW r, NEW f, f[r] \in Nat
  PROVE  Cardinality(PledgesOf(f, {r})) = f[r]
  <1>1. PledgesOf(f, {r}) = {r} \X (1 .. f[r])
    BY DEF PledgesOf
  <1>2. IsFiniteSet({r}) /\ Cardinality({r}) = 1
    BY FS_Singleton
  <1>3. IsFiniteSet(1 .. f[r]) /\ Cardinality(1 .. f[r]) = f[r]
    BY SMTT(40), FS_Interval
  <1>4. Cardinality({r} \X (1 .. f[r])) = Cardinality({r}) * Cardinality(1 .. f[r])
    BY <1>2, <1>3, FS_Product, Zenon
  <1>5. Cardinality(PledgesOf(f, {r})) = Cardinality({r} \X (1 .. f[r]))
    BY <1>1, Zenon
  <1>. QED  BY <1>2, <1>3, <1>4, <1>5

(* Nobody is pledged nothing.                                              *)
LEMMA NoPledges ==
  ASSUME NEW S, NEW f, \A r \in S : f[r] = 0
  PROVE  Cardinality(PledgesOf(f, S)) = 0
  <1>1. \A x : x \notin PledgesOf(f, S)
    BY PledgeElement
  <1>. QED  BY <1>1, FS_EmptySet

(* The share of one request in the pledges of many.                        *)
LEMMA PledgesWithout ==
  ASSUME NEW S, IsFiniteSet(S), NEW r \in S, NEW f, \A q \in S : f[q] \in Nat
  PROVE  Cardinality(PledgesOf(f, S)) =
           Cardinality(PledgesOf(f, S \ {r})) + f[r]
  <1>1. IsFiniteSet(S \ {r}) /\ IsFiniteSet({r})
    BY FS_RemoveElement, FS_Singleton
  <1>2. (S \ {r}) \cup {r} = S /\ (S \ {r}) \cap {r} = {}
    OBVIOUS
  <1>3. Cardinality(PledgesOf(f, (S \ {r}) \cup {r})) =
          Cardinality(PledgesOf(f, S \ {r})) + Cardinality(PledgesOf(f, {r}))
    BY <1>1, <1>2, PledgesAddUp
  <1>4. Cardinality(PledgesOf(f, {r})) = f[r]
    BY PledgesOfOne
  <1>. QED  BY <1>2, <1>3, <1>4

(* When only the pledge of r changes, the pledges change by as much.       *)
LEMMA PledgesChange ==
  ASSUME NEW S, IsFiniteSet(S), NEW r \in S,
         NEW f, \A q \in S : f[q] \in Nat,
         NEW g, \A q \in S : g[q] \in Nat,
         \A q \in S \ {r} : f[q] = g[q]
  PROVE  Cardinality(PledgesOf(g, S)) = Cardinality(PledgesOf(f, S)) + g[r] - f[r]
  <1>1. PledgesOf(f, S \ {r}) = PledgesOf(g, S \ {r})
    BY PledgesAgree
  <1>2. Cardinality(PledgesOf(f, S \ {r})) \in Nat
    BY PledgesFinite, FS_RemoveElement
  <1>. QED  BY <1>1, <1>2, PledgesWithout

----------------------------------------------------------------------------

(* A finite function that never repeats itself has as many values as       *)
(* arguments, and when they all lie in a set of that size they are it.     *)
LEMMA DistinctValues ==
  ASSUME NEW n \in Nat, NEW f, NEW S, \A i \in 1 .. n : f[i] \in S,
         \A i, j \in 1 .. n : f[i] = f[j] => i = j
  PROVE  LET V == { f[i] : i \in 1 .. n }
         IN  /\ IsFiniteSet(V)
             /\ Cardinality(V) = n
             /\ IsFiniteSet(S) /\ Cardinality(S) = n => S \subseteq V
  <1> DEFINE V == { f[i] : i \in 1 .. n }
             g == [i \in 1 .. n |-> f[i]]
  <1>1. g \in Bijection(1 .. n, V)
    <2>1. g \in [1 .. n -> V] /\ \A i \in 1 .. n : g[i] = f[i]
      OBVIOUS
    <2>2. \A i, j \in 1 .. n : g[i] = g[j] => i = j
      BY <2>1
    <2>3. \A v \in V : \E i \in 1 .. n : g[i] = v
      BY <2>1
    <2>. QED
      BY <2>1, <2>2, <2>3, Zenon DEF Bijection, Injection, Surjection, IsInjective
  <1>2. ExistsBijection(1 .. n, V)
    BY <1>1 DEF ExistsBijection
  <1>3. IsFiniteSet(1 .. n)
    BY FS_Interval
  <1>4. IsFiniteSet(V) /\ Cardinality(V) = n
    BY <1>2, <1>3, FS_Bijection, FS_CountingElements
  <1>5. V \in SUBSET S
    OBVIOUS
  <1>6. IsFiniteSet(S) /\ Cardinality(S) = n => S = V
    BY <1>4, <1>5, FS_Subset
  <1>. QED  BY <1>4, <1>6

(* Disjoint finite sets: the sizes add up.                                 *)
LEMMA DisjointSizes ==
  ASSUME NEW S, NEW T, IsFiniteSet(S), IsFiniteSet(T), S \cap T = {}
  PROVE  /\ IsFiniteSet(S \cup T)
         /\ Cardinality(S \cup T) = Cardinality(S) + Cardinality(T)
         /\ Cardinality(S) \in Nat /\ Cardinality(T) \in Nat
  BY SMTT(40), FS_Union, FS_EmptySet, FS_CardinalityType

(* A set of one element has no two.                                        *)
LEMMA OnlyOne ==
  ASSUME NEW S, IsFiniteSet(S), Cardinality(S) = 1, NEW x \in S, NEW y \in S
  PROVE  x = y
  BY FS_Singleton

(* Two sequences one after the other, place by place.                      *)
LEMMA ConcatPlaces ==
  ASSUME NEW S, NEW s \in Seq(S), NEW t \in Seq(S)
  PROVE  /\ s \o t \in Seq(S) /\ Len(s) \in Nat /\ Len(t) \in Nat
         /\ Len(s \o t) = Len(s) + Len(t)
         /\ DOMAIN (s \o t) = 1 .. Len(s) + Len(t)
         /\ \A i \in 1 .. Len(s) : (s \o t)[i] = s[i]
         /\ \A i \in 1 .. Len(t) : (s \o t)[Len(s) + i] = t[i]
         /\ \A i \in Len(s) + 1 .. Len(s) + Len(t) :
              i - Len(s) \in 1 .. Len(t) /\ (s \o t)[i] = t[i - Len(s)]
  OBVIOUS

(* Multiples are ordered as their factors are, and division undoes them.   *)
LEMMA Multiples ==
  ASSUME NEW B \in Nat \ {0}, NEW m \in Nat, NEW n \in Nat
  PROVE  /\ m * B \in Nat
         /\ m <= n => m * B <= n * B
         /\ m * B < n * B + B => m <= n
         /\ \A i \in 0 .. B - 1 : (m * B + i) \div B = m /\ (m * B + i) % B = i
  OBVIOUS

-----------------------------------------------------------------------------
(* A nonempty set of numbers has a smallest element: the intervals below    *)
(* its members are finite sets, and inclusion is well-founded on those.    *)
LEMMA Smallest ==
  ASSUME NEW S \in SUBSET Nat, S # {}
  PROVE  \E x \in S : \A y \in S : x =< y
<1> DEFINE R == StrictSubsetOrdering(Nat)
           T == {0..n : n \in S}
<1>1. IsWellFoundedOn(R, FiniteSubsetsOf(Nat)) BY FS_StrictSubsetOrderingWellFounded
<1>2. T \subseteq FiniteSubsetsOf(Nat)
  <2> SUFFICES ASSUME NEW n \in S PROVE 0..n \in FiniteSubsetsOf(Nat) OBVIOUS
  <2>1. n \in Int /\ 0 \in Int OBVIOUS
  <2>2. IsFiniteSet(0..n) BY <2>1, FS_Interval
  <2>3. 0..n \in SUBSET Nat OBVIOUS
  <2> QED BY <2>2, <2>3 DEF FiniteSubsetsOf
<1>3. T # {} OBVIOUS
<1>4. PICK I \in T : \A J \in T : ~ (<<J, I>> \in R)
  <2> HIDE DEF R, T
  <2> QED BY <1>1, <1>2, <1>3, WFMin
<1>5. PICK x \in S : I = 0..x OBVIOUS
<1>6. \A y \in S : x =< y
  <2> SUFFICES ASSUME NEW y \in S, ~(x =< y) PROVE FALSE OBVIOUS
  <2>1. 0..y \subseteq 0..x /\ 0..y # 0..x /\ 0..y \subseteq Nat /\ 0..x \subseteq Nat
     <3>1. x \in 0..x /\ x \notin 0..y BY SMT
     <3>2. 0..y \subseteq 0..x BY SMT
     <3> QED BY <3>1, <3>2
  <2>2. <<0..y, 0..x>> \in R
    <3> DEFINE A == 0..y
               B == 0..x
    <3>1. A \in SUBSET Nat /\ B \in SUBSET Nat /\ A \subseteq B /\ A # B BY <2>1
    <3> HIDE DEF A, B
    <3>2. <<A, B>> \in StrictSubsetOrdering(Nat) BY <3>1 DEF StrictSubsetOrdering
    <3> QED BY <3>2 DEF A, B
  <2> QED BY <2>2, <1>4, <1>5
<1> QED BY <1>6

(* A set that holds 0, and with every number the next one, holds them all. *)
LEMMA Induct ==
  ASSUME NEW B, 0 \in B, \A n \in Nat : n \in B => n + 1 \in B
  PROVE  \A n \in Nat : n \in B
<1> DEFINE C == {n \in Nat : n \notin B}
<1> SUFFICES ASSUME C # {} PROVE FALSE OBVIOUS
<1>1. PICK x \in C : \A y \in C : x =< y
  <2>1. C \in SUBSET Nat OBVIOUS
  <2> HIDE DEF C
  <2> QED BY <2>1, Smallest
<1>2. x # 0 /\ x \in Nat OBVIOUS
<1>3. x - 1 \in Nat /\ x - 1 \notin C BY <1>1, <1>2
<1>4. (x - 1) + 1 \in B BY <1>3
<1> QED BY <1>1, <1>2, <1>4

(* Concatenation, as an operator the provers need not look into.           *)
Cat(s, t) == s \o t

(* Joining sequences of a set gives a sequence of that set.                *)
LEMMA CatType ==
  ASSUME NEW D, NEW s \in Seq(D), NEW t \in Seq(D)
  PROVE  Cat(s, t) \in Seq(D)
  BY ConcatProperties DEF Cat

(* The empty sequence adds nothing on either side.                         *)
LEMMA CatEmpty ==
  ASSUME NEW D, NEW s \in Seq(D) PROVE Cat(s, << >>) = s /\ Cat(<< >>, s) = s
  BY ConcatEmptySeq DEF Cat

(* Three sequences are joined in either order.                             *)
LEMMA CatAssociative ==
  ASSUME NEW D, NEW s \in Seq(D), NEW t \in Seq(D), NEW u \in Seq(D)
  PROVE  Cat(Cat(s, t), u) = Cat(s, Cat(t, u))
  BY ConcatAssociative DEF Cat

(* An element at the end stays at the end.                                 *)
LEMMA CatAppend ==
  ASSUME NEW D, NEW s \in Seq(D), NEW t \in Seq(D), NEW x \in D
  PROVE  Cat(s, Append(t, x)) = Append(Cat(s, t), x)
  BY DEF Cat

(* Joining one element appends it.                                         *)
LEMMA CatOne ==
  ASSUME NEW D, NEW s \in Seq(D), NEW x \in D
  PROVE  Cat(s, <<x>>) = Append(s, x)
  BY DEF Cat

(* A sequence is its front and its last element.                           *)
LEMMA FrontLastProps ==
  ASSUME NEW D, NEW s \in Seq(D), s # << >>
  PROVE  /\ Front(s) \in Seq(D) /\ Last(s) \in D
         /\ Append(Front(s), Last(s)) = s
         /\ Len(Front(s)) = Len(s) - 1
  BY DEF Front, Last

(* Length and elements of two sequences that are joined.                   *)
LEMMA CatShape ==
  ASSUME NEW D, NEW s \in Seq(D), NEW t \in Seq(D)
  PROVE  /\ Len(Cat(s, t)) = Len(s) + Len(t)
         /\ DOMAIN Cat(s, t) = 1..(Len(s) + Len(t))
         /\ \A i \in 1..Len(s) : Cat(s, t)[i] = s[i]
         /\ \A i \in 1..Len(t) : Cat(s, t)[Len(s) + i] = t[i]
         /\ \A i \in 1..(Len(s) + Len(t)) : i > Len(s) => Cat(s, t)[i] = t[i - Len(s)]
  BY DEF Cat

(* A sequence that is not empty is one shorter sequence and a last element. *)
LEMMA SplitLast ==
  \A E : \A n \in Nat : \A u \in Seq(E) : Len(u) = n + 1 =>
    \E v \in Seq(E), x \in E : u = Append(v, x) /\ Len(v) = n
<1> SUFFICES ASSUME NEW E, NEW n \in Nat, NEW u \in Seq(E), Len(u) = n + 1
             PROVE  \E v \in Seq(E), x \in E : u = Append(v, x) /\ Len(v) = n
  OBVIOUS
<1>1. u # << >> OBVIOUS
<1>2. /\ Front(u) \in Seq(E) /\ Last(u) \in E
      /\ Append(Front(u), Last(u)) = u /\ Len(Front(u)) = n
  BY <1>1, FrontLastProps
<1> QED BY <1>2, Zenon

(* CatAppend and CatType of every set, to be used under a quantifier.      *)
LEMMA CatLast ==
  \A E : \A s, t \in Seq(E) : \A x \in E :
    Cat(s, Append(t, x)) = Append(Cat(s, t), x) /\ Cat(s, t) \in Seq(E)
<1> SUFFICES ASSUME NEW E, NEW s \in Seq(E), NEW t \in Seq(E), NEW x \in E
             PROVE  Cat(s, Append(t, x)) = Append(Cat(s, t), x) /\ Cat(s, t) \in Seq(E)
  OBVIOUS
<1> QED BY CatAppend, CatType

(* The function that joins the first sequences of a sequence of sequences  *)
(* exists, so that FlattenSeq is its last value.                           *)
Joins(seqs, n, f) ==
  f = [i \in 1..n |-> IF i = 1 THEN seqs[i] ELSE Cat(f[i-1], seqs[i])]

(* The function that joins the prefixes exists: by induction on n.         *)
LEMMA JoinsExist == \A seqs : \A n \in Nat : \E f : Joins(seqs, n, f)
<1> SUFFICES ASSUME NEW seqs PROVE \A n \in Nat : \E f : Joins(seqs, n, f)
  OBVIOUS
<1> DEFINE B == {n \in Nat : \E f : Joins(seqs, n, f)}
<1>1. 0 \in B
  <2>1. Joins(seqs, 0, [i \in 1..0 |-> 0]) BY DEF Joins
  <2> QED BY <2>1
<1>2. ASSUME NEW n \in Nat, n \in B PROVE n + 1 \in B
  <2>1. PICK f : Joins(seqs, n, f) BY <1>2
  <2> DEFINE x == IF n = 0 THEN seqs[1] ELSE Cat(f[n], seqs[n + 1])
             g == [i \in 1..(n + 1) |-> IF i = n + 1 THEN x ELSE f[i]]
  <2>2. ASSUME NEW i \in 1..(n + 1)
        PROVE  g[i] = IF i = 1 THEN seqs[i] ELSE Cat(g[i-1], seqs[i])
    <3>1. CASE i = n + 1 BY <3>1
    <3>2. CASE i # n + 1
      <4>1. i \in 1..n /\ (i # 1 => i - 1 \in 1..n) BY <3>2
      <4>2. f[i] = IF i = 1 THEN seqs[i] ELSE Cat(f[i-1], seqs[i]) BY <2>1, <4>1 DEF Joins
      <4>3. g[i] = f[i] /\ (i # 1 => g[i-1] = f[i-1]) BY <4>1
      <4> QED BY <4>2, <4>3
    <3> QED BY <3>1, <3>2
  <2>3. Joins(seqs, n + 1, g)
    <3> HIDE DEF x
    <3> QED BY <2>2 DEF Joins
  <2> QED BY <2>3
<1>3. \A n \in Nat : n \in B
  <2> HIDE DEF B
  <2> QED BY <1>1, <1>2, Induct
<1> QED BY <1>3

(* FlattenSeq is the last value of that function.                          *)
LEMMA JoinsFlatten ==
  ASSUME NEW D, NEW seqs \in Seq(Seq(D)), seqs # << >>
  PROVE  \E f : Joins(seqs, Len(seqs), f) /\ FlattenSeq(seqs) = f[Len(seqs)]
<1>1. Len(seqs) # 0 /\ Len(seqs) \in Nat OBVIOUS
<1>2. PICK f : Joins(seqs, Len(seqs), f) BY <1>1, JoinsExist
<1> QED BY <1>1, <1>2, Zenon DEF FlattenSeq, Joins, Cat

(* Its first value is the first sequence ...                               *)
LEMMA JoinsFirst ==
  ASSUME NEW seqs, NEW N \in Nat, NEW f, Joins(seqs, N, f), N # 0
  PROVE  f[1] = seqs[1]
  BY DEF Joins

(* ... and each next one adds the next sequence.                           *)
LEMMA JoinsNext ==
  ASSUME NEW seqs, NEW N \in Nat, NEW f, Joins(seqs, N, f),
         NEW m \in Nat, m # 0, m < N
  PROVE  f[m + 1] = Cat(f[m], seqs[m + 1])
<1>1. m + 1 # 1 /\ (m + 1) - 1 = m /\ m + 1 \in 1..N OBVIOUS
<1>2. f[m + 1] = IF m + 1 = 1 THEN seqs[m + 1] ELSE Cat(f[(m + 1) - 1], seqs[m + 1])
  BY <1>1 DEF Joins
<1> QED BY <1>1, <1>2, Zenon

(* No sequences, nothing joined.                                           *)
LEMMA FlattenEmpty == FlattenSeq(<< >>) = << >>
  BY DEF FlattenSeq

(* The joined prefixes are sequences, and depend on those prefixes alone.  *)
LEMMA JoinsType ==
  ASSUME NEW D, NEW seqs \in Seq(Seq(D)), NEW f, Joins(seqs, Len(seqs), f)
  PROVE  \A n \in 1..Len(seqs) : f[n] \in Seq(D)
<1> DEFINE B == {n \in Nat : n \in 1..Len(seqs) => f[n] \in Seq(D)}
<1>1. 0 \in B OBVIOUS
<1>2. ASSUME NEW n \in Nat, n \in B PROVE n + 1 \in B
  <2> SUFFICES ASSUME n + 1 \in 1..Len(seqs) PROVE f[n + 1] \in Seq(D)
    OBVIOUS
  <2>1. seqs[n + 1] \in Seq(D) OBVIOUS
  <2>2. CASE n = 0 BY <2>1, <2>2 DEF Joins
  <2>3. CASE n # 0
    <3>1. f[n] \in Seq(D) BY <1>2, <2>3
    <3>2. f[n + 1] = Cat(f[n], seqs[n + 1])
      <4>1. Len(seqs) \in Nat /\ n < Len(seqs) OBVIOUS
      <4> QED BY <2>3, <4>1, JoinsNext
    <3>3. Cat(f[n], seqs[n + 1]) \in Seq(D) BY <2>1, <3>1, CatType
    <3> QED BY <3>2, <3>3
  <2> QED BY <2>2, <2>3
<1>3. \A n \in Nat : n \in B
  <2> HIDE DEF B
  <2> QED BY <1>1, <1>2, Induct
<1> QED BY <1>3

(* Joining one more sequence at the end.                                   *)
LEMMA FlattenAppend ==
  ASSUME NEW D, NEW seqs \in Seq(Seq(D)), NEW s \in Seq(D)
  PROVE  /\ FlattenSeq(seqs) \in Seq(D)
         /\ FlattenSeq(Append(seqs, s)) = Cat(FlattenSeq(seqs), s)
<1> DEFINE more == Append(seqs, s)
           N == Len(seqs)
<1>1. more \in Seq(Seq(D)) /\ more # << >> /\ Len(more) = N + 1 /\ N \in Nat
      /\ more[N + 1] = s /\ \A i \in 1..N : more[i] = seqs[i]
  BY AppendProperties
<1> HIDE DEF more
<1>2. PICK g : Joins(more, N + 1, g) /\ FlattenSeq(more) = g[N + 1]
  BY <1>1, JoinsFlatten
<1>3. CASE seqs = << >>
  <2>1. FlattenSeq(seqs) = << >> BY <1>3, FlattenEmpty
  <2>2. N = 0 BY <1>3
  <2>3. FlattenSeq(more) = s BY <1>1, <1>2, <2>2 DEF Joins
  <2>4. Cat(<< >>, s) = s BY CatEmpty
  <2> QED BY <2>1, <2>3, <2>4 DEF more
<1>4. CASE seqs # << >>
  <2>1. PICK f : Joins(seqs, N, f) /\ FlattenSeq(seqs) = f[N] BY <1>4, JoinsFlatten
  <2>2. N # 0 BY <1>4
  <2>3. f[N] \in Seq(D) BY <1>1, <2>1, <2>2, JoinsType
  <2> DEFINE B == {n \in Nat : n \in 1..N => g[n] = f[n]}
  <2>4. 0 \in B OBVIOUS
  <2>5. ASSUME NEW n \in Nat, n \in B PROVE n + 1 \in B
    <3> SUFFICES ASSUME n + 1 \in 1..N PROVE g[n + 1] = f[n + 1]
      OBVIOUS
    <3>1. more[n + 1] = seqs[n + 1] BY <1>1
    <3>2. CASE n = 0
      <4>1. g[1] = more[1] /\ f[1] = seqs[1]
        <5>1. N + 1 \in Nat /\ N + 1 # 0 BY <1>1
        <5> QED BY <1>1, <1>2, <2>1, <2>2, <5>1, JoinsFirst
      <4> QED BY <3>1, <3>2, <4>1
    <3>3. CASE n # 0
      <4>0. n < N /\ n < N + 1 /\ N + 1 \in Nat BY <1>1
      <4>1. g[n + 1] = Cat(g[n], more[n + 1]) BY <1>2, <3>3, <4>0, JoinsNext
      <4>2. f[n + 1] = Cat(f[n], seqs[n + 1]) BY <1>1, <2>1, <3>3, <4>0, JoinsNext
      <4>3. g[n] = f[n] BY <2>5, <3>3
      <4> QED BY <3>1, <4>1, <4>2, <4>3
    <3> QED BY <3>2, <3>3
  <2>6. \A n \in Nat : n \in B
    <3> HIDE DEF B
    <3> QED BY <2>4, <2>5, Induct
  <2>7. g[N] = f[N] BY <1>1, <2>2, <2>6
  <2>8. g[N + 1] = Cat(g[N], more[N + 1])
    <3>1. N + 1 \in Nat /\ N < N + 1 BY <1>1
    <3> QED BY <1>1, <1>2, <2>2, <3>1, JoinsNext
  <2> QED BY <1>1, <1>2, <2>1, <2>3, <2>7, <2>8 DEF more
<1> QED BY <1>3, <1>4

(* One sequence, joined, is itself.                                        *)
LEMMA FlattenOne ==
  ASSUME NEW D, NEW s \in Seq(D) PROVE FlattenSeq(<<s>>) = s
<1>1. << >> \in Seq(Seq(D)) /\ Append(<< >>, s) = <<s>> OBVIOUS
<1>2. FlattenSeq(<<s>>) = Cat(FlattenSeq(<< >>), s) BY <1>1, FlattenAppend
<1> QED BY <1>2, FlattenEmpty, CatEmpty

(* What follows the first sequence is joined as by itself.                 *)
Shifted(D, seqs, rest, N, f, g) ==
  /\ N \in Nat /\ N # 0
  /\ \A i \in 1..N : seqs[i] \in Seq(D)
  /\ \A i \in 1..(N - 1) : rest[i] = seqs[i + 1]
  /\ \A i \in 1..(N - 1) : g[i] \in Seq(D)
  /\ Joins(seqs, N, f) /\ Joins(rest, N - 1, g)

(* The prefixes of a sequence and of its tail differ by the head.          *)
LEMMA JoinsShift ==
  ASSUME NEW D, NEW seqs, NEW rest, NEW N, NEW f, NEW g,
         Shifted(D, seqs, rest, N, f, g)
  PROVE  \A n \in 1..(N - 1) : f[n + 1] = Cat(seqs[1], g[n])
<1> USE DEF Shifted
<1> DEFINE B == {n \in Nat : n \in 1..(N - 1) => f[n + 1] = Cat(seqs[1], g[n])}
<1>1. 0 \in B OBVIOUS
<1>2. ASSUME NEW n \in Nat, n \in B PROVE n + 1 \in B
  <2> SUFFICES ASSUME n + 1 \in 1..(N - 1) PROVE f[(n + 1) + 1] = Cat(seqs[1], g[n + 1])
    <3>1. n + 1 \in Nat OBVIOUS
    <3> QED BY <3>1, Zenon
  <2>0. (n + 1) + 1 = n + 2 OBVIOUS
  <2>1. f[n + 2] = Cat(f[n + 1], seqs[n + 2])
    <3>1. n + 1 \in Nat /\ n + 1 # 0 /\ n + 1 < N OBVIOUS
    <3>2. f[(n + 1) + 1] = Cat(f[n + 1], seqs[(n + 1) + 1]) BY <3>1, JoinsNext
    <3> QED BY <2>0, <3>2
  <2>2. rest[n + 1] = seqs[n + 2] OBVIOUS
  <2>3. CASE n = 0
    <3>1. f[1] = seqs[1] BY DEF Joins
    <3>2. g[1] = rest[1] BY <2>3 DEF Joins
    <3>3. f[n + 1] = seqs[1] /\ g[n + 1] = seqs[n + 2] BY <2>2, <2>3, <3>1, <3>2
    <3>4. f[n + 2] = Cat(seqs[1], g[n + 1]) BY <2>1, <3>3
    <3> QED BY <2>0, <3>4
  <2>4. CASE n # 0
    <3>0. n \in 1..(N - 1) BY <2>4
    <3>1. f[n + 1] = Cat(seqs[1], g[n]) BY <1>2, <3>0
    <3>2. g[n + 1] = Cat(g[n], rest[n + 1])
      <4>1. N - 1 \in Nat /\ n < N - 1 OBVIOUS
      <4> QED BY <2>4, <4>1, JoinsNext
    <3>3. seqs[1] \in Seq(D) /\ g[n] \in Seq(D) /\ seqs[n + 2] \in Seq(D)
      BY <2>4
    <3>4. Cat(Cat(seqs[1], g[n]), seqs[n + 2]) = Cat(seqs[1], Cat(g[n], seqs[n + 2]))
      BY <3>3, CatAssociative
    <3> QED BY <2>0, <2>1, <2>2, <3>1, <3>2, <3>4
  <2> QED BY <2>3, <2>4
<1>3. \A n \in Nat : n \in B
  <2> HIDE DEF B
  <2> QED BY <1>1, <1>2, Induct
<1> QED
  <2> SUFFICES ASSUME NEW n \in 1..(N - 1) PROVE n \in B OBVIOUS
  <2>1. n \in Nat OBVIOUS
  <2> HIDE DEF B
  <2> QED BY <1>3, <2>1

(* Taking the first sequence off.                                          *)
LEMMA FlattenHead ==
  ASSUME NEW D, NEW seqs \in Seq(Seq(D)), seqs # << >>
  PROVE  /\ FlattenSeq(Tail(seqs)) \in Seq(D)
         /\ FlattenSeq(seqs) = Cat(Head(seqs), FlattenSeq(Tail(seqs)))
<1> DEFINE rest == Tail(seqs)
           N == Len(seqs)
<1>1. rest \in Seq(Seq(D)) /\ N \in Nat /\ N # 0 /\ Len(rest) = N - 1
      /\ Head(seqs) = seqs[1] /\ \A i \in 1..(N - 1) : rest[i] = seqs[i + 1]
  BY HeadTailProperties
<1>2. \A i \in 1..N : seqs[i] \in Seq(D) OBVIOUS
<1> HIDE DEF rest
<1>3. FlattenSeq(rest) \in Seq(D)
  BY <1>1, FlattenAppend
<1>4. PICK f : Joins(seqs, N, f) /\ FlattenSeq(seqs) = f[N] BY JoinsFlatten
<1>5. CASE N = 1
  <2>1. rest = << >> BY <1>1, <1>5, EmptySeq
  <2>2. FlattenSeq(rest) = << >> BY <2>1, FlattenEmpty
  <2>3. f[1] = seqs[1] BY <1>4, <1>5 DEF Joins
  <2>4. Cat(seqs[1], << >>) = seqs[1] BY <1>1, <1>2, CatEmpty
  <2> QED BY <1>1, <1>3, <1>4, <1>5, <2>2, <2>3, <2>4 DEF rest
<1>6. CASE N # 1
  <2>1. rest # << >> BY <1>1, <1>6
  <2>2. PICK g : Joins(rest, N - 1, g) /\ FlattenSeq(rest) = g[N - 1]
    BY <1>1, <2>1, JoinsFlatten
  <2>3. \A n \in 1..(N - 1) : g[n] \in Seq(D) BY <1>1, <2>2, JoinsType
  <2>6. \A n \in 1..(N - 1) : f[n + 1] = Cat(seqs[1], g[n])
    <3> HIDE DEF N
    <3>1. Shifted(D, seqs, rest, N, f, g)
      BY <1>1, <1>2, <1>4, <2>2, <2>3 DEF Shifted
    <3> QED BY <3>1, JoinsShift
  <2>7. f[N] = Cat(seqs[1], g[N - 1])
    <3>1. N - 1 \in Nat /\ N - 1 \in 1..(N - 1) /\ (N - 1) + 1 = N BY <1>1, <1>6
    <3> QED BY <2>6, <3>1
  <2> QED BY <1>1, <1>3, <1>4, <2>2, <2>7 DEF rest
<1> QED BY <1>5, <1>6

(* Joining two sequences of sequences joins what they give.                *)
SeqsOf(E, D) == E = Seq(D)

(* Joining is a homomorphism.                                              *)
LEMMA FlattenCat ==
  ASSUME NEW D, NEW E, SeqsOf(E, D), NEW s \in Seq(E), NEW t \in Seq(E)
  PROVE  FlattenSeq(Cat(s, t)) = Cat(FlattenSeq(s), FlattenSeq(t))
<1> DEFINE Q == Seq(E)
           B == {n \in Nat : \A u \in Q : Len(u) = n =>
                    FlattenSeq(Cat(s, u)) = Cat(FlattenSeq(s), FlattenSeq(u))}
<1>1. 0 \in B
  <2> SUFFICES ASSUME NEW u \in Q, Len(u) = 0
               PROVE  FlattenSeq(Cat(s, u)) = Cat(FlattenSeq(s), FlattenSeq(u))
    OBVIOUS
  <2>1. u = << >> OBVIOUS
  <2>2. Cat(s, u) = s BY <2>1, CatEmpty
  <2>3. FlattenSeq(s) \in Seq(D) BY FlattenAppend DEF SeqsOf
  <2>4. Cat(FlattenSeq(s), FlattenSeq(u)) = FlattenSeq(s)
    BY <2>1, <2>3, FlattenEmpty, CatEmpty
  <2> QED BY <2>2, <2>4
<1>2. ASSUME NEW n \in Nat, n \in B PROVE n + 1 \in B
  <2> SUFFICES ASSUME NEW u \in Q, Len(u) = n + 1
               PROVE  FlattenSeq(Cat(s, u)) = Cat(FlattenSeq(s), FlattenSeq(u))
    OBVIOUS
  <2>1. PICK v \in Q, x \in E : u = Append(v, x) /\ Len(v) = n
    <3> HIDE DEF B
    <3> QED BY SplitLast, Zenon
  <2>2. Cat(s, u) = Append(Cat(s, v), x) /\ Cat(s, v) \in Q
    <3>1. v \in Seq(E) /\ u = Append(v, x) BY <2>1
    <3>2. Cat(s, Append(v, x)) = Append(Cat(s, v), x) /\ Cat(s, v) \in Seq(E)
      <4> HIDE DEF B
      <4> QED BY <3>1, CatLast
    <3> QED BY <3>1, <3>2
  <2>3. FlattenSeq(Cat(s, u)) = Cat(FlattenSeq(Cat(s, v)), x)
    BY <2>2, FlattenAppend DEF SeqsOf
  <2>4. FlattenSeq(Cat(s, v)) = Cat(FlattenSeq(s), FlattenSeq(v)) BY <1>2, <2>1
  <2>5. FlattenSeq(u) = Cat(FlattenSeq(v), x) BY <2>1, FlattenAppend DEF SeqsOf
  <2>6. FlattenSeq(s) \in Seq(D) /\ FlattenSeq(v) \in Seq(D) BY <2>1, FlattenAppend DEF SeqsOf
  <2>7. Cat(Cat(FlattenSeq(s), FlattenSeq(v)), x) = Cat(FlattenSeq(s), Cat(FlattenSeq(v), x))
    <3>1. x \in Seq(D) BY DEF SeqsOf
    <3> HIDE DEF B
    <3> QED BY <2>6, <3>1, CatAssociative
  <2> QED BY <2>3, <2>4, <2>5, <2>7
<1>3. \A n \in Nat : n \in B
  <2> HIDE DEF B
  <2> QED BY <1>1, <1>2, Induct
<1>4. Len(t) \in Nat /\ t \in Q OBVIOUS
<1>5. Len(t) \in B
  <2> HIDE DEF B
  <2> QED BY <1>3, <1>4
<1> QED BY <1>4, <1>5

(* A function that gives a sequence for each element of a sequence: what   *)
(* it gives for two sequences after each other is joined.                  *)
Mapped(F, b) == [i \in DOMAIN b |-> F[b[i]]]
Mapping(F, M, E) == F \in [M -> E]
Maps(F, M, D) == Mapping(F, M, Seq(D))

(* Type, length and elements of a mapped sequence.                         *)
LEMMA MappedSeq ==
  ASSUME NEW F, NEW M, NEW E, Mapping(F, M, E), NEW b \in Seq(M)
  PROVE  /\ Mapped(F, b) \in Seq(E)
         /\ Len(Mapped(F, b)) = Len(b)
         /\ \A i \in 1..Len(b) : Mapped(F, b)[i] = F[b[i]]
<1>1. Len(b) \in Nat /\ DOMAIN b = 1..Len(b) /\ \A i \in 1..Len(b) : b[i] \in M OBVIOUS
<1>2. Mapped(F, b) \in [1..Len(b) -> E] BY <1>1 DEF Mapped, Mapping
<1>3. \A i \in 1..Len(b) : Mapped(F, b)[i] = F[b[i]] BY <1>1 DEF Mapped
<1> QED BY <1>1, <1>2, <1>3

(* A mapped sequence of sequences joins to a sequence.                     *)
LEMMA MappedType ==
  ASSUME NEW F, NEW M, NEW D, Maps(F, M, D), NEW b \in Seq(M)
  PROVE  FlattenSeq(Mapped(F, b)) \in Seq(D)
<1>1. Mapped(F, b) \in Seq(Seq(D)) BY MappedSeq DEF Maps
<1> QED BY <1>1, FlattenAppend

(* Mapping goes through joining.                                           *)
LEMMA MappedJoin ==
  ASSUME NEW F, NEW M, NEW E, Mapping(F, M, E), NEW b \in Seq(M), NEW c \in Seq(M)
  PROVE  Mapped(F, Cat(b, c)) = Cat(Mapped(F, b), Mapped(F, c))
<1> DEFINE f == Mapped(F, b)
           g == Mapped(F, c)
           h == Mapped(F, Cat(b, c))
<1>1. Cat(b, c) \in Seq(M) BY CatType
<1>2. /\ f \in Seq(E) /\ Len(f) = Len(b) /\ \A i \in 1..Len(b) : f[i] = F[b[i]]
      /\ g \in Seq(E) /\ Len(g) = Len(c) /\ \A i \in 1..Len(c) : g[i] = F[c[i]]
  BY MappedSeq
<1>3. /\ h \in Seq(E) /\ Len(h) = Len(b) + Len(c)
      /\ \A i \in 1..(Len(b) + Len(c)) : h[i] = F[Cat(b, c)[i]]
  <2>1. /\ h \in Seq(E) /\ Len(h) = Len(Cat(b, c))
        /\ \A i \in 1..Len(Cat(b, c)) : h[i] = F[Cat(b, c)[i]]
    BY <1>1, MappedSeq
  <2>2. Len(Cat(b, c)) = Len(b) + Len(c) BY CatShape
  <2> HIDE DEF h
  <2> QED BY <2>1, <2>2
<1>4. Len(b) \in Nat /\ Len(c) \in Nat OBVIOUS
<1> HIDE DEF f, g, h
<1>5. /\ Cat(f, g) \in Seq(E) /\ Len(Cat(f, g)) = Len(f) + Len(g) BY <1>2, CatShape, CatType
<1>6. ASSUME NEW i \in 1..(Len(b) + Len(c)) PROVE h[i] = Cat(f, g)[i]
  <2>1. CASE i =< Len(b)
    <3>1. i \in 1..Len(b) BY <1>4, <2>1
    <3>2. Cat(b, c)[i] = b[i] BY <3>1, CatShape
    <3>3. Cat(f, g)[i] = f[i] BY <1>2, <3>1, CatShape
    <3> QED BY <1>2, <1>3, <3>1, <3>2, <3>3
  <2>2. CASE i > Len(b)
    <3>1. i - Len(b) \in 1..Len(c) BY <1>4, <2>2
    <3>2. Cat(b, c)[i] = c[i - Len(b)] BY <2>2, CatShape
    <3>3. Cat(f, g)[i] = g[i - Len(b)]
      <4>1. i \in 1..(Len(f) + Len(g)) /\ i > Len(f) BY <1>2, <2>2
      <4>2. \A j \in 1..(Len(f) + Len(g)) : j > Len(f) => Cat(f, g)[j] = g[j - Len(f)]
        <5>1. f \in Seq(E) /\ g \in Seq(E) BY <1>2
        <5> QED BY <5>1, CatShape, Zenon
      <4> QED BY <1>2, <4>1, <4>2
    <3> QED BY <1>2, <1>3, <3>1, <3>2, <3>3
  <2> QED BY <1>4, <2>1, <2>2
<1>7. h = Cat(f, g) BY <1>2, <1>3, <1>5, <1>6, SeqEqual
<1> QED BY <1>7 DEF f, g, h

(* So does mapping followed by joining.                                    *)
LEMMA MappedCat ==
  ASSUME NEW F, NEW M, NEW D, Maps(F, M, D), NEW b \in Seq(M), NEW c \in Seq(M)
  PROVE  FlattenSeq(Mapped(F, Cat(b, c))) =
           Cat(FlattenSeq(Mapped(F, b)), FlattenSeq(Mapped(F, c)))
<1>1. PICK E : SeqsOf(E, D) BY DEF SeqsOf
<1>2. Mapping(F, M, E) BY <1>1 DEF SeqsOf, Maps
<1>3. Mapped(F, b) \in Seq(E) /\ Mapped(F, c) \in Seq(E) BY <1>2, MappedSeq
<1>4. Mapped(F, Cat(b, c)) = Cat(Mapped(F, b), Mapped(F, c)) BY <1>2, MappedJoin
<1> QED BY <1>1, <1>3, <1>4, FlattenCat

(* Nothing mapped is nothing.                                              *)
LEMMA MappedEmpty == ASSUME NEW F PROVE FlattenSeq(Mapped(F, << >>)) = << >>
<1>1. Mapped(F, << >>) = << >> BY DEF Mapped
<1> QED BY <1>1, FlattenEmpty

(* One element mapped and joined is its image.                             *)
LEMMA MappedOne ==
  ASSUME NEW F, NEW M, NEW D, Maps(F, M, D), NEW m \in M
  PROVE  FlattenSeq(Mapped(F, <<m>>)) = F[m]
<1>1. Mapped(F, <<m>>) = <<F[m]>> BY DEF Mapped
<1>2. F[m] \in Seq(D) BY DEF Maps, Mapping
<1> QED BY <1>1, <1>2, FlattenOne

(* The first of two sequences that are joined is a prefix of the result.   *)
LEMMA PrefixOfCat ==
  ASSUME NEW D, NEW s \in Seq(D), NEW t \in Seq(D)
  PROVE  IsPrefix(s, Cat(s, t))
<1> DEFINE u == Cat(s, t)
<1>1. /\ Len(u) = Len(s) + Len(t)
      /\ \A i \in 1..Len(s) : u[i] = s[i]
  BY CatShape
<1>2. u \in Seq(D) BY CatType
<1>3. Len(s) \in Nat /\ Len(t) \in Nat OBVIOUS
<1> HIDE DEF u
<1>4. SubSeq(s, 1, Len(s)) = SubSeq(u, 1, Len(s)) BY <1>1, <1>2, <1>3
<1>5. Len(s) =< Len(u) BY <1>1, <1>3
<1>6. IsPrefix(s, u) BY <1>4, <1>5 DEF IsPrefix
<1> QED BY <1>6 DEF u
=============================================================================
