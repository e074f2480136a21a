-------------------------- MODULE Attention_proofs --------------------------
(***************************************************************************)
(* Facts about DraftTrees and Attention, for any tokens and any bounds, on *)
(* which the proofs about the worker rest.                                 *)
(*                                                                         *)
(* The first part is about query layouts and pages: whatever runs along    *)
(* the parents of a layout has one value (AlongParents), and so a query    *)
(* sees itself and what its parent sees (SeenShape, AllKnown).             *)
(*                                                                         *)
(* The second is about the N-gram proposers.  The chain is the latest      *)
(* continuation of the matched suffix.  For the trie: its best nodes, in   *)
(* the order in which they were chosen, hang together (Picked): the order  *)
(* that append_subtree gives them is a strict total one (OrderStrict,      *)
(* OrderTotal, OrderTransitive), so that Flatten is that order; in it each *)
(* node's parent is the node before or one of its ancestors                *)
(* (NodesConsecutive).  That makes the trie a tree whose paths are chosen  *)
(* nodes, and these are continuations (TrieHistoric).                      *)
(***************************************************************************)
EXTENDS Attention, DataLemmas, TLAPS

(* The first n elements of a sequence.                                     *)
Upto(s, n) == SubSeq(s, 1, n)

(* Type, length and elements of a beginning.                               *)
LEMMA UptoShape ==
  ASSUME NEW D, NEW s \in Seq(D), NEW n \in 0 .. Len(s)
  PROVE  /\ Upto(s, n) \in Seq(D) /\ Len(Upto(s, n)) = n
         /\ \A i \in 1 .. n : Upto(s, n)[i] = s[i]
  BY DEF Upto

(* The whole sequence and the empty one.                                   *)
LEMMA UptoEnds ==
  ASSUME NEW D, NEW s \in Seq(D) PROVE Upto(s, Len(s)) = s /\ Upto(s, 0) = <<>>
<1>1. Len(s) \in 0 .. Len(s) /\ 0 \in 0 .. Len(s) OBVIOUS
<1>2. /\ Upto(s, Len(s)) \in Seq(D) /\ Len(Upto(s, Len(s))) = Len(s)
      /\ \A i \in 1 .. Len(s) : Upto(s, Len(s))[i] = s[i]
      /\ Upto(s, 0) \in Seq(D) /\ Len(Upto(s, 0)) = 0
  BY <1>1, UptoShape
<1>3. Upto(s, Len(s)) = s BY <1>2, SeqEqual
<1>4. Upto(s, 0) = <<>> BY <1>2, EmptySeq
<1> QED BY <1>3, <1>4

(* The beginning of a beginning.                                           *)
LEMMA UptoUpto ==
  ASSUME NEW D, NEW s \in Seq(D), NEW n \in 0 .. Len(s), NEW m \in 0 .. n
  PROVE  Upto(Upto(s, n), m) = Upto(s, m)
<1> DEFINE t == Upto(s, n)
<1>1. t \in Seq(D) /\ Len(t) = n /\ \A i \in 1 .. n : t[i] = s[i] BY UptoShape
<1>2. Len(s) \in Nat /\ n \in Nat /\ m \in 0 .. Len(s) OBVIOUS
<1> HIDE DEF t
<1>3. m \in 0 .. Len(t) BY <1>1
<1>4. Upto(t, m) \in Seq(D) /\ Len(Upto(t, m)) = m /\ \A i \in 1 .. m : Upto(t, m)[i] = t[i]
  BY <1>1, <1>3, UptoShape
<1>5. Upto(s, m) \in Seq(D) /\ Len(Upto(s, m)) = m /\ \A i \in 1 .. m : Upto(s, m)[i] = s[i]
  BY <1>2, UptoShape
<1>6. \A i \in 1 .. m : Upto(t, m)[i] = Upto(s, m)[i] BY <1>1, <1>2, <1>4, <1>5
<1>7. Upto(t, m) = Upto(s, m) BY <1>4, <1>5, <1>6, SeqEqual
<1> QED BY <1>7 DEF t

(* Sequences that agree up to n.                                           *)
LEMMA UptoEqual ==
  ASSUME NEW D, NEW s \in Seq(D), NEW t \in Seq(D), NEW n \in Nat,
         n <= Len(s), n <= Len(t), \A i \in 1 .. n : s[i] = t[i]
  PROVE  Upto(s, n) = Upto(t, n)
<1>1. n \in 0 .. Len(s) /\ n \in 0 .. Len(t) OBVIOUS
<1>2. Upto(s, n) \in Seq(D) /\ Len(Upto(s, n)) = n /\ \A i \in 1 .. n : Upto(s, n)[i] = s[i]
  BY <1>1, UptoShape
<1>3. Upto(t, n) \in Seq(D) /\ Len(Upto(t, n)) = n /\ \A i \in 1 .. n : Upto(t, n)[i] = t[i]
  BY <1>1, UptoShape
<1>4. \A i \in 1 .. n : Upto(s, n)[i] = Upto(t, n)[i] BY <1>2, <1>3
<1> QED BY <1>2, <1>3, <1>4, SeqEqual

(* An element at the end.                                                  *)
LEMMA UptoAppend ==
  ASSUME NEW D, NEW s \in Seq(D), NEW x \in D
  PROVE  /\ Append(s, x) \in Seq(D) /\ Len(Append(s, x)) = Len(s) + 1
         /\ Append(s, x)[Len(s) + 1] = x /\ \A i \in 1 .. Len(s) : Append(s, x)[i] = s[i]
         /\ \A n \in 0 .. Len(s) : Upto(Append(s, x), n) = Upto(s, n)
         /\ Upto(Append(s, x), Len(s) + 1) = Append(s, x)
<1> DEFINE t == Append(s, x)
<1>1. /\ t \in Seq(D) /\ Len(t) = Len(s) + 1 /\ t[Len(s) + 1] = x
      /\ \A i \in 1 .. Len(s) : t[i] = s[i]
  BY AppendProperties
<1> HIDE DEF t
<1>2. Len(s) \in Nat OBVIOUS
<1>3. ASSUME NEW n \in 0 .. Len(s) PROVE Upto(t, n) = Upto(s, n)
  <2>1. n \in Nat /\ n <= Len(s) /\ n <= Len(t) /\ \A i \in 1 .. n : t[i] = s[i] BY <1>1, <1>2
  <2> QED BY <1>1, <2>1, UptoEqual
<1>4. Upto(t, Len(s) + 1) = t BY <1>1, UptoEnds
<1> QED BY <1>1, <1>3, <1>4 DEF t

(* A beginning and its next element.                                       *)
LEMMA UptoNext ==
  ASSUME NEW D, NEW s \in Seq(D), NEW n \in Nat, n < Len(s)
  PROVE  Upto(s, n + 1) = Append(Upto(s, n), s[n + 1]) /\ s[n + 1] \in D
<1>1. n \in 0 .. Len(s) /\ n + 1 \in 0 .. Len(s) /\ s[n + 1] \in D OBVIOUS
<1> DEFINE a == Upto(s, n)
           b == Upto(s, n + 1)
           c == Append(a, s[n + 1])
<1>2. a \in Seq(D) /\ Len(a) = n /\ \A i \in 1 .. n : a[i] = s[i] BY <1>1, UptoShape
<1>3. b \in Seq(D) /\ Len(b) = n + 1 /\ \A i \in 1 .. n + 1 : b[i] = s[i] BY <1>1, UptoShape
<1> HIDE DEF a, b
<1>4. c \in Seq(D) /\ Len(c) = n + 1 /\ c[n + 1] = s[n + 1] /\ \A i \in 1 .. n : c[i] = a[i]
  BY <1>1, <1>2, AppendProperties
<1> HIDE DEF c
<1>5. \A i \in 1 .. n + 1 : b[i] = c[i] BY <1>2, <1>3, <1>4
<1>6. b = c BY <1>3, <1>4, <1>5, SeqEqual
<1> QED BY <1>1, <1>6 DEF a, b, c

(* The beginnings of two sequences that are joined.                        *)
LEMMA UptoCat ==
  ASSUME NEW D, NEW s \in Seq(D), NEW t \in Seq(D)
  PROVE  /\ \A n \in 0 .. Len(s) : Upto(Cat(s, t), n) = Upto(s, n)
         /\ \A k \in 0 .. Len(t) : Upto(Cat(s, t), Len(s) + k) = Cat(s, Upto(t, k))
<1> DEFINE u == Cat(s, t)
<1>0. u \in Seq(D) BY CatType
<1>1. /\ Len(u) = Len(s) + Len(t)
      /\ \A i \in 1 .. Len(s) : u[i] = s[i]
      /\ \A i \in 1 .. Len(t) : u[Len(s) + i] = t[i]
  BY CatShape
<1>2. Len(s) \in Nat /\ Len(t) \in Nat OBVIOUS
<1> HIDE DEF u
<1>3. ASSUME NEW n \in 0 .. Len(s) PROVE Upto(u, n) = Upto(s, n)
  <2>0. n \in Nat /\ n <= Len(s) /\ n <= Len(s) + Len(t) BY <1>2
  <2>1. n \in Nat /\ n <= Len(s) /\ n <= Len(u)
    BY <1>1, <2>0
  <2>2. ASSUME NEW i \in 1 .. n PROVE u[i] = s[i]
    <3>1. i \in 1 .. Len(s) BY <1>2
    <3> QED BY <1>1, <3>1
  <2> QED BY <1>0, <1>1, <2>1, <2>2, UptoEqual
<1>4. ASSUME NEW k \in 0 .. Len(t) PROVE Upto(u, Len(s) + k) = Cat(s, Upto(t, k))
  <2> DEFINE v == Upto(t, k)
             w == Cat(s, v)
             N == Len(s) + k
  <2>1. v \in Seq(D) /\ Len(v) = k /\ \A i \in 1 .. k : v[i] = t[i] BY UptoShape
  <2> HIDE DEF v
  <2>0. w \in Seq(D) BY <2>1, CatType
  <2>2. /\ Len(w) = Len(s) + k
        /\ \A i \in 1 .. Len(s) : w[i] = s[i]
        /\ \A i \in 1 .. k : w[Len(s) + i] = v[i]
    <3>0. v \in Seq(D) BY <2>1
    <3>1. /\ Len(w) = Len(s) + Len(v)
          /\ \A i \in 1 .. Len(s) : w[i] = s[i]
          /\ \A i \in 1 .. Len(v) : w[Len(s) + i] = v[i]
      BY <3>0, CatShape
    <3> QED BY <2>1, <3>1
  <2> HIDE DEF w
  <2>3. N \in Nat /\ N <= Len(u) /\ N <= Len(w) BY <1>1, <1>2, <2>2
  <2>4. ASSUME NEW i \in 1 .. N PROVE u[i] = w[i]
    <3>1. CASE i \in 1 .. Len(s) BY <1>1, <2>2, <3>1
    <3>2. CASE i \notin 1 .. Len(s)
      <4>1. i - Len(s) \in 1 .. k /\ i - Len(s) \in 1 .. Len(t) /\ Len(s) + (i - Len(s)) = i
        BY <1>2, <3>2
      <4> QED BY <1>1, <2>1, <2>2, <4>1, ZenonT(30)
    <3> QED BY <3>1, <3>2
  <2>5. Upto(u, N) = Upto(w, N)
    <3> HIDE DEF N
    <3> QED BY <1>0, <2>0, <2>3, <2>4, UptoEqual
  <2>6. Upto(w, N) = w BY <2>0, <2>2, UptoEnds
  <2> QED BY <2>5, <2>6 DEF v, w
<1> QED BY <1>3, <1>4 DEF u

(* A number is its multiple of the page size and a rest.                   *)
LEMMA Split ==
  ASSUME NEW B \in Nat \ {0}, NEW a \in Nat
  PROVE  /\ a \div B \in Nat /\ a % B \in 0 .. B - 1
         /\ a = (a \div B) * B + (a % B)
         /\ (a \div B) * B <= a
  OBVIOUS

(* Division keeps the order.                                               *)
LEMMA DivOrder ==
  ASSUME NEW B \in Nat \ {0}, NEW a \in Nat, NEW b \in Nat, a <= b
  PROVE  a \div B <= b \div B
<1> DEFINE m == a \div B
           n == b \div B
<1>1. m \in Nat /\ n \in Nat /\ m * B <= a /\ b = n * B + (b % B) /\ b % B \in 0 .. B - 1
  BY Split
<1> HIDE DEF m, n
<1>2. m * B < n * B + B
  <2>1. m * B \in Nat /\ n * B \in Nat BY <1>1, Multiples
  <2> DEFINE x == m * B
             y == n * B
  <2> HIDE DEF x, y
  <2>2. x \in Nat /\ y \in Nat /\ x <= a /\ b = y + (b % B) BY <1>1, <2>1 DEF x, y
  <2>3. x < y + B BY <1>1, <2>2
  <2> QED BY <2>3 DEF x, y
<1>3. m <= n BY <1>1, <1>2, Multiples
<1> QED BY <1>3 DEF m, n

(* The page of a position below n is one of the pages of n positions.      *)
LEMMA PageOf ==
  ASSUME NEW a \in Nat, NEW n \in Nat, a < n
  PROVE  a \div BlockSize \in Nat /\ a \div BlockSize + 1 \in 1 .. Pages(n) /\ Pages(n) \in Nat
<1> DEFINE B == BlockSize
<1>1. B \in Nat \ {0} BY AttentionAssumption
<1> HIDE DEF B
<1>2. a \div B \in Nat /\ (n - 1) \div B \in Nat /\ (n + B - 1) \div B \in Nat
  BY <1>1, Split
<1>3. a \div B <= (n - 1) \div B
  <2>1. n - 1 \in Nat /\ a <= n - 1 OBVIOUS
  <2> QED BY <1>1, <2>1, DivOrder
<1>4. (n + B - 1) \div B = (n - 1) \div B + 1
  <2> DEFINE m == (n - 1) \div B
             i == (n - 1) % B
  <2>1. n - 1 \in Nat OBVIOUS
  <2>2. m \in Nat /\ i \in 0 .. B - 1 /\ n - 1 = m * B + i BY <1>1, <2>1, Split
  <2> HIDE DEF m, i
  <2>3. (m + 1) * B = m * B + B BY <1>1, <2>2
  <2>4. ((m + 1) * B + i) \div B = m + 1
    <3>1. m + 1 \in Nat BY <2>2
    <3> QED BY <1>1, <2>2, <3>1, Multiples
  <2>5. m * B \in Nat BY <1>1, <2>2, Multiples
  <2>6. n + B - 1 = (m + 1) * B + i
    <3> DEFINE x == m * B
    <3> HIDE DEF x
    <3>1. x \in Nat /\ n - 1 = x + i /\ (m + 1) * B = x + B BY <2>2, <2>3, <2>5 DEF x
    <3>2. n + B - 1 = x + B + i BY <1>1, <2>2, <3>1
    <3> QED BY <3>1, <3>2
  <2> QED BY <2>4, <2>6 DEF m
<1> QED BY <1>2, <1>3, <1>4 DEF Pages, B

(* A position behind the read-only pages lies on none of them.             *)
LEMMA PageBehind ==
  ASSUME NEW k \in Nat \ {0}, NEW a \in Nat, k * BlockSize <= a
  PROVE  a \div BlockSize >= 1
<1> DEFINE B == BlockSize
<1>1. B \in Nat \ {0} BY AttentionAssumption
<1> HIDE DEF B
<1>2. 1 * B <= k * B /\ k * B \in Nat BY <1>1, Multiples
<1>3. B <= a BY <1>1, <1>2 DEF B
<1>4. (1 * B + 0) \div B = 1 BY <1>1, Multiples
<1>5. B \div B = 1 BY <1>1, <1>4
<1>6. B \div B <= a \div B BY <1>1, <1>3, DivOrder
<1>7. a \div B \in Nat BY <1>1, Split
<1> QED BY <1>5, <1>6, <1>7 DEF B

(* Positions on one page with one offset are the same.                     *)
LEMMA SamePosition ==
  ASSUME NEW a \in Nat, NEW b \in Nat,
         a \div BlockSize = b \div BlockSize, a % BlockSize = b % BlockSize
  PROVE  a = b
<1>1. BlockSize \in Nat \ {0} BY AttentionAssumption
<1>2. a = (a \div BlockSize) * BlockSize + (a % BlockSize) BY <1>1, Split
<1>3. b = (b \div BlockSize) * BlockSize + (b % BlockSize) BY <1>1, Split
<1> QED BY <1>2, <1>3

(* The pages of fewer positions are fewer.                                 *)
LEMMA PagesOrder ==
  ASSUME NEW m \in Nat, NEW n \in Nat, m <= n
  PROVE  Pages(m) <= Pages(n) /\ Pages(m) \in Nat /\ Pages(n) \in Nat
<1>1. BlockSize \in Nat \ {0} BY AttentionAssumption
<1>2. m + BlockSize - 1 \in Nat /\ n + BlockSize - 1 \in Nat
      /\ m + BlockSize - 1 <= n + BlockSize - 1 BY <1>1
<1>3. (m + BlockSize - 1) \div BlockSize \in Nat /\ (n + BlockSize - 1) \div BlockSize \in Nat
  BY <1>1, <1>2, Split
<1> QED BY <1>1, <1>2, <1>3, DivOrder DEF Pages

-----------------------------------------------------------------------------
(* A recursion along the parents of the numbers 1 to n: each has a smaller *)
(* parent, 0 stands for none.  R gives the value at a number from the value*)
(* at its parent.                                                          *)
Parents(l, n) == \A q \in 1 .. n : l[q] \in 0 .. q - 1
Rule(R, n, V) == \A q \in 1 .. n : \A v \in V : R[<<q, v>>] \in V
Along(l, n, R, base, f) == f[0] = base /\ \A q \in 1 .. n : f[q] = R[<<q, f[l[q]]>>]

(* Its values exist and are of the rule's type.                            *)
LEMMA AlongParents ==
  ASSUME NEW N \in Nat, NEW l, NEW V, NEW R, NEW base \in V, Parents(l, N), Rule(R, N, V)
  PROVE  \E f \in [0 .. N -> V] : Along(l, N, R, base, f)
<1> DEFINE B == { n \in Nat : n <= N => \E f \in [0 .. n -> V] : Along(l, n, R, base, f) }
<1>1. 0 \in B
  <2> DEFINE f == [i \in 0 .. 0 |-> base]
  <2>1. f \in [0 .. 0 -> V] OBVIOUS
  <2>2. Along(l, 0, R, base, f) BY DEF Along
  <2> QED BY <2>1, <2>2
<1>2. ASSUME NEW n \in Nat, n \in B PROVE n + 1 \in B
  <2> SUFFICES ASSUME n + 1 <= N
               PROVE  \E f \in [0 .. n + 1 -> V] : Along(l, n + 1, R, base, f)
    OBVIOUS
  <2>1. PICK f \in [0 .. n -> V] : Along(l, n, R, base, f) BY <1>2
  <2>2. l[n + 1] \in 0 .. n
    <3>1. n + 1 \in 1 .. N OBVIOUS
    <3>2. l[n + 1] \in 0 .. (n + 1) - 1 BY <3>1 DEF Parents
    <3> QED BY <3>2
  <2> DEFINE v == f[l[n + 1]]
             x == R[<<n + 1, v>>]
             g == [i \in 0 .. n + 1 |-> IF i = n + 1 THEN x ELSE f[i]]
  <2>3. v \in V BY <2>1, <2>2
  <2>4. x \in V
    <3> HIDE DEF v
    <3>1. n + 1 \in 1 .. N OBVIOUS
    <3> QED BY <2>3, <3>1 DEF Rule
  <2> HIDE DEF x
  <2>5. g \in [0 .. n + 1 -> V] BY <2>1, <2>4
  <2>6. \A i \in 0 .. n : g[i] = f[i] OBVIOUS
  <2>7. g[n + 1] = x OBVIOUS
  <2> HIDE DEF g
  <2>8. ASSUME NEW q \in 1 .. n + 1 PROVE g[q] = R[<<q, g[l[q]]>>]
    <3>1. CASE q = n + 1
      <4>1. g[l[q]] = v BY <2>2, <2>6, <3>1
      <4> QED BY <2>7, <3>1, <4>1 DEF x
    <3>2. CASE q # n + 1
      <4>1. q \in 1 .. n /\ q \in 1 .. N BY <3>2
      <4>2. l[q] \in 0 .. q - 1 BY <4>1 DEF Parents
      <4>3. l[q] \in 0 .. n BY <4>1, <4>2
      <4>4. f[q] = R[<<q, f[l[q]]>>] BY <2>1, <4>1 DEF Along
      <4> QED BY <2>6, <4>1, <4>3, <4>4
    <3> QED BY <3>1, <3>2
  <2>9. g[0] = base BY <2>1, <2>6 DEF Along
  <2>10. Along(l, n + 1, R, base, g) BY <2>8, <2>9 DEF Along
  <2> QED BY <2>5, <2>10
<1>3. \A n \in Nat : n \in B
  <2> HIDE DEF B
  <2> QED BY <1>1, <1>2, Induct
<1> QED BY <1>3

(* The largest of finitely many numbers.                                   *)
LEMMA LargestValue ==
  \A n \in Nat : \A f : (\A i \in 1 .. n + 1 : f[i] \in Int) =>
    \E i \in 1 .. n + 1 : \A j \in 1 .. n + 1 : f[j] <= f[i]
<1> DEFINE B == { n \in Nat : \A f : (\A i \in 1 .. n + 1 : f[i] \in Int) =>
                   \E i \in 1 .. n + 1 : \A j \in 1 .. n + 1 : f[j] <= f[i] }
<1>1. 0 \in B
  <2> SUFFICES ASSUME NEW f, \A i \in 1 .. 0 + 1 : f[i] \in Int
               PROVE  \E i \in 1 .. 0 + 1 : \A j \in 1 .. 0 + 1 : f[j] <= f[i]
    OBVIOUS
  <2>1. 1 \in 1 .. 0 + 1 /\ \A j \in 1 .. 0 + 1 : j = 1 OBVIOUS
  <2> QED BY <2>1
<1>2. ASSUME NEW n \in Nat, n \in B PROVE n + 1 \in B
  <2> SUFFICES ASSUME NEW f, \A i \in 1 .. (n + 1) + 1 : f[i] \in Int
               PROVE  \E i \in 1 .. (n + 1) + 1 : \A j \in 1 .. (n + 1) + 1 : f[j] <= f[i]
    OBVIOUS
  <2>1. PICK i \in 1 .. n + 1 : \A j \in 1 .. n + 1 : f[j] <= f[i]
    <3>1. \A k \in 1 .. n + 1 : f[k] \in Int OBVIOUS
    <3> QED BY <1>2, <3>1
  <2>2. i \in 1 .. (n + 1) + 1 /\ n + 2 \in 1 .. (n + 1) + 1 OBVIOUS
  <2>3. \A j \in 1 .. (n + 1) + 1 : j \in 1 .. n + 1 \/ j = n + 2 OBVIOUS
  <2>4. f[i] \in Int /\ f[n + 2] \in Int BY <2>2
  <2>5. CASE f[n + 2] <= f[i] BY <2>1, <2>2, <2>3, <2>5
  <2>6. CASE ~(f[n + 2] <= f[i])
    <3>1. \A j \in 1 .. n + 1 : f[j] <= f[n + 2]
      <4> TAKE j \in 1 .. n + 1
      <4>1. f[j] \in Int /\ f[j] <= f[i] BY <2>1
      <4> QED BY <2>4, <2>6, <4>1
    <3>2. f[n + 2] <= f[n + 2] BY <2>4
    <3> QED BY <2>2, <2>3, <3>1, <3>2
  <2> QED BY <2>5, <2>6
<1>3. \A n \in Nat : n \in B
  <2> HIDE DEF B
  <2> QED BY <1>1, <1>2, Induct
<1> QED BY <1>3

(* A finite set of numbers has a largest.                                  *)
LEMMA MaxOf ==
  ASSUME NEW S, IsFiniteSet(S), S # {}, \A x \in S : x \in Int
  PROVE  Max(S) \in S /\ \A x \in S : x <= Max(S)
<1>1. PICK n \in Nat : ExistsBijection(1 .. n, S) BY FS_NatBijection
<1>2. PICK f : f \in Bijection(1 .. n, S) BY <1>1 DEF ExistsBijection
<1>3. f \in [1 .. n -> S] /\ \A x \in S : \E i \in 1 .. n : f[i] = x
  BY <1>2 DEF Bijection, Injection, Surjection
<1>4. n # 0 BY <1>3
<1>5. n - 1 \in Nat /\ (n - 1) + 1 = n BY <1>4
<1>6. \A i \in 1 .. n : f[i] \in Int BY <1>3
<1>7. PICK i \in 1 .. n : \A j \in 1 .. n : f[j] <= f[i]
  <2>1. (\A k \in 1 .. (n - 1) + 1 : f[k] \in Int) =>
          \E k \in 1 .. (n - 1) + 1 : \A j \in 1 .. (n - 1) + 1 : f[j] <= f[k]
    BY <1>5, LargestValue
  <2> QED BY <1>5, <1>6, <2>1
<1>8. f[i] \in S /\ \A x \in S : x <= f[i] BY <1>3, <1>7
<1>9. \A x \in S : f[i] >= x BY <1>3, <1>6, <1>8
<1>10. \E m \in S : \A x \in S : m >= x BY <1>8, <1>9
<1>11. Max(S) \in S /\ \A x \in S : Max(S) >= x BY <1>10 DEF Max
<1> QED BY <1>11

(* A set of numbers that is not empty has a smallest.                      *)
LEMMA MinOf ==
  ASSUME NEW S \in SUBSET Nat, S # {}
  PROVE  Min(S) \in S /\ \A x \in S : Min(S) <= x
<1>1. \E m \in S : \A x \in S : m <= x BY Smallest
<1> QED BY <1>1 DEF Min

(* The layout of a step: the input is a chain, the draft hangs below it.   *)
LEMMA LayoutShape ==
  ASSUME NEW n \in Nat \ {0}, NEW tree, IsTree(tree), NEW l, l = DraftLayout(n, tree)
  PROVE  /\ Size(tree) \in Nat /\ n + Size(tree) \in Nat
         /\ DOMAIN l = 1 .. n + Size(tree) /\ Len(l) = n + Size(tree)
         /\ \A q \in 1 .. n : l[q] = q - 1
         /\ \A i \in 1 .. Size(tree) : l[n + i] = n + tree.parents[i]
                                       /\ tree.parents[i] \in 0 .. i - 1
         /\ Parents(l, n + Size(tree))
<1> DEFINE S == Size(tree)
           a == LinearLayout(n)
           b == [i \in 1 .. S |-> n + tree.parents[i]]
<1>1. S \in Nat /\ \A i \in 1 .. S : tree.parents[i] \in 0 .. i - 1 BY SMTT(30) DEF IsTree, Size
<1> HIDE DEF S
<1>2. a \in Seq(Nat) /\ Len(a) = n /\ \A q \in 1 .. n : a[q] = q - 1 BY DEF LinearLayout
<1>3. \A i \in 1 .. S : n + tree.parents[i] \in Nat BY <1>1
<1>4. b \in Seq(Nat) /\ Len(b) = S /\ \A i \in 1 .. S : b[i] = n + tree.parents[i] BY <1>1, <1>3
<1>5. l = a \o b BY DEF DraftLayout, S
<1> HIDE DEF a, b
<1>6. l = Cat(a, b) BY <1>5 DEF Cat
<1>7. /\ Len(l) = Len(a) + Len(b) /\ DOMAIN l = 1 .. (Len(a) + Len(b))
      /\ \A i \in 1 .. Len(a) : l[i] = a[i]
      /\ \A i \in 1 .. Len(b) : l[Len(a) + i] = b[i]
  <2>1. a \in Seq(Nat) /\ b \in Seq(Nat) BY <1>2, <1>4
  <2>2. PICK s \in Seq(Nat), t \in Seq(Nat) : s = a /\ t = b BY <2>1
  <2>3. Len(Cat(s, t)) = Len(s) + Len(t) /\ DOMAIN Cat(s, t) = 1 .. (Len(s) + Len(t))
    BY CatShape
  <2>4. /\ \A i \in 1 .. Len(s) : Cat(s, t)[i] = s[i]
        /\ \A i \in 1 .. Len(t) : Cat(s, t)[Len(s) + i] = t[i]
    BY CatShape
  <2>5. l = Cat(s, t) BY <1>6, <2>2
  <2> QED BY <2>2, <2>3, <2>4, <2>5, Zenon
<1>8. /\ Len(l) = n + S /\ DOMAIN l = 1 .. n + S
      /\ \A q \in 1 .. n : l[q] = q - 1
      /\ \A i \in 1 .. S : l[n + i] = n + tree.parents[i]
  BY <1>2, <1>4, <1>7
<1>9. ASSUME NEW q \in 1 .. n + S PROVE l[q] \in 0 .. q - 1
  <2>1. CASE q \in 1 .. n BY <1>8, <2>1
  <2>2. CASE q \notin 1 .. n
    <3>1. q - n \in 1 .. S /\ n + (q - n) = q BY <1>1, <2>2
    <3>2. l[q] = n + tree.parents[q - n] /\ tree.parents[q - n] \in 0 .. (q - n) - 1
      BY <1>1, <1>8, <3>1
    <3> QED BY <3>1, <3>2
  <2> QED BY <2>1, <2>2
<1>10. Parents(l, n + S) BY <1>9 DEF Parents
<1> QED BY <1>1, <1>8, <1>10 DEF S

(* What grows along the parents: what a query sees, its text, its position.*)
Grown(l, N, base, tok, seen, text, pos) ==
  /\ N \in Nat /\ Parents(l, N) /\ base \in Seq(Nat)
  /\ \A q \in 1 .. N :
       /\ tok[q] \in Nat
       /\ seen[q] = {q} \union IF l[q] = 0 THEN {} ELSE seen[l[q]]
       /\ text[q] = Append(IF l[q] = 0 THEN base ELSE text[l[q]], tok[q])
       /\ pos[q] = IF l[q] = 0 THEN Len(base) ELSE pos[l[q]] + 1

(* A query sees exactly the queries of its own text: one for each token    *)
(* after the base.                                                         *)
Known(base, seen, text, pos, q) ==
  /\ q \in seen[q] /\ \A k \in seen[q] : k \in 1 .. q
  /\ text[q] \in Seq(Nat) /\ Len(base) < Len(text[q])
  /\ \A k \in seen[q] : /\ Len(text[k]) \in Nat
                        /\ Len(base) < Len(text[k]) /\ Len(text[k]) <= Len(text[q])
                        /\ text[k] = Upto(text[q], Len(text[k]))
  /\ \A n \in Len(base) + 1 .. Len(text[q]) : \E k \in seen[q] : Len(text[k]) = n
  /\ \A k, j \in seen[q] : Len(text[k]) = Len(text[j]) => k = j
  /\ \A n \in 0 .. Len(base) : Upto(text[q], n) = Upto(base, n)
  /\ pos[q] = Len(text[q]) - 1

(* A query without a parent.                                               *)
LEMMA KnownRoot ==
  ASSUME NEW l, NEW N, NEW base, NEW tok, NEW seen, NEW text, NEW pos, NEW q,
         Grown(l, N, base, tok, seen, text, pos), q \in 1 .. N, l[q] = 0
  PROVE  Known(base, seen, text, pos, q)
<1> DEFINE t == text[q]
<1>1. base \in Seq(Nat) /\ q \in Nat /\ 1 <= q /\ Len(base) \in Nat BY DEF Grown
<1>2. seen[q] = {q} BY DEF Grown
<1>3. t = Append(base, tok[q]) /\ tok[q] \in Nat /\ pos[q] = Len(base) BY DEF Grown
<1>4. /\ t \in Seq(Nat) /\ Len(t) = Len(base) + 1
      /\ \A n \in 0 .. Len(base) : Upto(t, n) = Upto(base, n)
      /\ Upto(t, Len(base) + 1) = t
  BY <1>1, <1>3, UptoAppend
<1>5. Len(base) < Len(t) /\ Len(t) \in Nat /\ Len(t) <= Len(t) BY <1>1, <1>4
<1>6. Upto(t, Len(t)) = t BY <1>4
<1>7. \A n \in Len(base) + 1 .. Len(t) : Len(t) = n BY <1>1, <1>4
<1>8. pos[q] = Len(t) - 1 BY <1>1, <1>3, <1>4
<1>9. q \in 1 .. q BY <1>1
<1>10. q \in seen[q] /\ \A k \in seen[q] : k = q BY <1>2
<1> QED BY <1>4, <1>5, <1>6, <1>7, <1>8, <1>9, <1>10 DEF Known

(* A query below another.                                                  *)
LEMMA KnownBelow ==
  ASSUME NEW l, NEW N, NEW base, NEW tok, NEW seen, NEW text, NEW pos, NEW q, NEW p,
         Grown(l, N, base, tok, seen, text, pos), q \in 1 .. N, l[q] = p, p # 0,
         Known(base, seen, text, pos, p)
  PROVE  Known(base, seen, text, pos, q)
<1> DEFINE t == text[q]
           u == text[p]
<1>1. q \in Nat /\ 1 <= q /\ p \in 1 .. q - 1
  <2>1. q \in 1 .. N /\ N \in Nat /\ l[q] \in 0 .. q - 1 BY DEF Grown, Parents
  <2> QED BY <2>1
<1>1a. base \in Seq(Nat) /\ Len(base) \in Nat BY DEF Grown
<1>2. seen[q] = {q} \union seen[p] BY <1>1 DEF Grown
<1>3. t = Append(u, tok[q]) /\ tok[q] \in Nat /\ pos[q] = pos[p] + 1 BY <1>1 DEF Grown
<1>4. u \in Seq(Nat) /\ Len(base) < Len(u) /\ Len(u) \in Nat BY DEF Known
<1>5. /\ t \in Seq(Nat) /\ Len(t) = Len(u) + 1
      /\ \A n \in 0 .. Len(u) : Upto(t, n) = Upto(u, n)
      /\ Upto(t, Len(u) + 1) = t
  BY <1>3, <1>4, UptoAppend, SMTT(30)
<1>6. Len(t) \in Nat /\ Len(base) < Len(t) /\ Len(t) <= Len(t) /\ Upto(t, Len(t)) = t
  BY <1>1a, <1>4, <1>5, SMTT(30)
<1>7. \A k \in seen[p] : /\ Len(text[k]) \in Nat /\ Len(base) < Len(text[k])
                         /\ Len(text[k]) <= Len(u) /\ text[k] = Upto(u, Len(text[k]))
                         /\ k \in 1 .. p
  BY DEF Known
<1>8. q \in seen[q] /\ \A k \in seen[q] : k = q \/ k \in seen[p] BY <1>2
<1>9. \A k \in seen[q] : k \in 1 .. q
  <2> TAKE k \in seen[q]
  <2>1. CASE k = q BY <1>1, <2>1
  <2>2. CASE k \in seen[p]
    <3>1. k \in 1 .. p BY <1>7, <2>2
    <3> QED BY <1>1, <3>1
  <2> QED BY <1>8, <2>1, <2>2
<1>10. ASSUME NEW k \in seen[q]
       PROVE  /\ Len(text[k]) \in Nat
              /\ Len(base) < Len(text[k]) /\ Len(text[k]) <= Len(t)
              /\ text[k] = Upto(t, Len(text[k]))
  <2>1. CASE k = q BY <1>6, <2>1
  <2>2. CASE k \in seen[p]
    <3>1. /\ Len(text[k]) \in Nat /\ Len(base) < Len(text[k])
          /\ Len(text[k]) <= Len(u) /\ text[k] = Upto(u, Len(text[k]))
      BY <1>7, <2>2
    <3>2. Len(text[k]) \in 0 .. Len(u) /\ Len(text[k]) <= Len(t) BY <1>4, <1>5, <3>1
    <3>3. Upto(t, Len(text[k])) = Upto(u, Len(text[k])) BY <1>5, <3>2
    <3> QED BY <3>1, <3>2, <3>3
  <2> QED BY <1>8, <2>1, <2>2
<1>11. ASSUME NEW n \in Len(base) + 1 .. Len(t) PROVE \E k \in seen[q] : Len(text[k]) = n
  <2>1. CASE n = Len(t) BY <1>8, <2>1
  <2>2. CASE n # Len(t)
    <3>1. n \in Len(base) + 1 .. Len(u) BY <1>1a, <1>4, <1>5, <2>2
    <3>2. PICK k \in seen[p] : Len(text[k]) = n BY <3>1 DEF Known
    <3> QED BY <1>2, <3>2
  <2> QED BY <2>1, <2>2
<1>12. ASSUME NEW k \in seen[q], NEW j \in seen[q], Len(text[k]) = Len(text[j]) PROVE k = j
  <2>1. \A i \in seen[p] : Len(text[i]) # Len(t)
    <3> TAKE i \in seen[p]
    <3>1. Len(text[i]) \in Nat /\ Len(text[i]) <= Len(u) BY <1>7
    <3> QED BY <1>4, <1>5, <3>1
  <2>2. CASE k \in seen[p] /\ j \in seen[p] BY <1>12, <2>2 DEF Known
  <2>3. CASE ~(k \in seen[p] /\ j \in seen[p]) BY <1>8, <1>12, <2>1, <2>3
  <2> QED BY <2>2, <2>3
<1>13. ASSUME NEW n \in 0 .. Len(base) PROVE Upto(t, n) = Upto(base, n)
  <2>1. n \in 0 .. Len(u) BY <1>1a, <1>4
  <2>2. Upto(u, n) = Upto(base, n) BY DEF Known
  <2> QED BY <1>5, <2>1, <2>2
<1>14. pos[q] = Len(t) - 1
  <2>1. pos[p] = Len(u) - 1 BY DEF Known
  <2> QED BY <1>3, <1>4, <1>5, <2>1
<1> HIDE DEF u
<1> QED BY <1>5, <1>6, <1>8, <1>9, <1>10, <1>11, <1>12, <1>13, <1>14 DEF Known

(* So it is for all queries.                                               *)
LEMMA AllKnown ==
  ASSUME NEW l, NEW N, NEW base, NEW tok, NEW seen, NEW text, NEW pos,
         Grown(l, N, base, tok, seen, text, pos)
  PROVE  \A q \in 1 .. N : Known(base, seen, text, pos, q)
<1> DEFINE B == { n \in Nat : \A q \in 1 .. N : q <= n => Known(base, seen, text, pos, q) }
<1>0. N \in Nat /\ Parents(l, N) BY DEF Grown
<1>1. 0 \in B BY <1>0
<1>2. ASSUME NEW n \in Nat, n \in B PROVE n + 1 \in B
  <2> SUFFICES ASSUME NEW q \in 1 .. N, q <= n + 1 PROVE Known(base, seen, text, pos, q)
    OBVIOUS
  <2>1. l[q] \in 0 .. q - 1 /\ q \in Nat BY <1>0 DEF Parents
  <2>2. CASE l[q] = 0 BY <2>2, KnownRoot
  <2>3. CASE l[q] # 0
    <3>1. l[q] \in 1 .. N /\ l[q] <= n BY <1>0, <2>1, <2>3
    <3>2. Known(base, seen, text, pos, l[q]) BY <1>2, <3>1
    <3> QED BY <2>3, <3>2, KnownBelow
  <2> QED BY <2>2, <2>3
<1>3. \A n \in Nat : n \in B
  <2> HIDE DEF B
  <2> QED BY <1>1, <1>2, Induct
<1> QED BY <1>0, <1>3

(* A function over the first numbers is a sequence.                        *)
LEMMA FunctionSeq ==
  ASSUME NEW D, NEW n \in Nat, NEW f \in [1 .. n -> D] PROVE f \in Seq(D) /\ Len(f) = n
  OBVIOUS

\* The recursion of query_visibility.
Seeing(l, f) == f = [q \in DOMAIN l |-> {q} \union IF l[q] = 0 THEN {} ELSE f[l[q]]]

(* What a query sees is its own and what its parent sees.                  *)
LEMMA SeenShape ==
  ASSUME NEW l, NEW N \in Nat, DOMAIN l = 1 .. N, Parents(l, N)
  PROVE  \A q \in 1 .. N :
           Visibility(l)[q] = {q} \union IF l[q] = 0 THEN {} ELSE Visibility(l)[l[q]]
<1> DEFINE V == SUBSET (1 .. N)
           R == [x \in (1 .. N) \X V |-> {x[1]} \union x[2]]
<1>1. {} \in V OBVIOUS
<1>2. \A q \in 1 .. N : \A v \in V : R[<<q, v>>] = {q} \union v OBVIOUS
<1>3. \A q \in 1 .. N : \A v \in V : {q} \union v \in V OBVIOUS
<1> HIDE DEF R
<1>4. Rule(R, N, V)
  <2> SUFFICES ASSUME NEW q \in 1 .. N, NEW v \in V PROVE R[<<q, v>>] \in V
    BY Zenon DEF Rule
  <2> HIDE DEF V
  <2>1. R[<<q, v>>] = {q} \union v /\ {q} \union v \in V BY <1>2, <1>3
  <2> QED BY <2>1
<1>5. PICK f \in [0 .. N -> V] : Along(l, N, R, {}, f)
  <2> HIDE DEF V
  <2> QED BY <1>1, <1>4, AlongParents
<1> DEFINE g == [q \in 1 .. N |-> f[q]]
<1>6. ASSUME NEW q \in 1 .. N PROVE g[q] = {q} \union IF l[q] = 0 THEN {} ELSE g[l[q]]
  <2>1. l[q] \in 0 .. q - 1 BY DEF Parents
  <2>2. l[q] \in 0 .. N /\ (l[q] # 0 => l[q] \in 1 .. N) BY <2>1
  <2>3. f[l[q]] \in V BY <2>2
  <2>4. f[q] = R[<<q, f[l[q]]>>] /\ f[0] = {} BY <1>5 DEF Along
  <2>5. f[q] = {q} \union f[l[q]]
    <3> HIDE DEF V
    <3> QED BY <1>2, <2>3, <2>4
  <2> QED BY <2>2, <2>4, <2>5
<1> HIDE DEF g
<1>7. DOMAIN g = 1 .. N /\ g = [q \in 1 .. N |-> g[q]] BY DEF g
<1>8. g = [q \in 1 .. N |-> {q} \union IF l[q] = 0 THEN {} ELSE g[l[q]]] BY <1>6, <1>7
<1>9. Seeing(l, g) BY <1>8, Zenon DEF Seeing
<1>10. Visibility(l) = CHOOSE h : Seeing(l, h) BY Zenon DEF Visibility, Seeing
<1>11. Seeing(l, Visibility(l)) BY <1>9, <1>10, Zenon
<1> DEFINE s == Visibility(l)
<1> HIDE DEF s
<1>12. s = [q \in 1 .. N |-> {q} \union IF l[q] = 0 THEN {} ELSE s[l[q]]]
  BY <1>11, Zenon DEF Seeing, s
<1>13. \A q \in 1 .. N : s[q] = {q} \union IF l[q] = 0 THEN {} ELSE s[l[q]]
  BY <1>12, Zenon
<1> QED BY <1>13, Zenon DEF s

(* The matched suffix is a number of tokens, shorter than the context, and *)
(* it occurs at every start.                                               *)
LEMMA MatchShape ==
  ASSUME NEW c \in Seq(Nat)
  PROVE  /\ MatchLength(c) \in Nat
         /\ \A s \in Starts(c) : s \in Nat /\ s + MatchLength(c) \in Nat
                                 /\ s + MatchLength(c) < Len(c)
         /\ IsFiniteSet(Starts(c))
<1> DEFINE L == Len(c)
           M == { n \in MinMatch .. Least(MaxMatch, L - 1) : Occurrences(c, n) # {} }
           S == {0} \union M
<1>1. L \in Nat /\ MinMatch \in Nat \ {0} /\ MaxMatch \in Nat BY DraftTreesAssumption
<1> HIDE DEF L
<1>2. \A n \in M : n \in 0 .. L BY <1>1 DEF Least
<1>3. S \subseteq 0 .. L BY <1>1, <1>2
<1>4. IsFiniteSet(0 .. L) BY <1>1, FS_Interval
<1>5. IsFiniteSet(S) BY <1>3, <1>4, FS_Subset
<1>6. \A x \in S : x \in Int BY <1>1, <1>3
<1>7. S # {} OBVIOUS
<1> DEFINE m == Max(S)
<1>8. MatchLength(c) = m BY DEF MatchLength, L
<1> HIDE DEF S
<1>9. m \in S BY <1>5, <1>6, <1>7, MaxOf
<1> HIDE DEF m
<1>10. m \in Nat
  <2>1. m \in 0 .. L BY <1>3, <1>9
  <2> QED BY <1>1, <2>1
<1>11. \A s \in Occurrences(c, m) : s \in 0 .. L - m - 1 BY DEF Occurrences, L
<1>12. Starts(c) \subseteq Occurrences(c, m) BY <1>8 DEF Starts
<1>13. ASSUME NEW s \in Starts(c)
       PROVE  s \in 0 .. L /\ s + m \in Nat /\ s + m < L
  <2>1. s \in 0 .. L - m - 1 BY <1>11, <1>12
  <2> QED BY <1>1, <1>10, <2>1
<1>14. IsFiniteSet(Starts(c))
  <2>1. Starts(c) \subseteq 0 .. L BY <1>13
  <2> QED BY <1>4, <2>1, FS_Subset
<1> QED BY <1>8, <1>10, <1>13, <1>14 DEF L

(* Length and tokens of what followed an occurrence.                       *)
LEMMA ContinuationShape ==
  ASSUME NEW c \in Seq(Nat), NEW s \in Starts(c), NEW n \in Nat \ {0}
  PROVE  /\ Continuation(c, s, n) \in Seq(Nat)
         /\ Len(Continuation(c, s, n)) = Least(Len(c) - (s + MatchLength(c)), n)
         /\ Len(Continuation(c, s, n)) \in 1 .. n
         /\ \A i \in 1 .. Len(Continuation(c, s, n)) :
              Continuation(c, s, n)[i] = c[s + MatchLength(c) + i]
<1> DEFINE from == s + MatchLength(c)
           to == Least(Len(c), from + n)
           t == SubSeq(c, from + 1, to)
<1>1. from \in Nat /\ from < Len(c) BY MatchShape
<1>2. Continuation(c, s, n) = t BY DEF Continuation
<1>3. s \in Nat /\ MatchLength(c) \in Nat BY MatchShape
<1> HIDE DEF from
<1>4. to \in Nat /\ to - from = Least(Len(c) - from, n) /\ to - from \in 1 .. n /\ to <= Len(c)
  BY <1>1 DEF Least
<1> HIDE DEF to
<1>5. t \in Seq(Nat) /\ Len(t) = to - from /\ \A i \in 1 .. to - from : t[i] = c[from + i]
  <2>0. from + 1 \in Nat \ {0} /\ from + 1 <= to /\ to - (from + 1) + 1 = to - from BY <1>1, <1>4
  <2>1. t \in Seq(Nat) BY <1>1, <1>4, <2>0
  <2>2. Len(t) = to - from BY <1>1, <1>4, <2>0
  <2>3. ASSUME NEW i \in 1 .. to - from PROVE t[i] = c[from + i]
    <3>1. t[i] = c[(from + 1) + i - 1] BY <1>1, <1>4, <2>0
    <3>2. (from + 1) + i - 1 = from + i BY <1>1, <1>4
    <3> QED BY <3>1, <3>2
  <2> QED BY <2>1, <2>2, <2>3
<1> HIDE DEF t
<1>6. /\ t \in Seq(Nat) /\ Len(t) = Least(Len(c) - from, n) /\ Len(t) \in 1 .. n
      /\ \A i \in 1 .. Len(t) : t[i] = c[from + i]
  BY <1>4, <1>5
<1> QED BY <1>2, <1>6 DEF from

(* A prefix, element by element.                                           *)
LEMMA PrefixIs ==
  ASSUME NEW D, NEW p \in Seq(D), NEW t \in Seq(D)
  PROVE  IsPrefix(p, t) <=> /\ Len(p) <= Len(t)
                            /\ \A i \in 1 .. Len(p) : p[i] = t[i]
<1>1. Len(p) \in Nat /\ Len(t) \in Nat OBVIOUS
<1>2. Upto(p, Len(p)) = p BY UptoEnds
<1>3. ASSUME Len(p) <= Len(t)
      PROVE  Upto(p, Len(p)) = Upto(t, Len(p)) <=> \A i \in 1 .. Len(p) : p[i] = t[i]
  <2>1. Len(p) \in 0 .. Len(t) BY <1>1, <1>3
  <2>2. \A i \in 1 .. Len(p) : Upto(t, Len(p))[i] = t[i] BY <2>1, UptoShape
  <2>3. (\A i \in 1 .. Len(p) : p[i] = t[i]) => Upto(p, Len(p)) = Upto(t, Len(p))
    BY <1>1, <1>3, UptoEqual
  <2> QED BY <1>2, <2>2, <2>3
<1> QED BY <1>3 DEF IsPrefix, Upto

(* A prefix of what followed an occurrence is one of less of it, too, as   *)
(* long as it fits.                                                        *)
LEMMA PrefixFits ==
  ASSUME NEW c \in Seq(Nat), NEW s \in Starts(c), NEW m \in Nat \ {0}, NEW n \in Nat \ {0},
         NEW p \in Seq(Nat), IsPrefix(p, Continuation(c, s, m)), Len(p) <= n
  PROVE  IsPrefix(p, Continuation(c, s, n))
<1> DEFINE a == Continuation(c, s, m)
           b == Continuation(c, s, n)
           from == s + MatchLength(c)
<1>1. /\ a \in Seq(Nat) /\ Len(a) = Least(Len(c) - from, m)
      /\ \A i \in 1 .. Len(a) : a[i] = c[from + i]
  BY ContinuationShape
<1>2. /\ b \in Seq(Nat) /\ Len(b) = Least(Len(c) - from, n)
      /\ \A i \in 1 .. Len(b) : b[i] = c[from + i]
  BY ContinuationShape
<1>3. from \in Nat /\ from < Len(c) BY MatchShape
<1> HIDE DEF a, b, from
<1>4. IsPrefix(p, a) BY DEF a
<1>5. Len(p) <= Len(a) /\ \A i \in 1 .. Len(p) : p[i] = a[i]
  BY <1>1, <1>4, PrefixIs
<1>6. Len(p) \in Nat /\ Len(c) \in Nat OBVIOUS
<1>7. Len(p) <= Len(b) BY <1>1, <1>2, <1>3, <1>5, <1>6 DEF Least
<1>8. ASSUME NEW i \in 1 .. Len(p) PROVE p[i] = b[i]
  <2>1. i \in 1 .. Len(a) /\ i \in 1 .. Len(b) BY <1>1, <1>2, <1>5, <1>6, <1>7
  <2> QED BY <1>1, <1>2, <1>5, <2>1
<1>9. IsPrefix(p, b) BY <1>2, <1>7, <1>8, PrefixIs
<1> QED BY <1>9 DEF b

\* The recursion of PathTo, and what a family of paths must satisfy.
Pathing(tree, f) ==
  f = [i \in DOMAIN tree.tokens |->
         (IF tree.parents[i] = 0 THEN <<>> ELSE f[tree.parents[i]]) \o <<tree.tokens[i]>>]
Stepwise(tree, F) ==
  \A i \in 1 .. Size(tree) :
    F[i] \in Seq(Nat) /\ F[i] = Append(IF tree.parents[i] = 0 THEN <<>> ELSE F[tree.parents[i]],
                                       tree.tokens[i])

(* Whatever adds a node's token to what it says of the node's parent says  *)
(* the paths.                                                              *)
LEMMA PathsAre ==
  ASSUME NEW tree, tree.tokens \in Seq(Nat), Parents(tree.parents, Size(tree)),
         NEW F, Stepwise(tree, F)
  PROVE  \A i \in 1 .. Size(tree) : PathTo(tree, i) = F[i]
<1> DEFINE N == Size(tree)
           g == [i \in 1 .. N |-> F[i]]
<1>1. N \in Nat /\ DOMAIN tree.tokens = 1 .. N /\ \A i \in 1 .. N : tree.tokens[i] \in Nat
  BY DEF Size
<1>2. \A i \in 1 .. N : tree.parents[i] \in 0 .. i - 1 BY DEF Parents
<1>3. \A i \in 1 .. N : /\ F[i] \in Seq(Nat)
                        /\ F[i] = Append(IF tree.parents[i] = 0 THEN <<>> ELSE F[tree.parents[i]],
                                         tree.tokens[i])
  BY DEF Stepwise
<1> HIDE DEF N
<1>4. ASSUME NEW i \in 1 .. N
      PROVE  F[i] = (IF tree.parents[i] = 0 THEN <<>> ELSE F[tree.parents[i]])
                      \o <<tree.tokens[i]>>
  <2> DEFINE x == IF tree.parents[i] = 0 THEN <<>> ELSE F[tree.parents[i]]
  <2>1. x \in Seq(Nat)
    <3>1. tree.parents[i] = 0 \/ tree.parents[i] \in 1 .. N BY <1>1, <1>2, SMTT(30)
    <3> QED BY <1>3, <3>1
  <2>2. F[i] = Append(x, tree.tokens[i]) BY <1>3
  <2> HIDE DEF x
  <2>3. PICK t \in Nat : t = tree.tokens[i] BY <1>1
  <2>4. F[i] = x \o <<t>>
    <3>1. Cat(x, <<t>>) = Append(x, t) BY <2>1, CatOne
    <3> QED BY <2>2, <2>3, <3>1 DEF Cat
  <2> QED BY <2>3, <2>4 DEF x
<1>5. ASSUME NEW i \in 1 .. N
      PROVE  g[i] = (IF tree.parents[i] = 0 THEN <<>> ELSE g[tree.parents[i]])
                      \o <<tree.tokens[i]>>
  <2>1. tree.parents[i] = 0 \/ tree.parents[i] \in 1 .. N BY <1>1, <1>2, SMTT(30)
  <2>2. g[i] = F[i] /\ (tree.parents[i] \in 1 .. N => g[tree.parents[i]] = F[tree.parents[i]])
    OBVIOUS
  <2> HIDE DEF g
  <2>3. CASE tree.parents[i] = 0 BY <1>4, <2>2, <2>3
  <2>4. CASE tree.parents[i] # 0 BY <1>4, <2>1, <2>2, <2>4
  <2> QED BY <2>3, <2>4
<1>6. \A i \in 1 .. N : g[i] = F[i] OBVIOUS
<1>7. g = [i \in 1 .. N |-> g[i]] OBVIOUS
<1> HIDE DEF g
<1>8. g = [i \in 1 .. N |-> (IF tree.parents[i] = 0 THEN <<>> ELSE g[tree.parents[i]])
                              \o <<tree.tokens[i]>>]
  BY <1>5, <1>7, Zenon
<1>9. Pathing(tree, g) BY <1>1, <1>8, Zenon DEF Pathing
<1> DEFINE f == CHOOSE h : Pathing(tree, h)
<1>10. Pathing(tree, f) BY <1>9, Zenon
<1>11. \A i : PathTo(tree, i) = f[i] BY Zenon DEF PathTo, Pathing
<1> HIDE DEF f
<1>12. \A i \in 1 .. N : f[i] = (IF tree.parents[i] = 0 THEN <<>> ELSE f[tree.parents[i]])
                                  \o <<tree.tokens[i]>>
  BY <1>1, <1>10, Zenon DEF Pathing
<1> DEFINE B == { n \in Nat : \A i \in 1 .. N : i <= n => f[i] = g[i] }
<1>13. 0 \in B OBVIOUS
<1>14. ASSUME NEW n \in B PROVE n + 1 \in B
  <2>1. n \in Nat /\ \A i \in 1 .. N : i <= n => f[i] = g[i] OBVIOUS
  <2> HIDE DEF B
  <2>2. ASSUME NEW i \in 1 .. N, i <= n + 1 PROVE f[i] = g[i]
    <3>1. \/ tree.parents[i] = 0
          \/ tree.parents[i] \in 1 .. N /\ tree.parents[i] <= n
      <4>1. tree.parents[i] \in 0 .. i - 1 BY <1>2
      <4> QED BY <1>1, <2>1, <2>2, <4>1
    <3>2. CASE tree.parents[i] = 0 BY <1>5, <1>12, <3>2
    <3>3. CASE tree.parents[i] # 0
      <4>1. f[tree.parents[i]] = g[tree.parents[i]] BY <2>1, <3>1, <3>3
      <4> QED BY <1>5, <1>12, <3>3, <4>1
    <3> QED BY <3>2, <3>3
  <2>3. n + 1 \in Nat BY <2>1
  <2> QED BY <2>2, <2>3 DEF B
<1>15. B \in SUBSET Nat OBVIOUS
<1> HIDE DEF B
<1>16. N \in B BY <1>1, <1>13, <1>14, <1>15, Induct
<1>17. \A i \in 1 .. N : f[i] = g[i] BY <1>1, <1>16 DEF B
<1> QED BY <1>6, <1>11, <1>17 DEF N

(* A beginning is a prefix.                                                *)
LEMMA UptoPrefix ==
  ASSUME NEW D, NEW s \in Seq(D), NEW n \in 0 .. Len(s)
  PROVE  IsPrefix(Upto(s, n), s) /\ Upto(s, n) \in Seq(D) /\ Len(Upto(s, n)) = n
<1>1. /\ Upto(s, n) \in Seq(D) /\ Len(Upto(s, n)) = n
      /\ \A i \in 1 .. n : Upto(s, n)[i] = s[i]
  BY UptoShape
<1> QED BY <1>1, PrefixIs

(* A draft that a proposer may make, with n as the bound of a continuation.*)
Historic(c, draft, n) ==
  \A i \in DOMAIN draft.tokens :
    /\ \E s \in Starts(c) : IsPrefix(PathTo(draft, i), Continuation(c, s, n))
    /\ i > 1 => DraftLayout(1, draft)[i + 1] \in Visibility(DraftLayout(1, draft))[i]

(* The parent of a node, as its query's.                                   *)
LEMMA DraftQueries ==
  ASSUME NEW tree, IsTree(tree), NEW l, l = DraftLayout(1, tree), NEW N, N = Size(tree)
  PROVE  /\ N \in Nat /\ DOMAIN l = 1 .. N + 1 /\ l[1] = 0
         /\ \A i \in 1 .. N : l[i + 1] = tree.parents[i] + 1
         /\ \A q \in 1 .. N + 1 :
              Visibility(l)[q] = {q} \union IF l[q] = 0 THEN {} ELSE Visibility(l)[l[q]]
<1>0. PICK n \in Nat \ {0} : n = 1 OBVIOUS
<1>1a. /\ N \in Nat /\ n + N \in Nat /\ DOMAIN l = 1 .. n + N
       /\ \A q \in 1 .. n : l[q] = q - 1
       /\ \A i \in 1 .. N : l[n + i] = n + tree.parents[i] /\ tree.parents[i] \in 0 .. i - 1
       /\ Parents(l, n + N)
  <2>1. l = DraftLayout(n, tree) BY <1>0
  <2>2. /\ Size(tree) \in Nat /\ n + Size(tree) \in Nat
        /\ DOMAIN l = 1 .. n + Size(tree) /\ Len(l) = n + Size(tree)
        /\ \A q \in 1 .. n : l[q] = q - 1
        /\ \A i \in 1 .. Size(tree) : l[n + i] = n + tree.parents[i]
                                      /\ tree.parents[i] \in 0 .. i - 1
        /\ Parents(l, n + Size(tree))
    BY <2>1, LayoutShape, Zenon
  <2> DEFINE S == Size(tree)
  <2>3. S = N OBVIOUS
  <2> HIDE DEF S
  <2> QED BY <2>2, <2>3 DEF S
<1>1. /\ N \in Nat /\ 1 + N \in Nat /\ DOMAIN l = 1 .. 1 + N
      /\ \A q \in 1 .. 1 : l[q] = q - 1
      /\ \A i \in 1 .. N : l[1 + i] = 1 + tree.parents[i] /\ tree.parents[i] \in 0 .. i - 1
      /\ Parents(l, 1 + N)
  BY <1>0, <1>1a
<1>2. N + 1 = 1 + N BY <1>1
<1>3. \A q \in 1 .. N + 1 :
        Visibility(l)[q] = {q} \union IF l[q] = 0 THEN {} ELSE Visibility(l)[l[q]]
  BY <1>1, <1>2, SeenShape
<1>4. l[1] = 0 BY <1>1
<1>5. \A i \in 1 .. N : l[i + 1] = tree.parents[i] + 1
  <2> TAKE i \in 1 .. N
  <2>1. 1 + i = i + 1 /\ tree.parents[i] \in Nat BY <1>1
  <2> QED BY <1>1, <2>1, SMTT(30)
<1> QED BY <1>1, <1>2, <1>3, <1>4, <1>5

(* Nothing drafted is a draft.                                             *)
LEMMA NoDraftHistoric ==
  ASSUME NEW c, NEW n
  PROVE  IsTree(NoDraft) /\ Size(NoDraft) = 0 /\ Historic(c, NoDraft, n)
<1>1. /\ NoDraft.tokens \in Seq(Nat) /\ Len(NoDraft.tokens) = 0
      /\ NoDraft.parents \in Seq(Nat) /\ Len(NoDraft.parents) = 0
      /\ DOMAIN NoDraft.tokens = {} /\ DOMAIN NoDraft.parents = {}
  BY DEF NoDraft
<1> QED BY <1>1 DEF IsTree, Size, Historic

(* The chain is the latest continuation.                                   *)
LEMMA ChainHistoric ==
  ASSUME NEW c \in Seq(Nat), NEW m \in Nat \ {0}, NEW n \in Nat \ {0}, m <= n
  PROVE  /\ IsTree(Chain(c, m)) /\ Size(Chain(c, m)) <= m
         /\ Historic(c, Chain(c, m), n)
<1>1. CASE Starts(c) = {}
  <2>1. Chain(c, m) = NoDraft BY <1>1 DEF Chain
  <2>2. Size(NoDraft) <= m BY NoDraftHistoric
  <2> QED BY <2>1, <2>2, NoDraftHistoric
<1>2. CASE Starts(c) # {}
  <2> DEFINE s == Max(Starts(c))
             t == Continuation(c, s, m)
             p == [i \in DOMAIN t |-> i - 1]
             d == [tokens |-> t, parents |-> p]
  <2>1. s \in Starts(c)
    <3>1. \A x \in Starts(c) : x \in Int BY MatchShape
    <3>2. IsFiniteSet(Starts(c)) BY MatchShape
    <3> QED BY <1>2, <3>1, <3>2, MaxOf
  <2>2. Chain(c, m) = d BY <1>2 DEF Chain
  <2> HIDE DEF s
  <2>3. t \in Seq(Nat) /\ Len(t) \in 1 .. m BY <2>1, ContinuationShape
  <2> HIDE DEF t
  <2> DEFINE k == Len(t)
  <2>4. k \in Nat /\ k <= m /\ DOMAIN t = 1 .. k BY <2>3
  <2> HIDE DEF k
  <2>5. p \in Seq(Nat) /\ Len(p) = k /\ DOMAIN p = 1 .. k /\ \A i \in 1 .. k : p[i] = i - 1
    <3>1. DOMAIN p = 1 .. k /\ \A i \in 1 .. k : p[i] = i - 1 /\ p[i] \in Nat BY <2>4
    <3>2. p \in [1 .. k -> Nat] BY <2>4
    <3> HIDE DEF p
    <3>3. p \in Seq(Nat) /\ Len(p) = k BY <2>4, <3>2, FunctionSeq
    <3> QED BY <3>1, <3>3
  <2> HIDE DEF p
  <2>6. d.tokens = t /\ d.parents = p /\ Size(d) = k BY DEF Size, k
  <2> HIDE DEF d
  <2>7. IsTree(d)
    <3>1. d.tokens \in Seq(Nat) /\ d.parents \in Seq(Nat) /\ Len(d.tokens) = Len(d.parents)
      BY <2>3, <2>5, <2>6 DEF k
    <3>2. \A i \in DOMAIN d.parents : d.parents[i] \in 0 .. i - 1 BY <2>4, <2>5, <2>6
    <3>3. \A i, j \in DOMAIN d.parents :
            d.parents[i] = d.parents[j] /\ d.tokens[i] = d.tokens[j] => i = j
      BY <2>4, <2>5, <2>6
    <3> QED BY <3>1, <3>2, <3>3 DEF IsTree
  <2> DEFINE F == [i \in 1 .. k |-> Upto(t, i)]
  <2>8. Stepwise(d, F)
    <3> SUFFICES ASSUME NEW i \in 1 .. k
                 PROVE  /\ F[i] \in Seq(Nat)
                        /\ F[i] = Append(IF p[i] = 0 THEN <<>> ELSE F[p[i]], t[i])
      BY <2>6 DEF Stepwise
    <3>1. i \in Nat /\ i - 1 \in Nat /\ i \in 0 .. Len(t) /\ i - 1 < Len(t) /\ (i - 1) + 1 = i
      BY <2>4 DEF k
    <3>2. Upto(t, i) \in Seq(Nat) BY <2>3, <3>1, UptoShape
    <3>3. Upto(t, i) = Append(Upto(t, i - 1), t[i])
      <4>1. Upto(t, (i - 1) + 1) = Append(Upto(t, i - 1), t[(i - 1) + 1])
        BY <2>3, <3>1, UptoNext
      <4> QED BY <3>1, <4>1
    <3>4. Upto(t, 0) = <<>> BY <2>3, UptoEnds
    <3>5. F[i] = Upto(t, i) /\ p[i] = i - 1 BY <2>5
    <3>6. CASE i = 1
      <4>1. p[i] = 0 /\ i - 1 = 0 BY <3>5, <3>6
      <4> QED BY <3>2, <3>3, <3>4, <3>5, <4>1
    <3>7. CASE i # 1
      <4>1. p[i] # 0 /\ p[i] \in 1 .. k /\ i - 1 \in 1 .. k BY <2>4, <3>5, <3>7
      <4>2. F[p[i]] = Upto(t, i - 1) BY <3>5, <4>1
      <4> QED BY <3>2, <3>3, <3>5, <4>1, <4>2
    <3> QED BY <3>6, <3>7
  <2>9. ASSUME NEW i \in DOMAIN d.tokens
        PROVE  IsPrefix(PathTo(d, i), Continuation(c, s, n))
    <3>1. i \in 1 .. k BY <2>4, <2>6
    <3>2. Parents(d.parents, Size(d)) BY <2>4, <2>5, <2>6 DEF Parents
    <3>3. d.tokens \in Seq(Nat) BY <2>3, <2>6
    <3>4. PathTo(d, i) = F[i]
      <4> HIDE DEF F
      <4>1. i \in 1 .. Size(d) BY <2>6, <3>1
      <4> QED BY <2>8, <3>2, <3>3, <4>1, PathsAre
    <3>5. F[i] = Upto(t, i) BY <3>1
    <3>6. i \in 0 .. Len(t) /\ i \in Nat BY <3>1, <2>4 DEF k
    <3>7. IsPrefix(Upto(t, i), t) /\ Upto(t, i) \in Seq(Nat) /\ Len(Upto(t, i)) = i
      BY <2>3, <3>6, UptoPrefix
    <3>8. i <= n BY <2>4, <3>1
    <3> DEFINE u == Upto(t, i)
    <3>9. u \in Seq(Nat) /\ IsPrefix(u, Continuation(c, s, m)) /\ Len(u) <= n
      BY <3>7, <3>8 DEF t
    <3> HIDE DEF u
    <3>10. IsPrefix(u, Continuation(c, s, n)) BY <2>1, <3>9, PrefixFits
    <3> QED BY <3>4, <3>5, <3>10 DEF u
  <2>10. ASSUME NEW i \in DOMAIN d.tokens, i > 1
         PROVE  DraftLayout(1, d)[i + 1] \in Visibility(DraftLayout(1, d))[i]
    <3> DEFINE l == DraftLayout(1, d)
               V == Visibility(l)
    <3>1. /\ \A j \in 1 .. k : l[j + 1] = p[j] + 1
          /\ \A q \in 1 .. k + 1 : V[q] = {q} \union IF l[q] = 0 THEN {} ELSE V[l[q]]
      BY <2>6, <2>7, DraftQueries
    <3>2. i \in 1 .. k /\ i \in 1 .. k + 1 BY <2>4, <2>6
    <3> HIDE DEF l, V
    <3>3. l[i + 1] = i
      <4>1. l[i + 1] = (i - 1) + 1 BY <2>5, <3>1, <3>2
      <4> QED BY <3>2, <4>1
    <3>4. i \in V[i] BY <3>1, <3>2
    <3> QED BY <3>3, <3>4 DEF l, V
  <2>11. Historic(c, d, n) BY <2>1, <2>9, <2>10 DEF Historic
  <2> QED BY <2>2, <2>4, <2>6, <2>7, <2>11
<1> QED BY <1>1, <1>2

(* What a node of the trie is: tokens that followed an occurrence.         *)
LEMMA NodeShape ==
  ASSUME NEW c \in Seq(Nat), NEW p \in Paths(c)
  PROVE  /\ p \in Seq(Nat) /\ Len(p) \in Nat \ {0}
         /\ \E s \in Starts(c) : IsPrefix(p, Continuation(c, s, MaxDepth))
<1>1. PICK s \in Starts(c) : \E d \in 1 .. Len(Continuation(c, s, MaxDepth)) :
        p = SubSeq(Continuation(c, s, MaxDepth), 1, d)
  BY DEF Paths
<1>2. MaxDepth \in Nat \ {0} BY DraftTreesAssumption
<1> DEFINE t == Continuation(c, s, MaxDepth)
<1>3. t \in Seq(Nat) /\ Len(t) \in Nat BY <1>2, ContinuationShape
<1>4. PICK d \in 1 .. Len(t) : p = Upto(t, d) BY <1>1 DEF Upto
<1> HIDE DEF t
<1>5. d \in 0 .. Len(t) /\ d \in Nat \ {0} BY <1>3, <1>4
<1>6. IsPrefix(p, t) /\ p \in Seq(Nat) /\ Len(p) = d BY <1>3, <1>4, <1>5, UptoPrefix
<1> QED BY <1>5, <1>6 DEF t

(* The numbers it is ranked by.                                            *)
LEMMA NodeRanks ==
  ASSUME NEW c \in Seq(Nat), NEW p \in Paths(c)
  PROVE  /\ Frequency(c, p) \in 0 .. Cardinality(Starts(c)) /\ Cardinality(Starts(c)) \in Nat
         /\ LastOccurrence(c, p) \in Starts(c) /\ LastOccurrence(c, p) \in 0 .. Len(c)
         /\ IsPrefix(p, Continuation(c, LastOccurrence(c, p), MaxDepth))
         /\ Last(p) \in Nat
<1> DEFINE T == Through(c, p)
           S == Starts(c)
<1>1. T \subseteq S /\ T # {} BY NodeShape DEF Through
<1>2. \A s \in T : IsPrefix(p, Continuation(c, s, MaxDepth)) BY DEF Through
<1>3. IsFiniteSet(S) /\ \A s \in S : s \in Nat BY MatchShape
<1>4. \A s \in S : s + MatchLength(c) < Len(c) /\ s + MatchLength(c) \in Nat BY MatchShape
<1>5. MatchLength(c) \in Nat BY MatchShape
<1> HIDE DEF T, S
<1>6. IsFiniteSet(T) BY <1>1, <1>3, FS_Subset
<1>7. Cardinality(T) \in Nat /\ Cardinality(S) \in Nat /\ Cardinality(T) <= Cardinality(S)
  BY <1>1, <1>3, <1>6, FS_CardinalityType, FS_Subset
<1>8. Max(T) \in T
  <2>1. \A x \in T : x \in Int BY <1>1, <1>3
  <2> QED BY <1>1, <1>6, <2>1, MaxOf
<1>9. Max(T) \in S /\ Max(T) \in 0 .. Len(c)
  <2>1. Max(T) \in S BY <1>1, <1>8
  <2> DEFINE m == Max(T)
  <2> HIDE DEF m
  <2>2. m \in S BY <2>1 DEF m
  <2>3. m \in Nat /\ m + MatchLength(c) < Len(c) BY <1>3, <1>4, <2>2
  <2>4. m \in 0 .. Len(c) BY <1>5, <2>3
  <2> QED BY <2>2, <2>4 DEF m
<1>10. Frequency(c, p) = Cardinality(T) /\ LastOccurrence(c, p) = Max(T)
  BY DEF Frequency, LastOccurrence, T
<1>11. Last(p) \in Nat
  <2>1. p \in Seq(Nat) /\ p # <<>>
    <3>1. p \in Seq(Nat) /\ Len(p) \in Nat \ {0} BY NodeShape
    <3> QED BY <3>1
  <2> QED BY <2>1, FrontLastProps
<1> QED BY <1>2, <1>7, <1>8, <1>9, <1>10, <1>11 DEF S

(* A sequence of chosen nodes: each after its ancestors.                   *)
Picked(c, o) ==
  /\ o \in Seq(Paths(c))
  /\ \A i, j \in 1 .. Len(o) : o[i] = o[j] => i = j
  /\ \A i \in 1 .. Len(o) : Len(o[i]) <= i
  /\ \A i \in 1 .. Len(o) : \A d \in 1 .. Len(o[i]) : \E j \in 1 .. i : o[j] = Upto(o[i], d)

(* The nodes that may be chosen next are new, and either all are roots or  *)
(* all hang below a chosen one.                                            *)
LEMMA FrontierShape ==
  ASSUME NEW c \in Seq(Nat), NEW o, Picked(c, o)
  PROVE  /\ \A p \in Frontier(c, o) : p \in Paths(c) /\ \A i \in 1 .. Len(o) : o[i] # p
         /\ \/ \A p \in Frontier(c, o) : Len(p) = 1
            \/ \A p \in Frontier(c, o) : Len(p) # 1 /\ \E i \in 1 .. Len(o) : o[i] = Front(p)
<1>1. o \in Seq(Paths(c)) /\ Len(o) \in Nat /\ DOMAIN o = 1 .. Len(o) BY DEF Picked
<1>2. \A i \in 1 .. Len(o) : o[i] \in Paths(c) BY <1>1
<1>3. ToSet(o) = { o[i] : i \in 1 .. Len(o) } BY <1>1 DEF ToSet
<1>4. ASSUME NEW q, NEW p \in Ranked(c, q) PROVE p \in Paths(c) /\ Front(p) = q
  BY DEF Ranked
<1> DEFINE roots == Ranked(c, <<>>) \ ToSet(o)
           below == (UNION { Ranked(c, p) : p \in ToSet(o) }) \ ToSet(o)
<1>5. Frontier(c, o) = IF roots # {} THEN roots ELSE below BY DEF Frontier
<1>6. \A p \in Paths(c) : p \in Seq(Nat) /\ Len(p) \in Nat \ {0} /\ Len(Front(p)) = Len(p) - 1
  <2> TAKE p \in Paths(c)
  <2>1. p \in Seq(Nat) /\ Len(p) \in Nat \ {0} BY NodeShape
  <2>2. p # <<>> BY <2>1
  <2> QED BY <2>1, <2>2, FrontLastProps
<1>7. ASSUME NEW p \in roots PROVE p \in Paths(c) /\ p \notin ToSet(o) /\ Len(p) = 1
  <2>1. p \in Paths(c) /\ p \notin ToSet(o) /\ Front(p) = <<>> BY <1>4
  <2>2. Len(Front(p)) = 0 BY <2>1
  <2>3. Len(p) \in Nat /\ 0 = Len(p) - 1 BY <1>6, <2>1, <2>2
  <2>4. Len(p) = 1 BY <2>3
  <2> QED BY <2>1, <2>4
<1>8. ASSUME NEW p \in below
      PROVE  p \in Paths(c) /\ p \notin ToSet(o) /\ Len(p) # 1
             /\ \E i \in 1 .. Len(o) : o[i] = Front(p)
  <2>1. p \notin ToSet(o) /\ \E q \in ToSet(o) : p \in Ranked(c, q) OBVIOUS
  <2>2. PICK q \in ToSet(o) : p \in Ranked(c, q) BY <2>1
  <2>3. p \in Paths(c) /\ Front(p) = q BY <1>4, <2>2
  <2>4. PICK i \in 1 .. Len(o) : q = o[i] BY <1>3, <2>2
  <2>5. Len(q) \in Nat \ {0} BY <1>2, <1>6, <2>4
  <2>6. Len(p) \in Nat /\ Len(q) = Len(p) - 1 BY <1>6, <2>3
  <2>7. Len(p) # 1 BY <2>5, <2>6
  <2>8. \E j \in 1 .. Len(o) : o[j] = Front(p) BY <2>3, <2>4
  <2> QED BY <2>1, <2>3, <2>7, <2>8
<1> HIDE DEF roots, below
<1>9. \A p \in Frontier(c, o) : p \in Paths(c) /\ p \notin ToSet(o) BY <1>5, <1>7, <1>8
<1>10. \A p : p \notin ToSet(o) => \A i \in 1 .. Len(o) : o[i] # p BY <1>3
<1>11. CASE roots # {} BY <1>5, <1>7, <1>9, <1>10, <1>11
<1>12. CASE roots = {} BY <1>5, <1>8, <1>9, <1>10, <1>12
<1> QED BY <1>11, <1>12

(* The parent of a node that may be chosen next.                           *)
LEMMA ParentShape ==
  ASSUME NEW c \in Seq(Nat), NEW o, Picked(c, o), NEW p \in Frontier(c, o)
  PROVE  /\ ParentOf(o, p) \in Nat
         /\ Len(p) # 1 => /\ ParentOf(o, p) \in 1 .. Len(o)
                          /\ o[ParentOf(o, p)] = Front(p)
<1>1. DOMAIN o = 1 .. Len(o) /\ Len(o) \in Nat BY DEF Picked
<1>2. CASE Len(p) = 1 BY <1>2 DEF ParentOf
<1>3. CASE Len(p) # 1
  <2>1. \E i \in 1 .. Len(o) : o[i] = Front(p) BY <1>3, FrontierShape
  <2> DEFINE m == CHOOSE i \in DOMAIN o : o[i] = Front(p)
  <2>2. m \in DOMAIN o /\ o[m] = Front(p) BY <1>1, <2>1
  <2>3. ParentOf(o, p) = m BY <1>3 DEF ParentOf
  <2> HIDE DEF m
  <2>4. ParentOf(o, p) \in 1 .. Len(o) /\ o[ParentOf(o, p)] = Front(p) BY <1>1, <2>2, <2>3
  <2>5. ParentOf(o, p) \in Nat BY <1>1, <2>4
  <2> QED BY <2>4, <2>5
<1> QED BY <1>2, <1>3

(* Two prefixes of one sequence that are equally long are equal.           *)
LEMMA SamePrefix ==
  ASSUME NEW D, NEW t \in Seq(D), NEW p \in Seq(D), NEW q \in Seq(D),
         IsPrefix(p, t), IsPrefix(q, t), Len(p) = Len(q)
  PROVE  p = q
<1>1. \A i \in 1 .. Len(p) : p[i] = t[i] BY PrefixIs
<1>2. \A i \in 1 .. Len(q) : q[i] = t[i] BY PrefixIs
<1>3. \A i \in 1 .. Len(p) : p[i] = q[i] BY <1>1, <1>2
<1> QED BY <1>3, SeqEqual

(* Two nodes that last occurred together and have one parent are one node. *)
LEMMA SameNode ==
  ASSUME NEW c \in Seq(Nat), NEW o, Picked(c, o),
         NEW p \in Frontier(c, o), NEW q \in Frontier(c, o),
         LastOccurrence(c, p) = LastOccurrence(c, q), ParentOf(o, p) = ParentOf(o, q)
  PROVE  p = q
<1>1. p \in Paths(c) /\ q \in Paths(c) BY FrontierShape
<1>2. /\ p \in Seq(Nat) /\ Len(p) \in Nat \ {0} /\ p # <<>>
      /\ q \in Seq(Nat) /\ Len(q) \in Nat \ {0} /\ q # <<>>
  <2>1. p \in Seq(Nat) /\ Len(p) \in Nat \ {0} BY <1>1, NodeShape
  <2>2. q \in Seq(Nat) /\ Len(q) \in Nat \ {0} BY <1>1, NodeShape
  <2> QED BY <2>1, <2>2
<1>3. Len(Front(p)) = Len(p) - 1 /\ Len(Front(q)) = Len(q) - 1 BY <1>2, FrontLastProps
<1>4. Len(p) = Len(q)
  <2>1. CASE Len(p) = 1 /\ Len(q) = 1 BY <2>1
  <2>2. CASE Len(p) # 1 /\ Len(q) # 1
    <3>1. Front(p) = Front(q) BY <2>2, ParentShape
    <3> QED BY <1>2, <1>3, <3>1
  <2> QED BY <2>1, <2>2, FrontierShape
<1> DEFINE s == LastOccurrence(c, p)
           t == Continuation(c, s, MaxDepth)
<1>5. s \in Starts(c) /\ IsPrefix(p, t) /\ IsPrefix(q, t) BY <1>1, NodeRanks
<1>6. t \in Seq(Nat)
  <2>1. MaxDepth \in Nat \ {0} BY DraftTreesAssumption
  <2> QED BY <1>5, <2>1, ContinuationShape
<1> HIDE DEF s, t
<1> QED BY <1>2, <1>4, <1>5, <1>6, SamePrefix

(* Of a set that is not empty, an element with the largest, bounded value. *)
LEMMA Topmost ==
  ASSUME NEW S, S # {}, NEW f, NEW m \in Nat, \A x \in S : f[x] \in 0 .. m
  PROVE  \E x \in S : \A y \in S : f[y] <= f[x]
<1> DEFINE T == { f[x] : x \in S }
<1>1. T \subseteq 0 .. m /\ T # {} OBVIOUS
<1>2. IsFiniteSet(T) /\ \A x \in T : x \in Int
  <2>1. IsFiniteSet(0 .. m) BY FS_Interval
  <2> QED BY <1>1, <2>1, FS_Subset
<1>3. \A y \in S : f[y] \in T OBVIOUS
<1>4. PICK x \in S : \A v \in T : v <= f[x]
  <2>1. Max(T) \in T /\ \A v \in T : v <= Max(T)
    <3> HIDE DEF T
    <3> QED BY <1>1, <1>2, MaxOf
  <2> QED BY <2>1
<1> QED BY <1>3, <1>4

(* And one with the smallest.                                              *)
LEMMA Lowest ==
  ASSUME NEW S, S # {}, NEW f, \A x \in S : f[x] \in Nat
  PROVE  \E x \in S : \A y \in S : f[x] <= f[y]
<1> DEFINE T == { f[x] : x \in S }
<1>1. T \in SUBSET Nat /\ T # {} OBVIOUS
<1>2. Min(T) \in T /\ \A v \in T : Min(T) <= v
  <2> HIDE DEF T
  <2> QED BY <1>1, MinOf
<1> QED BY <1>2

(* The proposer always finds a best node to go on with: the sort keys, and *)
(* the order in which parents were chosen, leave no two candidates equal.  *)
LEMMA BestShape ==
  ASSUME NEW c \in Seq(Nat), NEW o, Picked(c, o), Frontier(c, o) # {}
  PROVE  Best(c, o) \in Frontier(c, o)
<1> DEFINE F == Frontier(c, o)
           fr == [p \in F |-> Frequency(c, p)]
           re == [p \in F |-> LastOccurrence(c, p)]
           la == [p \in F |-> Last(p)]
           pa == [p \in F |-> ParentOf(o, p)]
           m == Cardinality(Starts(c))
           n == Len(c)
<1>1. \A p \in F : p \in Paths(c) BY FrontierShape
<1>2. n \in Nat OBVIOUS
<1>3. \A p \in F : fr[p] \in 0 .. m /\ m \in Nat /\ re[p] \in 0 .. n /\ la[p] \in Nat
  BY <1>1, NodeRanks
<1>4. \A p \in F : pa[p] \in Nat BY ParentShape
<1>5. ASSUME NEW p \in F, NEW q \in F, re[p] = re[q], pa[p] = pa[q] PROVE p = q
  <2>1. LastOccurrence(c, p) = LastOccurrence(c, q) /\ ParentOf(o, p) = ParentOf(o, q) BY <1>5
  <2> QED BY <2>1, SameNode
<1>6. ASSUME NEW p \in F, NEW q \in F
      PROVE  Beats(c, o, p, q) <=>
               \/ fr[p] > fr[q] \/ (fr[p] = fr[q] /\ re[p] > re[q])
               \/ (fr[p] = fr[q] /\ re[p] = re[q] /\ la[p] < la[q])
               \/ /\ ~(\/ fr[q] > fr[p] \/ (fr[q] = fr[p] /\ re[q] > re[p])
                       \/ (fr[q] = fr[p] /\ re[q] = re[p] /\ la[q] < la[p]))
                  /\ pa[p] < pa[q]
  <2>1. /\ fr[p] = Frequency(c, p) /\ re[p] = LastOccurrence(c, p) /\ la[p] = Last(p)
        /\ pa[p] = ParentOf(o, p) /\ fr[q] = Frequency(c, q) /\ re[q] = LastOccurrence(c, q)
        /\ la[q] = Last(q) /\ pa[q] = ParentOf(o, q)
    OBVIOUS
  <2> HIDE DEF fr, re, la, pa, F
  <2> QED BY <2>1 DEF Beats, Better
<1>7. F # {} OBVIOUS
<1>8. Best(c, o) = CHOOSE p \in F : \A q \in F \ {p} : Beats(c, o, p, q) BY DEF Best
<1> HIDE DEF F, fr, re, la, pa, m, n
<1>9. m \in Nat BY <1>3, <1>7
<1>10. PICK a \in F : \A y \in F : fr[y] <= fr[a] BY <1>3, <1>7, <1>9, Topmost
<1> DEFINE F1 == { p \in F : fr[p] = fr[a] }
<1>11. F1 # {} /\ \A p \in F1 : re[p] \in 0 .. n BY <1>3
<1>12. PICK b \in F1 : \A y \in F1 : re[y] <= re[b]
  <2> HIDE DEF F1
  <2> QED BY <1>2, <1>11, Topmost
<1> DEFINE F2 == { p \in F1 : re[p] = re[b] }
<1>13. F2 # {} /\ \A p \in F2 : la[p] \in Nat BY <1>3
<1>14. PICK d \in F2 : \A y \in F2 : la[d] <= la[y]
  <2> HIDE DEF F2
  <2> QED BY <1>13, Lowest
<1> DEFINE F3 == { p \in F2 : la[p] = la[d] }
<1>15. F3 # {} /\ \A p \in F3 : pa[p] \in Nat BY <1>4
<1>16. PICK e \in F3 : \A y \in F3 : pa[e] <= pa[y]
  <2> HIDE DEF F3
  <2> QED BY <1>15, Lowest
<1>17. e \in F /\ fr[e] = fr[a] /\ re[e] = re[b] /\ la[e] = la[d] OBVIOUS
<1>18. ASSUME NEW q \in F \ {e} PROVE Beats(c, o, e, q)
  <2>1. /\ fr[q] \in Nat /\ re[q] \in Nat /\ la[q] \in Nat /\ pa[q] \in Nat
        /\ fr[e] \in Nat /\ re[e] \in Nat /\ la[e] \in Nat /\ pa[e] \in Nat
    <3>1. \A p \in F : fr[p] \in Nat /\ re[p] \in Nat BY <1>2, <1>3, <1>9
    <3> QED BY <1>3, <1>4, <1>17, <3>1
  <2>2. fr[q] <= fr[e] BY <1>10, <1>17
  <2>3. fr[q] = fr[e] => re[q] <= re[e] BY <1>12, <1>17
  <2>4. fr[q] = fr[e] /\ re[q] = re[e] => la[e] <= la[q] BY <1>14, <1>17
  <2>5. fr[q] = fr[e] /\ re[q] = re[e] /\ la[q] = la[e] => pa[e] <= pa[q] BY <1>16, <1>17
  <2>6. re[q] = re[e] => pa[e] # pa[q] BY <1>5, <1>17
  <2> HIDE DEF F1, F2, F3
  <2>7. \/ fr[e] > fr[q] \/ (fr[e] = fr[q] /\ re[e] > re[q])
        \/ (fr[e] = fr[q] /\ re[e] = re[q] /\ la[e] < la[q])
        \/ /\ ~(\/ fr[q] > fr[e] \/ (fr[q] = fr[e] /\ re[q] > re[e])
                \/ (fr[q] = fr[e] /\ re[q] = re[e] /\ la[q] < la[e]))
           /\ pa[e] < pa[q]
    BY <2>1, <2>2, <2>3, <2>4, <2>5, <2>6
  <2>8. e \in F /\ q \in F BY <1>17
  <2> QED BY <1>6, <2>7, <2>8
<1>19. \E p \in F : \A q \in F \ {p} : Beats(c, o, p, q) BY <1>17, <1>18
<1>20. Best(c, o) \in F
  <2> HIDE DEF F1, F2, F3
  <2> QED BY <1>8, <1>19
<1> QED BY <1>20 DEF F

(* Nothing is chosen at first.                                             *)
LEMMA PickedNone ==
  ASSUME NEW c PROVE Picked(c, <<>>) /\ Len(<<>>) = 0
<1>1. <<>> \in Seq(Paths(c)) /\ Len(<<>>) = 0 OBVIOUS
<1> QED BY <1>1 DEF Picked

(* One more is chosen.                                                     *)
LEMMA PickedBest ==
  ASSUME NEW c \in Seq(Nat), NEW o, Picked(c, o), Frontier(c, o) # {},
         NEW a, a = Append(o, Best(c, o))
  PROVE  Picked(c, a) /\ Len(a) = Len(o) + 1
<1> DEFINE p == Best(c, o)
           k == Len(o)
<1>1. p \in Frontier(c, o) BY BestShape
<1> HIDE DEF p
<1>2. p \in Paths(c) /\ \A i \in 1 .. k : o[i] # p BY <1>1, FrontierShape
<1>3. p \in Seq(Nat) /\ Len(p) \in Nat \ {0} /\ p # <<>>
  <2>1. p \in Seq(Nat) /\ Len(p) \in Nat \ {0} BY <1>2, NodeShape
  <2> QED BY <2>1
<1>4. Len(Front(p)) = Len(p) - 1 /\ Front(p) \in Seq(Nat) BY <1>3, FrontLastProps
<1>5. Len(p) = 1 \/ \E i \in 1 .. k : o[i] = Front(p) BY <1>1, FrontierShape
<1>6. o \in Seq(Paths(c)) /\ k \in Nat BY DEF Picked
<1>7. a \in Seq(Paths(c)) /\ Len(a) = k + 1 /\ a[k + 1] = p /\ \A i \in 1 .. k : a[i] = o[i]
  <2>1. a = Append(o, p) BY DEF p
  <2> QED BY <1>2, <1>6, <2>1, AppendProperties
<1>8. \A i, j \in 1 .. k : o[i] = o[j] => i = j BY DEF Picked
<1>9. \A i \in 1 .. k : Len(o[i]) <= i BY DEF Picked
<1>10. \A i \in 1 .. k : \A d \in 1 .. Len(o[i]) : \E j \in 1 .. i : o[j] = Upto(o[i], d)
  BY DEF Picked
<1> HIDE DEF k
<1>11. \A i \in 1 .. k + 1 : i \in 1 .. k \/ i = k + 1 BY <1>6
<1>12. \A i, j \in 1 .. k + 1 : a[i] = a[j] => i = j BY <1>2, <1>7, <1>8, <1>11, SMTT(30)
<1>13. Len(p) <= k + 1
  <2>1. CASE Len(p) = 1 BY <1>6, <2>1
  <2>2. CASE Len(p) # 1
    <3>1. PICK i \in 1 .. k : o[i] = Front(p) BY <1>5, <2>2
    <3>2. Len(Front(p)) <= i BY <1>9, <3>1
    <3> QED BY <1>3, <1>4, <1>6, <3>2
  <2> QED BY <2>1, <2>2
<1>14. \A i \in 1 .. k + 1 : Len(a[i]) <= i
  <2> TAKE i \in 1 .. k + 1
  <2>1. CASE i \in 1 .. k BY <1>7, <1>9, <2>1
  <2>2. CASE i = k + 1 BY <1>7, <1>13, <2>2
  <2> QED BY <1>11, <2>1, <2>2
<1>15. ASSUME NEW d \in 1 .. Len(p) PROVE \E j \in 1 .. k + 1 : a[j] = Upto(p, d)
  <2>1. CASE d = Len(p)
    <3>1. Upto(p, d) = p BY <1>3, <2>1, UptoEnds
    <3>2. k + 1 \in 1 .. k + 1 BY <1>6
    <3> QED BY <1>7, <3>1, <3>2
  <2>2. CASE d # Len(p)
    <3>1. d \in 1 .. Len(p) - 1 /\ Len(p) # 1
      <4>1. PICK m \in Nat : m = Len(p) BY <1>3
      <4>2. d \in 1 .. m /\ d # m BY <2>2, <4>1
      <4>3. d \in 1 .. m - 1 /\ m # 1 BY <4>1, <4>2
      <4> QED BY <4>1, <4>3
    <3>2. PICK i \in 1 .. k : o[i] = Front(p) BY <1>5, <3>1
    <3>3. PICK j \in 1 .. i : o[j] = Upto(Front(p), d) BY <1>4, <1>10, <3>1, <3>2
    <3>4. Upto(Front(p), d) = Upto(p, d)
      <4>1. Front(p) = Upto(p, Len(p) - 1) BY DEF Front, Upto
      <4>2. Len(p) - 1 \in 0 .. Len(p) /\ d \in 0 .. Len(p) - 1 BY <1>3, <3>1
      <4> QED BY <1>3, <4>1, <4>2, UptoUpto
    <3>5. j \in 1 .. k /\ j \in 1 .. k + 1 BY <1>6, <3>3
    <3> QED BY <1>7, <3>3, <3>4, <3>5
  <2> QED BY <2>1, <2>2
<1>16. ASSUME NEW i \in 1 .. k + 1, NEW d \in 1 .. Len(a[i])
       PROVE  \E j \in 1 .. i : a[j] = Upto(a[i], d)
  <2>1. CASE i \in 1 .. k
    <3>1. a[i] = o[i] BY <1>7, <2>1
    <3>2. PICK j \in 1 .. i : o[j] = Upto(o[i], d) BY <1>10, <2>1, <3>1
    <3>3. j \in 1 .. k BY <1>6, <2>1, <3>2
    <3> QED BY <1>7, <3>1, <3>2, <3>3
  <2>2. CASE i = k + 1 BY <1>7, <1>15, <2>2
  <2> QED BY <1>11, <2>1, <2>2
<1>17. Picked(c, a) BY <1>7, <1>12, <1>14, <1>16 DEF Picked
<1> QED BY <1>7, <1>17 DEF k

\* The turns of the proposer's loop.
Choosing(c, n, f) ==
  f = [k \in 0 .. n |->
         IF k = 0 THEN <<>>
         ELSE IF Frontier(c, f[k - 1]) = {} THEN f[k - 1]
              ELSE Append(f[k - 1], Best(c, f[k - 1]))]

(* The choices exist.                                                      *)
LEMMA ChoosingExists ==
  ASSUME NEW c \in Seq(Nat), NEW n \in Nat
  PROVE  \E f : Choosing(c, n, f)
<1> DEFINE V == { o \in Seq(Paths(c)) : Picked(c, o) }
           G == [o \in V |-> IF Frontier(c, o) = {} THEN o ELSE Append(o, Best(c, o))]
           R == [x \in (1 .. n) \X V |-> G[x[2]]]
           l == [q \in 1 .. n |-> q - 1]
<1>1. <<>> \in V BY PickedNone
<1>2. \A o \in V : G[o] = IF Frontier(c, o) = {} THEN o ELSE Append(o, Best(c, o)) OBVIOUS
<1>3. ASSUME NEW o \in V PROVE G[o] \in V
  <2>1. Picked(c, o) OBVIOUS
  <2>2. \A x : Picked(c, x) => x \in V BY DEF Picked
  <2> HIDE DEF V, G
  <2>3. CASE Frontier(c, o) = {} BY <1>2, <2>3
  <2>4. CASE Frontier(c, o) # {}
    <3> DEFINE a == Append(o, Best(c, o))
    <3>1. G[o] = a BY <1>2, <2>4
    <3> HIDE DEF a
    <3>2. Picked(c, a)
      <4>1. a = Append(o, Best(c, o)) BY DEF a
      <4> QED BY <2>1, <2>4, <4>1, PickedBest
    <3> QED BY <2>2, <3>1, <3>2
  <2> QED BY <2>3, <2>4
<1>4. \A q \in 1 .. n : \A v \in V : R[<<q, v>>] = G[v] OBVIOUS
<1> HIDE DEF V, G, R
<1>5. Rule(R, n, V) BY <1>3, <1>4 DEF Rule
<1>6. DOMAIN l = 1 .. n /\ \A q \in 1 .. n : l[q] = q - 1 OBVIOUS
<1>7. Parents(l, n) BY <1>6 DEF Parents
<1> HIDE DEF l
<1>8. PICK f \in [0 .. n -> V] : Along(l, n, R, <<>>, f) BY <1>1, <1>5, <1>6, <1>7, AlongParents
<1>9. f[0] = <<>> BY <1>8 DEF Along
<1>10. ASSUME NEW k \in 1 .. n
       PROVE  f[k] = IF Frontier(c, f[k - 1]) = {} THEN f[k - 1]
                     ELSE Append(f[k - 1], Best(c, f[k - 1]))
  <2>1. k - 1 \in 0 .. n /\ l[k] = k - 1 BY <1>6
  <2>2. f[k - 1] \in V BY <2>1
  <2>3. f[k] = R[<<k, f[k - 1]>>] BY <1>8, <2>1 DEF Along
  <2>4. f[k] = G[f[k - 1]] BY <1>4, <2>2, <2>3
  <2> QED BY <1>2, <2>2, <2>4
<1>11. f = [k \in 0 .. n |-> f[k]] OBVIOUS
<1>12. \A k \in 0 .. n : k = 0 \/ k \in 1 .. n OBVIOUS
<1>13. \A k \in 0 .. n :
         f[k] = IF k = 0 THEN <<>>
                ELSE IF Frontier(c, f[k - 1]) = {} THEN f[k - 1]
                     ELSE Append(f[k - 1], Best(c, f[k - 1]))
  <2> TAKE k \in 0 .. n
  <2>1. CASE k = 0 BY <1>9, <2>1
  <2>2. CASE k # 0
    <3>1. k \in 1 .. n BY <1>12, <2>2
    <3> QED BY <1>10, <2>2, <3>1
  <2> QED BY <2>1, <2>2
<1>14. Choosing(c, n, f) BY <1>11, <1>13, Zenon DEF Choosing
<1> QED BY <1>14

(* What is chosen: at most n nodes, each after its ancestors.              *)
LEMMA ChosenShape ==
  ASSUME NEW c \in Seq(Nat), NEW n \in Nat
  PROVE  Picked(c, Chosen(c, n)) /\ Len(Chosen(c, n)) <= n
<1> DEFINE f == CHOOSE h : Choosing(c, n, h)
<1>1. Choosing(c, n, f) BY ChoosingExists
<1>2. Chosen(c, n) = f[n]
  BY Zenon DEF Chosen, Choosing
<1> HIDE DEF f
<1>3. \A k \in 0 .. n :
        f[k] = IF k = 0 THEN <<>>
               ELSE IF Frontier(c, f[k - 1]) = {} THEN f[k - 1]
                    ELSE Append(f[k - 1], Best(c, f[k - 1]))
  BY <1>1, Zenon DEF Choosing
<1> DEFINE B == { k \in Nat : k <= n => Picked(c, f[k]) /\ Len(f[k]) <= k }
<1>4. 0 \in B
  <2>1. 0 \in 0 .. n OBVIOUS
  <2>2. f[0] = <<>> BY <1>3, <2>1
  <2>3. Picked(c, f[0]) /\ Len(f[0]) = 0 BY <2>2, PickedNone
  <2> QED BY <2>3
<1>5. ASSUME NEW k \in B PROVE k + 1 \in B
  <2>1. k \in Nat /\ (k <= n => Picked(c, f[k]) /\ Len(f[k]) <= k) OBVIOUS
  <2> HIDE DEF B
  <2>2. ASSUME k + 1 <= n PROVE Picked(c, f[k + 1]) /\ Len(f[k + 1]) <= k + 1
    <3>1. k <= n /\ k + 1 \in 0 .. n /\ k + 1 # 0 /\ (k + 1) - 1 = k BY <2>1, <2>2
    <3>2. Picked(c, f[k]) /\ Len(f[k]) <= k BY <2>1, <3>1
    <3>3. f[k + 1] = IF Frontier(c, f[k]) = {} THEN f[k] ELSE Append(f[k], Best(c, f[k]))
      BY <1>3, <3>1
    <3>4. PICK o : o = f[k] OBVIOUS
    <3>5. PICK a : a = f[k + 1] OBVIOUS
    <3>6. Len(o) \in Nat BY <3>2, <3>4 DEF Picked
    <3>7. CASE Frontier(c, o) = {} BY <2>1, <3>2, <3>3, <3>4, <3>6, <3>7
    <3>8. CASE Frontier(c, o) # {}
      <4>1. a = Append(o, Best(c, o)) BY <3>3, <3>4, <3>5, <3>8
      <4>2. Picked(c, a) /\ Len(a) = Len(o) + 1 BY <3>2, <3>4, <3>8, <4>1, PickedBest
      <4>3. Len(o) <= k BY <3>2, <3>4
      <4>4. Len(a) <= k + 1 BY <2>1, <3>6, <4>2, <4>3
      <4> QED BY <3>5, <4>2, <4>4
    <3> QED BY <3>7, <3>8
  <2>3. k + 1 \in Nat BY <2>1
  <2> QED BY <2>2, <2>3 DEF B
<1>6. B \in SUBSET Nat OBVIOUS
<1> HIDE DEF B
<1>7. n \in B BY <1>4, <1>5, <1>6, Induct
<1>8. Picked(c, f[n]) /\ Len(f[n]) <= n BY <1>7 DEF B
<1> QED BY <1>2, <1>8

(* When an ancestor of p, or p, was chosen.                                *)
WhenChosen(o, p, d) == CHOOSE i \in DOMAIN o : o[i] = SubSeq(p, 1, d)
\* The first d tokens are the same.
Agree(p, q, d) == d <= Len(p) /\ d <= Len(q) /\ \A i \in 1 .. d : p[i] = q[i]
\* p comes before q, and they part behind d tokens.
Parting(o, p, q, d) ==
  /\ Agree(p, q, d)
  /\ \/ Len(p) = d /\ Len(q) > d
     \/ /\ Len(p) > d /\ Len(q) > d /\ p[d + 1] # q[d + 1]
        /\ WhenChosen(o, p, d + 1) < WhenChosen(o, q, d + 1)

(* The elements of a sequence of chosen nodes.                             *)
LEMMA PickedNodes ==
  ASSUME NEW c \in Seq(Nat), NEW o, Picked(c, o)
  PROVE  /\ Len(o) \in Nat /\ DOMAIN o = 1 .. Len(o)
         /\ ToSet(o) = { o[i] : i \in 1 .. Len(o) }
         /\ \A p \in ToSet(o) : p \in Paths(c) /\ p \in Seq(Nat) /\ Len(p) \in Nat \ {0}
         /\ \A p \in ToSet(o) : \A d \in 1 .. Len(p) : Upto(p, d) \in ToSet(o)
<1>1. o \in Seq(Paths(c)) BY DEF Picked
<1>2. Len(o) \in Nat /\ DOMAIN o = 1 .. Len(o) BY <1>1
<1>3. ToSet(o) = { o[i] : i \in 1 .. Len(o) } BY <1>2 DEF ToSet
<1>4. \A i \in 1 .. Len(o) : o[i] \in Paths(c) BY <1>1
<1>5. \A p \in ToSet(o) : p \in Paths(c) BY <1>3, <1>4
<1>6. ASSUME NEW p \in ToSet(o), NEW d \in 1 .. Len(p) PROVE Upto(p, d) \in ToSet(o)
  <2>1. PICK i \in 1 .. Len(o) : p = o[i] BY <1>3
  <2>2. PICK j \in 1 .. i : o[j] = Upto(o[i], d) BY <2>1 DEF Picked
  <2>3. j \in 1 .. Len(o) BY <1>2, <2>1, <2>2
  <2> QED BY <1>3, <2>1, <2>2, <2>3
<1> QED BY <1>2, <1>3, <1>5, <1>6, NodeShape

(* A chosen node's ancestors were chosen, each at its own time.            *)
LEMMA WhenShape ==
  ASSUME NEW c \in Seq(Nat), NEW o, Picked(c, o), NEW p \in ToSet(o), NEW d \in 1 .. Len(p)
  PROVE  WhenChosen(o, p, d) \in 1 .. Len(o) /\ o[WhenChosen(o, p, d)] = Upto(p, d)
<1>1. Upto(p, d) \in ToSet(o) BY PickedNodes
<1>2. DOMAIN o = 1 .. Len(o) /\ ToSet(o) = { o[i] : i \in 1 .. Len(o) } BY PickedNodes
<1>3. \E i \in DOMAIN o : o[i] = SubSeq(p, 1, d) BY <1>1, <1>2 DEF Upto
<1> DEFINE w == WhenChosen(o, p, d)
<1>4. w \in DOMAIN o /\ o[w] = SubSeq(p, 1, d) BY <1>3 DEF WhenChosen
<1> QED BY <1>2, <1>4 DEF Upto

(* Common ancestors were chosen once, others at different times.           *)
LEMMA WhenSame ==
  ASSUME NEW c \in Seq(Nat), NEW o, Picked(c, o), NEW p \in ToSet(o), NEW q \in ToSet(o),
         NEW d \in Nat \ {0}, Agree(p, q, d)
  PROVE  WhenChosen(o, p, d) = WhenChosen(o, q, d)
<1>1. p \in Seq(Nat) /\ q \in Seq(Nat) BY PickedNodes
<1>2. Upto(p, d) = Upto(q, d) BY <1>1, UptoEqual DEF Agree
<1> QED BY <1>2, Zenon DEF WhenChosen, Upto

(* Where two nodes part, their ancestors were chosen at different times.   *)
LEMMA WhenOther ==
  ASSUME NEW c \in Seq(Nat), NEW o, Picked(c, o), NEW p \in ToSet(o), NEW q \in ToSet(o),
         NEW d \in 1 .. Len(p), d \in 1 .. Len(q), p[d] # q[d]
  PROVE  WhenChosen(o, p, d) # WhenChosen(o, q, d)
<1>1. p \in Seq(Nat) /\ q \in Seq(Nat) BY PickedNodes
<1>2. d \in 0 .. Len(p) /\ d \in 0 .. Len(q) /\ d \in 1 .. d BY <1>1
<1>3. Upto(p, d)[d] = p[d] BY <1>1, <1>2, UptoShape
<1>4. Upto(q, d)[d] = q[d] BY <1>1, <1>2, UptoShape
<1>5. o[WhenChosen(o, p, d)] = Upto(p, d) BY WhenShape
<1>6. o[WhenChosen(o, q, d)] = Upto(q, d) BY WhenShape
<1> QED BY <1>3, <1>4, <1>5, <1>6

(* append_subtree puts p before q when p is an ancestor of q, or when the  *)
(* branch to p was chosen before that to q.                                *)
LEMMA DepthFirstIs ==
  ASSUME NEW c \in Seq(Nat), NEW o, Picked(c, o), NEW p \in ToSet(o), NEW q \in ToSet(o)
  PROVE  DepthFirst(o, p, q) <=> \E d \in Nat : Parting(o, p, q, d)
<1> DEFINE D == { d \in 1 .. Least(Len(p), Len(q)) : p[d] # q[d] }
           m == Least(Len(p), Len(q))
<1>1. p \in Seq(Nat) /\ q \in Seq(Nat) /\ Len(p) \in Nat /\ Len(q) \in Nat BY PickedNodes
<1>2. DepthFirst(o, p, q) <=>
        IF D = {} THEN Len(p) < Len(q)
        ELSE WhenChosen(o, p, Min(D)) < WhenChosen(o, q, Min(D))
  BY Zenon DEF DepthFirst, WhenChosen
<1>3. m \in Nat /\ m <= Len(p) /\ m <= Len(q) /\ (m = Len(p) \/ m = Len(q)) BY <1>1 DEF Least
<1>4. \A d \in 1 .. m : p[d] # q[d] <=> d \in D OBVIOUS
<1>5. D \in SUBSET Nat /\ \A d \in D : d \in 1 .. m BY <1>3
<1> HIDE DEF D, m
<1>6. ASSUME D = {}, Len(p) < Len(q) PROVE Parting(o, p, q, m)
  BY <1>1, <1>3, <1>4, <1>6 DEF Parting, Agree
<1>7. ASSUME NEW d \in Nat, Parting(o, p, q, d), D = {} PROVE Len(p) < Len(q)
  <2>1. CASE Len(p) = d /\ Len(q) > d BY <1>1, <2>1
  <2>2. CASE Len(p) > d /\ Len(q) > d /\ p[d + 1] # q[d + 1]
    <3>1. d + 1 \in 1 .. m BY <1>1, <1>3, <2>2
    <3> QED BY <1>4, <1>7, <2>2, <3>1
  <2> QED BY <1>7, <2>1, <2>2 DEF Parting
<1>8. ASSUME D # {} PROVE Min(D) \in D /\ \A d \in D : Min(D) <= d BY <1>5, <1>8, MinOf
<1> DEFINE e == Min(D)
<1> HIDE DEF e
<1>9. ASSUME D # {}
      PROVE  e \in D /\ (\A d \in D : e <= d) /\ e \in 1 .. m /\ p[e] # q[e] /\ e - 1 \in Nat
             /\ (e - 1) + 1 = e
  <2>1. e \in D /\ \A d \in D : e <= d BY <1>8, <1>9 DEF e
  <2>2. e \in 1 .. m BY <1>5, <2>1
  <2>3. p[e] # q[e] BY <1>4, <2>1, <2>2
  <2>4. e - 1 \in Nat /\ (e - 1) + 1 = e BY <1>3, <2>2
  <2> QED BY <2>1, <2>2, <2>3, <2>4
<1>10. ASSUME D # {}, WhenChosen(o, p, e) < WhenChosen(o, q, e)
       PROVE  Parting(o, p, q, e - 1)
  <2>1. \A d \in 1 .. e - 1 : p[d] = q[d]
    <3> TAKE d \in 1 .. e - 1
    <3>1. d \in 1 .. m /\ d \notin D BY <1>3, <1>9, <1>10
    <3> QED BY <1>4, <3>1
  <2>2. e - 1 < Len(p) /\ e - 1 < Len(q) BY <1>1, <1>3, <1>9, <1>10, SMTT(30)
  <2>3. Agree(p, q, e - 1) BY <1>1, <1>9, <1>10, <2>1, <2>2, SMTT(30) DEF Agree
  <2>4. p[(e - 1) + 1] # q[(e - 1) + 1]
        /\ WhenChosen(o, p, (e - 1) + 1) < WhenChosen(o, q, (e - 1) + 1)
    BY <1>9, <1>10
  <2>5. Len(p) > e - 1 /\ Len(q) > e - 1 BY <1>1, <1>9, <1>10, <2>2
  <2> QED BY <2>3, <2>4, <2>5 DEF Parting
<1>11. ASSUME NEW d \in Nat, Parting(o, p, q, d), D # {}
       PROVE  WhenChosen(o, p, e) < WhenChosen(o, q, e)
  <2>1. Agree(p, q, d) BY <1>11 DEF Parting
  <2>2. e > d
    <3> SUFFICES ASSUME e <= d PROVE FALSE BY <1>9, <1>11
    <3>1. e \in 1 .. d BY <1>3, <1>9, <1>11
    <3> QED BY <1>9, <1>11, <2>1, <3>1 DEF Agree
  <2>3. ~(Len(p) = d) BY <1>1, <1>3, <1>9, <1>11, <2>2
  <2>4. /\ Len(p) > d /\ Len(q) > d /\ p[d + 1] # q[d + 1]
        /\ WhenChosen(o, p, d + 1) < WhenChosen(o, q, d + 1)
    BY <1>11, <2>3 DEF Parting
  <2>5. d + 1 \in 1 .. m BY <1>1, <1>3, <2>4
  <2>6. d + 1 \in D BY <1>4, <2>4, <2>5
  <2>7. e = d + 1 BY <1>9, <1>11, <2>2, <2>6
  <2> QED BY <2>4, <2>7
<1>12. CASE D = {} BY <1>2, <1>3, <1>6, <1>7, <1>12
<1>13. CASE D # {}
  <2>1. e - 1 \in Nat BY <1>9, <1>13
  <2>2. DepthFirst(o, p, q) <=> WhenChosen(o, p, e) < WhenChosen(o, q, e) BY <1>2, <1>13 DEF e
  <2> QED BY <1>10, <1>11, <1>13, <2>1, <2>2
<1> QED BY <1>12, <1>13

(* No node comes before itself.                                            *)
LEMMA OrderStrict ==
  ASSUME NEW c \in Seq(Nat), NEW o, Picked(c, o), NEW p \in ToSet(o)
  PROVE  ~DepthFirst(o, p, p)
<1>1. Len(p) \in Nat BY PickedNodes
<1>2. \A d \in Nat : ~Parting(o, p, p, d) BY <1>1 DEF Parting
<1> QED BY <1>2, DepthFirstIs

(* Of two nodes one comes before the other.                                *)
LEMMA OrderTotal ==
  ASSUME NEW c \in Seq(Nat), NEW o, Picked(c, o), NEW p \in ToSet(o), NEW q \in ToSet(o),
         p # q
  PROVE  DepthFirst(o, p, q) \/ DepthFirst(o, q, p)
<1> DEFINE m == Least(Len(p), Len(q))
           D == { d \in 1 .. m : p[d] # q[d] }
<1>1. p \in Seq(Nat) /\ q \in Seq(Nat) /\ Len(p) \in Nat /\ Len(q) \in Nat BY PickedNodes
<1>2. m \in Nat /\ m <= Len(p) /\ m <= Len(q) /\ (m = Len(p) \/ m = Len(q)) BY <1>1 DEF Least
<1>3. D \in SUBSET Nat /\ (\A d \in D : d \in 1 .. m /\ p[d] # q[d])
      /\ \A d \in 1 .. m : d \notin D => p[d] = q[d]
  BY <1>2
<1> HIDE DEF D, m
<1>4. CASE D = {}
  <2>1. Len(p) # Len(q)
    <3> SUFFICES ASSUME Len(p) = Len(q) PROVE FALSE OBVIOUS
    <3>1. \A i \in 1 .. Len(p) : p[i] = q[i] BY <1>2, <1>3, <1>4
    <3> QED BY <1>1, <3>1, SeqEqual
  <2>2. Agree(p, q, m) /\ Agree(q, p, m) BY <1>2, <1>3, <1>4 DEF Agree
  <2>3. Parting(o, p, q, m) \/ Parting(o, q, p, m)
    BY <1>1, <1>2, <2>1, <2>2 DEF Parting
  <2> QED BY <1>2, <2>3, DepthFirstIs
<1>5. CASE D # {}
  <2>1. PICK e \in D : \A d \in D : e <= d BY <1>3, <1>5, Smallest
  <2>2. e \in 1 .. m /\ p[e] # q[e] BY <1>3
  <2>3. PICK d \in Nat : e = d + 1
    <3>1. e - 1 \in Nat /\ e = (e - 1) + 1 BY <1>2, <2>2
    <3> QED BY <3>1
  <2>4. \A i \in 1 .. d : p[i] = q[i]
    <3> TAKE i \in 1 .. d
    <3>1. i \in 1 .. m /\ i \notin D BY <1>2, <2>1, <2>2, <2>3
    <3> QED BY <1>3, <3>1
  <2>5. d < Len(p) /\ d < Len(q) BY <1>1, <1>2, <2>2, <2>3, SMTT(30)
  <2>6. Agree(p, q, d) /\ Agree(q, p, d) BY <1>1, <2>4, <2>5 DEF Agree
  <2>7. d + 1 \in 1 .. Len(p) /\ d + 1 \in 1 .. Len(q) BY <1>1, <2>5
  <2>8. p[d + 1] # q[d + 1] BY <2>2, <2>3
  <2>9. /\ WhenChosen(o, p, d + 1) # WhenChosen(o, q, d + 1)
        /\ WhenChosen(o, p, d + 1) \in Nat /\ WhenChosen(o, q, d + 1) \in Nat
    <3>1. WhenChosen(o, p, d + 1) # WhenChosen(o, q, d + 1) BY <2>7, <2>8, WhenOther
    <3>2. WhenChosen(o, p, d + 1) \in 1 .. Len(o) BY <2>7, WhenShape
    <3>3. WhenChosen(o, q, d + 1) \in 1 .. Len(o) BY <2>7, WhenShape
    <3> QED BY <3>1, <3>2, <3>3
  <2>10. Parting(o, p, q, d) \/ Parting(o, q, p, d)
    <3> DEFINE a == WhenChosen(o, p, d + 1)
               b == WhenChosen(o, q, d + 1)
    <3>1. a # b /\ a \in Nat /\ b \in Nat BY <2>9
    <3> HIDE DEF a, b
    <3>2. a < b \/ b < a BY <3>1
    <3>3. Len(p) > d /\ Len(q) > d BY <1>1, <2>5
    <3> QED BY <2>6, <2>8, <3>2, <3>3 DEF Parting, a, b
  <2> QED BY <2>10, DepthFirstIs
<1> QED BY <1>4, <1>5

(* The order is transitive: the earlier parting decides.                   *)
LEMMA OrderTransitive ==
  ASSUME NEW c \in Seq(Nat), NEW o, Picked(c, o), NEW p \in ToSet(o), NEW q \in ToSet(o),
         NEW r \in ToSet(o), DepthFirst(o, p, q), DepthFirst(o, q, r)
  PROVE  DepthFirst(o, p, r)
<1>1. /\ p \in Seq(Nat) /\ q \in Seq(Nat) /\ r \in Seq(Nat)
      /\ Len(p) \in Nat /\ Len(q) \in Nat /\ Len(r) \in Nat
  BY PickedNodes
<1>2. PICK a \in Nat : Parting(o, p, q, a) BY DepthFirstIs
<1>3. PICK b \in Nat : Parting(o, q, r, b) BY DepthFirstIs
<1>4. Agree(p, q, a) /\ Agree(q, r, b) BY <1>2, <1>3 DEF Parting
<1>5. ASSUME NEW x \in ToSet(o), NEW d \in Nat, d < Len(x) PROVE WhenChosen(o, x, d + 1) \in Nat
  <2>1. Len(x) \in Nat BY PickedNodes
  <2>2. d + 1 \in 1 .. Len(x) BY <1>5, <2>1
  <2>3. WhenChosen(o, x, d + 1) \in 1 .. Len(o) BY <2>2, WhenShape
  <2> QED BY <2>3
<1>6. CASE a < b
  <2>1. a < Len(q) /\ a < Len(r) /\ a + 1 \in 1 .. b BY <1>1, <1>4, <1>6 DEF Agree
  <2>2. Agree(p, r, a) BY <1>1, <1>4, <1>6, <2>1 DEF Agree
  <2>3. q[a + 1] = r[a + 1] BY <1>4, <2>1 DEF Agree
  <2>4. WhenChosen(o, q, a + 1) = WhenChosen(o, r, a + 1)
    <3>1. Agree(q, r, a + 1) /\ a + 1 \in Nat \ {0} BY <1>1, <1>4, <1>6 DEF Agree
    <3> QED BY <3>1, WhenSame
  <2>5. Parting(o, p, r, a) BY <1>1, <1>2, <2>1, <2>2, <2>3, <2>4 DEF Parting
  <2> QED BY <2>5, DepthFirstIs
<1>7. CASE b < a
  <2>1. b < Len(q) /\ b < Len(p) /\ b + 1 \in 1 .. a BY <1>1, <1>4, <1>7 DEF Agree
  <2>2. Agree(p, r, b) BY <1>1, <1>4, <1>7, <2>1 DEF Agree
  <2>3. p[b + 1] = q[b + 1] BY <1>4, <2>1 DEF Agree
  <2>4. WhenChosen(o, p, b + 1) = WhenChosen(o, q, b + 1)
    <3>1. Agree(p, q, b + 1) /\ b + 1 \in Nat \ {0} BY <1>1, <1>4, <1>7 DEF Agree
    <3> QED BY <3>1, WhenSame
  <2>5. /\ Len(r) > b /\ q[b + 1] # r[b + 1]
        /\ WhenChosen(o, q, b + 1) < WhenChosen(o, r, b + 1)
    BY <1>1, <1>3, <2>1 DEF Parting
  <2>6. Parting(o, p, r, b) BY <1>1, <2>1, <2>2, <2>3, <2>4, <2>5 DEF Parting
  <2> QED BY <2>6, DepthFirstIs
<1>8. CASE a = b
  <2>1. Agree(p, r, a) /\ Len(q) > a /\ Len(r) > a
    <3>1. Len(q) > a BY <1>2 DEF Parting
    <3>2. Len(r) > a BY <1>1, <1>3, <1>8, <3>1 DEF Parting
    <3> QED BY <1>1, <1>4, <1>8, <3>1, <3>2 DEF Agree
  <2>2. q[a + 1] # r[a + 1] /\ WhenChosen(o, q, a + 1) < WhenChosen(o, r, a + 1)
    BY <1>1, <1>3, <1>8, <2>1 DEF Parting
  <2>3. CASE Len(p) = a
    <3>1. Parting(o, p, r, a) BY <2>1, <2>3 DEF Parting
    <3> QED BY <3>1, DepthFirstIs
  <2>4. CASE Len(p) # a
    <3>1. Len(p) > a /\ WhenChosen(o, p, a + 1) < WhenChosen(o, q, a + 1)
      BY <1>2, <2>4 DEF Parting
    <3>2. WhenChosen(o, p, a + 1) < WhenChosen(o, r, a + 1)
      <4>1. /\ WhenChosen(o, p, a + 1) \in Nat /\ WhenChosen(o, q, a + 1) \in Nat
            /\ WhenChosen(o, r, a + 1) \in Nat
        BY <1>1, <1>5, <2>1, <3>1
      <4> QED BY <2>2, <3>1, <4>1
    <3>3. p[a + 1] # r[a + 1]
      <4> SUFFICES ASSUME p[a + 1] = r[a + 1] PROVE FALSE OBVIOUS
      <4>0. ASSUME NEW i \in 1 .. a + 1 PROVE p[i] = r[i]
        <5>1. i \in 1 .. a \/ i = a + 1 OBVIOUS
        <5> QED BY <2>1, <5>1 DEF Agree
      <4>1. Agree(p, r, a + 1) /\ a + 1 \in Nat \ {0} BY <1>1, <2>1, <3>1, <4>0, SMTT(30) DEF Agree
      <4>2. WhenChosen(o, p, a + 1) = WhenChosen(o, r, a + 1) BY <4>1, WhenSame
      <4>3. WhenChosen(o, r, a + 1) \in Nat BY <1>1, <1>5, <2>1
      <4> QED BY <3>2, <4>2, <4>3
    <3>4. Parting(o, p, r, a) BY <2>1, <3>1, <3>2, <3>3 DEF Parting
    <3> QED BY <3>4, DepthFirstIs
  <2> QED BY <2>3, <2>4
<1> QED BY <1>6, <1>7, <1>8

\* What append_subtree puts before a node.
Earlier(o, p) == { q \in ToSet(o) : DepthFirst(o, q, p) }

(* How many nodes come before a node: a number of its own.                 *)
LEMMA EarlierShape ==
  ASSUME NEW c \in Seq(Nat), NEW o, Picked(c, o)
  PROVE  /\ IsFiniteSet(ToSet(o)) /\ Cardinality(ToSet(o)) = Len(o)
         /\ \A p \in ToSet(o) : Cardinality(Earlier(o, p)) \in 0 .. Len(o) - 1
         /\ \A p, q \in ToSet(o) :
              DepthFirst(o, p, q) <=> Cardinality(Earlier(o, p)) < Cardinality(Earlier(o, q))
<1> DEFINE S == ToSet(o)
           n == Len(o)
<1>1. n \in Nat /\ S = { o[i] : i \in 1 .. n } /\ o \in Seq(Paths(c)) BY PickedNodes DEF Picked
<1>2. \A i, j \in 1 .. n : o[i] = o[j] => i = j BY DEF Picked
<1> HIDE DEF S, n
<1>3. IsFiniteSet(S) /\ Cardinality(S) = n
  <2> DEFINE f == [i \in 1 .. n |-> o[i]]
  <2>1. f \in Bijection(1 .. n, S)
    <3>1. f \in [1 .. n -> S] BY <1>1
    <3>2. \A i, j \in 1 .. n : f[i] = f[j] => i = j BY <1>2
    <3>3. \A p \in S : \E i \in 1 .. n : f[i] = p BY <1>1
    <3>4. DOMAIN f = 1 .. n OBVIOUS
    <3> HIDE DEF f
    <3> QED BY <3>1, <3>2, <3>3, <3>4 DEF Bijection, Injection, Surjection, IsInjective
  <2>2. ExistsBijection(1 .. n, S) BY <2>1 DEF ExistsBijection
  <2> QED BY <1>1, <2>2, FS_CountingElements, FS_NatBijection
<1>4. \A p \in S : Earlier(o, p) \subseteq S BY DEF Earlier, S
<1>5. \A p \in S : p \notin Earlier(o, p)
  <2> TAKE p \in S
  <2>1. ~DepthFirst(o, p, p) BY OrderStrict DEF S
  <2> QED BY <2>1 DEF Earlier
<1>6. \A p \in S : IsFiniteSet(Earlier(o, p)) /\ Cardinality(Earlier(o, p)) \in 0 .. n - 1
  <2> TAKE p \in S
  <2> DEFINE E == Earlier(o, p)
  <2>1. E \subseteq S /\ E # S BY <1>4, <1>5
  <2> HIDE DEF E
  <2>2. IsFiniteSet(E) /\ Cardinality(E) \in Nat /\ Cardinality(E) < Cardinality(S)
    BY <1>3, <2>1, FS_Subset, FS_CardinalityType
  <2>3. Cardinality(E) \in 0 .. n - 1 BY <1>1, <1>3, <2>2
  <2> QED BY <2>2, <2>3 DEF E
<1>7. ASSUME NEW p \in S, NEW q \in S, DepthFirst(o, p, q)
      PROVE  Cardinality(Earlier(o, p)) < Cardinality(Earlier(o, q))
  <2>1. Earlier(o, p) \subseteq Earlier(o, q)
    <3> SUFFICES ASSUME NEW r \in Earlier(o, p) PROVE r \in Earlier(o, q) OBVIOUS
    <3>1. r \in S /\ DepthFirst(o, r, p) BY DEF Earlier, S
    <3>2. DepthFirst(o, r, q) BY <1>7, <3>1, OrderTransitive DEF S
    <3> QED BY <3>1, <3>2 DEF Earlier, S
  <2>2. p \in Earlier(o, q) BY <1>7 DEF Earlier, S
  <2>3. Earlier(o, p) # Earlier(o, q) BY <1>5, <2>2
  <2>4. IsFiniteSet(Earlier(o, q)) BY <1>6
  <2> DEFINE X == Earlier(o, p)
             Y == Earlier(o, q)
  <2>5. X \subseteq Y /\ X # Y /\ IsFiniteSet(Y) BY <2>1, <2>3, <2>4
  <2> HIDE DEF X, Y
  <2>6. Cardinality(X) < Cardinality(Y)
    <3>1. X \in SUBSET Y BY <2>5
    <3>2. /\ IsFiniteSet(X) /\ Cardinality(X) <= Cardinality(Y)
          /\ (Cardinality(Y) = Cardinality(X) => Y = X)
      BY <2>5, <3>1, FS_Subset
    <3>3. Cardinality(X) \in Nat /\ Cardinality(Y) \in Nat BY <2>5, <3>2, FS_CardinalityType
    <3> QED BY <2>5, <3>2, <3>3
  <2> QED BY <2>6 DEF X, Y
<1>8. ASSUME NEW p \in S, NEW q \in S,
             Cardinality(Earlier(o, p)) < Cardinality(Earlier(o, q))
      PROVE  DepthFirst(o, p, q)
  <2>1. Cardinality(Earlier(o, p)) \in Nat /\ Cardinality(Earlier(o, q)) \in Nat
    BY <1>1, <1>6
  <2>2. p # q BY <1>8, <2>1
  <2>3. ~DepthFirst(o, q, p)
    <3> SUFFICES ASSUME DepthFirst(o, q, p) PROVE FALSE OBVIOUS
    <3>1. Cardinality(Earlier(o, q)) < Cardinality(Earlier(o, p)) BY <1>7
    <3> QED BY <1>8, <2>1, <3>1
  <2> QED BY <2>2, <2>3, OrderTotal DEF S
<1> QED BY <1>3, <1>6, <1>7, <1>8 DEF S, n

(* The trie's nodes in depth-first order: each chosen node once.           *)
Ordered(o, w) ==
  /\ w \in [1 .. Len(o) -> ToSet(o)]
  /\ \A p \in ToSet(o) : \E i \in 1 .. Len(o) : w[i] = p
  /\ \A i, j \in 1 .. Len(o) : w[i] = w[j] => i = j
  /\ \A i, j \in 1 .. Len(o) : DepthFirst(o, w[i], w[j]) <=> i < j

(* Flatten puts them in that order: a node's index is how many are before. *)
LEMMA FlattenOrdered ==
  ASSUME NEW c \in Seq(Nat), NEW o, Picked(c, o)
  PROVE  Ordered(o, Flatten(o))
<1> DEFINE S == ToSet(o)
           n == Len(o)
           f == [p \in S |-> Cardinality(Earlier(o, p))]
           w == Flatten(o)
<1>1. n \in Nat /\ DOMAIN o = 1 .. n BY PickedNodes
<1>2. IsFiniteSet(S) /\ Cardinality(S) = n /\ \A p \in S : f[p] \in 0 .. n - 1
  BY EarlierShape
<1>3. \A p, q \in S : DepthFirst(o, p, q) <=> f[p] < f[q] BY EarlierShape
<1>4. ASSUME NEW p \in S, NEW q \in S, f[p] = f[q] PROVE p = q
  <2> SUFFICES ASSUME p # q PROVE FALSE OBVIOUS
  <2>1. DepthFirst(o, p, q) \/ DepthFirst(o, q, p) BY OrderTotal
  <2>2. f[p] < f[q] \/ f[q] < f[p] BY <1>3, <2>1
  <2>3. f[p] \in Nat BY <1>1, <1>2
  <2> HIDE DEF f
  <2> QED BY <1>4, <2>2, <2>3
<1>5. w = [i \in 1 .. n |-> CHOOSE p \in S : f[p] = i - 1]
  <2>1. w = [i \in 1 .. n |-> CHOOSE p \in S : Cardinality(Earlier(o, p)) = i - 1]
    BY <1>1, Zenon DEF Flatten, Earlier
  <2>2. \A i : (CHOOSE p \in S : Cardinality(Earlier(o, p)) = i - 1)
               = CHOOSE p \in S : f[p] = i - 1
    OBVIOUS
  <2> QED BY <2>1, <2>2, Zenon
<1> HIDE DEF f
<1>6. DOMAIN f = S BY DEF f
<1>7. f \in Surjection(S, 0 .. n - 1)
  <2>1. f \in [S -> 0 .. n - 1] BY <1>2 DEF f
  <2>2. f \in Injection(S, 0 .. n - 1)
    <3> HIDE DEF S
    <3> QED BY <1>4, <1>6, <2>1 DEF Injection, IsInjective
  <2>3. IsFiniteSet(0 .. n - 1) /\ Cardinality(0 .. n - 1) = n
    <3>0. n - 1 \in Int BY <1>1
    <3>1. PICK m \in Int : m = n - 1 BY <3>0
    <3>2. PICK z \in Int : z = 0 OBVIOUS
    <3>3. IsFiniteSet(z .. m) /\ Cardinality(z .. m) = IF z > m THEN 0 ELSE m - z + 1
      BY FS_Interval
    <3>4. (IF z > m THEN 0 ELSE m - z + 1) = n BY <1>1, <3>1, <3>2
    <3> QED BY <3>1, <3>2, <3>3, <3>4
  <2> QED BY <1>2, <2>2, <2>3, FS_Injection
<1> HIDE DEF S, w
<1>8. ASSUME NEW i \in 1 .. n PROVE w[i] \in S /\ f[w[i]] = i - 1
  <2>1. i - 1 \in 0 .. n - 1 BY <1>1
  <2>2. \E p \in S : f[p] = i - 1 BY <1>7, <2>1 DEF Surjection
  <2>3. w[i] = CHOOSE p \in S : f[p] = i - 1 BY <1>5
  <2> QED BY <2>2, <2>3
<1>9. w \in [1 .. n -> S]
  <2>1. DOMAIN w = 1 .. n /\ w = [i \in 1 .. n |-> w[i]]
    <3>1. DOMAIN w = 1 .. n BY <1>5
    <3> QED BY <1>5, <3>1
  <2> QED BY <1>8, <2>1
<1>10. ASSUME NEW p \in S PROVE \E i \in 1 .. n : w[i] = p
  <2>1. f[p] \in 0 .. n - 1 BY <1>2
  <2>2. PICK i \in 1 .. n : f[p] = i - 1
    <3>1. f[p] + 1 \in 1 .. n /\ f[p] = (f[p] + 1) - 1 BY <1>1, <2>1
    <3> QED BY <3>1
  <2>3. w[i] \in S /\ f[w[i]] = f[p] BY <1>8, <2>2
  <2> QED BY <1>4, <2>3
<1>11. \A i, j \in 1 .. n : w[i] = w[j] => i = j
  <2> TAKE i, j \in 1 .. n
  <2>1. w[i] = w[j] => i - 1 = j - 1 BY <1>8
  <2> QED BY <1>1, <2>1
<1>12. \A i, j \in 1 .. n : DepthFirst(o, w[i], w[j]) <=> i < j
  <2> TAKE i, j \in 1 .. n
  <2>1. DepthFirst(o, w[i], w[j]) <=> f[w[i]] < f[w[j]] BY <1>3, <1>8
  <2>2. f[w[i]] = i - 1 /\ f[w[j]] = j - 1 BY <1>8
  <2> QED BY <1>1, <2>1, <2>2
<1> QED BY <1>9, <1>10, <1>11, <1>12, Zenon DEF Ordered, S, n, w

(* The parent of a node, in depth-first order: the node before its last    *)
(* token, which came earlier.                                              *)
Hanging(o, w, m) ==
  \A i \in 1 .. Len(o) :
    /\ Len(w[i]) = 1 => m[i] = 0
    /\ Len(w[i]) # 1 => m[i] \in 1 .. i - 1 /\ w[m[i]] = Front(w[i])

(* The nodes in that order are chosen nodes, none longer than the trie is  *)
(* large, and each is its parent's path and one token.                     *)
LEMMA OrderedNodes ==
  ASSUME NEW c \in Seq(Nat), NEW o, Picked(c, o), NEW w, Ordered(o, w)
  PROVE  /\ Len(o) \in Nat
         /\ \A i \in 1 .. Len(o) : /\ w[i] \in ToSet(o) /\ w[i] \in Paths(c)
                                   /\ w[i] \in Seq(Nat) /\ Len(w[i]) \in Nat \ {0} /\ w[i] # <<>>
                                   /\ Front(w[i]) \in Seq(Nat) /\ Last(w[i]) \in Nat
                                   /\ Len(Front(w[i])) = Len(w[i]) - 1
                                   /\ Append(Front(w[i]), Last(w[i])) = w[i]
                                   /\ Front(w[i]) = Upto(w[i], Len(w[i]) - 1)
                                   /\ Len(w[i]) <= Len(o)
<1>1. Len(o) \in Nat BY PickedNodes
<1>2. ASSUME NEW i \in 1 .. Len(o), NEW p, p = w[i]
      PROVE  /\ p \in ToSet(o) /\ p \in Paths(c)
             /\ p \in Seq(Nat) /\ Len(p) \in Nat \ {0} /\ p # <<>>
             /\ Front(p) \in Seq(Nat) /\ Last(p) \in Nat
             /\ Len(Front(p)) = Len(p) - 1
             /\ Append(Front(p), Last(p)) = p
             /\ Front(p) = Upto(p, Len(p) - 1)
             /\ Len(p) <= Len(o)
  <2>1. p \in ToSet(o) BY <1>2 DEF Ordered
  <2>2. p \in Paths(c) /\ p \in Seq(Nat) /\ Len(p) \in Nat \ {0} BY <2>1, PickedNodes
  <2>3. p # <<>> BY <2>2
  <2>4. /\ Front(p) \in Seq(Nat) /\ Last(p) \in Nat /\ Append(Front(p), Last(p)) = p
        /\ Len(Front(p)) = Len(p) - 1
    BY <2>2, <2>3, FrontLastProps
  <2>5. Front(p) = Upto(p, Len(p) - 1) BY Zenon DEF Front, Upto
  <2>6. ToSet(o) = { o[j] : j \in 1 .. Len(o) } BY PickedNodes
  <2>7. PICK j \in 1 .. Len(o) : p = o[j] BY <2>1, <2>6
  <2>8. Len(p) <= j BY <2>7 DEF Picked
  <2>9. Len(p) <= Len(o) BY <1>1, <2>2, <2>8
  <2> QED BY <2>1, <2>2, <2>3, <2>4, <2>5, <2>9
<1> QED BY <1>1, <1>2

(* A parent was chosen before its children and comes before them.          *)
LEMMA ParentsHang ==
  ASSUME NEW c \in Seq(Nat), NEW o, Picked(c, o), NEW w, Ordered(o, w)
  PROVE  Hanging(o, w, [i \in 1 .. Len(o) |-> ParentOf(w, w[i])])
<1> DEFINE n == Len(o)
           m == [i \in 1 .. n |-> ParentOf(w, w[i])]
<1>1. DOMAIN w = 1 .. n BY DEF Ordered
<1>2. ASSUME NEW i \in 1 .. n, Len(w[i]) = 1 PROVE m[i] = 0 BY <1>2 DEF ParentOf
<1>3. ASSUME NEW i \in 1 .. n, Len(w[i]) # 1
      PROVE  m[i] \in 1 .. i - 1 /\ w[m[i]] = Front(w[i])
  <2> DEFINE p == w[i]
             f == Front(p)
             k == Len(p) - 1
             h == CHOOSE j \in DOMAIN w : w[j] = f
  <2>1. /\ p \in ToSet(o) /\ p \in Seq(Nat) /\ Len(p) \in Nat \ {0}
        /\ f \in Seq(Nat) /\ Len(f) = k /\ f = Upto(p, k)
    BY OrderedNodes
  <2>2. m[i] = h BY <1>3 DEF ParentOf
  <2> HIDE DEF m
  <2>3. Len(p) # 1 BY <1>3
  <2> HIDE DEF p, f
  <2>4. k \in 1 .. Len(p) /\ k \in 0 .. Len(p) /\ k \in Nat /\ Len(p) = k + 1 BY <2>1, <2>3
  <2> HIDE DEF k
  <2>5. f \in ToSet(o) BY <2>1, <2>4, PickedNodes
  <2>6. \E j \in DOMAIN w : w[j] = f BY <1>1, <2>5 DEF Ordered
  <2>7. h \in 1 .. n /\ w[h] = f BY <1>1, <2>6
  <2> HIDE DEF h
  <2>8. \A j \in 1 .. k : f[j] = p[j]
    <3>1. \A j \in 1 .. k : Upto(p, k)[j] = p[j] BY <2>1, <2>4, UptoShape
    <3> QED BY <2>1, <3>1
  <2>9. Parting(o, f, p, k) BY <2>1, <2>4, <2>8 DEF Parting, Agree
  <2>10. DepthFirst(o, f, p) BY <2>1, <2>4, <2>5, <2>9, DepthFirstIs
  <2>11. DepthFirst(o, w[h], w[i]) BY <2>7, <2>10 DEF p
  <2>12. h < i BY <2>7, <2>11 DEF Ordered
  <2>13. h \in 1 .. i - 1 BY <2>7, <2>12
  <2> QED BY <2>2, <2>7, <2>13 DEF f, p
<1>4. \A i \in 1 .. n : /\ Len(w[i]) = 1 => m[i] = 0
                        /\ Len(w[i]) # 1 => m[i] \in 1 .. i - 1 /\ w[m[i]] = Front(w[i])
  BY <1>2, <1>3
<1> HIDE DEF m
<1>5. Hanging(o, w, m) BY <1>4 DEF Hanging
<1> QED BY <1>5 DEF m

\* The tree with those nodes.
NodesOf(tree, o, w, m) ==
  /\ tree.tokens = [i \in 1 .. Len(o) |-> Last(w[i])]
  /\ tree.parents = [i \in 1 .. Len(o) |-> m[i]]

\* The tree names its nodes' paths and parents.
Planted(tree, n, w, m) ==
  /\ IsTree(tree) /\ Size(tree) = n
  /\ \A i \in 1 .. n : PathTo(tree, i) = w[i] /\ tree.parents[i] = m[i]

(* The trie of chosen nodes is a tree, and the path to a node is the node. *)
LEMMA NodesTree ==
  ASSUME NEW c \in Seq(Nat), NEW o, Picked(c, o), NEW w, Ordered(o, w), NEW m,
         Hanging(o, w, m), NEW tree, NodesOf(tree, o, w, m)
  PROVE  Planted(tree, Len(o), w, m)
<1> DEFINE n == Len(o)
<1>a. /\ tree.tokens = [i \in 1 .. n |-> Last(w[i])] /\ tree.parents = [i \in 1 .. n |-> m[i]]
  BY DEF NodesOf
<1>1. n \in Nat /\ \A i \in 1 .. n : /\ w[i] \in Seq(Nat) /\ Len(w[i]) \in Nat \ {0}
                                     /\ Last(w[i]) \in Nat
                                     /\ Append(Front(w[i]), Last(w[i])) = w[i]
                                     /\ Front(w[i]) \in Seq(Nat)
                                     /\ Len(Front(w[i])) = Len(w[i]) - 1
  <2>1. n \in Nat BY OrderedNodes
  <2>2. ASSUME NEW i \in 1 .. Len(o)
        PROVE  /\ w[i] \in Seq(Nat) /\ Len(w[i]) \in Nat \ {0}
               /\ Last(w[i]) \in Nat
               /\ Append(Front(w[i]), Last(w[i])) = w[i]
               /\ Front(w[i]) \in Seq(Nat)
               /\ Len(Front(w[i])) = Len(w[i]) - 1
    <3>1. w[i] \in Seq(Nat) /\ Len(w[i]) \in Nat \ {0} /\ w[i] # <<>> BY OrderedNodes
    <3>2. PICK p \in Seq(Nat) : p = w[i] BY <3>1
    <3>3. p # <<>> BY <3>1, <3>2
    <3>4. /\ Front(p) \in Seq(Nat) /\ Last(p) \in Nat /\ Append(Front(p), Last(p)) = p
          /\ Len(Front(p)) = Len(p) - 1
      BY <3>3, FrontLastProps
    <3> QED BY <3>1, <3>2, <3>4
  <2> QED BY <2>1, <2>2
<1>2. \A i \in 1 .. n : /\ Len(w[i]) = 1 => m[i] = 0
                        /\ Len(w[i]) # 1 => m[i] \in 1 .. i - 1 /\ w[m[i]] = Front(w[i])
  BY DEF Hanging
<1>3. \A i \in 1 .. n : m[i] \in 0 .. i - 1 /\ m[i] \in Nat
  <2> TAKE i \in 1 .. n
  <2>0. i \in Nat /\ i >= 1 BY <1>1
  <2>1. CASE Len(w[i]) = 1
    <3>1. m[i] = 0 BY <1>2, <2>1
    <3> QED BY <2>0, <3>1
  <2>2. CASE Len(w[i]) # 1
    <3>1. m[i] \in 1 .. i - 1 BY <1>2, <2>2
    <3> QED BY <2>0, <3>1
  <2> QED BY <2>1, <2>2
<1>0. ASSUME NEW i \in 1 .. n, Len(w[i]) = 1 PROVE Front(w[i]) = <<>>
  <2>1. PICK k \in Nat : k = Len(w[i]) BY <1>1
  <2>2. PICK h \in Seq(Nat) : h = Front(w[i]) BY <1>1
  <2>3. Len(h) = k - 1 BY <1>1, <2>1, <2>2
  <2>4. Len(h) = 0 BY <1>0, <2>1, <2>3
  <2>5. h = <<>> BY <2>4, EmptySeq
  <2> QED BY <2>2, <2>5
<1>4. \A i \in 1 .. n : tree.tokens[i] = Last(w[i]) /\ tree.parents[i] = m[i] BY <1>a
<1>5. tree.tokens \in [1 .. n -> Nat] /\ tree.parents \in [1 .. n -> Nat] BY <1>a, <1>1, <1>3
<1> HIDE DEF n
<1>6. /\ tree.tokens \in Seq(Nat) /\ Len(tree.tokens) = n
      /\ tree.parents \in Seq(Nat) /\ Len(tree.parents) = n
  BY <1>1, <1>5, FunctionSeq
<1>7. DOMAIN tree.parents = 1 .. n BY <1>5
<1>8. ASSUME NEW i \in 1 .. n, NEW j \in 1 .. n, m[i] = m[j], Last(w[i]) = Last(w[j])
      PROVE  i = j
  <2>1. Front(w[i]) = Front(w[j])
    <3>1. CASE m[i] = 0
      <4>1. ASSUME NEW h \in 1 .. n, m[h] = 0 PROVE Len(w[h]) = 1
        <5> SUFFICES ASSUME Len(w[h]) # 1 PROVE FALSE OBVIOUS
        <5>1. m[h] \in 1 .. h - 1 BY <1>2
        <5>2. 0 \in 1 .. h - 1 BY <4>1, <5>1
        <5> QED BY <5>2
      <4>2. Len(w[i]) = 1 /\ Len(w[j]) = 1 BY <1>8, <3>1, <4>1
      <4> QED BY <1>0, <4>2
    <3>2. CASE m[i] # 0
      <4>1. Len(w[i]) # 1 /\ Len(w[j]) # 1 BY <1>2, <1>8, <3>2
      <4> QED BY <1>2, <1>8, <4>1
    <3> QED BY <3>1, <3>2
  <2>2. w[i] = w[j] BY <1>1, <1>8, <2>1
  <2> QED BY <2>2 DEF Ordered, n
<1>9. IsTree(tree)
  <2>1. \A i \in DOMAIN tree.parents : tree.parents[i] \in 0 .. i - 1 BY <1>3, <1>4, <1>7
  <2>2. \A i, j \in DOMAIN tree.parents :
          tree.parents[i] = tree.parents[j] /\ tree.tokens[i] = tree.tokens[j] => i = j
    <3> TAKE i, j \in DOMAIN tree.parents
    <3> HAVE tree.parents[i] = tree.parents[j] /\ tree.tokens[i] = tree.tokens[j]
    <3>1. i \in 1 .. n /\ j \in 1 .. n BY <1>7
    <3>2. m[i] = m[j] /\ Last(w[i]) = Last(w[j]) BY <1>4, <3>1
    <3> QED BY <1>8, <3>1, <3>2
  <2> QED BY <1>6, <2>1, <2>2 DEF IsTree
<1>10. Size(tree) = n BY <1>6 DEF Size
<1>11. Stepwise(tree, w)
  <2> SUFFICES ASSUME NEW i \in 1 .. n
               PROVE  /\ w[i] \in Seq(Nat)
                      /\ w[i] = Append(IF tree.parents[i] = 0 THEN <<>> ELSE w[tree.parents[i]],
                                       tree.tokens[i])
    BY <1>10 DEF Stepwise
  <2>1. tree.parents[i] = m[i] /\ tree.tokens[i] = Last(w[i]) BY <1>4
  <2>2. w[i] \in Seq(Nat) /\ Append(Front(w[i]), Last(w[i])) = w[i] BY <1>1
  <2>3. Front(w[i]) = IF m[i] = 0 THEN <<>> ELSE w[m[i]]
    <3>1. CASE Len(w[i]) = 1
      <4>1. Front(w[i]) = <<>> BY <1>0, <3>1
      <4> QED BY <1>2, <3>1, <4>1
    <3>2. CASE Len(w[i]) # 1
      <4>1. m[i] \in 1 .. i - 1 /\ w[m[i]] = Front(w[i]) BY <1>2, <3>2
      <4>2. m[i] # 0 BY <4>1
      <4> QED BY <4>1, <4>2
    <3> QED BY <3>1, <3>2
  <2> QED BY <2>1, <2>2, <2>3
<1>12. Parents(tree.parents, Size(tree)) BY <1>3, <1>4, <1>10 DEF Parents
<1>13. \A i \in 1 .. n : PathTo(tree, i) = w[i]
  <2>0. tree.tokens \in Seq(Nat) BY <1>6
  <2>1. \A i \in 1 .. Size(tree) : PathTo(tree, i) = w[i] BY ONLY <2>0, <1>11, <1>12, PathsAre
  <2> QED BY <1>10, <2>1
<1> QED BY <1>4, <1>9, <1>10, <1>13 DEF n, Planted

(* In depth-first order a node's parent is the node before it, or one of   *)
(* that node's ancestors: between the two there are only the subtrees of   *)
(* siblings.                                                               *)
LEMMA NodesConsecutive ==
  ASSUME NEW c \in Seq(Nat), NEW o, Picked(c, o), NEW w, Ordered(o, w),
         NEW i \in 2 .. Len(o), Len(w[i]) # 1
  PROVE  \E d \in 1 .. Len(w[i - 1]) : Front(w[i]) = Upto(w[i - 1], d)
<1>0. Len(o) \in Nat BY PickedNodes
<1>1. i \in 1 .. Len(o) /\ i - 1 \in 1 .. Len(o) /\ i - 1 < i BY <1>0
<1>2. PICK p \in Seq(Nat) : p = w[i] BY <1>1, OrderedNodes
<1>3. PICK b \in Seq(Nat) : b = w[i - 1] BY <1>1, OrderedNodes
<1>4. /\ p \in ToSet(o) /\ Len(p) \in Nat \ {0} /\ Front(p) \in Seq(Nat)
      /\ Len(Front(p)) = Len(p) - 1 /\ Front(p) = Upto(p, Len(p) - 1)
  BY <1>1, <1>2, OrderedNodes
<1>5. b \in ToSet(o) /\ Len(b) \in Nat \ {0} BY <1>1, <1>3, OrderedNodes
<1>6. PICK f \in Seq(Nat) : f = Front(p) BY <1>4
<1>7. PICK k \in Nat : k = Len(p) - 1 BY <1>4
<1>8. k \in 1 .. Len(p) /\ k \in 0 .. Len(p) /\ Len(p) = k + 1
  <2>1. Len(p) # 1 BY <1>2
  <2>2. PICK e \in Nat \ {0} : e = Len(p) BY <1>4
  <2>3. k = e - 1 /\ e # 1 BY <1>7, <2>1, <2>2
  <2>4. k \in 1 .. e /\ k \in 0 .. e /\ e = k + 1 BY <2>2, <2>3
  <2> QED BY <2>2, <2>4
<1>9. f = Upto(p, k) /\ Len(f) = k BY <1>4, <1>6, <1>7
<1>10. \A j \in 1 .. k : f[j] = p[j]
  <2>1. \A j \in 1 .. k : Upto(p, k)[j] = p[j] BY <1>8, UptoShape
  <2> QED BY <1>9, <2>1
<1>11. f \in ToSet(o) BY <1>4, <1>8, <1>9, PickedNodes
<1>12. DepthFirst(o, f, p)
  <2>1. Agree(f, p, k) BY <1>8, <1>9, <1>10 DEF Agree
  <2>2. Parting(o, f, p, k) BY <1>8, <1>9, <2>1 DEF Parting
  <2> QED BY <1>4, <1>11, <2>2, DepthFirstIs
<1>13. PICK h \in 1 .. Len(o) : w[h] = f BY <1>11 DEF Ordered
<1>14. h < i
  <2>1. DepthFirst(o, w[h], w[i]) BY <1>2, <1>12, <1>13
  <2> QED BY <1>1, <2>1 DEF Ordered
<1>15. ~DepthFirst(o, b, f)
  <2> SUFFICES ASSUME DepthFirst(o, b, f) PROVE FALSE OBVIOUS
  <2>1. DepthFirst(o, w[i - 1], w[h]) BY <1>3, <1>13
  <2>2. i - 1 < h BY <1>1, <1>13, <2>1 DEF Ordered
  <2> QED BY <1>0, <1>1, <1>13, <1>14, <2>2
<1>16. PICK d \in Nat : Parting(o, b, p, d)
  <2>1. DepthFirst(o, w[i - 1], w[i]) BY <1>1 DEF Ordered
  <2>2. DepthFirst(o, b, p) BY <1>2, <1>3, <2>1
  <2> QED BY <1>4, <1>5, <2>2, DepthFirstIs
<1>17. d <= Len(b) /\ d < Len(p) /\ \A j \in 1 .. d : b[j] = p[j]
  BY <1>4, <1>5, <1>16 DEF Parting, Agree
<1>18. d <= k BY <1>8, <1>17
<1>19. ASSUME d < k PROVE Parting(o, b, f, d)
  <2>1. \A j \in 1 .. d : b[j] = f[j] BY <1>10, <1>17, <1>19
  <2>2. Agree(b, f, d) BY <1>9, <1>17, <1>19, <2>1 DEF Agree
  <2>3. CASE Len(b) = d BY <1>9, <1>19, <2>2, <2>3 DEF Parting
  <2>4. CASE Len(b) # d
    <3>1. /\ Len(b) > d /\ b[d + 1] # p[d + 1]
          /\ WhenChosen(o, b, d + 1) < WhenChosen(o, p, d + 1)
      BY <1>16, <2>4 DEF Parting
    <3>2. d + 1 \in 1 .. k /\ d + 1 \in Nat \ {0} /\ d + 1 <= k BY <1>19
    <3>3. p[d + 1] = f[d + 1] BY <1>10, <3>2
    <3>4. Agree(f, p, d + 1) BY <1>8, <1>9, <1>10, <3>2 DEF Agree
    <3>5. WhenChosen(o, f, d + 1) = WhenChosen(o, p, d + 1)
      BY <1>4, <1>11, <3>2, <3>4, WhenSame
    <3> QED BY <1>9, <1>19, <2>2, <3>1, <3>3, <3>5 DEF Parting
  <2> QED BY <2>3, <2>4
<1>20. ~(d < k)
  <2> SUFFICES ASSUME d < k PROVE FALSE OBVIOUS
  <2>1. DepthFirst(o, b, f) BY <1>5, <1>11, <1>19, DepthFirstIs
  <2> QED BY <1>15, <2>1
<1>21. d = k BY <1>18, <1>20
<1>22. Upto(b, k) = Upto(p, k)
  <2>1. k <= Len(b) BY <1>17, <1>21
  <2>2. k <= Len(p) BY <1>4, <1>8
  <2>3. \A j \in 1 .. k : b[j] = p[j] BY <1>17, <1>21
  <2> QED BY <2>1, <2>2, <2>3, UptoEqual
<1>23. k \in 1 .. Len(b) BY <1>5, <1>8, <1>17, <1>21
<1> QED BY <1>2, <1>3, <1>6, <1>9, <1>22, <1>23

\* The node sees the input and its ancestors.
SeesAncestors(V, w, n, a) ==
  /\ 1 \in V[a + 1]
  /\ \A d \in 1 .. Len(w[a]), j \in 1 .. n : w[j] = Upto(w[a], d) => j + 1 \in V[a + 1]

(* The query of a node sees the end of the input, and the queries of all   *)
(* beginnings of the node's path.                                          *)
LEMMA AncestorsSeen ==
  ASSUME NEW c \in Seq(Nat), NEW o, Picked(c, o), NEW w, Ordered(o, w), NEW m,
         Hanging(o, w, m), NEW l, NEW V, l[1] = 0,
         \A i \in 1 .. Len(o) : l[i + 1] = m[i] + 1,
         \A q \in 1 .. Len(o) + 1 : V[q] = {q} \union IF l[q] = 0 THEN {} ELSE V[l[q]]
  PROVE  \A a \in 1 .. Len(o) : SeesAncestors(V, w, Len(o), a)
<1>0. PICK n \in Nat : n = Len(o) BY PickedNodes
<1> DEFINE B == { x \in Nat : \A a \in 1 .. n : a <= x => SeesAncestors(V, w, n, a) }
<1>1. 0 \in B OBVIOUS
<1>2. ASSUME NEW x \in B PROVE x + 1 \in B
  <2>1. x \in Nat /\ \A a \in 1 .. n : a <= x => SeesAncestors(V, w, n, a) OBVIOUS
  <2> HIDE DEF B
  <2>2. ASSUME NEW a \in 1 .. n, a <= x + 1 PROVE SeesAncestors(V, w, n, a)
    <3>1. a \in 1 .. Len(o) /\ a \in Nat /\ a + 1 \in 1 .. Len(o) + 1 BY <1>0
    <3>2. PICK p \in Seq(Nat) : p = w[a] BY <3>1, OrderedNodes
    <3>3. /\ Len(p) \in Nat \ {0}
          /\ Len(Front(p)) = Len(p) - 1 /\ Front(p) = Upto(p, Len(p) - 1)
      BY <3>1, <3>2, OrderedNodes
    <3>4. (Len(p) = 1 => m[a] = 0) /\ (Len(p) # 1 => m[a] \in 1 .. a - 1 /\ w[m[a]] = Front(p))
      BY <3>1, <3>2 DEF Hanging
    <3>5. V[a + 1] = {a + 1} \union V[m[a] + 1]
      <4>1. m[a] \in Nat
        <5>1. m[a] = 0 \/ m[a] \in 1 .. a - 1 BY <3>4
        <5> QED BY <3>1, <5>1
      <4>2. l[a + 1] = m[a] + 1 BY <3>1
      <4>3. l[a + 1] # 0 BY <4>1, <4>2
      <4> QED BY <3>1, <4>2, <4>3
    <3>6. ASSUME Len(p) # 1 PROVE m[a] \in 1 .. n /\ SeesAncestors(V, w, n, m[a])
      <4>1. m[a] \in 1 .. a - 1 BY <3>4, <3>6
      <4>2. m[a] \in 1 .. n /\ m[a] <= x BY <2>1, <2>2, <4>1
      <4> QED BY <2>1, <4>2
    <3>7. 1 \in V[a + 1]
      <4>1. CASE Len(p) = 1
        <5>1. m[a] + 1 = 1 BY <3>4, <4>1
        <5>2. 1 \in 1 .. Len(o) + 1 BY <1>0
        <5>3. 1 \in V[1] BY <5>2
        <5> QED BY <3>5, <5>1, <5>3
      <4>2. CASE Len(p) # 1 BY <3>5, <3>6, <4>2 DEF SeesAncestors
      <4> QED BY <4>1, <4>2
    <3>8. ASSUME NEW d \in 1 .. Len(p), NEW j \in 1 .. n, w[j] = Upto(p, d)
          PROVE  j + 1 \in V[a + 1]
      <4>1. CASE d = Len(p)
        <5>1. Upto(p, d) = p BY <4>1, UptoEnds
        <5>2. w[j] = w[a] BY <3>2, <3>8, <5>1
        <5>3. j = a BY <1>0, <3>1, <5>2 DEF Ordered
        <5> QED BY <3>5, <5>3
      <4>2. CASE d # Len(p)
        <5>1. Len(p) # 1
          <6>1. PICK e \in Nat : e = Len(p) BY <3>3
          <6>2. d \in 1 .. e /\ d # e BY <4>2, <6>1
          <6>3. e # 1
            <7> SUFFICES ASSUME e = 1 PROVE FALSE OBVIOUS
            <7>1. d \in 1 .. 1 /\ d # 1 BY <6>2
            <7>2. \A y \in 1 .. 1 : y = 1 OBVIOUS
            <7> QED BY <7>1, <7>2
          <6> QED BY <6>1, <6>3
        <5>2. PICK k \in Nat : k = Len(p) - 1 BY <3>3
        <5>3. d \in 1 .. k /\ d \in 0 .. k /\ k \in 0 .. Len(p) BY <3>3, <3>8, <4>2, <5>2
        <5>4. w[m[a]] = Upto(p, k) /\ Len(w[m[a]]) = k BY <3>3, <3>4, <5>1, <5>2
        <5>5. Upto(Upto(p, k), d) = Upto(p, d) BY <5>3, UptoUpto, SMTT(30)
        <5>6. w[j] = Upto(w[m[a]], d) BY <3>8, <5>4, <5>5
        <5>7. j + 1 \in V[m[a] + 1] BY <3>6, <5>1, <5>3, <5>4, <5>6 DEF SeesAncestors
        <5> QED BY <3>5, <5>7
      <4> QED BY <4>1, <4>2
    <3> QED BY <3>2, <3>7, <3>8 DEF SeesAncestors
  <2>3. x + 1 \in Nat BY <2>1
  <2> QED BY <2>2, <2>3 DEF B
<1>3. B \in SUBSET Nat OBVIOUS
<1> HIDE DEF B
<1>4. n \in B BY <1>0, <1>1, <1>2, <1>3, Induct
<1>5. \A a \in 1 .. n : SeesAncestors(V, w, n, a) BY <1>0, <1>4 DEF B
<1> QED BY <1>0, <1>5

(* A node's parent is what the node before it sees.                        *)
LEMMA NodesVisible ==
  ASSUME NEW c \in Seq(Nat), NEW o, Picked(c, o), NEW w, Ordered(o, w), NEW m,
         Hanging(o, w, m), NEW l, NEW V, l[1] = 0,
         \A i \in 1 .. Len(o) : l[i + 1] = m[i] + 1,
         \A q \in 1 .. Len(o) + 1 : V[q] = {q} \union IF l[q] = 0 THEN {} ELSE V[l[q]]
  PROVE  \A i \in 1 .. Len(o) : i > 1 => l[i + 1] \in V[i]
<1> SUFFICES ASSUME NEW i \in 1 .. Len(o), i > 1 PROVE l[i + 1] \in V[i] OBVIOUS
<1>0. PICK n \in Nat : n = Len(o) BY PickedNodes
<1>1. i \in 2 .. Len(o) /\ i - 1 \in 1 .. Len(o) /\ (i - 1) + 1 = i BY <1>0
<1>2. SeesAncestors(V, w, n, i - 1)
  <2>1. \A a \in 1 .. Len(o) : SeesAncestors(V, w, Len(o), a) BY AncestorsSeen, Zenon
  <2> QED BY <1>0, <1>1, <2>1
<1>3. l[i + 1] = m[i] + 1 OBVIOUS
<1>4. CASE Len(w[i]) = 1
  <2>1. m[i] = 0 BY <1>4 DEF Hanging
  <2>2. 1 \in V[(i - 1) + 1] BY <1>2 DEF SeesAncestors
  <2> QED BY <1>1, <1>3, <2>1, <2>2
<1>5. CASE Len(w[i]) # 1
  <2>1. m[i] \in 1 .. i - 1 /\ w[m[i]] = Front(w[i]) BY <1>5 DEF Hanging
  <2>2. PICK d \in 1 .. Len(w[i - 1]) : Front(w[i]) = Upto(w[i - 1], d)
    <3>1. \A a \in 2 .. Len(o) :
            Len(w[a]) # 1 => \E d \in 1 .. Len(w[a - 1]) : Front(w[a]) = Upto(w[a - 1], d)
      <4> SUFFICES ASSUME NEW a \in 2 .. Len(o), Len(w[a]) # 1
                   PROVE  \E d \in 1 .. Len(w[a - 1]) : Front(w[a]) = Upto(w[a - 1], d)
        OBVIOUS
      <4>1. Picked(c, o) /\ Ordered(o, w) /\ c \in Seq(Nat) OBVIOUS
      <4>2. a \in 2 .. Len(o) /\ Len(w[a]) # 1 OBVIOUS
      <4> QED BY ONLY <4>1, <4>2, NodesConsecutive
    <3>2. i \in 2 .. Len(o) BY <1>1
    <3> QED BY ONLY <1>5, <3>1, <3>2, Zenon
  <2>3. m[i] \in 1 .. n BY <1>0, <1>1, <2>1
  <2>4. m[i] + 1 \in V[(i - 1) + 1] BY <1>2, <2>1, <2>2, <2>3 DEF SeesAncestors
  <2> QED BY <1>1, <1>3, <2>4
<1> QED BY <1>4, <1>5

(* The trie's best nodes, in depth-first order, are a draft of at most m   *)
(* nodes that continues the history.                                       *)
LEMMA TrieHistoric ==
  ASSUME NEW c \in Seq(Nat), NEW m \in Nat \ {0}, NEW n \in Nat \ {0}, m <= n
  PROVE  /\ IsTree(Trie(c, m)) /\ Size(Trie(c, m)) <= m
         /\ Historic(c, Trie(c, m), n)
<1>1. PICK o : o = Chosen(c, m) OBVIOUS
<1>2. Picked(c, o) /\ Len(o) <= m BY <1>1, ChosenShape
<1>3. PICK w : w = Flatten(o) OBVIOUS
<1>4. Ordered(o, w) BY <1>2, <1>3, FlattenOrdered
<1>5. PICK k \in Nat : k = Len(o) BY <1>2, PickedNodes
<1>6. PICK h : h = [i \in 1 .. Len(o) |-> ParentOf(w, w[i])] OBVIOUS
<1>7. Hanging(o, w, h) BY <1>2, <1>4, <1>6, ParentsHang
<1>8. PICK t : t = Trie(c, m) OBVIOUS
<1>9. t.tokens = [i \in 1 .. Len(o) |-> Last(w[i])] /\ t.parents = [i \in 1 .. Len(o) |-> h[i]]
  <2>1. DOMAIN w = 1 .. Len(o) BY <1>4 DEF Ordered
  <2>2. t = [tokens |-> [i \in DOMAIN w |-> Last(w[i])],
             parents |-> [i \in DOMAIN w |-> ParentOf(w, w[i])]]
    BY <1>1, <1>3, <1>8, Zenon DEF Trie
  <2>3. t.tokens = [i \in DOMAIN w |-> Last(w[i])]
        /\ t.parents = [i \in DOMAIN w |-> ParentOf(w, w[i])]
    BY <2>2
  <2>4. t.parents = h BY <1>6, <2>1, <2>3
  <2>5. h = [i \in 1 .. Len(o) |-> h[i]] BY <1>6
  <2> QED BY <2>1, <2>3, <2>4, <2>5
<1>10. /\ IsTree(t) /\ Size(t) = Len(o)
       /\ \A i \in 1 .. Len(o) : PathTo(t, i) = w[i]
       /\ \A i \in 1 .. Len(o) : t.parents[i] = h[i]
  <2>1. NodesOf(t, o, w, h) BY <1>9 DEF NodesOf
  <2>2. Picked(c, o) BY <1>2
  <2>3. Planted(t, Len(o), w, h) BY <1>4, <1>7, <2>1, <2>2, NodesTree, Zenon
  <2> QED BY <2>3 DEF Planted
<1>11. DOMAIN t.tokens = 1 .. Len(o) BY <1>9
<1>12. ASSUME NEW i \in 1 .. Len(o)
       PROVE  \E s \in Starts(c) : IsPrefix(PathTo(t, i), Continuation(c, s, n))
  <2>1. PICK p \in Paths(c) : p = w[i] BY <1>2, <1>4, OrderedNodes
  <2>2. p \in Seq(Nat) /\ Len(p) \in Nat /\ Len(p) <= Len(o) BY <1>2, <1>4, <2>1, OrderedNodes
  <2>3. Len(p) <= n BY <1>2, <1>5, <2>2
  <2>4. PICK s \in Starts(c) : IsPrefix(p, Continuation(c, s, MaxDepth)) BY NodeShape
  <2>5. MaxDepth \in Nat \ {0} BY DraftTreesAssumption
  <2>6. IsPrefix(p, Continuation(c, s, n)) BY <2>2, <2>3, <2>4, <2>5, PrefixFits
  <2>7. PathTo(t, i) = p BY <1>10, <2>1
  <2> QED BY <2>6, <2>7
<1>13. ASSUME NEW i \in 1 .. Len(o), i > 1
       PROVE  DraftLayout(1, t)[i + 1] \in Visibility(DraftLayout(1, t))[i]
  <2>1. PICK l : l = DraftLayout(1, t) OBVIOUS
  <2>2. PICK V : V = Visibility(l) OBVIOUS
  <2>3. /\ l[1] = 0
        /\ \A j \in 1 .. k : l[j + 1] = t.parents[j] + 1
        /\ \A q \in 1 .. k + 1 :
              Visibility(l)[q] = {q} \union IF l[q] = 0 THEN {} ELSE Visibility(l)[l[q]]
    <3>1. k = Size(t) BY <1>5, <1>10
    <3>2. IsTree(t) BY <1>10
    <3> QED BY ONLY <2>1, <3>1, <3>2, DraftQueries
  <2>4. \A j \in 1 .. Len(o) : l[j + 1] = h[j] + 1 BY <1>5, <1>10, <2>3
  <2>5. \A q \in 1 .. Len(o) + 1 : V[q] = {q} \union IF l[q] = 0 THEN {} ELSE V[l[q]]
    BY <1>5, <2>2, <2>3
  <2>6. \A j \in 1 .. Len(o) : j > 1 => l[j + 1] \in V[j]
    <3>1. Picked(c, o) /\ l[1] = 0 BY <1>2, <2>3
    <3> QED BY ONLY c \in Seq(Nat), <3>1, <1>4, <1>7, <2>4, <2>5, NodesVisible, SMTT(30)
  <2>7. l[i + 1] \in V[i] BY <1>13, <2>6
  <2> QED BY <2>1, <2>2, <2>7
<1>14. Historic(c, t, n) BY <1>11, <1>12, <1>13 DEF Historic
<1>15. Size(t) <= m BY <1>2, <1>10
<1> QED BY <1>8, <1>10, <1>14, <1>15
=============================================================================
