--------------------- MODULE TokenBudgetScheduler_proofs ---------------------
(***************************************************************************)
(* Proofs about TokenBudgetScheduler, for any number of requests, blocks   *)
(* and sequences, any budgets and any configured policies: every request   *)
(* is in one queue and owns KV if and only if it runs, what is used and    *)
(* promised fits the pool, so that no promise is broken, a step stays      *)
(* within its budgets, a single reserved sequence has its first token at   *)
(* once, and without self-resubmission the scheduler is never stuck.       *)
(*                                                                         *)
(* The invariant, Sound, holds between any two calls that the operations   *)
(* make, not only between the operations: one lemma per call shows that it *)
(* keeps Sound, and says what it leaves alone; the loops (rebalancing,     *)
(* admission, a lane) are folds, walked through state by state.            *)
(***************************************************************************)
EXTENDS TokenBudgetScheduler, DataLemmas, TLAPS

(* No request is in a queue twice.                                         *)
Distinct(q) == \A i, j \in 1 .. Len(q) : q[i] = q[j] => i = j

(* The members of a queue, and one more at its end.                        *)
LEMMA QueueAppend ==
  ASSUME NEW R, NEW q \in Seq(R), NEW x \in R
  PROVE  /\ Append(q, x) \in Seq(R)
         /\ ToSet(Append(q, x)) = ToSet(q) \cup {x}
         /\ Distinct(Append(q, x)) <=> Distinct(q) /\ x \notin ToSet(q)
<1> DEFINE u == Append(q, x)
           n == Len(q)
<1>1. /\ u \in Seq(R) /\ Len(u) = n + 1 /\ n \in Nat
      /\ u[n + 1] = x /\ \A i \in 1 .. n : u[i] = q[i]
      /\ DOMAIN u = 1 .. (n + 1) /\ DOMAIN q = 1 .. n
  BY AppendProperties
<1> HIDE DEF u, n
<1>2. \A i \in 1 .. (n + 1) : i = n + 1 \/ i \in 1 .. n BY <1>1
<1>3. \A i \in 1 .. n : i \in 1 .. (n + 1) /\ i # n + 1 BY <1>1
<1>4. n + 1 \in 1 .. (n + 1) BY <1>1
<1>5. ToSet(u) = ToSet(q) \cup {x} BY <1>1, <1>2, <1>3, <1>4 DEF ToSet
<1>6. Distinct(u) => Distinct(q) /\ x \notin ToSet(q)
  <2> SUFFICES ASSUME Distinct(u) PROVE Distinct(q) /\ x \notin ToSet(q) OBVIOUS
  <2>1. \A i, j \in 1 .. (n + 1) : u[i] = u[j] => i = j BY <1>1 DEF Distinct
  <2>2. \A i, j \in 1 .. n : q[i] = q[j] => i = j BY <1>1, <1>3, <2>1
  <2>3. ASSUME x \in ToSet(q) PROVE FALSE
    <3>1. PICK i \in 1 .. n : q[i] = x BY <1>1, <2>3 DEF ToSet
    <3> QED BY <1>1, <1>3, <1>4, <2>1, <3>1
  <2> QED BY <2>2, <2>3 DEF Distinct, n
<1>7. Distinct(q) /\ x \notin ToSet(q) => Distinct(u)
  <2> SUFFICES ASSUME Distinct(q), x \notin ToSet(q),
                      NEW i \in 1 .. (n + 1), NEW j \in 1 .. (n + 1), u[i] = u[j]
               PROVE  i = j
    BY <1>1 DEF Distinct
  <2>1. \A k, l \in 1 .. n : q[k] = q[l] => k = l BY DEF Distinct, n
  <2>2. \A k \in 1 .. n : q[k] # x BY <1>1 DEF ToSet
  <2> QED BY <1>1, <1>2, <2>1, <2>2
<1> QED BY <1>1, <1>5, <1>6, <1>7 DEF u

(* ... one more at its head.                                               *)
LEMMA QueueCons ==
  ASSUME NEW R, NEW q \in Seq(R), NEW x \in R
  PROVE  /\ <<x>> \o q \in Seq(R)
         /\ ToSet(<<x>> \o q) = ToSet(q) \cup {x}
         /\ Distinct(q) /\ x \notin ToSet(q) => Distinct(<<x>> \o q)
<1> DEFINE u == Cat(<<x>>, q)
           n == Len(q)
<1>1. /\ u \in Seq(R) /\ Len(u) = 1 + n /\ n \in Nat
      /\ u[1] = x /\ \A i \in 1 .. n : u[1 + i] = q[i]
      /\ DOMAIN u = 1 .. (1 + n) /\ DOMAIN q = 1 .. n
  <2>1. <<x>> \in Seq(R) /\ Len(<<x>>) = 1 /\ <<x>>[1] = x OBVIOUS
  <2>2. /\ Len(u) = Len(<<x>>) + Len(q)
        /\ DOMAIN u = 1..(Len(<<x>>) + Len(q))
        /\ \A i \in 1..Len(<<x>>) : u[i] = <<x>>[i]
        /\ \A i \in 1..Len(q) : u[Len(<<x>>) + i] = q[i]
    <3> DEFINE one == <<x>>
    <3>1. one \in Seq(R) BY <2>1
    <3> HIDE DEF one
    <3>2. /\ Len(Cat(one, q)) = Len(one) + Len(q)
          /\ DOMAIN Cat(one, q) = 1..(Len(one) + Len(q))
          /\ \A i \in 1..Len(one) : Cat(one, q)[i] = one[i]
          /\ \A i \in 1..Len(q) : Cat(one, q)[Len(one) + i] = q[i]
      BY <3>1, CatShape
    <3> QED BY <3>2 DEF one
  <2>3. u \in Seq(R) BY <2>1, CatType
  <2>4. Len(q) \in Nat /\ DOMAIN q = 1 .. Len(q) OBVIOUS
  <2>5. 1 \in 1..Len(<<x>>) BY <2>1
  <2> HIDE DEF u
  <2> QED BY <2>1, <2>2, <2>3, <2>4, <2>5
<1>2. u = <<x>> \o q BY DEF Cat
<1> HIDE DEF u, n
<1>3. \A i \in 1 .. (1 + n) : i = 1 \/ (i - 1 \in 1 .. n /\ i = 1 + (i - 1)) BY <1>1
<1>4. \A i \in 1 .. n : 1 + i \in 1 .. (1 + n) BY <1>1
<1>5. 1 \in 1 .. (1 + n) BY <1>1
<1>6. ToSet(u) = ToSet(q) \cup {x}
  <2>1. ToSet(u) \subseteq ToSet(q) \cup {x}
    <3> SUFFICES ASSUME NEW i \in 1 .. (1 + n) PROVE u[i] \in ToSet(q) \cup {x}
      BY <1>1 DEF ToSet
    <3>1. CASE i = 1 BY <1>1, <3>1
    <3>2. CASE i # 1
      <4>1. i - 1 \in 1 .. n /\ u[i] = u[1 + (i - 1)] BY <1>3, <3>2
      <4>2. u[i] = q[i - 1] /\ i - 1 \in DOMAIN q BY <1>1, <4>1
      <4> QED BY <4>2, Zenon DEF ToSet
    <3> QED BY <3>1, <3>2
  <2>2. ToSet(q) \cup {x} \subseteq ToSet(u) BY <1>1, <1>4, <1>5 DEF ToSet
  <2> QED BY <2>1, <2>2
<1>7. Distinct(q) /\ x \notin ToSet(q) => Distinct(u)
  <2> SUFFICES ASSUME Distinct(q), x \notin ToSet(q),
                      NEW i \in 1 .. (1 + n), NEW j \in 1 .. (1 + n), u[i] = u[j]
               PROVE  i = j
    BY <1>1 DEF Distinct
  <2>1. \A k, l \in 1 .. n : q[k] = q[l] => k = l BY DEF Distinct, n
  <2>2. \A k \in 1 .. n : q[k] # x BY <1>1 DEF ToSet
  <2>3. CASE i = 1 /\ j = 1 BY <2>3
  <2>4. CASE i = 1 /\ j # 1
    <3>1. u[j] = q[j - 1] /\ j - 1 \in 1 .. n BY <1>1, <1>3, <2>4
    <3> QED BY <1>1, <2>2, <2>4, <3>1
  <2>5. CASE i # 1 /\ j = 1
    <3>1. u[i] = q[i - 1] /\ i - 1 \in 1 .. n BY <1>1, <1>3, <2>5
    <3> QED BY <1>1, <2>2, <2>5, <3>1
  <2>6. CASE i # 1 /\ j # 1
    <3>1. u[j] = q[j - 1] /\ j - 1 \in 1 .. n BY <1>1, <1>3, <2>6
    <3>2. u[i] = q[i - 1] /\ i - 1 \in 1 .. n BY <1>1, <1>3, <2>6
    <3> QED BY <2>1, <3>1, <3>2
  <2> QED BY <2>3, <2>4, <2>5, <2>6
<1> QED BY <1>1, <1>2, <1>6, <1>7

(* A queue that is not empty is a head and a tail.                         *)
LEMMA QueueHead ==
  ASSUME NEW R, NEW q \in Seq(R), q # << >>
  PROVE  /\ Head(q) \in R /\ Tail(q) \in Seq(R) /\ Head(q) \in ToSet(q)
         /\ ToSet(q) = ToSet(Tail(q)) \cup {Head(q)}
         /\ Distinct(q) => Distinct(Tail(q)) /\ Head(q) \notin ToSet(Tail(q))
<1> DEFINE t == Tail(q)
           n == Len(q)
<1>1. /\ t \in Seq(R) /\ n \in Nat /\ n # 0 /\ Len(t) = n - 1
      /\ Head(q) = q[1] /\ \A i \in 1 .. (n - 1) : t[i] = q[i + 1]
      /\ DOMAIN q = 1 .. n /\ DOMAIN t = 1 .. (n - 1) /\ q[1] \in R
  BY HeadTailProperties
<1> HIDE DEF t, n
<1>2. \A i \in 1 .. n : i = 1 \/ (i - 1 \in 1 .. (n - 1) /\ i = (i - 1) + 1) BY <1>1
<1>3. \A i \in 1 .. (n - 1) : i + 1 \in 1 .. n /\ i + 1 # 1 BY <1>1
<1>4. 1 \in 1 .. n BY <1>1
<1>5. ToSet(q) = ToSet(t) \cup {q[1]}
  <2>1. ToSet(q) \subseteq ToSet(t) \cup {q[1]}
    <3> SUFFICES ASSUME NEW i \in 1 .. n PROVE q[i] \in ToSet(t) \cup {q[1]}
      BY <1>1 DEF ToSet
    <3>1. CASE i = 1 BY <3>1
    <3>2. CASE i # 1
      <4>1. i - 1 \in 1 .. (n - 1) /\ q[i] = q[(i - 1) + 1] BY <1>2, <3>2
      <4>2. q[i] = t[i - 1] /\ i - 1 \in DOMAIN t BY <1>1, <4>1
      <4> QED BY <4>2, Zenon DEF ToSet
    <3> QED BY <3>1, <3>2
  <2>2. ToSet(t) \cup {q[1]} \subseteq ToSet(q) BY <1>1, <1>3, <1>4 DEF ToSet
  <2> QED BY <2>1, <2>2
<1>6. Distinct(q) => Distinct(t) /\ q[1] \notin ToSet(t)
  <2> SUFFICES ASSUME Distinct(q) PROVE Distinct(t) /\ q[1] \notin ToSet(t) OBVIOUS
  <2>1. \A k, l \in 1 .. n : q[k] = q[l] => k = l BY DEF Distinct, n
  <2>2. ASSUME NEW i \in 1 .. (n - 1), NEW j \in 1 .. (n - 1), t[i] = t[j] PROVE i = j
    <3>1. q[i + 1] = q[j + 1] BY <1>1, <2>2
    <3>2. i + 1 = j + 1 BY <1>3, <2>1, <3>1
    <3> QED BY <3>2
  <2>3. ASSUME q[1] \in ToSet(t) PROVE FALSE
    <3>1. PICK i \in 1 .. (n - 1) : t[i] = q[1] BY <1>1, <2>3 DEF ToSet
    <3>2. q[i + 1] = q[1] BY <1>1, <3>1
    <3> QED BY <1>3, <1>4, <2>1, <3>2
  <2> QED BY <1>1, <2>2, <2>3 DEF Distinct
<1> QED BY <1>1, <1>5, <1>6 DEF t

(* The next round has the same members.                                    *)
LEMMA QueueRotated ==
  ASSUME NEW R, NEW q \in Seq(R)
  PROVE  /\ Rotated(q) \in Seq(R) /\ ToSet(Rotated(q)) = ToSet(q)
         /\ Distinct(q) => Distinct(Rotated(q))
<1>1. CASE q = << >> BY <1>1 DEF Rotated
<1>2. CASE q # << >>
  <2>1. Rotated(q) = Append(Tail(q), Head(q)) BY <1>2 DEF Rotated
  <2>2. /\ Head(q) \in R /\ Tail(q) \in Seq(R)
        /\ ToSet(q) = ToSet(Tail(q)) \cup {Head(q)}
        /\ Distinct(q) => Distinct(Tail(q)) /\ Head(q) \notin ToSet(Tail(q))
    BY <1>2, QueueHead
  <2>3. /\ Append(Tail(q), Head(q)) \in Seq(R)
        /\ ToSet(Append(Tail(q), Head(q))) = ToSet(Tail(q)) \cup {Head(q)}
        /\ Distinct(Append(Tail(q), Head(q)))
             <=> Distinct(Tail(q)) /\ Head(q) \notin ToSet(Tail(q))
    <3> HIDE DEF Distinct
    <3> QED BY <2>2, QueueAppend
  <2> QED BY <2>1, <2>2, <2>3
<1> QED BY <1>1, <1>2

(* An empty queue.                                                         *)
LEMMA QueueEmpty ==
  /\ \A R : << >> \in Seq(R)
  /\ ToSet(<< >>) = {} /\ Distinct(<< >>)
  /\ \A R : \A q \in Seq(R) : ToSet(q) = {} => q = << >>
<1>1. ToSet(<< >>) = {} /\ Distinct(<< >>) BY DEF ToSet, Distinct
<1>2. ASSUME NEW R, NEW q \in Seq(R), ToSet(q) = {} PROVE q = << >>
  BY <1>2 DEF ToSet
<1> QED BY <1>1, <1>2

(* A queue without repetition is as long as it has members.                *)
LEMMA QueueSize ==
  ASSUME NEW R, NEW q \in Seq(R)
  PROVE  /\ IsFiniteSet(ToSet(q))
         /\ Distinct(q) => Cardinality(ToSet(q)) = Len(q)
<1>1. Len(q) \in Nat /\ DOMAIN q = 1 .. Len(q) OBVIOUS
<1>2. ToSet(q) = { q[i] : i \in 1 .. Len(q) } BY <1>1 DEF ToSet
<1>3. IsFiniteSet(ToSet(q))
  <2> DEFINE T == ToSet(q)
             D == 1 .. Len(q)
  <2>1. q \in Surjection(D, T) BY <1>1, <1>2 DEF Surjection
  <2>2. IsFiniteSet(D) BY <1>1, FS_Interval
  <2> HIDE DEF T, D
  <2>3. IsFiniteSet(T) BY <2>1, <2>2, FS_Surjection
  <2> QED BY <2>3 DEF T
<1>4. ASSUME Distinct(q) PROVE Cardinality(ToSet(q)) = Len(q)
  <2>1. \A i, j \in 1 .. Len(q) : q[i] = q[j] => i = j BY <1>4 DEF Distinct
  <2>2. \A i \in 1 .. Len(q) : q[i] \in R BY <1>1
  <2>3. Cardinality({ q[i] : i \in 1 .. Len(q) }) = Len(q)
    <3> HIDE DEF Distinct
    <3> QED BY <1>1, <2>1, <2>2, DistinctValues
  <2> QED BY <1>2, <2>3
<1> QED BY <1>3, <1>4

(* One more request, and whether it is taken.                              *)
LEMMA AmongAppend ==
  \A R, T : \A v \in Seq(R) : \A x \in R :
    /\ Among(v, T) \in Seq(R)
    /\ Among(Append(v, x), T) = IF x \in T THEN Append(Among(v, T), x) ELSE Among(v, T)
<1> SUFFICES ASSUME NEW R, NEW T, NEW v \in Seq(R), NEW x \in R
             PROVE  /\ Among(v, T) \in Seq(R)
                    /\ Among(Append(v, x), T) =
                         IF x \in T THEN Append(Among(v, T), x) ELSE Among(v, T)
  OBVIOUS
<1> DEFINE F == [r \in R |-> IF r \in T THEN <<r>> ELSE << >>]
<1>1. Maps(F, R, R)
  <2>1. \A r \in R : (IF r \in T THEN <<r>> ELSE << >>) \in Seq(R) OBVIOUS
  <2> QED BY <2>1 DEF Maps, Mapping
<1>2. \A q \in Seq(R) : Among(q, T) = FlattenSeq(Mapped(F, q))
  <2> SUFFICES ASSUME NEW q \in Seq(R) PROVE Among(q, T) = FlattenSeq(Mapped(F, q))
    OBVIOUS
  <2>1. \A i \in DOMAIN q : q[i] \in R OBVIOUS
  <2>2. Mapped(F, q) = [i \in DOMAIN q |-> IF q[i] \in T THEN <<q[i]>> ELSE << >>]
    BY <2>1 DEF Mapped
  <2> QED BY <2>2, Zenon DEF Among
<1>3. F[x] = IF x \in T THEN <<x>> ELSE << >> OBVIOUS
<1> HIDE DEF F
<1>4. Append(v, x) = Cat(v, <<x>>) /\ <<x>> \in Seq(R) /\ Append(v, x) \in Seq(R)
  BY CatOne
<1>5. FlattenSeq(Mapped(F, Cat(v, <<x>>))) =
        Cat(FlattenSeq(Mapped(F, v)), FlattenSeq(Mapped(F, <<x>>)))
  BY <1>1, <1>4, MappedCat
<1>6. FlattenSeq(Mapped(F, <<x>>)) = F[x] BY <1>1, MappedOne
<1>7. Among(v, T) \in Seq(R) BY <1>1, <1>2, MappedType
<1>8. Among(Append(v, x), T) = Cat(Among(v, T), F[x])
  <2>1. Among(Append(v, x), T) = FlattenSeq(Mapped(F, Cat(v, <<x>>))) BY <1>2, <1>4
  <2>2. Among(v, T) = FlattenSeq(Mapped(F, v)) BY <1>2
  <2> QED BY <1>5, <1>6, <2>1, <2>2
<1>9. CASE x \in T BY <1>3, <1>7, <1>8, <1>9, CatOne
<1>10. CASE x \notin T BY <1>3, <1>7, <1>8, <1>10, CatEmpty
<1> QED BY <1>7, <1>9, <1>10

(* Those of a set in a queue: its members in the set, each once if each    *)
(* was there once.                                                         *)
LEMMA AmongIs ==
  ASSUME NEW R, NEW T, NEW v \in Seq(R)
  PROVE  /\ Among(v, T) \in Seq(R)
         /\ ToSet(Among(v, T)) = ToSet(v) \cap T
         /\ Distinct(v) => Distinct(Among(v, T))
<1> DEFINE Is(u) == /\ Among(u, T) \in Seq(R)
                    /\ ToSet(Among(u, T)) = ToSet(u) \cap T
                    /\ Distinct(u) => Distinct(Among(u, T))
           B == {n \in Nat : \A u \in Seq(R) : Len(u) = n => Is(u)}
<1>1. 0 \in B
  <2> SUFFICES ASSUME NEW u \in Seq(R), Len(u) = 0 PROVE Is(u) OBVIOUS
  <2>1. u = << >> OBVIOUS
  <2>2. Among(<< >>, T) = << >>
    <3>1. [i \in DOMAIN << >> |-> IF << >>[i] \in T THEN << << >>[i] >> ELSE << >>] = << >>
      OBVIOUS
    <3> QED BY <3>1, FlattenEmpty, Zenon DEF Among
  <2> HIDE DEF Is
  <2>3. Is(<< >>) BY <2>2, QueueEmpty DEF Is
  <2> QED BY <2>1, <2>3
<1>2. ASSUME NEW n \in Nat, n \in B PROVE n + 1 \in B
  <2> SUFFICES ASSUME NEW u \in Seq(R), Len(u) = n + 1 PROVE Is(u)
    <3> HIDE DEF Is
    <3> QED OBVIOUS
  <2>1. PICK w \in Seq(R), x \in R : u = Append(w, x) /\ Len(w) = n
    <3> HIDE DEF B, Is
    <3> QED BY SplitLast, Zenon
  <2>2. Is(w)
    <3> HIDE DEF Is
    <3> QED BY <1>2, <2>1
  <2>3. /\ Among(w, T) \in Seq(R)
        /\ Among(u, T) = IF x \in T THEN Append(Among(w, T), x) ELSE Among(w, T)
    <3> HIDE DEF B, Is
    <3> QED BY <2>1, AmongAppend
  <2>4. /\ ToSet(u) = ToSet(w) \cup {x}
        /\ Distinct(u) <=> Distinct(w) /\ x \notin ToSet(w)
    <3> HIDE DEF B, Is
    <3> QED BY <2>1, QueueAppend
  <2>5. CASE x \in T
    <3> DEFINE a == Among(w, T)
    <3>1. a \in Seq(R) BY <2>3
    <3> HIDE DEF a
    <3>2. /\ Append(a, x) \in Seq(R)
          /\ ToSet(Append(a, x)) = ToSet(a) \cup {x}
          /\ Distinct(Append(a, x)) <=> Distinct(a) /\ x \notin ToSet(a)
      <4> HIDE DEF B, Is
      <4> QED BY <3>1, QueueAppend
    <3>3. Among(u, T) = Append(a, x) BY <2>3, <2>5 DEF a
    <3>4. ToSet(a) = ToSet(w) \cap T /\ (Distinct(w) => Distinct(a)) BY <2>2 DEF a
    <3> QED BY <2>4, <2>5, <3>2, <3>3, <3>4
  <2>6. CASE x \notin T
    <3>1. Among(u, T) = Among(w, T) BY <2>3, <2>6
    <3> QED BY <2>2, <2>4, <2>6, <3>1
  <2> QED BY <2>5, <2>6
<1>3. \A n \in Nat : n \in B
  <2> HIDE DEF B
  <2> QED BY <1>1, <1>2, Induct
<1>4. Len(v) \in Nat OBVIOUS
<1>5. Is(v)
  <2> HIDE DEF Is
  <2> QED BY <1>3, <1>4
<1> QED BY <1>5

(* A queue that a request leaves.                                          *)
LEMMA QueueWithout ==
  ASSUME NEW v \in Seq(Requests), NEW r
  PROVE  /\ Without(v, r) \in Seq(Requests)
         /\ ToSet(Without(v, r)) = ToSet(v) \ {r}
         /\ Distinct(v) => Distinct(Without(v, r))
<1>1. ToSet(v) \subseteq Requests BY DEF ToSet
<1> QED BY <1>1, AmongIs DEF Without

----------------------------------------------------------------------------
(* What is in the record `sched`, and the invariant.                       *)

(* What is in the record `sched`.                                          *)
Items == [id : Requests, tokens : Nat, lookahead : Nat, output : Nat]

Errors == {"none", "no progress", "no pending tokens", "token limit reached",
           "lost completion guarantee"}

States ==
  [known : SUBSET Requests, waiting : Seq(Requests), running : SUBSET Requests,
   launch : Seq(Requests), common : Seq(Requests),
   req : [Requests -> RequestState], resubmitted : Seq(Requests),
   out : Seq(Items), tokensLeft : Nat, seqsLeft : Nat, error : Errors]

Ids(s) == { s.out[i].id : i \in DOMAIN s.out }

(* The queues share nothing, and repeat nothing.                           *)
Queues(s) ==
  /\ Distinct(s.waiting) /\ Distinct(s.launch) /\ Distinct(s.common)
  /\ ToSet(s.launch) \cap ToSet(s.common) = {}
  /\ ToSet(s.waiting) \cap s.running = {}
  /\ s.running = ToSet(s.launch) \cup ToSet(s.common)
  /\ s.known = ToSet(s.waiting) \cup s.running

(* What is true of one request; those of X get their result right now.     *)
Local(p, s, X, r) ==
  LET q == s.req[r]
  IN  /\ q.attached <=> r \in s.running
      /\ r \notin s.running => q.blocks = 0
      /\ r \in ToSet(s.launch) <=> (r \in s.running /\ q.short /\ ~q.visible)
      /\ r \in ToSet(s.launch) =>
           p.short.on /\ q.slot /\ q.strict /\ q.tokens - q.computed <= p.short.effective
      /\ q.published * BlockSize < PromptLen[r]
      /\ r \in s.known =>
           /\ q.tokens \in PromptLen[r] .. MaxTokens[r]
           /\ q.tokens < MaxTokens[r] \/ r \in X
           /\ q.computed < q.tokens
           /\ ~q.visible => q.tokens = PromptLen[r]
      /\ r \in s.running /\ q.strict =>
           q.limit = BlocksFor(MaxTokens[r] - 1) /\ q.blocks <= q.limit
      /\ r \in s.running => p.resubmit.on \/ q.strict
      /\ r \in s.running => r \in Ids(s) \/ r \in X \/ q.blocks = BlocksFor(q.computed)

(* What is used and promised fits the pool.                                *)
Ledger(s) == Used(s) + Claimed(s) <= NumBlocks

Slots(p, s) ==
  /\ Cardinality(s.running) <= MaxSequences
  /\ p.short.on =>
       /\ ShortSlots(s) <= p.short.sequences
       /\ Cardinality(s.running) - ShortSlots(s) <= MaxSequences - p.short.sequences

(* What an item of the step in flight says of its request.                 *)
ItemOf(s, item) ==
  LET q == s.req[item.id]
  IN  /\ item.id \in s.running
      /\ item.tokens > 0
      /\ item.output = 0 =>
           item.lookahead = 0 /\ q.computed + item.tokens < q.tokens
      /\ item.output > 0 =>
           /\ q.computed + item.tokens = q.tokens
           /\ item.output <= MaxTokens[item.id] - q.tokens
      /\ q.computed + item.tokens + item.lookahead <= q.blocks * BlockSize

InFlight(s) ==
  /\ \A i, j \in 1 .. Len(s.out) : s.out[i].id = s.out[j].id => i = j
  /\ \A i \in 1 .. Len(s.out) : ItemOf(s, s.out[i])

(* What every operation of the scheduler relies on and leaves behind.      *)
Sound(p, s, X) ==
  /\ s \in States
  /\ Queues(s)
  /\ \A r \in Requests : Local(p, s, X, r)
  /\ Ledger(s)
  /\ Slots(p, s)
  /\ InFlight(s)

----------------------------------------------------------------------------
(* Blocks and tokens.                                                      *)

(* n tokens fit m blocks if and only if they need no more than m.          *)
LEMMA Fits ==
  ASSUME NEW n \in Nat
  PROVE  /\ BlocksFor(n) \in Nat
         /\ \A m \in Nat : BlocksFor(n) <= m <=> n <= m * BlockSize
<1>1. BlockSize \in Nat \ {0} BY BudgetAssumption
<1> DEFINE k == BlocksFor(n)
           l == n + BlockSize - 1
<1>2. k \in Nat /\ k = l \div BlockSize /\ l \in Nat BY <1>1 DEF BlocksFor
<1>3. l = k * BlockSize + (l % BlockSize) /\ l % BlockSize \in 0 .. BlockSize - 1
  <2> HIDE DEF k, l
  <2> QED BY <1>1, <1>2
<1>4. k * BlockSize \in Nat BY <1>1, <1>2, Multiples
<1>5. n <= k * BlockSize /\ k * BlockSize + 1 <= n + BlockSize
  BY <1>1, <1>3, <1>4
<1> SUFFICES ASSUME NEW m \in Nat PROVE k <= m <=> n <= m * BlockSize BY <1>2
<1>6. m * BlockSize \in Nat BY <1>1, Multiples
<1>7. k <= m => k * BlockSize <= m * BlockSize BY <1>1, <1>2, Multiples
<1>8. k * BlockSize < m * BlockSize + BlockSize => k <= m BY <1>1, <1>2, Multiples
<1> QED BY <1>1, <1>4, <1>5, <1>6, <1>7, <1>8

(* More tokens need no fewer blocks.                                       *)
LEMMA MoreNeedMore ==
  ASSUME NEW m \in Nat, NEW n \in Nat, m <= n
  PROVE  BlocksFor(m) \in Nat /\ BlocksFor(n) \in Nat /\ BlocksFor(m) <= BlocksFor(n)
<1>1. BlocksFor(n) \in Nat /\ n <= BlocksFor(n) * BlockSize BY Fits
<1>2. BlocksFor(n) * BlockSize \in Nat BY <1>1, BudgetAssumption, Multiples
<1>3. m <= BlocksFor(n) * BlockSize BY <1>1, <1>2
<1> QED BY <1>1, <1>3, Fits

(* Full blocks need as many blocks.                                        *)
LEMMA FullBlocks ==
  ASSUME NEW h \in Nat
  PROVE  h * BlockSize \in Nat /\ BlocksFor(h * BlockSize) = h
<1>1. h * BlockSize \in Nat BY BudgetAssumption, Multiples
<1> DEFINE k == BlocksFor(h * BlockSize)
<1>2. k \in Nat /\ h * BlockSize <= k * BlockSize /\ k <= h BY <1>1, Fits
<1>3. k * BlockSize \in Nat BY <1>2, BudgetAssumption, Multiples
<1> HIDE DEF k
<1>4. h * BlockSize < k * BlockSize + BlockSize BY <1>1, <1>2, <1>3, BudgetAssumption
<1>5. h <= k BY <1>2, <1>4, BudgetAssumption, Multiples
<1> QED BY <1>1, <1>2, <1>5 DEF k

(* The full blocks of n tokens hold at most n tokens.                      *)
LEMMA WholeBlocks ==
  ASSUME NEW n \in Nat
  PROVE  n \div BlockSize \in Nat /\ (n \div BlockSize) * BlockSize <= n
<1>1. BlockSize \in Nat \ {0} BY BudgetAssumption
<1>2. n \div BlockSize \in Nat /\ n % BlockSize \in 0 .. BlockSize - 1
      /\ n = (n \div BlockSize) * BlockSize + (n % BlockSize)
  BY <1>1
<1>3. (n \div BlockSize) * BlockSize \in Nat BY <1>1, <1>2, Multiples
<1> QED BY <1>2, <1>3

(* The prompt's whole blocks without its last token.                       *)
LEMMA PromptBlocks ==
  ASSUME NEW n \in Nat \ {0}, NEW h \in 0 .. (n - 1) \div BlockSize
  PROVE  h \in Nat /\ h * BlockSize \in Nat /\ h * BlockSize < n
<1> DEFINE k == (n - 1) \div BlockSize
<1>1. k \in Nat /\ k * BlockSize <= n - 1
  <2>1. n - 1 \in Nat OBVIOUS
  <2> QED BY <2>1, WholeBlocks
<1>2. h \in Nat /\ h <= k BY <1>1
<1> HIDE DEF k
<1>3. h * BlockSize \in Nat /\ k * BlockSize \in Nat /\ h * BlockSize <= k * BlockSize
  BY <1>1, <1>2, BudgetAssumption, Multiples
<1> QED BY <1>1, <1>2, <1>3

----------------------------------------------------------------------------
(* Counting blocks and slots.                                              *)

(* What one request adds to the blocks in use and to the claims.           *)
BlocksOf(s, r) == IF r \in s.running THEN s.req[r].blocks ELSE 0
ClaimOf(s, r) == IF r \in s.running THEN Claim(s.req[r]) ELSE 0

(* The same requests run, with the same state, but for r.                  *)
Alone(s, t, r) ==
  /\ \A q \in Requests \ {r} : t.req[q] = s.req[q]
  /\ t.running \ {r} = s.running \ {r}

(* A claim is the part of a limit that is not used yet.                    *)
LEMMA ClaimIs ==
  ASSUME NEW q \in RequestState
  PROVE  /\ Claim(q) \in Nat
         /\ Claim(q) = IF q.blocks <= q.limit THEN q.limit - q.blocks ELSE 0
<1>1. q.blocks \in Nat /\ q.limit \in Nat BY DEF RequestState
<1> QED BY <1>1 DEF Claim, AtLeast

(* The share of one request in what is counted of many.                    *)
LEMMA CountOne ==
  ASSUME NEW S, IsFiniteSet(S), NEW f, \A q \in S : f[q] \in Nat, NEW r
  PROVE  /\ Cardinality(Counted(f, S)) \in Nat
         /\ Cardinality(Counted(f, S \ {r})) \in Nat
         /\ r \in S => Cardinality(Counted(f, S)) = Cardinality(Counted(f, S \ {r})) + f[r]
         /\ r \notin S => Cardinality(Counted(f, S)) = Cardinality(Counted(f, S \ {r}))
<1>1. \A T : Counted(f, T) = PledgesOf(f, T) BY DEF Counted, PledgesOf
<1>2. IsFiniteSet(S \ {r}) /\ \A q \in S \ {r} : f[q] \in Nat BY FS_RemoveElement
<1>3. Cardinality(PledgesOf(f, S)) \in Nat BY PledgesFinite
<1>4. Cardinality(PledgesOf(f, S \ {r})) \in Nat BY <1>2, PledgesFinite
<1>5. ASSUME r \in S
      PROVE  Cardinality(PledgesOf(f, S)) = Cardinality(PledgesOf(f, S \ {r})) + f[r]
  BY <1>5, PledgesWithout
<1>6. r \notin S => S \ {r} = S OBVIOUS
<1> QED BY <1>1, <1>3, <1>4, <1>5, <1>6

(* What is counted of others is not changed by what happens to r.          *)
LEMMA CountChange ==
  ASSUME NEW S, IsFiniteSet(S), NEW f, \A q \in S : f[q] \in Nat,
         NEW T, IsFiniteSet(T), NEW g, \A q \in T : g[q] \in Nat,
         NEW r, S \ {r} = T \ {r}, \A q \in S \ {r} : f[q] = g[q]
  PROVE  Cardinality(Counted(g, T)) - (IF r \in T THEN g[r] ELSE 0) =
           Cardinality(Counted(f, S)) - (IF r \in S THEN f[r] ELSE 0)
<1>1. PledgesOf(f, S \ {r}) = PledgesOf(g, S \ {r}) BY PledgesAgree
<1>2. Counted(f, S \ {r}) = Counted(g, T \ {r}) BY <1>1 DEF Counted, PledgesOf
<1>3. Cardinality(Counted(f, S \ {r})) = Cardinality(Counted(g, T \ {r})) BY <1>2, Zenon
<1>4. /\ Cardinality(Counted(f, S)) \in Nat /\ Cardinality(Counted(f, S \ {r})) \in Nat
      /\ r \in S => Cardinality(Counted(f, S)) = Cardinality(Counted(f, S \ {r})) + f[r]
      /\ r \notin S => Cardinality(Counted(f, S)) = Cardinality(Counted(f, S \ {r}))
  BY CountOne
<1>5. /\ Cardinality(Counted(g, T)) \in Nat /\ Cardinality(Counted(g, T \ {r})) \in Nat
      /\ r \in T => Cardinality(Counted(g, T)) = Cardinality(Counted(g, T \ {r})) + g[r]
      /\ r \notin T => Cardinality(Counted(g, T)) = Cardinality(Counted(g, T \ {r}))
  BY CountOne
<1>6. (r \in S => f[r] \in Nat) /\ (r \in T => g[r] \in Nat) OBVIOUS
<1>7. CASE r \in S /\ r \in T BY <1>3, <1>4, <1>5, <1>6, <1>7
<1>8. CASE r \in S /\ r \notin T BY <1>3, <1>4, <1>5, <1>6, <1>8
<1>9. CASE r \notin S /\ r \in T BY <1>3, <1>4, <1>5, <1>6, <1>9
<1>10. CASE r \notin S /\ r \notin T BY <1>3, <1>4, <1>5, <1>6, <1>10
<1> QED BY <1>7, <1>8, <1>9, <1>10

(* The states of requests that run have numbers of blocks and of claims.   *)
LEMMA CountedTypes ==
  ASSUME NEW s \in States
  PROVE  /\ \A q \in Requests : s.req[q] \in RequestState
         /\ s.running \subseteq Requests
         /\ \A q \in s.running : [r \in Requests |-> s.req[r].blocks][q] \in Nat
         /\ \A q \in s.running : [r \in Requests |-> Claim(s.req[r])][q] \in Nat
<1>1. s.req \in [Requests -> RequestState] /\ s.running \subseteq Requests BY DEF States
<1>2. \A q \in Requests : s.req[q] \in RequestState BY <1>1
<1>3. \A q \in Requests : s.req[q].blocks \in Nat BY <1>2 DEF RequestState
<1>4. \A q \in Requests : Claim(s.req[q]) \in Nat BY <1>2, ClaimIs
<1> QED BY <1>1, <1>2, <1>3, <1>4

(* The blocks in use and the claims change by what r adds.                 *)
LEMMA Counts ==
  ASSUME NEW s \in States, NEW t \in States, NEW r \in Requests, Alone(s, t, r),
         IsFiniteSet(s.running)
  PROVE  /\ IsFiniteSet(t.running)
         /\ Used(s) \in Nat /\ Claimed(s) \in Nat /\ Used(t) \in Nat /\ Claimed(t) \in Nat
         /\ Used(t) - BlocksOf(t, r) = Used(s) - BlocksOf(s, r)
         /\ Claimed(t) - ClaimOf(t, r) = Claimed(s) - ClaimOf(s, r)
<1> DEFINE f(u) == [q \in Requests |-> u.req[q].blocks]
           g(u) == [q \in Requests |-> Claim(u.req[q])]
<1>1. IsFiniteSet(t.running)
  <2>1. IsFiniteSet(s.running \cup {r}) BY FS_AddElement
  <2>2. t.running \subseteq s.running \cup {r} BY DEF Alone
  <2> QED BY <2>1, <2>2, FS_Subset
<1>2. ASSUME NEW u \in States
      PROVE  /\ u.running \subseteq Requests
             /\ \A q \in u.running : f(u)[q] \in Nat
             /\ \A q \in u.running : g(u)[q] \in Nat
  BY CountedTypes
<1>3. /\ \A q \in s.running \ {r} : f(s)[q] = f(t)[q] /\ g(s)[q] = g(t)[q]
      /\ s.running \ {r} = t.running \ {r}
  BY <1>2 DEF Alone
<1>4. /\ Used(s) = Cardinality(Counted(f(s), s.running))
      /\ Used(t) = Cardinality(Counted(f(t), t.running))
      /\ Claimed(s) = Cardinality(Counted(g(s), s.running))
      /\ Claimed(t) = Cardinality(Counted(g(t), t.running))
  BY DEF Used, Claimed
<1>5. /\ f(s)[r] = s.req[r].blocks /\ f(t)[r] = t.req[r].blocks
      /\ g(s)[r] = Claim(s.req[r]) /\ g(t)[r] = Claim(t.req[r])
  OBVIOUS
<1>6. /\ \A q \in s.running : f(s)[q] \in Nat /\ g(s)[q] \in Nat
      /\ \A q \in t.running : f(t)[q] \in Nat /\ g(t)[q] \in Nat
  BY <1>2
<1> HIDE DEF f, g
<1>7. Cardinality(Counted(f(t), t.running)) - (IF r \in t.running THEN f(t)[r] ELSE 0) =
        Cardinality(Counted(f(s), s.running)) - (IF r \in s.running THEN f(s)[r] ELSE 0)
  BY <1>1, <1>3, <1>6, CountChange
<1>8. Cardinality(Counted(g(t), t.running)) - (IF r \in t.running THEN g(t)[r] ELSE 0) =
        Cardinality(Counted(g(s), s.running)) - (IF r \in s.running THEN g(s)[r] ELSE 0)
  BY <1>1, <1>3, <1>6, CountChange
<1>9. /\ Cardinality(Counted(f(s), s.running)) \in Nat
      /\ Cardinality(Counted(f(t), t.running)) \in Nat
      /\ Cardinality(Counted(g(s), s.running)) \in Nat
      /\ Cardinality(Counted(g(t), t.running)) \in Nat
  BY <1>1, <1>6, CountOne
<1> QED BY <1>1, <1>4, <1>5, <1>7, <1>8, <1>9 DEF BlocksOf, ClaimOf

(* The members of a set that have a slot, when one is another matter.      *)
LEMMA SetChange ==
  ASSUME NEW S, IsFiniteSet(S), NEW T, NEW r, S \ {r} = T \ {r}
  PROVE  /\ IsFiniteSet(T) /\ Cardinality(S) \in Nat /\ Cardinality(T) \in Nat
         /\ Cardinality(T) - (IF r \in T THEN 1 ELSE 0) =
              Cardinality(S) - (IF r \in S THEN 1 ELSE 0)
<1> DEFINE U == S \ {r}
<1>1. IsFiniteSet(U) /\ r \notin U BY FS_RemoveElement
<1>2. Cardinality(U) \in Nat BY <1>1, FS_CardinalityType
<1>3. Cardinality(U \cup {r}) = Cardinality(U) + 1 /\ IsFiniteSet(U \cup {r})
  BY <1>1, FS_AddElement
<1>4. (S = U \/ S = U \cup {r}) /\ (T = U \/ T = U \cup {r}) OBVIOUS
<1>5. (r \in S <=> S = U \cup {r}) /\ (r \in T <=> T = U \cup {r}) OBVIOUS
<1> HIDE DEF U
<1>6. \A V : (V = U \/ V = U \cup {r}) /\ (r \in V <=> V = U \cup {r}) =>
        /\ IsFiniteSet(V) /\ Cardinality(V) \in Nat
        /\ Cardinality(V) - (IF r \in V THEN 1 ELSE 0) = Cardinality(U)
  BY <1>1, <1>2, <1>3
<1> QED BY <1>4, <1>5, <1>6

(* Whether a request takes a slot of the short ones.                       *)
HasSlotOf(s, r) == r \in s.running /\ s.req[r].slot

(* The requests that run, and those of them in a short slot, are counted   *)
(* likewise.                                                               *)
LEMMA SlotCounts ==
  ASSUME NEW s \in States, NEW t \in States, NEW r \in Requests, Alone(s, t, r),
         IsFiniteSet(s.running)
  PROVE  /\ Cardinality(s.running) \in Nat /\ Cardinality(t.running) \in Nat
         /\ ShortSlots(s) \in Nat /\ ShortSlots(t) \in Nat
         /\ Cardinality(t.running) - (IF r \in t.running THEN 1 ELSE 0) =
              Cardinality(s.running) - (IF r \in s.running THEN 1 ELSE 0)
         /\ ShortSlots(t) - (IF HasSlotOf(t, r) THEN 1 ELSE 0) =
              ShortSlots(s) - (IF HasSlotOf(s, r) THEN 1 ELSE 0)
<1> DEFINE A(u) == { q \in u.running : u.req[q].slot }
<1>1. s.running \ {r} = t.running \ {r} BY DEF Alone
<1>2. /\ Cardinality(s.running) \in Nat /\ Cardinality(t.running) \in Nat
      /\ Cardinality(t.running) - (IF r \in t.running THEN 1 ELSE 0) =
           Cardinality(s.running) - (IF r \in s.running THEN 1 ELSE 0)
  BY <1>1, SetChange
<1>3. A(s) \ {r} = A(t) \ {r}
  <2>1. s.running \subseteq Requests /\ t.running \subseteq Requests BY DEF States
  <2> QED BY <1>1, <2>1 DEF Alone
<1>4. IsFiniteSet(A(s)) BY FS_Subset
<1>5. (r \in A(s) <=> HasSlotOf(s, r)) /\ (r \in A(t) <=> HasSlotOf(t, r))
  BY DEF HasSlotOf
<1>6. ShortSlots(s) = Cardinality(A(s)) /\ ShortSlots(t) = Cardinality(A(t))
  BY DEF ShortSlots
<1> HIDE DEF A
<1>7. /\ Cardinality(A(s)) \in Nat /\ Cardinality(A(t)) \in Nat
      /\ Cardinality(A(t)) - (IF r \in A(t) THEN 1 ELSE 0) =
           Cardinality(A(s)) - (IF r \in A(s) THEN 1 ELSE 0)
  BY <1>3, <1>4, SetChange
<1> QED BY <1>2, <1>5, <1>6, <1>7

(* The requests that run are finitely many: they are in the lanes.         *)
LEMMA RunningFinite ==
  ASSUME NEW s \in States, Queues(s) PROVE IsFiniteSet(s.running)
<1>1. IsFiniteSet(ToSet(s.launch)) /\ IsFiniteSet(ToSet(s.common))
  <2>1. s.launch \in Seq(Requests) /\ s.common \in Seq(Requests) BY DEF States
  <2> QED BY <2>1, QueueSize
<1>2. s.running = ToSet(s.launch) \cup ToSet(s.common) BY DEF Queues
<1> QED BY <1>1, <1>2, FS_Union

----------------------------------------------------------------------------
(* One request changes.                                                    *)

(* Nothing happened but to r.                                              *)
Aside(s, t, r) ==
  /\ Alone(s, t, r)
  /\ ToSet(t.launch) \ {r} = ToSet(s.launch) \ {r}
  /\ t.known \ {r} = s.known \ {r}
  /\ Ids(t) \ {r} = Ids(s) \ {r}

(* What is true of the others stays true.                                  *)
LEMMA LocalKept ==
  ASSUME NEW p, NEW s, NEW t, NEW r, NEW X, NEW Y, Aside(s, t, r), X \ {r} \subseteq Y,
         \A q \in Requests : Local(p, s, X, q), Local(p, t, Y, r)
  PROVE  \A q \in Requests : Local(p, t, Y, q)
<1> SUFFICES ASSUME NEW q \in Requests, q # r PROVE Local(p, t, Y, q)
  OBVIOUS
<1>1. /\ t.req[q] = s.req[q]
      /\ q \in t.running <=> q \in s.running
      /\ q \in ToSet(t.launch) <=> q \in ToSet(s.launch)
      /\ q \in t.known <=> q \in s.known
      /\ q \in Ids(t) <=> q \in Ids(s)
  BY DEF Aside, Alone
<1>2. Local(p, s, X, q) OBVIOUS
<1>3. q \in X => q \in Y OBVIOUS
<1> QED BY <1>1, <1>2, <1>3 DEF Local

(* What the step in flight says of them, too.                              *)
LEMMA ItemsKept ==
  ASSUME NEW s \in States, NEW t, NEW r, Aside(s, t, r), InFlight(s),
         t.out = s.out, r \notin Ids(s)
  PROVE  InFlight(t)
<1>1. ASSUME NEW i \in 1 .. Len(s.out) PROVE ItemOf(t, s.out[i])
  <2>1. s.out \in Seq(Items) BY DEF States
  <2>2. s.out[i] \in Items /\ DOMAIN s.out = 1 .. Len(s.out) BY <2>1
  <2>3. s.out[i].id \in Requests BY <2>2 DEF Items
  <2>4. s.out[i].id \in Ids(s) BY <2>2 DEF Ids
  <2> DEFINE item == s.out[i]
  <2>5. item.id # r BY <2>4
  <2>6. t.req[item.id] = s.req[item.id] /\ (item.id \in t.running <=> item.id \in s.running)
    BY <2>3, <2>5 DEF Aside, Alone
  <2>7. ItemOf(s, item) BY DEF InFlight
  <2> HIDE DEF item
  <2>8. ItemOf(t, item) BY <2>6, <2>7 DEF ItemOf
  <2> QED BY <2>8 DEF item
<1> QED BY <1>1 DEF InFlight

(* The requests of the step in flight are those of its items; they run.    *)
LEMMA IdsRun ==
  ASSUME NEW s \in States, InFlight(s)
  PROVE  Ids(s) \subseteq s.running /\ Ids(s) = { s.out[i].id : i \in 1 .. Len(s.out) }
<1>1. s.out \in Seq(Items) BY DEF States
<1>2. DOMAIN s.out = 1 .. Len(s.out) BY <1>1
<1> QED BY <1>2 DEF Ids, InFlight, ItemOf

(* When nothing happened but to r, it is enough to look at r.              *)
LEMMA OneChanged ==
  ASSUME NEW p, NEW s, NEW X, Sound(p, s, X), NEW t \in States, NEW r \in Requests,
         NEW Y, X \ {r} \subseteq Y, Aside(s, t, r), t.out = s.out, r \notin Ids(s),
         Queues(t), Local(p, t, Y, r), Ledger(t), Slots(p, t)
  PROVE  Sound(p, t, Y)
<1>1. s \in States /\ InFlight(s) /\ \A q \in Requests : Local(p, s, X, q) BY DEF Sound
<1>2. \A q \in Requests : Local(p, t, Y, q) BY <1>1, LocalKept
<1>3. InFlight(t) BY <1>1, ItemsKept
<1> QED BY <1>2, <1>3 DEF Sound

----------------------------------------------------------------------------
(* The policies, and the claim of an admitted request.                     *)

(* The configured policy, as far as it matters.                            *)
LEMMA PolicyFacts ==
  ASSUME policy \in Policies
  PROVE  /\ Short.on \in BOOLEAN /\ Resubmit.on \in BOOLEAN
         /\ Short.effective \in Nat /\ Short.kvTokens \in Nat /\ Short.tokens \in Nat
         /\ Short.sequences \in Nat /\ Short.aging \in Nat
         /\ Resubmit.max \in Nat /\ Resubmit.rolledBack \in Nat
         /\ Resubmit.extra \in Nat /\ Resubmit.watermark \in 1 .. 100
         /\ Short.on =>
              /\ Short.effective <= Short.tokens
              /\ 0 < Short.sequences /\ Short.sequences < MaxSequences
              /\ 0 < Short.tokens /\ Short.tokens < TokenBudget
<1>1. policy \in [short : ShortPolicies, resubmit : ResubmitPolicies] BY PolicyAssumption
<1>2. Short \in ShortPolicies /\ Resubmit \in ResubmitPolicies BY <1>1 DEF Short, Resubmit
<1>3. Short.on => /\ Short.effective <= Short.tokens
                  /\ 0 < Short.sequences /\ Short.sequences < MaxSequences
                  /\ 0 < Short.tokens /\ Short.tokens < TokenBudget
  BY PolicyAssumption DEF Short
<1> QED BY <1>2, <1>3 DEF ShortPolicies, ResubmitPolicies

(* The prefix index holds blocks before the last token of a prompt.        *)
HitsFit(hits) ==
  \A r \in Requests : hits[r] \in Nat /\ hits[r] * BlockSize < PromptLen[r]

(* The bound of a request's claim covers its prompt.                       *)
LEMMA LimitIs ==
  ASSUME policy \in Policies, NEW r \in Requests, NEW strict \in BOOLEAN,
         NEW h \in Nat, h * BlockSize < PromptLen[r]
  PROVE  /\ BlockLimit(r, strict) \in Nat /\ h <= BlockLimit(r, strict)
         /\ strict => BlockLimit(r, strict) = BlocksFor(MaxTokens[r] - 1)
<1>1. /\ PromptLen[r] \in Nat \ {0} /\ MaxTokens[r] \in Nat /\ PromptLen[r] < MaxTokens[r]
  BY RequestAssumption
<1> DEFINE e == Resubmit.extra * BlockSize
           n == IF strict THEN MaxTokens[r] - 1 ELSE AtMost(MaxTokens[r] - 1, PromptLen[r] + e)
<1>2. e \in Nat BY PolicyFacts, BudgetAssumption, Multiples
<1>3. BlockLimit(r, strict) = BlocksFor(n) /\ (strict => n = MaxTokens[r] - 1) BY DEF BlockLimit
<1> HIDE DEF e
<1>4. n \in Nat /\ PromptLen[r] <= n BY <1>1, <1>2 DEF AtMost
<1> HIDE DEF n
<1>5. h * BlockSize \in Nat /\ BlocksFor(h * BlockSize) = h BY FullBlocks
<1>6. h * BlockSize <= n BY <1>1, <1>4, <1>5
<1>7. BlocksFor(n) \in Nat /\ h <= BlocksFor(n) BY <1>4, <1>5, <1>6, MoreNeedMore
<1> QED BY <1>3, <1>7

(* What may not be promised to optimistic requests is a number of tokens.  *)
LEMMA ReserveIs == ASSUME policy \in Policies PROVE BlocksFor(DecodeReserve) \in Int
<1> DEFINE c == NumBlocks * BlockSize
           w == Resubmit.watermark
<1>1. c \in Nat BY BudgetAssumption, Multiples
<1>2. w \in Nat \ {0} BY PolicyFacts
<1> DEFINE d == (c * w) \div 100
<1>3. DecodeReserve = c - d BY DEF DecodeReserve
<1> HIDE DEF c, w
<1>4. c * w \in Nat BY <1>1, <1>2, Multiples
<1>5. d \in Int BY <1>4
<1> HIDE DEF d
<1>6. DecodeReserve \in Int BY <1>1, <1>3, <1>5
<1>7. \A n \in Int : BlocksFor(n) \in Int
  <2>1. BlockSize \in Nat \ {0} BY BudgetAssumption
  <2> SUFFICES ASSUME NEW n \in Int PROVE BlocksFor(n) \in Int OBVIOUS
  <2>2. n + BlockSize - 1 \in Int BY <2>1
  <2> QED BY <2>1, <2>2 DEF BlocksFor
<1> QED BY <1>6, <1>7

(* When a request is accepted, its claim and every other fit the pool.     *)
LEMMA AdmissionFits ==
  ASSUME policy \in Policies, NEW s, Used(s) \in Nat, Claimed(s) \in Nat,
         NEW r \in Requests, NEW isShort, NEW m \in Nat,
         CanAdmit(s, r, isShort, m),
         BlockLimit(r, Guarantee(s.req[r], isShort)) \in Nat
  PROVE  Used(s) + Claimed(s) + BlockLimit(r, Guarantee(s.req[r], isShort)) <= NumBlocks
<1> DEFINE b == BlocksFor(m)
           d == IF Guarantee(s.req[r], isShort) THEN 0 ELSE BlocksFor(DecodeReserve)
           w == AtLeast(b, d)
           l == BlockLimit(r, Guarantee(s.req[r], isShort))
<1>1. b \in Nat BY Fits
<1>2. d \in Int BY ReserveIs
<1>3. Used(s) + Claimed(s) + l + w <= NumBlocks BY DEF CanAdmit
<1> HIDE DEF b, d, l
<1>4. w \in Nat BY <1>1, <1>2 DEF AtLeast
<1>5. l \in Nat BY DEF l
<1> HIDE DEF w
<1>6. NumBlocks \in Nat BY BudgetAssumption
<1>7. Used(s) + Claimed(s) + l <= NumBlocks BY <1>3, <1>4, <1>5, <1>6
<1> QED BY <1>7 DEF l

----------------------------------------------------------------------------
(* Admission of one request.                                               *)

(* Somebody may be admitted into the kind of slot that is asked for.       *)
Room(p, s, isShort) ==
  /\ Cardinality(s.running) < MaxSequences
  /\ p.short.on /\ isShort => ShortSlots(s) < p.short.sequences
  /\ p.short.on /\ ~isShort =>
       Cardinality(s.running) - ShortSlots(s) < MaxSequences - p.short.sequences

(* A request that may be admitted as a short one.                          *)
FitsShort(p, s, r, hits) ==
  /\ p.short.on /\ ~s.req[r].visible
  /\ PromptLen[r] - hits[r] * BlockSize <= p.short.effective

(* What admission leaves alone.                                            *)
Admits(s, t) ==
  /\ t.out = s.out /\ t.resubmitted = s.resubmitted /\ t.error = s.error
  /\ \A q \in Requests : t.req[q].visible = s.req[q].visible
  /\ ToSet(t.waiting) \subseteq ToSet(s.waiting)
  /\ s.running \subseteq t.running /\ t.known = s.known

(* TryAdmit when the request is accepted.                                  *)
Entered(s, r, isShort, m, hits) ==
  [s EXCEPT
     !.waiting = Without(@, r),
     !.running = @ \cup {r},
     !.launch = IF isShort THEN Append(@, r) ELSE @,
     !.common = IF isShort THEN @ ELSE Append(@, r),
     !.req[r] = [@ EXCEPT !.computed = hits[r] * BlockSize,
                          !.attached = TRUE,
                          !.short = isShort, !.slot = isShort,
                          !.strict = Guarantee(s.req[r], isShort),
                          !.blocks = hits[r],
                          !.limit = BlockLimit(r, Guarantee(s.req[r], isShort)),
                          !.minFree = BlocksFor(m)]]

(* The fields of the scheduler and of the request after that.              *)
EnterFields(s, t, r, isShort, m, hits) ==
  LET strict == Guarantee(s.req[r], isShort)
  IN  /\ strict \in BOOLEAN
      /\ t \in States
      /\ t.known = s.known /\ t.waiting = Without(s.waiting, r)
      /\ t.running = s.running \cup {r}
      /\ t.launch = IF isShort THEN Append(s.launch, r) ELSE s.launch
      /\ t.common = IF isShort THEN s.common ELSE Append(s.common, r)
      /\ t.resubmitted = s.resubmitted /\ t.out = s.out /\ t.error = s.error
      /\ \A q \in Requests \ {r} : t.req[q] = s.req[q]
      /\ t.req[r] = [s.req[r] EXCEPT
                       !.computed = hits[r] * BlockSize,
                       !.attached = TRUE,
                       !.short = isShort, !.slot = isShort, !.strict = strict,
                       !.blocks = hits[r], !.limit = BlockLimit(r, strict),
                       !.minFree = BlocksFor(m)]

(* An accepted request changes these fields and no others.                 *)
LEMMA EnteredFields ==
  ASSUME policy \in Policies, NEW s \in States, NEW r \in Requests, NEW isShort \in BOOLEAN,
         NEW m \in Nat, NEW hits, HitsFit(hits)
  PROVE  EnterFields(s, Entered(s, r, isShort, m, hits), r, isShort, m, hits)
<1> DEFINE t == Entered(s, r, isShort, m, hits)
           strict == Guarantee(s.req[r], isShort)
           l == BlockLimit(r, strict)
           f == BlocksFor(m)
           c == hits[r] * BlockSize
           q1 == [s.req[r] EXCEPT
                    !.computed = c, !.attached = TRUE,
                    !.short = isShort, !.slot = isShort, !.strict = strict,
                    !.blocks = hits[r], !.limit = l, !.minFree = f]
           w == Without(s.waiting, r)
           la == IF isShort THEN Append(s.launch, r) ELSE s.launch
           co == IF isShort THEN s.common ELSE Append(s.common, r)
<1>1. /\ s.req \in [Requests -> RequestState] /\ s.waiting \in Seq(Requests)
      /\ s.launch \in Seq(Requests) /\ s.common \in Seq(Requests)
      /\ s.running \in SUBSET Requests
  BY DEF States
<1>2. strict \in BOOLEAN
  <2>1. s.req[r] \in RequestState BY <1>1
  <2> QED BY <2>1, PolicyFacts DEF Guarantee, RequestState
<1>3. hits[r] \in Nat /\ c < PromptLen[r] /\ c \in Nat
  <2>1. hits[r] \in Nat /\ c < PromptLen[r] BY DEF HitsFit
  <2> QED BY <2>1, FullBlocks
<1>4. l \in Nat BY <1>2, <1>3, LimitIs
<1>5. f \in Nat BY Fits
<1>6. w \in Seq(Requests) BY <1>1, QueueWithout
<1>7. la \in Seq(Requests) /\ co \in Seq(Requests) BY <1>1
<1>8. t = [s EXCEPT !.waiting = w, !.running = s.running \cup {r},
                    !.launch = la, !.common = co, !.req[r] = q1]
  BY Zenon DEF Entered
<1> HIDE DEF t, strict, l, f, c, w, la, co
<1>9. q1 \in RequestState
  <2>1. s.req[r] \in RequestState BY <1>1
  <2> QED BY <1>2, <1>3, <1>4, <1>5, <2>1 DEF RequestState
<1> HIDE DEF q1
<1>10. s.running \cup {r} \in SUBSET Requests BY <1>1
<1>11. /\ t \in States
       /\ t.known = s.known /\ t.waiting = w /\ t.running = s.running \cup {r}
       /\ t.launch = la /\ t.common = co
       /\ t.resubmitted = s.resubmitted /\ t.out = s.out /\ t.error = s.error
       /\ t.req = [s.req EXCEPT ![r] = q1]
  BY <1>1, <1>6, <1>7, <1>8, <1>9, <1>10 DEF States
<1>12. \A q \in Requests \ {r} : t.req[q] = s.req[q] BY <1>1, <1>11
<1>13. t.req[r] = q1 BY <1>1, <1>11
<1> QED BY <1>2, <1>11, <1>12, <1>13 DEF EnterFields, t, strict, l, f, c, w, la, co, q1

(* A request that enters its lane leaves the scheduler sound.              *)
LEMMA EnteredSound ==
  ASSUME policy \in Policies, NEW s, Sound(policy, s, {}), NEW r \in ToSet(s.waiting),
         NEW isShort \in BOOLEAN, NEW m \in Nat, NEW hits, HitsFit(hits),
         Room(policy, s, isShort), isShort => FitsShort(policy, s, r, hits),
         CanAdmit(s, r, isShort, m)
  PROVE  LET t == Entered(s, r, isShort, m, hits)
         IN  /\ Sound(policy, t, {}) /\ Admits(s, t)
             /\ r \in t.running /\ ToSet(t.waiting) = ToSet(s.waiting) \ {r}
<1> DEFINE t == Entered(s, r, isShort, m, hits)
           strict == Guarantee(s.req[r], isShort)
           l == BlockLimit(r, strict)
           f == BlocksFor(m)
           c == hits[r] * BlockSize
<1>1. /\ s \in States /\ Queues(s) /\ Ledger(s) /\ Slots(policy, s) /\ InFlight(s)
      /\ \A q \in Requests : Local(policy, s, {}, q)
  BY DEF Sound
<1>2. /\ s.req \in [Requests -> RequestState] /\ s.waiting \in Seq(Requests)
      /\ s.launch \in Seq(Requests) /\ s.common \in Seq(Requests)
      /\ s.running \in SUBSET Requests
  BY <1>1 DEF States
<1>3. r \in Requests /\ r \in s.known /\ r \notin s.running
  <2>1. r \in Requests BY <1>2 DEF ToSet
  <2> QED BY <1>1, <2>1 DEF Queues
<1>4. /\ strict \in BOOLEAN
      /\ t \in States
      /\ t.known = s.known /\ t.waiting = Without(s.waiting, r)
      /\ t.running = s.running \cup {r}
      /\ t.launch = IF isShort THEN Append(s.launch, r) ELSE s.launch
      /\ t.common = IF isShort THEN s.common ELSE Append(s.common, r)
      /\ t.resubmitted = s.resubmitted /\ t.out = s.out /\ t.error = s.error
      /\ \A q \in Requests \ {r} : t.req[q] = s.req[q]
      /\ t.req[r] = [s.req[r] EXCEPT
                        !.computed = c, !.attached = TRUE,
                        !.short = isShort, !.slot = isShort, !.strict = strict,
                        !.blocks = hits[r], !.limit = l, !.minFree = f]
  <2>1. EnterFields(s, t, r, isShort, m, hits)
    <3> HIDE DEF t
    <3> QED BY <1>1, <1>3, EnteredFields DEF t
  <2> QED BY <2>1, Zenon DEF EnterFields
<1>5. /\ hits[r] \in Nat /\ c < PromptLen[r] /\ c \in Nat /\ BlocksFor(c) = hits[r]
  <2>1. hits[r] \in Nat /\ c < PromptLen[r] BY <1>3 DEF HitsFit
  <2> QED BY <2>1, FullBlocks
<1>6. l \in Nat /\ hits[r] <= l /\ (strict => l = BlocksFor(MaxTokens[r] - 1))
  BY <1>3, <1>4, <1>5, LimitIs
<1>7. IsFiniteSet(s.running) BY <1>1, RunningFinite
<1>8. Used(s) \in Nat /\ Claimed(s) \in Nat
  <2>1. Alone(s, s, r) BY DEF Alone
  <2> QED BY <1>1, <1>3, <1>7, <2>1, Counts
<1>9. Used(s) + Claimed(s) + l <= NumBlocks BY <1>3, <1>6, <1>8, AdmissionFits
<1>10. /\ isShort => policy.short.on /\ ~s.req[r].visible
                     /\ PromptLen[r] - c <= policy.short.effective
       /\ strict \/ policy.resubmit.on
       /\ isShort => strict
  BY <1>4 DEF FitsShort, Guarantee, Resubmit
<1> HIDE DEF t, strict, l, f, c
<1>11. s.req[r] \in RequestState BY <1>2, <1>3
<1>12. /\ t.req[r].attached = TRUE /\ t.req[r].short = isShort /\ t.req[r].slot = isShort
       /\ t.req[r].strict = strict /\ t.req[r].blocks = hits[r] /\ t.req[r].limit = l
       /\ t.req[r].computed = c /\ t.req[r].tokens = s.req[r].tokens
       /\ t.req[r].visible = s.req[r].visible /\ t.req[r].published = s.req[r].published
  BY <1>4, <1>11 DEF RequestState
<1>13. ToSet(t.waiting) = ToSet(s.waiting) \ {r} /\ Distinct(t.waiting)
  <2>1. Distinct(s.waiting) BY <1>1 DEF Queues
  <2> HIDE DEF Distinct
  <2> QED BY <1>2, <1>3, <1>4, <2>1, QueueWithout
<1>14. /\ r \notin ToSet(s.launch) /\ r \notin ToSet(s.common)
       /\ Distinct(s.launch) /\ Distinct(s.common)
  BY <1>1, <1>3 DEF Queues
<1>15. /\ Distinct(t.launch) /\ Distinct(t.common)
       /\ ToSet(t.launch) = IF isShort THEN ToSet(s.launch) \cup {r} ELSE ToSet(s.launch)
       /\ ToSet(t.common) = IF isShort THEN ToSet(s.common) ELSE ToSet(s.common) \cup {r}
  <2> HIDE DEF Distinct
  <2>1. CASE isShort
    <3>1. t.launch = Append(s.launch, r) /\ t.common = s.common BY <1>4, <2>1
    <3>2. ToSet(t.launch) = ToSet(s.launch) \cup {r} /\ Distinct(t.launch)
      BY <1>2, <1>3, <1>14, <3>1, QueueAppend
    <3> QED BY <1>14, <2>1, <3>1, <3>2
  <2>2. CASE ~isShort
    <3>1. t.launch = s.launch /\ t.common = Append(s.common, r) BY <1>4, <2>2
    <3>2. ToSet(t.common) = ToSet(s.common) \cup {r} /\ Distinct(t.common)
      BY <1>2, <1>3, <1>14, <3>1, QueueAppend
    <3> QED BY <1>14, <2>2, <3>1, <3>2
  <2> QED BY <2>1, <2>2
<1>16. Queues(t)
  <2> HIDE DEF Distinct
  <2>1. /\ ToSet(s.launch) \cap ToSet(s.common) = {}
        /\ ToSet(s.waiting) \cap s.running = {}
        /\ s.running = ToSet(s.launch) \cup ToSet(s.common)
        /\ s.known = ToSet(s.waiting) \cup s.running
    BY <1>1 DEF Queues
  <2>2. ToSet(t.launch) \cap ToSet(t.common) = {} BY <1>14, <1>15, <2>1
  <2>3. t.running = ToSet(t.launch) \cup ToSet(t.common) BY <1>4, <1>15, <2>1
  <2>4. ToSet(t.waiting) \cap t.running = {} BY <1>4, <1>13, <2>1
  <2>5. t.known = ToSet(t.waiting) \cup t.running BY <1>4, <1>13, <2>1
  <2> QED BY <1>13, <1>15, <2>2, <2>3, <2>4, <2>5 DEF Queues
<1>17. Aside(s, t, r)
  <2>1. t.running \ {r} = s.running \ {r} BY <1>4
  <2>2. ToSet(t.launch) \ {r} = ToSet(s.launch) \ {r} BY <1>15
  <2>3. Ids(t) = Ids(s) BY <1>4 DEF Ids
  <2> QED BY <1>4, <2>1, <2>2, <2>3 DEF Aside, Alone
<1>18. r \notin Ids(s) BY <1>1, <1>3, IdsRun
<1>19. Local(policy, t, {}, r)
  <2>1. Local(policy, s, {}, r) BY <1>1, <1>3
  <2>2. /\ s.req[r].published * BlockSize < PromptLen[r]
        /\ s.req[r].tokens \in PromptLen[r] .. MaxTokens[r]
        /\ s.req[r].tokens < MaxTokens[r]
        /\ ~s.req[r].visible => s.req[r].tokens = PromptLen[r]
    BY <1>3, <2>1 DEF Local
  <2>3. PromptLen[r] \in Nat /\ MaxTokens[r] \in Nat BY <1>3, RequestAssumption
  <2>4. r \in t.running /\ r \in t.known BY <1>3, <1>4
  <2>5. r \in ToSet(t.launch) <=> isShort BY <1>14, <1>15
  <2>6. r \in ToSet(t.launch) <=> r \in t.running /\ t.req[r].short /\ ~t.req[r].visible
    BY <1>10, <1>12, <2>4, <2>5
  <2>7. r \in ToSet(t.launch) =>
          /\ policy.short.on /\ t.req[r].slot /\ t.req[r].strict
          /\ t.req[r].tokens - t.req[r].computed <= policy.short.effective
    BY <1>10, <1>12, <2>2, <2>5
  <2>8. t.req[r].computed < t.req[r].tokens BY <1>5, <1>12, <2>2, <2>3
  <2>9. t.req[r].strict => /\ t.req[r].limit = BlocksFor(MaxTokens[r] - 1)
                           /\ t.req[r].blocks <= t.req[r].limit
    BY <1>6, <1>12
  <2>10. t.req[r].blocks = BlocksFor(t.req[r].computed) BY <1>5, <1>12
  <2>11. policy.resubmit.on \/ t.req[r].strict BY <1>10, <1>12
  <2> QED BY <1>12, <2>2, <2>4, <2>6, <2>7, <2>8, <2>9, <2>10, <2>11 DEF Local
<1>20. Ledger(t)
  <2>1. /\ Used(t) \in Nat /\ Claimed(t) \in Nat
        /\ Used(t) - BlocksOf(t, r) = Used(s) - BlocksOf(s, r)
        /\ Claimed(t) - ClaimOf(t, r) = Claimed(s) - ClaimOf(s, r)
    BY <1>1, <1>3, <1>4, <1>7, <1>17, Counts DEF Aside
  <2>2. BlocksOf(s, r) = 0 /\ ClaimOf(s, r) = 0 BY <1>3 DEF BlocksOf, ClaimOf
  <2>3. t.req[r] \in RequestState BY <1>3, <1>4 DEF States
  <2>4. BlocksOf(t, r) = hits[r] /\ ClaimOf(t, r) = l - hits[r]
    <3>1. r \in t.running BY <1>4
    <3>2. Claim(t.req[r]) = l - hits[r] BY <1>6, <1>12, <2>3, ClaimIs
    <3> QED BY <1>12, <3>1, <3>2 DEF BlocksOf, ClaimOf
  <2> QED BY <1>5, <1>6, <1>8, <1>9, <2>1, <2>2, <2>4 DEF Ledger
<1>21. Slots(policy, t)
  <2>1. /\ Cardinality(s.running) \in Nat /\ Cardinality(t.running) \in Nat
        /\ ShortSlots(s) \in Nat /\ ShortSlots(t) \in Nat
        /\ Cardinality(t.running) - (IF r \in t.running THEN 1 ELSE 0) =
             Cardinality(s.running) - (IF r \in s.running THEN 1 ELSE 0)
        /\ ShortSlots(t) - (IF HasSlotOf(t, r) THEN 1 ELSE 0) =
             ShortSlots(s) - (IF HasSlotOf(s, r) THEN 1 ELSE 0)
    BY <1>1, <1>3, <1>4, <1>7, <1>17, SlotCounts DEF Aside
  <2>2. r \in t.running /\ ~HasSlotOf(s, r) /\ (HasSlotOf(t, r) <=> isShort)
    BY <1>3, <1>4, <1>12 DEF HasSlotOf
  <2>3. Cardinality(t.running) = Cardinality(s.running) + 1 BY <1>3, <2>1, <2>2
  <2>4. ShortSlots(t) = ShortSlots(s) + (IF isShort THEN 1 ELSE 0) BY <2>1, <2>2
  <2>5. /\ MaxSequences \in Nat
        /\ policy.short.on \in BOOLEAN /\ policy.short.sequences \in Nat
    BY BudgetAssumption, PolicyFacts DEF Short
  <2>6. CASE isShort BY <1>1, <2>1, <2>3, <2>4, <2>5, <2>6 DEF Slots, Room
  <2>7. CASE ~isShort BY <1>1, <2>1, <2>3, <2>4, <2>5, <2>7 DEF Slots, Room
  <2> QED BY <2>6, <2>7
<1>22. Sound(policy, t, {})
  BY <1>3, <1>4, <1>16, <1>17, <1>18, <1>19, <1>20, <1>21, OneChanged
<1>23. Admits(s, t)
  <2>1. \A q \in Requests : t.req[q].visible = s.req[q].visible BY <1>4, <1>12
  <2> QED BY <1>4, <1>13, <2>1 DEF Admits
<1> QED BY <1>4, <1>13, <1>22, <1>23 DEF t

(* An attempt to admit a request: it enters its lane, or nothing happens.  *)
LEMMA TryAdmitSound ==
  ASSUME policy \in Policies, NEW s, Sound(policy, s, {}), NEW r \in ToSet(s.waiting),
         NEW isShort \in BOOLEAN, NEW m \in Nat, NEW hits, HitsFit(hits),
         Room(policy, s, isShort), isShort => FitsShort(policy, s, r, hits)
  PROVE  LET t == TryAdmit(s, r, isShort, m, hits)
         IN  /\ Sound(policy, t, {}) /\ Admits(s, t)
             /\ \/ t = s /\ r \notin t.running
                \/ r \in t.running /\ ToSet(t.waiting) = ToSet(s.waiting) \ {r}
<1> DEFINE t == TryAdmit(s, r, isShort, m, hits)
<1>1. CASE CanAdmit(s, r, isShort, m)
  <2>1. t = Entered(s, r, isShort, m, hits) BY <1>1, Zenon DEF TryAdmit, Entered
  <2> QED BY <1>1, <2>1, EnteredSound
<1>2. CASE ~CanAdmit(s, r, isShort, m)
  <2>1. t = s BY <1>2 DEF TryAdmit
  <2>2. Admits(s, s) BY DEF Admits
  <2>3. r \notin s.running BY DEF Sound, Queues
  <2> QED BY <2>1, <2>2, <2>3
<1> QED BY <1>1, <1>2

----------------------------------------------------------------------------
(* The same requests in another order, or with another age.                *)

(* Two states of a request that tell the same, age and history aside.      *)
Alike(a, b) ==
  /\ a.attached = b.attached /\ a.blocks = b.blocks /\ a.limit = b.limit
  /\ a.short = b.short /\ a.visible = b.visible /\ a.slot = b.slot
  /\ a.strict = b.strict /\ a.tokens = b.tokens /\ a.computed = b.computed
  /\ a.published = b.published

(* Two queues with the same members, each once.                            *)
SameMembers(u, v) == ToSet(u) = ToSet(v) /\ (Distinct(v) => Distinct(u))

(* The same requests are where they were, in some order.                   *)
Same(s, t) ==
  /\ t.known = s.known /\ t.running = s.running /\ t.out = s.out
  /\ SameMembers(t.waiting, s.waiting)
  /\ SameMembers(t.launch, s.launch) /\ SameMembers(t.common, s.common)
  /\ \A q \in Requests : Alike(t.req[q], s.req[q])

(* Then all that is true of the scheduler stays true.                      *)
LEMMA SameSound ==
  ASSUME NEW p, NEW s, NEW X, Sound(p, s, X), NEW t \in States, Same(s, t)
  PROVE  Sound(p, t, X)
<1>1. /\ s \in States /\ Queues(s) /\ Ledger(s) /\ Slots(p, s) /\ InFlight(s)
      /\ \A q \in Requests : Local(p, s, X, q)
  BY DEF Sound
<1>2. s.running \subseteq Requests /\ s.out \in Seq(Items) BY <1>1 DEF States
<1>3. Queues(t)
  <2> HIDE DEF Distinct
  <2> QED BY <1>1 DEF Queues, Same, SameMembers
<1>4. ASSUME NEW q \in Requests PROVE Local(p, t, X, q)
  <2>1. /\ Alike(t.req[q], s.req[q]) /\ ToSet(t.launch) = ToSet(s.launch)
        /\ t.known = s.known /\ t.running = s.running /\ Ids(t) = Ids(s)
    BY DEF Same, SameMembers, Ids
  <2>2. Local(p, s, X, q) BY <1>1
  <2> QED BY <2>1, <2>2 DEF Local, Alike
<1>5. Used(t) = Used(s)
  <2>1. [r \in Requests |-> t.req[r].blocks] = [r \in Requests |-> s.req[r].blocks]
    BY DEF Same, Alike
  <2>2. t.running = s.running BY DEF Same
  <2> QED BY <2>1, <2>2, Zenon DEF Used
<1>6. Claimed(t) = Claimed(s)
  <2>1. \A r \in Requests : Claim(t.req[r]) = Claim(s.req[r]) BY DEF Same, Alike, Claim
  <2>2. [r \in Requests |-> Claim(t.req[r])] = [r \in Requests |-> Claim(s.req[r])]
    BY <2>1
  <2>3. t.running = s.running BY DEF Same
  <2> QED BY <2>2, <2>3, Zenon DEF Claimed
<1>7. ShortSlots(t) = ShortSlots(s)
  <2>1. { r \in t.running : t.req[r].slot } = { r \in s.running : s.req[r].slot }
    BY <1>2 DEF Same, Alike
  <2> QED BY <2>1, Zenon DEF ShortSlots
<1>8. InFlight(t)
  <2>1. ASSUME NEW i \in 1 .. Len(s.out) PROVE ItemOf(t, s.out[i])
    <3>1. s.out[i] \in Items BY <1>2
    <3>2. s.out[i].id \in Requests BY <3>1 DEF Items
    <3> DEFINE item == s.out[i]
    <3>3. Alike(t.req[item.id], s.req[item.id]) /\ t.running = s.running BY <3>2 DEF Same
    <3>4. ItemOf(s, item) BY <1>1 DEF InFlight
    <3> HIDE DEF item
    <3>5. ItemOf(t, item) BY <3>3, <3>4 DEF ItemOf, Alike
    <3> QED BY <3>5 DEF item
  <2>2. t.out = s.out BY DEF Same
  <2> QED BY <1>1, <2>1, <2>2 DEF InFlight
<1>9. Ledger(t) BY <1>1, <1>5, <1>6 DEF Ledger
<1>10. Slots(p, t)
  <2>1. t.running = s.running BY DEF Same
  <2>2. Cardinality(t.running) = Cardinality(s.running) BY <2>1, Zenon
  <2> QED BY <1>1, <1>7, <2>2 DEF Slots
<1> QED BY <1>3, <1>4, <1>8, <1>9, <1>10 DEF Sound

(* Waiting requests age.                                                   *)
LEMMA AgeSound ==
  ASSUME policy \in Policies, NEW s, Sound(policy, s, {}), NEW short
  PROVE  Sound(policy, Age(s, short), {}) /\ Admits(s, Age(s, short))
<1> DEFINE t == Age(s, short)
           Older(r) == [s.req[r] EXCEPT !.waited = AtMost(s.req[r].waited + 1, Short.aging)]
           new == [r \in Requests |->
                     IF Contains(s.waiting, r) /\ ~short[r] THEN Older(r) ELSE s.req[r]]
<1>1. s \in States BY DEF Sound
<1>2. CASE ~Short.on
  <2>1. t = s BY <1>2 DEF Age
  <2> QED BY <2>1 DEF Admits
<1>3. CASE Short.on
  <2>1. t = [s EXCEPT !.req = new] BY <1>3 DEF Age
  <2>2. s.req \in [Requests -> RequestState] BY <1>1 DEF States
  <2>3. ASSUME NEW r \in Requests
        PROVE  Older(r) \in RequestState /\ Alike(Older(r), s.req[r])
    <3>1. s.req[r] \in RequestState BY <2>2
    <3>2. AtMost(s.req[r].waited + 1, Short.aging) \in Nat
      BY <3>1, PolicyFacts DEF RequestState, AtMost
    <3> QED BY <3>1, <3>2 DEF RequestState, Alike
  <2>4. \A r \in Requests : s.req[r] \in RequestState /\ Alike(s.req[r], s.req[r])
    BY <2>2 DEF Alike
  <2> HIDE DEF Older
  <2>5. new \in [Requests -> RequestState] /\ \A r \in Requests : Alike(new[r], s.req[r])
    BY <2>3, <2>4
  <2> HIDE DEF new, t
  <2>6. /\ t \in States /\ t.req = new /\ t.known = s.known /\ t.running = s.running
        /\ t.out = s.out /\ t.waiting = s.waiting /\ t.launch = s.launch
        /\ t.common = s.common /\ t.resubmitted = s.resubmitted /\ t.error = s.error
    BY <1>1, <2>1, <2>5 DEF States
  <2>7. Same(s, t) BY <2>5, <2>6 DEF Same, SameMembers
  <2>8. Sound(policy, t, {}) BY <2>6, <2>7, SameSound
  <2>9. Admits(s, t) BY <2>5, <2>6 DEF Admits, Alike
  <2> QED BY <2>8, <2>9 DEF t
<1> QED BY <1>2, <1>3

(* The members of a rotated queue are those of the queue.                  *)
LEMMA RotatedSame ==
  ASSUME NEW v \in Seq(Requests)
  PROVE  Rotated(v) \in Seq(Requests) /\ SameMembers(Rotated(v), v)
<1> HIDE DEF Distinct
<1> QED BY QueueRotated DEF SameMembers

(* Only the turns and the budgets of the lanes are others.                 *)
Turned(s, t) ==
  /\ t.out = s.out /\ t.resubmitted = s.resubmitted /\ t.error = s.error
  /\ t.waiting = s.waiting /\ t.running = s.running
  /\ ToSet(t.launch) = ToSet(s.launch) /\ ToSet(t.common) = ToSet(s.common)

(* The turns of the launch lane.                                           *)
LEMMA LaunchTurned ==
  ASSUME NEW p, NEW s, Sound(p, s, {})
  PROVE  LET t == [s EXCEPT !.launch = Rotated(@)]
         IN  Sound(p, t, {}) /\ Turned(s, t) /\ t.common = s.common
<1> DEFINE v == Rotated(s.launch)
           t == [s EXCEPT !.launch = v]
<1>1. s \in States BY DEF Sound
<1>2. v \in Seq(Requests) /\ SameMembers(v, s.launch)
  <2>1. s.launch \in Seq(Requests) BY <1>1 DEF States
  <2> QED BY <2>1, RotatedSame
<1> HIDE DEF v
<1>3. /\ t \in States /\ t.req = s.req /\ t.known = s.known /\ t.running = s.running
      /\ t.out = s.out /\ t.waiting = s.waiting /\ t.launch = v /\ t.common = s.common
      /\ t.resubmitted = s.resubmitted /\ t.error = s.error
  BY <1>1, <1>2 DEF States
<1> HIDE DEF t
<1>4. Same(s, t) BY <1>2, <1>3 DEF Same, SameMembers, Alike
<1>5. Sound(p, t, {}) BY <1>3, <1>4, SameSound
<1>6. Turned(s, t) BY <1>3, <1>4 DEF Turned, Same, SameMembers
<1> QED BY <1>3, <1>5, <1>6 DEF t, v

(* The turns of the common lane.                                           *)
LEMMA CommonTurned ==
  ASSUME NEW p, NEW s, Sound(p, s, {})
  PROVE  LET t == [s EXCEPT !.common = Rotated(@)]
         IN  Sound(p, t, {}) /\ Turned(s, t)
<1> DEFINE v == Rotated(s.common)
           t == [s EXCEPT !.common = v]
<1>1. s \in States BY DEF Sound
<1>2. v \in Seq(Requests) /\ SameMembers(v, s.common)
  <2>1. s.common \in Seq(Requests) BY <1>1 DEF States
  <2> QED BY <2>1, RotatedSame
<1> HIDE DEF v
<1>3. /\ t \in States /\ t.req = s.req /\ t.known = s.known /\ t.running = s.running
      /\ t.out = s.out /\ t.waiting = s.waiting /\ t.launch = s.launch /\ t.common = v
      /\ t.resubmitted = s.resubmitted /\ t.error = s.error
  BY <1>1, <1>2 DEF States
<1> HIDE DEF t
<1>4. Same(s, t) BY <1>2, <1>3 DEF Same, SameMembers, Alike
<1>5. Sound(p, t, {}) BY <1>3, <1>4, SameSound
<1>6. Turned(s, t) BY <1>3, <1>4 DEF Turned, Same, SameMembers
<1> QED BY <1>5, <1>6 DEF t, v

(* The budgets of a lane.                                                  *)
Budgeted(s, tokens, sequences) ==
  [s EXCEPT !.tokensLeft = tokens, !.seqsLeft = sequences]

(* They change nothing else.                                               *)
LEMMA LaneStarts ==
  ASSUME NEW p, NEW s, Sound(p, s, {}), NEW tokens \in Nat, NEW sequences \in Nat
  PROVE  LET t == Budgeted(s, tokens, sequences)
         IN  Sound(p, t, {}) /\ Turned(s, t) /\ t.tokensLeft = tokens /\ t.seqsLeft = sequences
             /\ t.launch = s.launch
<1> DEFINE t == Budgeted(s, tokens, sequences)
<1>1. s \in States BY DEF Sound
<1>2. /\ t \in States /\ t.req = s.req /\ t.known = s.known /\ t.running = s.running
      /\ t.out = s.out /\ t.waiting = s.waiting /\ t.launch = s.launch
      /\ t.common = s.common /\ t.resubmitted = s.resubmitted /\ t.error = s.error
      /\ t.tokensLeft = tokens /\ t.seqsLeft = sequences
  BY <1>1 DEF States, Budgeted
<1> HIDE DEF t
<1>3. Same(s, t) BY <1>2 DEF Same, SameMembers, Alike
<1>4. Sound(p, t, {}) BY <1>2, <1>3, SameSound
<1> QED BY <1>2, <1>4 DEF t, Turned

(* The first of those that were rolled back gets to the head of the queue, *)
(* with a strict claim when it is admitted.                                *)
LEMMA FrontSound ==
  ASSUME policy \in Policies, NEW s, Sound(policy, s, {}), NEW r \in ToSet(s.waiting)
  PROVE  LET t == [s EXCEPT !.req[r].forced = TRUE,
                            !.waiting = <<r>> \o Without(@, r)]
         IN  Sound(policy, t, {}) /\ Admits(s, t)
<1> DEFINE w == Without(s.waiting, r)
           v == <<r>> \o w
           q1 == [s.req[r] EXCEPT !.forced = TRUE]
           t == [s EXCEPT !.req[r] = q1, !.waiting = v]
<1>1. s \in States BY DEF Sound
<1>2. s.waiting \in Seq(Requests) /\ r \in Requests /\ s.req \in [Requests -> RequestState]
  <2>1. s.waiting \in Seq(Requests) /\ s.req \in [Requests -> RequestState]
    BY <1>1 DEF States
  <2> QED BY <2>1 DEF ToSet
<1>3. v \in Seq(Requests) /\ SameMembers(v, s.waiting)
  <2> HIDE DEF Distinct
  <2>1. /\ w \in Seq(Requests) /\ ToSet(w) = ToSet(s.waiting) \ {r}
        /\ Distinct(s.waiting) => Distinct(w)
    BY <1>2, QueueWithout
  <2> HIDE DEF w
  <2>2. /\ v \in Seq(Requests) /\ ToSet(v) = ToSet(w) \cup {r}
        /\ Distinct(w) /\ r \notin ToSet(w) => Distinct(v)
    BY <1>2, <2>1, QueueCons
  <2> QED BY <2>1, <2>2 DEF SameMembers
<1> HIDE DEF v
<1>4. q1 \in RequestState /\ Alike(q1, s.req[r]) /\ q1.visible = s.req[r].visible
  <2>1. s.req[r] \in RequestState BY <1>2
  <2> QED BY <2>1 DEF RequestState, Alike
<1> HIDE DEF q1
<1>5. /\ t \in States /\ t.req = [s.req EXCEPT ![r] = q1]
      /\ t.known = s.known /\ t.running = s.running
      /\ t.out = s.out /\ t.waiting = v /\ t.launch = s.launch
      /\ t.common = s.common /\ t.resubmitted = s.resubmitted /\ t.error = s.error
  BY <1>1, <1>2, <1>3, <1>4 DEF States
<1>6. t = [s EXCEPT !.req[r].forced = TRUE, !.waiting = <<r>> \o Without(@, r)]
  BY DEF q1, v
<1> HIDE DEF t
<1>7. ASSUME NEW q \in Requests
      PROVE  Alike(t.req[q], s.req[q])
  <2>1. t.req[q] = IF q = r THEN q1 ELSE s.req[q] BY <1>2, <1>5
  <2> QED BY <1>4, <2>1 DEF Alike
<1>8. Same(s, t) BY <1>3, <1>5, <1>7 DEF Same, SameMembers
<1>9. Sound(policy, t, {}) BY <1>5, <1>8, SameSound
<1>10. Admits(s, t) BY <1>3, <1>5, <1>7 DEF Admits, Alike, SameMembers
<1> QED BY <1>6, <1>9, <1>10

----------------------------------------------------------------------------
(* Slots handed back.                                                      *)

(* A request of the common lane hands its short slot back.                 *)
LEMMA HandBackSound ==
  ASSUME policy \in Policies, Short.on, NEW s, Sound(policy, s, {}),
         NEW r \in ToSet(s.common), r \notin Ids(s)
  PROVE  LET t == HandBack(s, r)
         IN  Sound(policy, t, {}) /\ Admits(s, t) /\ t.common = s.common
<1> DEFINE q1 == [s.req[r] EXCEPT !.slot = FALSE]
           t == [s EXCEPT !.req[r] = q1]
<1>1. /\ s \in States /\ Queues(s) /\ Ledger(s) /\ Slots(policy, s) /\ InFlight(s)
      /\ \A q \in Requests : Local(policy, s, {}, q)
  BY DEF Sound
<1>2. CASE ~HasCommonSlot(s)
  <2>1. HandBack(s, r) = s BY <1>2 DEF HandBack
  <2> QED BY <2>1 DEF Admits
<1>3. CASE HasCommonSlot(s)
  <2>1. HandBack(s, r) = t BY <1>3 DEF HandBack
  <2>2. /\ r \in Requests /\ r \in s.running /\ r \notin ToSet(s.launch)
        /\ s.req \in [Requests -> RequestState]
    BY <1>1 DEF Queues, States
  <2>3. s.req[r] \in RequestState BY <2>2
  <2>4. /\ q1 \in RequestState /\ q1.slot = FALSE
        /\ q1.attached = s.req[r].attached /\ q1.blocks = s.req[r].blocks
        /\ q1.limit = s.req[r].limit /\ q1.short = s.req[r].short
        /\ q1.visible = s.req[r].visible /\ q1.strict = s.req[r].strict
        /\ q1.tokens = s.req[r].tokens /\ q1.computed = s.req[r].computed
        /\ q1.published = s.req[r].published
    BY <2>3 DEF RequestState
  <2> HIDE DEF q1
  <2>5. /\ t \in States /\ t.req = [s.req EXCEPT ![r] = q1]
        /\ t.known = s.known /\ t.running = s.running
        /\ t.out = s.out /\ t.waiting = s.waiting /\ t.launch = s.launch
        /\ t.common = s.common /\ t.resubmitted = s.resubmitted /\ t.error = s.error
    BY <1>1, <2>2, <2>4 DEF States
  <2> HIDE DEF t
  <2>6. t.req[r] = q1 /\ \A q \in Requests \ {r} : t.req[q] = s.req[q]
    BY <2>2, <2>5
  <2>7. Aside(s, t, r) BY <2>5, <2>6 DEF Aside, Alone, Ids
  <2>8. Queues(t) BY <1>1, <2>5 DEF Queues
  <2>9. Local(policy, t, {}, r)
    <3>1. Local(policy, s, {}, r) BY <1>1, <2>2
    <3>2. Ids(t) = Ids(s) BY <2>5 DEF Ids
    <3> QED BY <2>2, <2>4, <2>5, <2>6, <3>1, <3>2 DEF Local
  <2>10. IsFiniteSet(s.running) /\ Alone(s, t, r) BY <1>1, <2>7, RunningFinite DEF Aside
  <2>11. Ledger(t)
    <3>1. /\ Used(s) \in Nat /\ Claimed(s) \in Nat /\ Used(t) \in Nat /\ Claimed(t) \in Nat
          /\ Used(t) - BlocksOf(t, r) = Used(s) - BlocksOf(s, r)
          /\ Claimed(t) - ClaimOf(t, r) = Claimed(s) - ClaimOf(s, r)
      BY <1>1, <2>2, <2>5, <2>10, Counts
    <3>2. BlocksOf(t, r) = BlocksOf(s, r) /\ ClaimOf(t, r) = ClaimOf(s, r)
      BY <2>4, <2>5, <2>6 DEF BlocksOf, ClaimOf, Claim
    <3>3. BlocksOf(s, r) \in Nat /\ ClaimOf(s, r) \in Nat
      BY <2>3, ClaimIs DEF BlocksOf, ClaimOf, RequestState
    <3> QED BY <1>1, <3>1, <3>2, <3>3 DEF Ledger
  <2>12. Slots(policy, t)
    <3>1. /\ Cardinality(s.running) \in Nat
          /\ ShortSlots(s) \in Nat /\ ShortSlots(t) \in Nat
          /\ ShortSlots(t) - (IF HasSlotOf(t, r) THEN 1 ELSE 0) =
               ShortSlots(s) - (IF HasSlotOf(s, r) THEN 1 ELSE 0)
      BY <1>1, <2>2, <2>5, <2>10, SlotCounts
    <3>2. ~HasSlotOf(t, r) BY <2>4, <2>6 DEF HasSlotOf
    <3>3. t.running = s.running BY <2>5
    <3>4. Cardinality(t.running) = Cardinality(s.running) BY <3>3, Zenon
    <3>5. /\ policy.short.on /\ policy.short.sequences \in Nat
          /\ MaxSequences \in Nat
      BY BudgetAssumption, PolicyFacts DEF Short
    <3>6. Cardinality(s.running) - ShortSlots(s) < MaxSequences - policy.short.sequences
      BY <1>3 DEF HasCommonSlot, Short
    <3> QED BY <1>1, <3>1, <3>2, <3>4, <3>5, <3>6 DEF Slots
  <2>13. Sound(policy, t, {})
    BY <2>2, <2>5, <2>7, <2>8, <2>9, <2>11, <2>12, OneChanged
  <2>14. \A q \in Requests : t.req[q].visible = s.req[q].visible BY <2>4, <2>6
  <2>15. Admits(s, t) BY <2>5, <2>14 DEF Admits
  <2> QED BY <2>1, <2>5, <2>13, <2>15 DEF t
<1> QED BY <1>2, <1>3

(* A request that runs stops to: the others keep what they have.           *)
LEMMA LeavesCounts ==
  ASSUME NEW p, NEW s, NEW t \in States, NEW r \in Requests, NEW X, Sound(p, s, X),
         Alone(s, t, r), r \notin t.running,
         p.short.on \in BOOLEAN, p.short.sequences \in Nat
  PROVE  Ledger(t) /\ Slots(p, t)
<1>1. s \in States /\ Queues(s) /\ Ledger(s) /\ Slots(p, s) BY DEF Sound
<1>2. IsFiniteSet(s.running) BY <1>1, RunningFinite
<1>3. s.req[r] \in RequestState BY <1>1 DEF States
<1>4. /\ Used(s) \in Nat /\ Claimed(s) \in Nat /\ Used(t) \in Nat /\ Claimed(t) \in Nat
      /\ Used(t) - BlocksOf(t, r) = Used(s) - BlocksOf(s, r)
      /\ Claimed(t) - ClaimOf(t, r) = Claimed(s) - ClaimOf(s, r)
  BY <1>1, <1>2, Counts
<1>5. BlocksOf(t, r) = 0 /\ ClaimOf(t, r) = 0 BY DEF BlocksOf, ClaimOf
<1>6. BlocksOf(s, r) \in Nat /\ ClaimOf(s, r) \in Nat
  BY <1>3, ClaimIs DEF BlocksOf, ClaimOf, RequestState
<1>7. NumBlocks \in Nat /\ MaxSequences \in Nat BY BudgetAssumption
<1>8. Ledger(t) BY <1>1, <1>4, <1>5, <1>6, <1>7 DEF Ledger
<1>9. /\ Cardinality(s.running) \in Nat /\ Cardinality(t.running) \in Nat
      /\ ShortSlots(s) \in Nat /\ ShortSlots(t) \in Nat
      /\ Cardinality(t.running) - (IF r \in t.running THEN 1 ELSE 0) =
           Cardinality(s.running) - (IF r \in s.running THEN 1 ELSE 0)
      /\ ShortSlots(t) - (IF HasSlotOf(t, r) THEN 1 ELSE 0) =
           ShortSlots(s) - (IF HasSlotOf(s, r) THEN 1 ELSE 0)
  BY <1>1, <1>2, SlotCounts
<1>10. ~HasSlotOf(t, r) /\ (HasSlotOf(s, r) => r \in s.running) BY DEF HasSlotOf
<1>11. Slots(p, t)
  <2>1. CASE r \in s.running BY <1>1, <1>7, <1>9, <1>10, <2>1 DEF Slots
  <2>2. CASE r \notin s.running BY <1>1, <1>7, <1>9, <1>10, <2>2 DEF Slots
  <2> QED BY <2>1, <2>2
<1> QED BY <1>8, <1>11

----------------------------------------------------------------------------
(* Requests that are rolled back, added and removed.                       *)

(* What a rolled back request leaves alone.                                *)
RolledBack(s, t, r) ==
  /\ t.out = s.out /\ t.error = s.error
  /\ t.tokensLeft = s.tokensLeft /\ t.seqsLeft = s.seqsLeft
  /\ t.running = s.running \ {r}
  /\ ToSet(t.launch) = ToSet(s.launch) \ {r}
  /\ ToSet(t.common) = ToSet(s.common) \ {r}
  /\ ToSet(t.waiting) = ToSet(s.waiting) \cup {r}
  /\ ToSet(t.resubmitted) = ToSet(s.resubmitted) \cup {r}

(* A request that is rolled back leaves its lane and waits again.          *)
LEMMA RollBackSound ==
  ASSUME policy \in Policies, NEW s, Sound(policy, s, {}), NEW r \in s.running,
         ~s.req[r].strict, r \notin Ids(s)
  PROVE  Sound(policy, RollBack(s, r), {}) /\ RolledBack(s, RollBack(s, r), r)
<1> DEFINE t == RollBack(s, r)
           q == s.req[r]
           f == q.forced \/ q.resubmits + 1 >= Resubmit.max
                         \/ q.rolledBack + q.computed >= Resubmit.rolledBack
           q1 == [Released(q) EXCEPT
                    !.resubmits = q.resubmits + 1, !.rolledBack = q.rolledBack + q.computed,
                    !.computed = 0, !.short = FALSE, !.slot = FALSE, !.strict = FALSE,
                    !.forced = f]
           w == Append(s.waiting, r)
           la == Without(s.launch, r)
           co == Without(s.common, r)
           re == Append(s.resubmitted, r)
<1>1. /\ s \in States /\ Queues(s) /\ Ledger(s) /\ Slots(policy, s) /\ InFlight(s)
      /\ \A x \in Requests : Local(policy, s, {}, x)
  BY DEF Sound
<1>2. /\ s.req \in [Requests -> RequestState] /\ s.waiting \in Seq(Requests)
      /\ s.launch \in Seq(Requests) /\ s.common \in Seq(Requests)
      /\ s.resubmitted \in Seq(Requests) /\ s.running \in SUBSET Requests
  BY <1>1 DEF States
<1>3. r \in Requests /\ q \in RequestState /\ r \notin ToSet(s.waiting)
  BY <1>1, <1>2 DEF Queues
<1>4. t = [s EXCEPT !.running = s.running \ {r}, !.launch = la, !.common = co,
                    !.waiting = w, !.resubmitted = re, !.req[r] = q1]
  <2>1. [Released(q) EXCEPT
           !.resubmits = q.resubmits + 1, !.rolledBack = q.rolledBack + q.computed,
           !.computed = 0, !.short = FALSE, !.slot = FALSE, !.strict = FALSE,
           !.forced = @ \/ q.resubmits + 1 >= Resubmit.max
                        \/ q.rolledBack + q.computed >= Resubmit.rolledBack] = q1
    BY <1>3 DEF Released, RequestState
  <2> HIDE DEF q1
  <2> QED BY <2>1, Zenon DEF RollBack
<1>5. /\ q1 \in RequestState /\ q1.attached = FALSE /\ q1.blocks = 0 /\ q1.limit = 0
      /\ q1.short = FALSE /\ q1.slot = FALSE /\ q1.strict = FALSE /\ q1.computed = 0
      /\ q1.tokens = q.tokens /\ q1.visible = q.visible /\ q1.published = q.published
  <2>1. f \in BOOLEAN OBVIOUS
  <2>2. q.resubmits + 1 \in Nat /\ q.rolledBack + q.computed \in Nat
    BY <1>3 DEF RequestState
  <2> HIDE DEF f, q
  <2> QED BY <1>3, <2>1, <2>2 DEF Released, RequestState
<1> HIDE DEF q1
<1>6. /\ w \in Seq(Requests) /\ ToSet(w) = ToSet(s.waiting) \cup {r} /\ Distinct(w)
      /\ re \in Seq(Requests) /\ ToSet(re) = ToSet(s.resubmitted) \cup {r}
  <2>1. Distinct(s.waiting) BY <1>1 DEF Queues
  <2> HIDE DEF Distinct
  <2>2. /\ w \in Seq(Requests) /\ ToSet(w) = ToSet(s.waiting) \cup {r} /\ Distinct(w)
    BY <1>2, <1>3, <2>1, QueueAppend
  <2>3. re \in Seq(Requests) /\ ToSet(re) = ToSet(s.resubmitted) \cup {r}
    BY <1>2, <1>3, QueueAppend
  <2> QED BY <2>2, <2>3
<1>7. /\ la \in Seq(Requests) /\ ToSet(la) = ToSet(s.launch) \ {r} /\ Distinct(la)
      /\ co \in Seq(Requests) /\ ToSet(co) = ToSet(s.common) \ {r} /\ Distinct(co)
  <2>1. Distinct(s.launch) /\ Distinct(s.common) BY <1>1 DEF Queues
  <2> HIDE DEF Distinct
  <2> QED BY <1>2, <2>1, QueueWithout
<1> HIDE DEF t, w, la, co, re
<1>8. /\ t \in States /\ t.req = [s.req EXCEPT ![r] = q1]
      /\ t.known = s.known /\ t.running = s.running \ {r}
      /\ t.out = s.out /\ t.waiting = w /\ t.launch = la /\ t.common = co
      /\ t.resubmitted = re /\ t.error = s.error
      /\ t.tokensLeft = s.tokensLeft /\ t.seqsLeft = s.seqsLeft
  BY <1>1, <1>2, <1>4, <1>5, <1>6, <1>7 DEF States
<1>9. t.req[r] = q1 /\ \A x \in Requests \ {r} : t.req[x] = s.req[x] BY <1>2, <1>8
<1>10. Aside(s, t, r)
  <2>1. Ids(t) = Ids(s) BY <1>8 DEF Ids
  <2>2. t.running \ {r} = s.running \ {r} BY <1>8
  <2>3. ToSet(t.launch) \ {r} = ToSet(s.launch) \ {r} BY <1>7, <1>8
  <2> QED BY <1>8, <1>9, <2>1, <2>2, <2>3 DEF Aside, Alone
<1>11. Queues(t)
  <2> HIDE DEF Distinct
  <2> QED BY <1>1, <1>6, <1>7, <1>8 DEF Queues
<1>12. Local(policy, t, {}, r)
  <2>1. Local(policy, s, {}, r) BY <1>1, <1>3
  <2>2. r \notin t.running /\ r \notin ToSet(t.launch) /\ r \in t.known
    BY <1>1, <1>7, <1>8 DEF Queues
  <2>3. /\ q.published * BlockSize < PromptLen[r]
        /\ q.tokens \in PromptLen[r] .. MaxTokens[r] /\ q.tokens < MaxTokens[r]
        /\ ~q.visible => q.tokens = PromptLen[r]
        /\ q.computed < q.tokens
    BY <1>8, <2>1, <2>2 DEF Local
  <2>4. 0 < q.tokens BY <1>3, <2>3, RequestAssumption
  <2> QED BY <1>5, <1>9, <2>2, <2>3, <2>4 DEF Local
<1>13. Ledger(t) /\ Slots(policy, t)
  <2>1. Alone(s, t, r) /\ r \notin t.running BY <1>8, <1>10 DEF Aside
  <2>2. policy.short.on \in BOOLEAN /\ policy.short.sequences \in Nat
    BY PolicyFacts DEF Short
  <2> QED BY <1>3, <1>8, <2>1, <2>2, LeavesCounts
<1>14. Sound(policy, t, {})
  BY <1>3, <1>8, <1>10, <1>11, <1>12, <1>13, OneChanged
<1>15. RolledBack(s, t, r) BY <1>6, <1>7, <1>8 DEF RolledBack
<1> QED BY <1>14, <1>15 DEF t

(* A request that has just been made.                                      *)
LEMMA FreshState ==
  ASSUME NEW r \in Requests
  PROVE  /\ Fresh(r) \in RequestState
         /\ Fresh(r).attached = FALSE /\ Fresh(r).blocks = 0
         /\ Fresh(r).short = FALSE /\ Fresh(r).slot = FALSE /\ Fresh(r).strict = FALSE
         /\ Fresh(r).computed = 0 /\ Fresh(r).visible = FALSE
         /\ Fresh(r).tokens = PromptLen[r]
         /\ Fresh(r).published * BlockSize < PromptLen[r]
         /\ PromptLen[r] \in Nat \ {0} /\ MaxTokens[r] \in Nat /\ PromptLen[r] < MaxTokens[r]
<1>1. /\ PromptLen[r] \in Nat \ {0} /\ MaxTokens[r] \in Nat /\ PromptLen[r] < MaxTokens[r]
      /\ IdlePrefix[r] \in 0 .. (PromptLen[r] - 1) \div BlockSize
  BY RequestAssumption
<1>2. IdlePrefix[r] \in Nat /\ IdlePrefix[r] * BlockSize < PromptLen[r]
  BY <1>1, PromptBlocks
<1> QED BY <1>1, <1>2 DEF Fresh, RequestState

(* A request that is added waits.                                          *)
LEMMA AddSound ==
  ASSUME policy \in Policies, NEW s, Sound(policy, s, {}), NEW r \in Requests, r \notin s.known
  PROVE  LET t == [s EXCEPT !.known = @ \cup {r}, !.waiting = Append(@, r),
                            !.req[r] = Fresh(r)]
         IN  /\ Sound(policy, t, {}) /\ Ids(t) = Ids(s) /\ t.launch = s.launch
             /\ t.out = s.out /\ t.resubmitted = s.resubmitted /\ t.error = s.error
<1> DEFINE q1 == Fresh(r)
           w == Append(s.waiting, r)
           k == s.known \cup {r}
           t == [s EXCEPT !.known = k, !.waiting = w, !.req[r] = q1]
<1>1. /\ s \in States /\ Queues(s) /\ Ledger(s) /\ Slots(policy, s) /\ InFlight(s)
      /\ \A x \in Requests : Local(policy, s, {}, x)
  BY DEF Sound
<1>2. /\ s.req \in [Requests -> RequestState] /\ s.waiting \in Seq(Requests)
      /\ s.known \in SUBSET Requests
  BY <1>1 DEF States
<1>3. r \notin ToSet(s.waiting) /\ r \notin s.running /\ r \notin ToSet(s.launch)
  BY <1>1 DEF Queues
<1>4. q1 \in RequestState BY FreshState
<1>5. w \in Seq(Requests) /\ ToSet(w) = ToSet(s.waiting) \cup {r} /\ Distinct(w)
  <2>1. Distinct(s.waiting) BY <1>1 DEF Queues
  <2> HIDE DEF Distinct
  <2> QED BY <1>2, <1>3, <2>1, QueueAppend
<1>6. k \in SUBSET Requests BY <1>2
<1> HIDE DEF w, q1, k
<1>7. /\ t \in States /\ t.req = [s.req EXCEPT ![r] = q1]
      /\ t.known = k /\ t.running = s.running
      /\ t.out = s.out /\ t.waiting = w /\ t.launch = s.launch /\ t.common = s.common
      /\ t.resubmitted = s.resubmitted /\ t.error = s.error
  BY <1>1, <1>2, <1>4, <1>5, <1>6 DEF States
<1> HIDE DEF t
<1>8. t.req[r] = q1 /\ \A x \in Requests \ {r} : t.req[x] = s.req[x] BY <1>2, <1>7
<1>9. Ids(t) = Ids(s) BY <1>7 DEF Ids
<1>10. Aside(s, t, r)
  <2>1. t.known \ {r} = s.known \ {r} BY <1>7 DEF k
  <2> QED BY <1>7, <1>8, <1>9, <2>1 DEF Aside, Alone
<1>11. Queues(t)
  <2> HIDE DEF Distinct
  <2> QED BY <1>1, <1>3, <1>5, <1>7 DEF Queues, k
<1>12. Local(policy, t, {}, r)
  <2>1. r \notin t.running /\ r \notin ToSet(t.launch) BY <1>3, <1>7
  <2>2. t.req[r] = Fresh(r) BY <1>8 DEF q1
  <2> DEFINE z == Fresh(r)
  <2>3. /\ z.attached = FALSE /\ z.blocks = 0 /\ z.short = FALSE /\ z.computed = 0
        /\ z.visible = FALSE /\ z.tokens = PromptLen[r]
        /\ z.published * BlockSize < PromptLen[r]
    <3> HIDE DEF Fresh
    <3> QED BY FreshState
  <2>5. /\ PromptLen[r] \in PromptLen[r] .. MaxTokens[r] /\ PromptLen[r] < MaxTokens[r]
        /\ 0 < PromptLen[r]
    BY RequestAssumption
  <2> HIDE DEF z
  <2>4. t.req[r] = z BY <2>2 DEF z
  <2> QED BY <2>1, <2>3, <2>4, <2>5 DEF Local
<1>13. Ledger(t) /\ Slots(policy, t)
  <2>1. Alone(s, t, r) /\ r \notin t.running BY <1>3, <1>7, <1>10 DEF Aside
  <2>2. policy.short.on \in BOOLEAN /\ policy.short.sequences \in Nat
    BY PolicyFacts DEF Short
  <2> QED BY <1>7, <2>1, <2>2, LeavesCounts
<1>14. r \notin Ids(s) BY <1>1, <1>3, IdsRun
<1>15. Sound(policy, t, {})
  BY <1>7, <1>10, <1>11, <1>12, <1>13, <1>14, OneChanged
<1> QED BY <1>7, <1>9, <1>15 DEF t, w, q1, k

(* Exemptions do no harm.                                                  *)
LEMMA Exempt ==
  ASSUME NEW p, NEW s, Sound(p, s, {}), NEW X PROVE Sound(p, s, X)
<1>1. \A q \in Requests : Local(p, s, {}, q) => Local(p, s, X, q) BY DEF Local
<1> QED BY <1>1 DEF Sound

(* A request that is removed leaves every queue.                           *)
LEMMA RemovedSound ==
  ASSUME policy \in Policies, NEW s, NEW r \in Requests, Sound(policy, s, {r}), r \notin Ids(s)
  PROVE  LET t == Removed(s, r)
         IN  /\ Sound(policy, t, {}) /\ Ids(t) = Ids(s)
             /\ ToSet(t.launch) = ToSet(s.launch) \ {r}
             /\ t.out = s.out /\ t.resubmitted = s.resubmitted /\ t.error = s.error
<1> DEFINE q1 == Fresh(r)
           w == Without(s.waiting, r)
           la == Without(s.launch, r)
           co == Without(s.common, r)
           k == s.known \ {r}
           t == Removed(s, r)
<1>1. /\ s \in States /\ Queues(s) /\ Ledger(s) /\ Slots(policy, s) /\ InFlight(s)
      /\ \A x \in Requests : Local(policy, s, {r}, x)
  BY DEF Sound
<1>2. /\ s.req \in [Requests -> RequestState] /\ s.waiting \in Seq(Requests)
      /\ s.launch \in Seq(Requests) /\ s.common \in Seq(Requests)
      /\ s.known \in SUBSET Requests /\ s.running \in SUBSET Requests
  BY <1>1 DEF States
<1>3. q1 \in RequestState BY FreshState
<1>4. /\ w \in Seq(Requests) /\ ToSet(w) = ToSet(s.waiting) \ {r} /\ Distinct(w)
      /\ la \in Seq(Requests) /\ ToSet(la) = ToSet(s.launch) \ {r} /\ Distinct(la)
      /\ co \in Seq(Requests) /\ ToSet(co) = ToSet(s.common) \ {r} /\ Distinct(co)
  <2>1. Distinct(s.waiting) /\ Distinct(s.launch) /\ Distinct(s.common) BY <1>1 DEF Queues
  <2> HIDE DEF Distinct
  <2> QED BY <1>2, <2>1, QueueWithout
<1>5. k \in SUBSET Requests /\ s.running \ {r} \in SUBSET Requests BY <1>2
<1>6. t = [s EXCEPT !.known = k, !.running = s.running \ {r}, !.waiting = w, !.launch = la,
                    !.common = co, !.req[r] = q1]
  BY Zenon DEF Removed
<1> HIDE DEF w, q1, k, la, co, t
<1>7. /\ t \in States /\ t.req = [s.req EXCEPT ![r] = q1]
      /\ t.known = k /\ t.running = s.running \ {r}
      /\ t.out = s.out /\ t.waiting = w /\ t.launch = la /\ t.common = co
      /\ t.resubmitted = s.resubmitted /\ t.error = s.error
  BY <1>1, <1>2, <1>3, <1>4, <1>5, <1>6 DEF States
<1>8. t.req[r] = q1 /\ \A x \in Requests \ {r} : t.req[x] = s.req[x] BY <1>2, <1>7
<1>9. Ids(t) = Ids(s) BY <1>7 DEF Ids
<1>10. Aside(s, t, r)
  <2>1. t.known \ {r} = s.known \ {r} BY <1>7 DEF k
  <2>2. t.running \ {r} = s.running \ {r} BY <1>7
  <2>3. ToSet(t.launch) \ {r} = ToSet(s.launch) \ {r} BY <1>4, <1>7
  <2> QED BY <1>8, <1>9, <2>1, <2>2, <2>3 DEF Aside, Alone
<1>11. Queues(t)
  <2> HIDE DEF Distinct
  <2> QED BY <1>1, <1>4, <1>7 DEF Queues, k
<1>12. Local(policy, t, {}, r)
  <2>1. r \notin t.running /\ r \notin ToSet(t.launch) /\ r \notin t.known
    BY <1>4, <1>7 DEF k
  <2>2. t.req[r] = Fresh(r) BY <1>8 DEF q1
  <2> HIDE DEF Fresh
  <2> QED BY <2>1, <2>2, FreshState DEF Local
<1>13. Ledger(t) /\ Slots(policy, t)
  <2>1. Alone(s, t, r) /\ r \notin t.running BY <1>7, <1>10 DEF Aside
  <2>2. policy.short.on \in BOOLEAN /\ policy.short.sequences \in Nat
    BY PolicyFacts DEF Short
  <2> QED BY <1>7, <2>1, <2>2, LeavesCounts
<1>14. Sound(policy, t, {})
  BY <1>7, <1>10, <1>11, <1>12, <1>13, OneChanged
<1> QED BY <1>4, <1>7, <1>9, <1>14 DEF t

----------------------------------------------------------------------------
(* Results.                                                                *)

(* The Engine takes the next result of the step.                           *)
Taken(s, t, r) ==
  /\ t \in States /\ t.req = s.req /\ t.known = s.known /\ t.running = s.running
  /\ t.waiting = s.waiting /\ t.launch = s.launch /\ t.common = s.common
  /\ t.resubmitted = s.resubmitted /\ t.error = s.error
  /\ t.out = Tail(s.out)
  /\ r \in t.running /\ r \notin Ids(t) /\ Ids(s) = Ids(t) \cup {r}

(* Its request is no longer in flight, and owed nothing but that result.   *)
LEMMA TakenSound ==
  ASSUME NEW p, NEW s, Sound(p, s, {}), s.out # << >>
  PROVE  LET item == Head(s.out)
             t == [s EXCEPT !.out = Tail(@)]
         IN  /\ Taken(s, t, item.id) /\ item \in Items /\ item.id \in Requests
             /\ Sound(p, t, {item.id}) /\ ItemOf(t, item)
<1> DEFINE item == Head(s.out)
           r == item.id
           t == [s EXCEPT !.out = Tail(@)]
           n == Len(s.out)
<1>1. /\ s \in States /\ Queues(s) /\ Ledger(s) /\ Slots(p, s) /\ InFlight(s)
      /\ \A x \in Requests : Local(p, s, {}, x)
  BY DEF Sound
<1>2. s.out \in Seq(Items) BY <1>1 DEF States
<1>3. /\ n \in Nat /\ n # 0 /\ item = s.out[1] /\ s.out[1] \in Items
      /\ Tail(s.out) \in Seq(Items) /\ Len(Tail(s.out)) = n - 1
      /\ \A i \in 1 .. (n - 1) : Tail(s.out)[i] = s.out[i + 1]
  BY <1>2, HeadTailProperties
<1>4. /\ t \in States /\ t.req = s.req /\ t.known = s.known /\ t.running = s.running
      /\ t.waiting = s.waiting /\ t.launch = s.launch /\ t.common = s.common
      /\ t.resubmitted = s.resubmitted /\ t.error = s.error
      /\ t.out = Tail(s.out)
  BY <1>1, <1>3 DEF States
<1> HIDE DEF t, item
<1>5. /\ \A i \in 1 .. n : s.out[i].id = r => i = 1
      /\ \A i, j \in 1 .. n : s.out[i].id = s.out[j].id => i = j
      /\ \A i \in 1 .. n : ItemOf(s, s.out[i])
  <2>1. 1 \in 1 .. n BY <1>3
  <2> QED BY <1>1, <1>3, <2>1 DEF InFlight
<1>6. InFlight(t)
  <2>1. Len(t.out) = n - 1 /\ \A i \in 1 .. (n - 1) : t.out[i] = s.out[i + 1] BY <1>3, <1>4
  <2>2. ASSUME NEW i \in 1 .. (n - 1), NEW j \in 1 .. (n - 1), t.out[i].id = t.out[j].id
        PROVE  i = j
    <3>1. i + 1 \in 1 .. n /\ j + 1 \in 1 .. n BY <1>3
    <3>2. s.out[i + 1].id = s.out[j + 1].id BY <2>1, <2>2
    <3>3. i + 1 = j + 1 BY <1>5, <3>1, <3>2
    <3> QED BY <3>3
  <2>3. ASSUME NEW i \in 1 .. (n - 1) PROVE ItemOf(t, t.out[i])
    <3>1. i + 1 \in 1 .. n BY <1>3
    <3>2. ItemOf(s, s.out[i + 1]) BY <1>5, <3>1
    <3>3. t.out[i] = s.out[i + 1] BY <2>1
    <3> QED BY <1>4, <3>2, <3>3 DEF ItemOf
  <2> QED BY <2>1, <2>2, <2>3 DEF InFlight
<1>7. r \notin Ids(t) /\ Ids(s) = Ids(t) \cup {r}
  <2>1. Len(t.out) = n - 1 /\ \A i \in 1 .. (n - 1) : t.out[i] = s.out[i + 1] BY <1>3, <1>4
  <2>2. Ids(t) = { t.out[i].id : i \in 1 .. (n - 1) } BY <1>4, <1>6, <2>1, IdsRun
  <2>3. Ids(s) = { s.out[i].id : i \in 1 .. n } BY <1>1, IdsRun
  <2>4. ASSUME NEW i \in 1 .. (n - 1) PROVE t.out[i].id # r /\ t.out[i].id \in Ids(s)
    <3>1. i + 1 \in 1 .. n /\ i + 1 # 1 BY <1>3
    <3>2. t.out[i] = s.out[i + 1] BY <2>1
    <3> QED BY <1>5, <2>3, <3>1, <3>2
  <2>5. ASSUME NEW i \in 1 .. n PROVE s.out[i].id \in Ids(t) \cup {r}
    <3>1. CASE i = 1 BY <1>3, <3>1
    <3>2. CASE i # 1
      <4>1. i - 1 \in 1 .. (n - 1) /\ s.out[i] = s.out[(i - 1) + 1] BY <1>3, <3>2
      <4>2. t.out[i - 1] = s.out[i] BY <2>1, <4>1
      <4> QED BY <2>2, <4>1, <4>2
    <3> QED BY <3>1, <3>2
  <2>6. r \in Ids(s)
    <3>1. 1 \in 1 .. n BY <1>3
    <3> QED BY <1>3, <2>3, <3>1
  <2> QED BY <2>2, <2>3, <2>4, <2>5, <2>6
<1>8. item \in Items /\ r \in Requests BY <1>3 DEF Items
<1>9. ItemOf(t, item)
  <2>1. 1 \in 1 .. n BY <1>3
  <2>2. ItemOf(s, item) BY <1>3, <1>5, <2>1
  <2> QED BY <1>4, <2>2 DEF ItemOf
<1>10. r \in t.running BY <1>9 DEF ItemOf
<1>11. \A x \in Requests : Local(p, t, {r}, x)
  <2>1. ASSUME NEW x \in Requests PROVE Local(p, t, {r}, x)
    <3>1. Local(p, s, {}, x) BY <1>1
    <3>2. x \in Ids(s) => x \in Ids(t) \/ x \in {r} BY <1>7
    <3> QED BY <1>4, <3>1, <3>2 DEF Local
  <2> QED BY <2>1
<1>12. Queues(t) /\ Ledger(t) /\ Slots(p, t)
  <2>1. Queues(t) BY <1>1, <1>4 DEF Queues
  <2>2. Used(t) = Used(s) /\ Claimed(t) = Claimed(s) BY <1>4 DEF Used, Claimed
  <2>3. ShortSlots(t) = ShortSlots(s) BY <1>4 DEF ShortSlots
  <2>4. Ledger(t) BY <1>1, <2>2 DEF Ledger
  <2>5. Slots(p, t) BY <1>1, <1>4, <2>3 DEF Slots
  <2> QED BY <2>1, <2>4, <2>5
<1>13. Sound(p, t, {r}) BY <1>4, <1>6, <1>11, <1>12 DEF Sound
<1> QED BY <1>4, <1>7, <1>8, <1>9, <1>10, <1>13 DEF Taken, t, item

(* What the executor may return for an item: `new` tokens, all but the     *)
(* last of which it may have cached.                                       *)
Result(item, new, cached) ==
  /\ new \in Nat /\ cached \in Nat
  /\ item.output = 0 => new = 0
  /\ item.output > 0 => new > 0 /\ new <= item.output
  /\ cached <= item.lookahead
  /\ new > 0 => cached <= new - 1
  /\ new = 0 => cached = 0

(* The tokens and the blocks of a request after its result.                *)
LEMMA ResultFits ==
  ASSUME NEW s, NEW item \in Items, ItemOf(s, item), s.req[item.id] \in RequestState,
         MaxTokens[item.id] \in Nat, s.req[item.id].tokens < MaxTokens[item.id],
         NEW new, NEW cached, Result(item, new, cached)
  PROVE  LET q == s.req[item.id]
             computed == q.computed + (item.tokens + cached)
         IN  /\ computed \in Nat /\ q.computed <= computed /\ computed < q.tokens + new
             /\ q.tokens + new \in Nat /\ q.tokens + new <= MaxTokens[item.id]
             /\ BlocksFor(computed) \in Nat /\ BlocksFor(computed) <= q.blocks
<1> DEFINE q == s.req[item.id]
           computed == q.computed + (item.tokens + cached)
<1>1. /\ item.tokens \in Nat /\ item.lookahead \in Nat /\ item.output \in Nat
      /\ q.computed \in Nat /\ q.tokens \in Nat /\ q.blocks \in Nat
  BY DEF Items, RequestState
<1>2. /\ item.tokens > 0
      /\ item.output = 0 => item.lookahead = 0 /\ q.computed + item.tokens < q.tokens
      /\ item.output > 0 =>
           /\ q.computed + item.tokens = q.tokens
           /\ item.output <= MaxTokens[item.id] - q.tokens
      /\ q.computed + item.tokens + item.lookahead <= q.blocks * BlockSize
  BY DEF ItemOf
<1>3. /\ new \in Nat /\ cached \in Nat
      /\ item.output = 0 => new = 0
      /\ item.output > 0 => new > 0 /\ new <= item.output
      /\ cached <= item.lookahead
      /\ new > 0 => cached <= new - 1
      /\ new = 0 => cached = 0
  BY DEF Result
<1>4. q.blocks * BlockSize \in Nat BY <1>1, BudgetAssumption, Multiples
<1> HIDE DEF q
<1>5. computed \in Nat /\ q.computed <= computed BY <1>1, <1>3
<1>6. q.tokens + new \in Nat /\ q.tokens + new <= MaxTokens[item.id] BY <1>1, <1>2, <1>3 DEF q
<1>7. computed < q.tokens + new BY <1>1, <1>2, <1>3
<1>8. computed <= q.blocks * BlockSize BY <1>1, <1>2, <1>3, <1>4
<1> HIDE DEF computed
<1>9. BlocksFor(computed) \in Nat /\ BlocksFor(computed) <= q.blocks
  BY <1>1, <1>5, <1>8, Fits
<1> QED BY <1>5, <1>6, <1>7, <1>9 DEF q, computed

(* What is committed of a result leaves the scheduler sound, but for a     *)
(* request that is at its maximal length now and has to leave.             *)
LEMMA CompletedSound ==
  ASSUME policy \in Policies, NEW s, NEW item \in Items, NEW r \in Requests, r = item.id,
         Sound(policy, s, {r}), ItemOf(s, item), r \notin Ids(s),
         s.req[r].tokens < MaxTokens[r],
         NEW new, NEW cached, Result(item, new, cached)
  PROVE  LET t == Completed(s, r, item.tokens + cached, new)
         IN  /\ Sound(policy, t, {r})
             /\ t.req[r].tokens < MaxTokens[r] => Sound(policy, t, {})
             /\ t.out = s.out /\ Ids(t) = Ids(s)
             /\ t.resubmitted = s.resubmitted /\ t.error = s.error
             /\ ToSet(t.launch) \subseteq ToSet(s.launch)
             /\ new > 0 => r \notin ToSet(t.launch)
<1> DEFINE t == Completed(s, r, item.tokens + cached, new)
           q == s.req[r]
           c == q.computed + (item.tokens + cached)
           leaves == q.short /\ ~q.visible /\ new > 0
           pub == AtLeast(q.published, AtMost(c, PromptLen[r] - 1) \div BlockSize)
           q1 == [q EXCEPT !.computed = c, !.tokens = q.tokens + new,
                           !.visible = q.visible \/ new > 0,
                           !.blocks = BlocksFor(c), !.published = pub]
           la == IF leaves THEN Without(s.launch, r) ELSE s.launch
           co == IF leaves THEN Append(s.common, r) ELSE s.common
<1>1. /\ s \in States /\ Queues(s) /\ Ledger(s) /\ Slots(policy, s) /\ InFlight(s)
      /\ \A x \in Requests : Local(policy, s, {r}, x)
  BY DEF Sound
<1>2. /\ s.req \in [Requests -> RequestState]
      /\ s.launch \in Seq(Requests) /\ s.common \in Seq(Requests)
      /\ s.running \in SUBSET Requests
  BY <1>1 DEF States
<1>3. q \in RequestState /\ r \in s.running /\ r \in s.known
  BY <1>1, <1>2 DEF ItemOf, Queues
<1>4. PromptLen[r] \in Nat \ {0} /\ MaxTokens[r] \in Nat BY RequestAssumption
<1>5. /\ c \in Nat /\ q.computed <= c /\ c < q.tokens + new
      /\ q.tokens + new \in Nat /\ q.tokens + new <= MaxTokens[r]
      /\ BlocksFor(c) \in Nat /\ BlocksFor(c) <= q.blocks
  BY <1>3, <1>4, ResultFits
<1>6. Local(policy, s, {r}, r) BY <1>1
<1>7. pub \in Nat /\ pub * BlockSize < PromptLen[r]
  <2> DEFINE a == AtMost(c, PromptLen[r] - 1)
             b == a \div BlockSize
  <2>1. a \in Nat /\ a <= PromptLen[r] - 1
    <3> HIDE DEF c
    <3> QED BY <1>4, <1>5 DEF AtMost
  <2> HIDE DEF a
  <2>2. b \in Nat /\ b * BlockSize <= a BY <2>1, WholeBlocks
  <2> HIDE DEF b
  <2>3. b * BlockSize < PromptLen[r]
    <3>1. b * BlockSize \in Nat BY <2>2, BudgetAssumption, Multiples
    <3> QED BY <1>4, <2>1, <2>2, <3>1
  <2>4. q.published * BlockSize < PromptLen[r] BY <1>6 DEF Local
  <2>5. pub = AtLeast(q.published, b) BY DEF a, b
  <2>6. pub = q.published \/ pub = b BY <2>5 DEF AtLeast
  <2>7. q.published \in Nat BY <1>3 DEF RequestState
  <2> HIDE DEF pub, q
  <2> QED BY <2>2, <2>3, <2>4, <2>6, <2>7
<1>8. t = [s EXCEPT !.req[r] = q1, !.launch = la, !.common = co]
  BY Zenon DEF Completed
<1>9. new \in Nat /\ item.tokens \in Nat BY DEF Result, Items
<1> HIDE DEF t, c, pub
<1>10. /\ q1 \in RequestState /\ q1.attached = q.attached /\ q1.blocks = BlocksFor(c)
       /\ q1.limit = q.limit /\ q1.short = q.short /\ q1.slot = q.slot
       /\ q1.strict = q.strict /\ q1.computed = c
       /\ q1.tokens = q.tokens + new /\ q1.visible = (q.visible \/ new > 0)
       /\ q1.published = pub
  <2>1. (q.visible \/ new > 0) \in BOOLEAN OBVIOUS
  <2> HIDE DEF q
  <2> QED BY <1>3, <1>5, <1>7, <2>1 DEF RequestState
<1> HIDE DEF q1
<1>11. leaves <=> r \in ToSet(s.launch) /\ new > 0 BY <1>3, <1>6 DEF Local
<1>12. /\ r \in ToSet(s.launch) => r \notin ToSet(s.common)
       /\ Distinct(s.launch) /\ Distinct(s.common)
  BY <1>1 DEF Queues
<1> HIDE DEF leaves
<1>13. /\ la \in Seq(Requests) /\ Distinct(la) /\ co \in Seq(Requests) /\ Distinct(co)
       /\ ToSet(la) = IF leaves THEN ToSet(s.launch) \ {r} ELSE ToSet(s.launch)
       /\ ToSet(co) = IF leaves THEN ToSet(s.common) \cup {r} ELSE ToSet(s.common)
  <2> HIDE DEF Distinct
  <2>1. CASE leaves
    <3>1. /\ la \in Seq(Requests) /\ Distinct(la) /\ ToSet(la) = ToSet(s.launch) \ {r}
      BY <1>2, <1>12, <2>1, QueueWithout
    <3>2. /\ co \in Seq(Requests) /\ Distinct(co) /\ ToSet(co) = ToSet(s.common) \cup {r}
      BY <1>2, <1>11, <1>12, <2>1, QueueAppend
    <3> QED BY <2>1, <3>1, <3>2
  <2>2. CASE ~leaves BY <1>2, <1>12, <2>2
  <2> QED BY <2>1, <2>2
<1> HIDE DEF la, co
<1>14. /\ t \in States /\ t.req = [s.req EXCEPT ![r] = q1]
       /\ t.known = s.known /\ t.running = s.running
       /\ t.out = s.out /\ t.waiting = s.waiting /\ t.launch = la /\ t.common = co
       /\ t.resubmitted = s.resubmitted /\ t.error = s.error
  BY <1>1, <1>2, <1>8, <1>10, <1>13 DEF States
<1>15. t.req[r] = q1 /\ \A x \in Requests \ {r} : t.req[x] = s.req[x] BY <1>2, <1>14
<1>16. Ids(t) = Ids(s) BY <1>14 DEF Ids
<1>17. Aside(s, t, r)
  <2>1. ToSet(t.launch) \ {r} = ToSet(s.launch) \ {r} BY <1>13, <1>14
  <2> QED BY <1>14, <1>15, <1>16, <2>1 DEF Aside, Alone
<1>18. Queues(t)
  <2> HIDE DEF Distinct
  <2>1. /\ ToSet(s.launch) \cap ToSet(s.common) = {}
        /\ ToSet(s.waiting) \cap s.running = {}
        /\ s.running = ToSet(s.launch) \cup ToSet(s.common)
        /\ s.known = ToSet(s.waiting) \cup s.running
        /\ Distinct(s.waiting)
    BY <1>1 DEF Queues
  <2>2. ToSet(la) \cap ToSet(co) = {} BY <1>13, <2>1
  <2>3. ToSet(la) \cup ToSet(co) = s.running BY <1>3, <1>11, <1>13, <2>1
  <2> QED BY <1>13, <1>14, <2>1, <2>2, <2>3 DEF Queues
<1>19. ASSUME NEW Y, r \in Y \/ q1.tokens < MaxTokens[r]
       PROVE  Local(policy, t, Y, r)
  <2>1. r \in t.running /\ r \in t.known BY <1>3, <1>14
  <2>2. r \in ToSet(t.launch) <=> r \in ToSet(s.launch) /\ ~(new > 0)
    BY <1>11, <1>13, <1>14
  <2>3. q1.attached <=> r \in t.running BY <1>3, <1>6, <1>10, <2>1 DEF Local
  <2>4. r \in ToSet(s.launch) <=> q.short /\ ~q.visible BY <1>3, <1>6 DEF Local
  <2>5. r \in ToSet(t.launch) <=> r \in t.running /\ q1.short /\ ~q1.visible
    BY <1>10, <2>1, <2>2, <2>4
  <2>6. r \in ToSet(t.launch) =>
          policy.short.on /\ q1.slot /\ q1.strict /\ q1.tokens - q1.computed <= policy.short.effective
    <3> SUFFICES ASSUME r \in ToSet(t.launch)
                 PROVE  /\ policy.short.on /\ q1.slot /\ q1.strict
                        /\ q1.tokens - q1.computed <= policy.short.effective
      OBVIOUS
    <3>1. /\ policy.short.on /\ q.slot /\ q.strict
          /\ q.tokens - q.computed <= policy.short.effective
      BY <1>6, <2>2 DEF Local
    <3>2. new = 0 BY <1>9, <2>2
    <3>3. q.tokens \in Nat /\ q.computed \in Nat BY <1>3 DEF RequestState
    <3>4. policy.short.effective \in Nat BY PolicyFacts DEF Short
    <3>5. q1.tokens = q.tokens /\ q1.computed = c BY <1>10, <3>2, <3>3
    <3> QED BY <1>5, <1>10, <3>1, <3>3, <3>4, <3>5
  <2>7. /\ q1.tokens \in PromptLen[r] .. MaxTokens[r] /\ q1.computed < q1.tokens
        /\ ~q1.visible => q1.tokens = PromptLen[r]
    <3>1. /\ q.tokens \in PromptLen[r] .. MaxTokens[r]
          /\ ~q.visible => q.tokens = PromptLen[r]
      BY <1>3, <1>6 DEF Local
    <3> HIDE DEF q
    <3>2. q1.tokens \in PromptLen[r] .. MaxTokens[r] BY <1>4, <1>5, <1>9, <1>10, <3>1
    <3>3. ~q1.visible => new = 0 /\ ~q.visible
      <4>1. ~q1.visible => ~(new > 0) /\ ~q.visible BY <1>10, Zenon
      <4>2. ~(new > 0) => new = 0 BY <1>9
      <4> QED BY <4>1, <4>2
    <3>4. ~q1.visible => q1.tokens = PromptLen[r] BY <1>4, <1>10, <3>1, <3>3
    <3> QED BY <1>5, <1>10, <3>2, <3>4
  <2>8. q1.strict => q1.limit = BlocksFor(MaxTokens[r] - 1) /\ q1.blocks <= q1.limit
    <3>1. q.strict => q.limit = BlocksFor(MaxTokens[r] - 1) /\ q.blocks <= q.limit
      BY <1>3, <1>6 DEF Local
    <3>2. q.blocks \in Nat /\ q.limit \in Nat BY <1>3 DEF RequestState
    <3> HIDE DEF q
    <3> QED BY <1>5, <1>10, <3>1, <3>2
  <2>9. policy.resubmit.on \/ q1.strict BY <1>3, <1>6, <1>10 DEF Local
  <2>10. q1.published * BlockSize < PromptLen[r] BY <1>7, <1>10
  <2> QED BY <1>10, <1>15, <1>19, <2>1, <2>3, <2>5, <2>6, <2>7, <2>8, <2>9, <2>10 DEF Local
<1>20. IsFiniteSet(s.running) /\ Alone(s, t, r) BY <1>1, <1>17, RunningFinite DEF Aside
<1>21. Ledger(t)
  <2>1. /\ Used(s) \in Nat /\ Claimed(s) \in Nat /\ Used(t) \in Nat /\ Claimed(t) \in Nat
        /\ Used(t) - BlocksOf(t, r) = Used(s) - BlocksOf(s, r)
        /\ Claimed(t) - ClaimOf(t, r) = Claimed(s) - ClaimOf(s, r)
    BY <1>1, <1>14, <1>20, Counts
  <2>2. /\ BlocksOf(t, r) = BlocksFor(c) /\ BlocksOf(s, r) = q.blocks
        /\ ClaimOf(t, r) = Claim(q1) /\ ClaimOf(s, r) = Claim(q)
    BY <1>3, <1>10, <1>14, <1>15 DEF BlocksOf, ClaimOf
  <2>3. /\ Claim(q) = IF q.blocks <= q.limit THEN q.limit - q.blocks ELSE 0
        /\ Claim(q1) = IF q1.blocks <= q1.limit THEN q1.limit - q1.blocks ELSE 0
    BY <1>3, <1>10, ClaimIs
  <2>4. q.blocks \in Nat /\ q.limit \in Nat BY <1>3 DEF RequestState
  <2>5. NumBlocks \in Nat BY BudgetAssumption
  <2>6. BlocksOf(t, r) + ClaimOf(t, r) <= BlocksOf(s, r) + ClaimOf(s, r)
    <3> HIDE DEF q
    <3> QED BY <1>5, <1>10, <2>2, <2>3, <2>4
  <2>7. /\ BlocksOf(s, r) \in Nat /\ ClaimOf(s, r) \in Nat
        /\ BlocksOf(t, r) \in Nat /\ ClaimOf(t, r) \in Nat
    BY <1>3, <1>5, <1>10, <2>2, <2>4, ClaimIs
  <2> QED BY <1>1, <2>1, <2>5, <2>6, <2>7 DEF Ledger
<1>22. Slots(policy, t)
  <2>1. /\ ShortSlots(s) \in Nat /\ ShortSlots(t) \in Nat
        /\ ShortSlots(t) - (IF HasSlotOf(t, r) THEN 1 ELSE 0) =
             ShortSlots(s) - (IF HasSlotOf(s, r) THEN 1 ELSE 0)
    BY <1>1, <1>14, <1>20, SlotCounts
  <2>2. HasSlotOf(t, r) <=> HasSlotOf(s, r) BY <1>10, <1>14, <1>15 DEF HasSlotOf
  <2>3. t.running = s.running BY <1>14
  <2>4. Cardinality(t.running) = Cardinality(s.running) BY <2>3, Zenon
  <2>5. ShortSlots(t) = ShortSlots(s) BY <2>1, <2>2
  <2> QED BY <1>1, <2>4, <2>5 DEF Slots
<1>23. Sound(policy, t, {r})
  <2>1. Local(policy, t, {r}, r) BY <1>19
  <2> QED BY <1>14, <1>17, <1>18, <1>21, <1>22, <2>1, OneChanged
<1>24. ASSUME t.req[r].tokens < MaxTokens[r] PROVE Sound(policy, t, {})
  <2>1. Local(policy, t, {}, r) BY <1>15, <1>19, <1>24
  <2> QED BY <1>14, <1>17, <1>18, <1>21, <1>22, <2>1, OneChanged
<1>25. ToSet(t.launch) \subseteq ToSet(s.launch) /\ (new > 0 => r \notin ToSet(t.launch))
  BY <1>11, <1>13, <1>14
<1> QED BY <1>14, <1>16, <1>23, <1>24, <1>25 DEF t

----------------------------------------------------------------------------
(* Plans.                                                                  *)

(* A plan for a request with `budget` tokens left in its lane.             *)
Planned(plan, q, maximum, budget) ==
  /\ plan.tokens \in Nat /\ plan.lookahead \in Nat /\ plan.output \in Nat
  /\ plan.tokens > 0
  /\ plan.tokens + plan.lookahead <= budget
  /\ q.computed + plan.tokens + plan.lookahead <= maximum - 1
  /\ plan.output = 0 => plan.lookahead = 0 /\ q.computed + plan.tokens < q.tokens
  /\ plan.output > 0 =>
       /\ q.computed + plan.tokens = q.tokens
       /\ plan.output <= maximum - q.tokens

(* What a plan asks for fits the budget and the length of the request; and *)
(* with its first output at stake, pending tokens that fit are computed.   *)
LEMMA PlanFits ==
  ASSUME NEW r \in Requests, NEW q \in RequestState, NEW budget \in Nat, budget > 0,
         NEW first \in BOOLEAN, q.computed < q.tokens, q.tokens < MaxTokens[r]
  PROVE  /\ Planned(Plan(r, q, budget, first), q, MaxTokens[r], budget)
         /\ first /\ q.tokens - q.computed <= budget => Plan(r, q, budget, first).output > 0
<1> DEFINE pend == q.tokens - q.computed
           n == AtMost(Pending(q), budget)
           output == AtMost(MaxOutput, MaxTokens[r] - q.tokens)
           lookahead == AtMost(Lookahead, output - 1)
           plan == Plan(r, q, budget, first)
<1>1. /\ q.tokens \in Nat /\ q.computed \in Nat /\ MaxTokens[r] \in Nat
      /\ MaxOutput \in Nat \ {0} /\ Lookahead \in Nat
  BY RequestAssumption, BudgetAssumption DEF RequestState
<1>2. Pending(q) = pend BY DEF Pending
<1>3. /\ n \in Nat /\ n > 0 /\ n <= pend /\ n <= budget /\ (n = pend \/ n = budget)
      /\ (pend <= budget => n = pend)
  BY <1>1, <1>2 DEF AtMost
<1>4. output \in Nat /\ output > 0 /\ output <= MaxTokens[r] - q.tokens BY <1>1 DEF AtMost
<1> HIDE DEF output
<1>5. lookahead \in Nat /\ lookahead <= output - 1 BY <1>1, <1>4 DEF AtMost
<1>6. plan = CASE n < pend -> [tokens |-> n, lookahead |-> 0, output |-> 0]
               [] n = pend /\ n + lookahead <= budget ->
                    [tokens |-> n, lookahead |-> lookahead, output |-> output]
               [] n = pend /\ n + lookahead > budget /\ (n = 1 \/ first) ->
                    [tokens |-> n, lookahead |-> 0, output |-> 1]
               [] OTHER -> [tokens |-> n - 1, lookahead |-> 0, output |-> 0]
  BY <1>2 DEF Plan, output
<1> HIDE DEF n, lookahead, plan
<1>7. CASE n < pend
  <2>1. plan = [tokens |-> n, lookahead |-> 0, output |-> 0] BY <1>1, <1>3, <1>6, <1>7
  <2>2. ~(pend <= budget) BY <1>3, <1>7
  <2>3. Planned(plan, q, MaxTokens[r], budget) BY <1>1, <1>3, <1>7, <2>1 DEF Planned
  <2> QED BY <2>2, <2>3 DEF plan
<1>8. CASE n = pend /\ n + lookahead <= budget
  <2>1. plan = [tokens |-> n, lookahead |-> lookahead, output |-> output]
    BY <1>1, <1>3, <1>5, <1>6, <1>8
  <2>2. Planned(plan, q, MaxTokens[r], budget)
    BY <1>1, <1>3, <1>4, <1>5, <1>8, <2>1 DEF Planned
  <2>3. plan.output > 0 BY <1>4, <2>1
  <2> QED BY <2>2, <2>3 DEF plan
<1>9. CASE n = pend /\ n + lookahead > budget /\ (n = 1 \/ first)
  <2>1. plan = [tokens |-> n, lookahead |-> 0, output |-> 1]
    BY <1>1, <1>3, <1>5, <1>6, <1>9
  <2>2. Planned(plan, q, MaxTokens[r], budget) BY <1>1, <1>3, <1>9, <2>1 DEF Planned
  <2>3. plan.output > 0 BY <2>1
  <2> QED BY <2>2, <2>3 DEF plan
<1>10. CASE n = pend /\ n + lookahead > budget /\ n # 1 /\ ~first
  <2>1. plan = [tokens |-> n - 1, lookahead |-> 0, output |-> 0]
    BY <1>1, <1>3, <1>5, <1>6, <1>10
  <2>2. Planned(plan, q, MaxTokens[r], budget) BY <1>1, <1>3, <1>10, <2>1 DEF Planned
  <2> QED BY <1>10, <2>2 DEF plan
<1>11. n < pend \/ n = pend BY <1>1, <1>3
<1>12. n + lookahead <= budget \/ n + lookahead > budget BY <1>3, <1>5
<1> QED BY <1>7, <1>8, <1>9, <1>10, <1>11, <1>12

(* A request that was promised all of its blocks gets those of any plan.   *)
LEMMA StrictGrows ==
  ASSUME NEW p, NEW s, Sound(p, s, {}), NEW r \in s.running, r \notin Ids(s),
         s.req[r].strict, NEW n \in Nat, s.req[r].computed <= n, n <= MaxTokens[r] - 1
  PROVE  CanGrow(s, s.req[r], BlocksFor(n) - s.req[r].blocks)
<1> DEFINE q == s.req[r]
           b == BlocksFor(n)
           m == BlocksFor(MaxTokens[r] - 1)
<1>1. s \in States /\ Queues(s) /\ Ledger(s) /\ \A x \in Requests : Local(p, s, {}, x)
  BY DEF Sound
<1>2. r \in Requests /\ q \in RequestState BY <1>1 DEF States
<1>3. q.limit = m /\ q.blocks <= q.limit BY <1>1, <1>2 DEF Local
<1>4. MaxTokens[r] - 1 \in Nat BY <1>2, RequestAssumption
<1>5. b \in Nat /\ m \in Nat /\ b <= m BY <1>4, MoreNeedMore
<1>6. IsFiniteSet(s.running) /\ Alone(s, s, r) BY <1>1, RunningFinite DEF Alone
<1>7. Used(s) \in Nat /\ Claimed(s) \in Nat BY <1>1, <1>2, <1>6, Counts
<1>8. ClaimOf(s, r) = m - q.blocks /\ q.blocks \in Nat
  <2>1. Claim(q) = q.limit - q.blocks BY <1>2, <1>3, ClaimIs
  <2>2. q.blocks \in Nat BY <1>2 DEF RequestState
  <2> QED BY <1>3, <2>1, <2>2 DEF ClaimOf
<1>9. ClaimOf(s, r) <= Claimed(s)
  <2> DEFINE g == [x \in Requests |-> Claim(s.req[x])]
  <2>1. \A x \in s.running : g[x] \in Nat BY <1>1, CountedTypes
  <2>2. g[r] = Claim(q) BY <1>2
  <2>3. Claimed(s) = Cardinality(Counted(g, s.running)) BY DEF Claimed
  <2> HIDE DEF g
  <2>4. /\ Cardinality(Counted(g, s.running \ {r})) \in Nat
        /\ Cardinality(Counted(g, s.running)) =
             Cardinality(Counted(g, s.running \ {r})) + g[r]
    BY <1>6, <2>1, CountOne
  <2>5. g[r] \in Nat BY <2>1
  <2> QED BY <2>2, <2>3, <2>4, <2>5 DEF ClaimOf
<1> HIDE DEF q, b, m
<1>10. NumBlocks \in Nat /\ Used(s) + Claimed(s) <= NumBlocks
  BY <1>1, BudgetAssumption DEF Ledger
<1>11. Used(s) + (b - q.blocks) <= NumBlocks BY <1>5, <1>7, <1>8, <1>9, <1>10
<1>12. b - q.blocks <= q.limit - q.blocks BY <1>3, <1>5, <1>8
<1>13. q.strict BY DEF q
<1>14. CanGrow(s, q, b - q.blocks) BY <1>11, <1>12, <1>13 DEF CanGrow
<1> QED BY <1>14 DEF q, b

----------------------------------------------------------------------------
(* Grants.                                                                 *)

(* What a request that got its blocks changes.                             *)
Granted(s, t, item) ==
  /\ t.out = Append(s.out, item) /\ t.error = s.error /\ t.resubmitted = s.resubmitted
  /\ t.tokensLeft = s.tokensLeft - (item.tokens + item.lookahead)
  /\ t.seqsLeft = s.seqsLeft - 1
  /\ t.running = s.running /\ t.launch = s.launch /\ t.common = s.common
  /\ t.waiting = s.waiting

(* ... and that it is the only one who changes.                            *)
Grown(s, r, item, count) ==
  [s EXCEPT !.req[r].blocks = @ + count,
            !.tokensLeft = @ - (item.tokens + item.lookahead), !.seqsLeft = @ - 1,
            !.out = Append(@, item)]

(* One more item, of a request that is in no other one.                    *)
LEMMA ItemAdded ==
  ASSUME NEW s \in States, NEW t \in States, InFlight(s), NEW item \in Items,
         t.out = Append(s.out, item), item.id \notin Ids(s), ItemOf(t, item),
         Alone(s, t, item.id)
  PROVE  InFlight(t) /\ Ids(t) = Ids(s) \cup {item.id}
<1> DEFINE n == Len(s.out)
<1>1. s.out \in Seq(Items) BY DEF States
<1>2. /\ n \in Nat /\ Len(t.out) = n + 1 /\ t.out[n + 1] = item
      /\ \A i \in 1 .. n : t.out[i] = s.out[i] /\ s.out[i] \in Items
  BY <1>1, AppendProperties
<1>3. \A i \in 1 .. (n + 1) : i = n + 1 \/ i \in 1 .. n BY <1>2
<1>4. Ids(s) = { s.out[i].id : i \in 1 .. n } /\ Ids(s) \subseteq s.running BY IdsRun
<1>5. \A i \in 1 .. n : s.out[i].id # item.id BY <1>4
<1>6. ASSUME NEW i \in 1 .. (n + 1) PROVE ItemOf(t, t.out[i])
  <2>1. CASE i = n + 1 BY <1>2, <2>1
  <2>2. CASE i # n + 1
    <3>1. i \in 1 .. n /\ t.out[i] = s.out[i] /\ s.out[i] \in Items BY <1>2, <1>3, <2>2
    <3> DEFINE x == s.out[i]
    <3>2. x.id \in Requests \ {item.id} BY <1>5, <3>1 DEF Items
    <3>3. ItemOf(s, x) BY <3>1 DEF InFlight
    <3>4. t.req[x.id] = s.req[x.id] /\ (x.id \in t.running <=> x.id \in s.running)
      BY <3>2 DEF Alone
    <3> HIDE DEF x
    <3>5. ItemOf(t, x) BY <3>3, <3>4 DEF ItemOf
    <3> QED BY <3>1, <3>5 DEF x
  <2> QED BY <2>1, <2>2
<1>7. ASSUME NEW i \in 1 .. (n + 1), NEW j \in 1 .. (n + 1), t.out[i].id = t.out[j].id
      PROVE  i = j
  <2>1. CASE i = n + 1 /\ j = n + 1 BY <2>1
  <2>2. CASE i = n + 1 /\ j # n + 1 BY <1>2, <1>3, <1>5, <1>7, <2>2
  <2>3. CASE i # n + 1 /\ j = n + 1 BY <1>2, <1>3, <1>5, <1>7, <2>3
  <2>4. CASE i # n + 1 /\ j # n + 1
    <3>1. i \in 1 .. n /\ j \in 1 .. n BY <1>3, <2>4
    <3>2. s.out[i].id = s.out[j].id BY <1>2, <1>7, <3>1
    <3> QED BY <3>1, <3>2 DEF InFlight
  <2> QED BY <2>1, <2>2, <2>3, <2>4
<1>8. InFlight(t) BY <1>2, <1>6, <1>7 DEF InFlight
<1>9. Ids(t) = { t.out[i].id : i \in 1 .. (n + 1) } BY <1>2, <1>8, IdsRun
<1>10. n + 1 \in 1 .. (n + 1) /\ \A i \in 1 .. n : i \in 1 .. (n + 1) BY <1>2
<1>11. Ids(t) = Ids(s) \cup {item.id} BY <1>2, <1>3, <1>4, <1>9, <1>10
<1> QED BY <1>8, <1>11

(* A request that gets its blocks leaves the scheduler sound.              *)
LEMMA GrownSound ==
  ASSUME policy \in Policies, NEW s, Sound(policy, s, {}), NEW item \in Items,
         NEW r \in s.running, r = item.id, r \notin Ids(s),
         item.tokens + item.lookahead <= s.tokensLeft, s.seqsLeft > 0,
         Planned(item, s.req[r], MaxTokens[r], s.tokensLeft),
         NEW count, count = BlocksFor(s.req[r].computed + (item.tokens + item.lookahead))
                              - s.req[r].blocks,
         CanGrow(s, s.req[r], count)
  PROVE  LET t == Grown(s, r, item, count)
         IN  Sound(policy, t, {}) /\ Granted(s, t, item) /\ Ids(t) = Ids(s) \cup {r}
<1> DEFINE t == Grown(s, r, item, count)
           q == s.req[r]
           q1 == [q EXCEPT !.blocks = q.blocks + count]
           cost == item.tokens + item.lookahead
           ou == Append(s.out, item)
           need == BlocksFor(q.computed + cost)
<1>1. /\ s \in States /\ Queues(s) /\ Ledger(s) /\ Slots(policy, s) /\ InFlight(s)
      /\ \A x \in Requests : Local(policy, s, {}, x)
  BY DEF Sound
<1>2. /\ s.req \in [Requests -> RequestState] /\ s.out \in Seq(Items)
      /\ s.tokensLeft \in Nat /\ s.seqsLeft \in Nat
  BY <1>1 DEF States
<1>3. r \in Requests /\ q \in RequestState /\ r \in s.known BY <1>1 DEF States, Queues
<1>4. /\ q.blocks \in Nat /\ q.computed \in Nat /\ q.tokens \in Nat /\ q.limit \in Nat
      /\ q.minFree \in Nat
      /\ item.tokens \in Nat /\ item.lookahead \in Nat /\ item.output \in Nat
  BY <1>3 DEF RequestState, Items
<1>5. Local(policy, s, {}, r) BY <1>1, <1>3
<1>6. q.blocks = BlocksFor(q.computed) BY <1>5 DEF Local
<1>7. cost \in Nat /\ q.computed + cost \in Nat BY <1>4
<1> HIDE DEF cost
<1>8. need \in Nat /\ q.blocks <= need /\ q.computed + cost <= need * BlockSize
  <2>1. q.computed <= q.computed + cost BY <1>4, <1>7
  <2>2. need \in Nat /\ BlocksFor(q.computed) <= need BY <1>4, <1>7, <2>1, MoreNeedMore
  <2>3. q.computed + cost <= need * BlockSize
    <3> HIDE DEF need
    <3>1. need <= need BY <2>2
    <3> QED BY <1>7, <2>2, <3>1, Fits DEF need
  <2> QED BY <1>6, <2>2, <2>3
<1>9. count = need - q.blocks BY DEF cost
<1> HIDE DEF need
<1>10. count \in Nat /\ q.blocks + count = need BY <1>4, <1>8, <1>9
<1>11. s.tokensLeft - cost \in Nat /\ s.seqsLeft - 1 \in Nat
  <2>1. cost <= s.tokensLeft BY DEF cost
  <2> QED BY <1>2, <1>7, <2>1
<1>12. ou \in Seq(Items) BY <1>2
<1>13. t = [s EXCEPT !.req[r] = q1, !.tokensLeft = s.tokensLeft - cost,
                     !.seqsLeft = s.seqsLeft - 1, !.out = ou]
  BY DEF Grown, cost
<1>14. /\ q1 \in RequestState /\ q1.attached = q.attached /\ q1.blocks = need
       /\ q1.limit = q.limit /\ q1.short = q.short /\ q1.slot = q.slot
       /\ q1.strict = q.strict /\ q1.computed = q.computed /\ q1.tokens = q.tokens
       /\ q1.visible = q.visible /\ q1.published = q.published
  <2> HIDE DEF q
  <2> QED BY <1>3, <1>4, <1>10, SMTT(30) DEF RequestState
<1> HIDE DEF t, q1, ou
<1>15. /\ t \in States /\ t.req = [s.req EXCEPT ![r] = q1]
       /\ t.known = s.known /\ t.running = s.running
       /\ t.out = ou /\ t.waiting = s.waiting /\ t.launch = s.launch /\ t.common = s.common
       /\ t.resubmitted = s.resubmitted /\ t.error = s.error
       /\ t.tokensLeft = s.tokensLeft - cost /\ t.seqsLeft = s.seqsLeft - 1
  BY <1>1, <1>2, <1>11, <1>12, <1>13, <1>14 DEF States
<1>16. t.req[r] = q1 /\ \A x \in Requests \ {r} : t.req[x] = s.req[x]
  BY <1>2, <1>3, <1>15
<1>17. Alone(s, t, r) BY <1>15, <1>16 DEF Alone
<1>18. ItemOf(t, item)
  <2>1. /\ item.tokens > 0
        /\ item.output = 0 => item.lookahead = 0 /\ q.computed + item.tokens < q.tokens
        /\ item.output > 0 =>
             /\ q.computed + item.tokens = q.tokens
             /\ item.output <= MaxTokens[r] - q.tokens
    BY DEF Planned
  <2>2. q.computed + item.tokens + item.lookahead <= need * BlockSize
    <3>1. q.computed + cost = q.computed + item.tokens + item.lookahead
      <4> HIDE DEF q
      <4> QED BY <1>4 DEF cost
    <3> QED BY <1>8, <3>1
  <2> QED BY <1>14, <1>15, <1>16, <2>1, <2>2 DEF ItemOf
<1>19. InFlight(t) /\ Ids(t) = Ids(s) \cup {r}
  BY <1>1, <1>15, <1>17, <1>18, ItemAdded DEF ou
<1>20. Aside(s, t, r) BY <1>15, <1>17, <1>19 DEF Aside
<1>21. Queues(t) BY <1>1, <1>15 DEF Queues
<1>22. q.strict => need <= q.limit
  <2>1. q.strict => count <= q.limit - q.blocks BY DEF CanGrow
  <2> HIDE DEF q
  <2> QED BY <1>4, <1>10, <2>1
<1>23. Local(policy, t, {}, r)
  <2>1. r \in Ids(t) BY <1>19
  <2>2. q1.strict => q1.limit = BlocksFor(MaxTokens[r] - 1) /\ q1.blocks <= q1.limit
    BY <1>5, <1>14, <1>22 DEF Local
  <2> QED BY <1>5, <1>14, <1>15, <1>16, <2>1, <2>2 DEF Local
<1>24. \A x \in Requests : Local(policy, t, {}, x)
  BY <1>1, <1>20, <1>23, LocalKept
<1>25. IsFiniteSet(s.running) BY <1>1, RunningFinite
<1>26. Ledger(t)
  <2>1. /\ Used(s) \in Nat /\ Claimed(s) \in Nat /\ Used(t) \in Nat /\ Claimed(t) \in Nat
        /\ Used(t) - BlocksOf(t, r) = Used(s) - BlocksOf(s, r)
        /\ Claimed(t) - ClaimOf(t, r) = Claimed(s) - ClaimOf(s, r)
    BY <1>1, <1>3, <1>15, <1>17, <1>25, Counts
  <2>2. /\ BlocksOf(t, r) = need /\ BlocksOf(s, r) = q.blocks
        /\ ClaimOf(t, r) = Claim(q1) /\ ClaimOf(s, r) = Claim(q)
    BY <1>14, <1>15, <1>16 DEF BlocksOf, ClaimOf
  <2>3. /\ Claim(q) = IF q.blocks <= q.limit THEN q.limit - q.blocks ELSE 0
        /\ Claim(q1) = IF need <= q.limit THEN q.limit - need ELSE 0
    BY <1>3, <1>14, ClaimIs
  <2>4. Used(s) + Claimed(s) <= NumBlocks /\ NumBlocks \in Nat
    BY <1>1, BudgetAssumption DEF Ledger
  <2>5. CASE q.strict
    <3>1. need <= q.limit BY <1>22, <2>5
    <3> HIDE DEF q
    <3> QED BY <1>4, <1>8, <2>1, <2>2, <2>3, <2>4, <3>1 DEF Ledger
  <2>6. CASE ~q.strict
    <3>1. count > 0 => Used(s) + Claimed(s) + count - AtMost(count, Claim(q)) + q.minFree
                         <= NumBlocks
      BY <2>6 DEF CanGrow
    <3> HIDE DEF q
    <3>2. CASE count = 0
      <4>1. need = q.blocks BY <1>4, <1>10, <3>2
      <4> QED BY <1>4, <2>1, <2>2, <2>3, <2>4, <4>1 DEF Ledger
    <3>3. CASE count # 0
      <4>0. Used(s) + Claimed(s) + count - AtMost(count, Claim(q)) + q.minFree <= NumBlocks
        BY <1>10, <3>1, <3>3
      <4>1. Claim(q1) = Claim(q) - AtMost(count, Claim(q))
        BY <1>4, <1>8, <1>10, <2>3 DEF AtMost
      <4>2. Claim(q) \in Nat /\ AtMost(count, Claim(q)) \in Nat
        BY <1>4, <1>10, <2>3 DEF AtMost
      <4> QED BY <1>4, <1>10, <2>1, <2>2, <2>4, <4>0, <4>1, <4>2 DEF Ledger
    <3> QED BY <3>2, <3>3
  <2> QED BY <2>5, <2>6
<1>27. Slots(policy, t)
  <2>1. /\ ShortSlots(s) \in Nat /\ ShortSlots(t) \in Nat
        /\ ShortSlots(t) - (IF HasSlotOf(t, r) THEN 1 ELSE 0) =
             ShortSlots(s) - (IF HasSlotOf(s, r) THEN 1 ELSE 0)
    BY <1>1, <1>3, <1>15, <1>17, <1>25, SlotCounts
  <2>2. HasSlotOf(t, r) <=> HasSlotOf(s, r) BY <1>14, <1>15, <1>16 DEF HasSlotOf
  <2>3. t.running = s.running BY <1>15
  <2>4. Cardinality(t.running) = Cardinality(s.running) BY <2>3, Zenon
  <2>5. ShortSlots(t) = ShortSlots(s) BY <2>1, <2>2
  <2> QED BY <1>1, <2>4, <2>5 DEF Slots
<1>28. Sound(policy, t, {})
  BY <1>15, <1>19, <1>21, <1>24, <1>26, <1>27 DEF Sound
<1>29. Granted(s, t, item) BY <1>15 DEF Granted, cost, ou
<1> QED BY <1>19, <1>28, <1>29 DEF t

(* An item that a request is given, within what the lane has left.         *)
Given(s, t, r) ==
  \E item \in Items :
    /\ item.id = r /\ Granted(s, t, item) /\ Ids(t) = Ids(s) \cup {r}
    /\ item.tokens + item.lookahead <= s.tokensLeft

(* A request that runs and has no item yet either gets one or is rolled    *)
(* back: schedule() raises nothing.  With its first output at stake and    *)
(* enough tokens left, a request with a strict claim has an output.        *)
LEMMA ScheduleRequestSound ==
  ASSUME policy \in Policies, NEW s, Sound(policy, s, {}), NEW r \in s.running,
         r \notin Ids(s), s.tokensLeft > 0, s.seqsLeft > 0, NEW first \in BOOLEAN
  PROVE  LET t == ScheduleRequest(s, r, first)
         IN  /\ Sound(policy, t, {})
             /\ Given(s, t, r) \/ (RolledBack(s, t, r) /\ ~s.req[r].strict)
             /\ (/\ first /\ s.req[r].strict
                 /\ s.req[r].tokens - s.req[r].computed <= s.tokensLeft) =>
                  /\ Given(s, t, r)
                  /\ \E i \in DOMAIN t.out : t.out[i].id = r /\ t.out[i].output > 0
<1> DEFINE t == ScheduleRequest(s, r, first)
           q == s.req[r]
           plan == Plan(r, q, s.tokensLeft, first)
           cost == plan.tokens + plan.lookahead
           count == BlocksFor(q.computed + cost) - q.blocks
           item == [id |-> r, tokens |-> plan.tokens, lookahead |-> plan.lookahead,
                    output |-> plan.output]
<1>1. /\ s \in States /\ Queues(s) /\ \A x \in Requests : Local(policy, s, {}, x)
  BY DEF Sound
<1>2. /\ r \in Requests /\ q \in RequestState /\ r \in s.known
      /\ s.tokensLeft \in Nat /\ s.seqsLeft \in Nat /\ s.out \in Seq(Items)
  BY <1>1 DEF States, Queues
<1>3. /\ q.computed < q.tokens /\ q.tokens < MaxTokens[r]
      /\ policy.resubmit.on \/ q.strict
  BY <1>1, <1>2 DEF Local
<1>4. q.computed \in Nat /\ q.tokens \in Nat /\ q.blocks \in Nat /\ MaxTokens[r] \in Nat
  BY <1>2, RequestAssumption DEF RequestState
<1>5. /\ Planned(plan, q, MaxTokens[r], s.tokensLeft)
      /\ first /\ q.tokens - q.computed <= s.tokensLeft => plan.output > 0
  BY <1>2, <1>3, PlanFits
<1>6. t = IF CanGrow(s, q, count) THEN Grown(s, r, item, count)
          ELSE IF Resubmit.on /\ ~q.strict THEN RollBack(s, r)
          ELSE [s EXCEPT !.error = "lost completion guarantee"]
  <2>1. ~(Pending(q) <= 0) /\ Pending(q) > 0 /\ ~(q.tokens >= MaxTokens[r])
    BY <1>3, <1>4 DEF Pending
  <2>2. Grown(s, r, item, count) =
          [s EXCEPT !.req[r].blocks = @ + count,
                    !.tokensLeft = @ - cost, !.seqsLeft = @ - 1,
                    !.out = Append(@, [id |-> r, tokens |-> plan.tokens,
                                       lookahead |-> plan.lookahead,
                                       output |-> plan.output])]
    BY DEF Grown
  <2> HIDE DEF Grown
  <2> QED BY <2>1, <2>2, Zenon DEF ScheduleRequest
<1> HIDE DEF t, plan
<1>7. /\ item \in Items /\ item.id = r /\ item.tokens = plan.tokens
      /\ item.lookahead = plan.lookahead /\ item.output = plan.output
  BY <1>2, <1>5 DEF Items, Planned
<1> HIDE DEF item
<1>8. /\ item.tokens + item.lookahead = cost /\ cost <= s.tokensLeft /\ cost \in Nat
      /\ Planned(item, q, MaxTokens[r], s.tokensLeft)
      /\ q.computed + cost <= MaxTokens[r] - 1
  <2>1. /\ plan.tokens \in Nat /\ plan.lookahead \in Nat
        /\ q.computed + plan.tokens + plan.lookahead <= MaxTokens[r] - 1
    BY <1>5 DEF Planned
  <2> HIDE DEF q
  <2> QED BY <1>4, <1>5, <1>7, <2>1 DEF Planned
<1> HIDE DEF cost
<1>9. CASE CanGrow(s, q, count)
  <2>1. t = Grown(s, r, item, count) BY <1>6, <1>9
  <2>2. count = BlocksFor(q.computed + (item.tokens + item.lookahead)) - q.blocks
    BY <1>8
  <2>3. Sound(policy, t, {}) /\ Granted(s, t, item) /\ Ids(t) = Ids(s) \cup {r}
    <3> HIDE DEF count
    <3> QED BY <1>7, <1>8, <1>9, <2>1, <2>2, GrownSound
  <2>4. Given(s, t, r) BY <1>7, <1>8, <2>3 DEF Given
  <2>5. ASSUME first, q.tokens - q.computed <= s.tokensLeft
        PROVE  \E i \in DOMAIN t.out : t.out[i].id = r /\ t.out[i].output > 0
    <3>1. item.output > 0 BY <1>5, <1>7, <2>5
    <3>2. t.out = Append(s.out, item) BY <2>3 DEF Granted
    <3>3. /\ Len(s.out) + 1 \in DOMAIN t.out /\ t.out[Len(s.out) + 1] = item
      BY <1>2, <1>7, <3>2, AppendProperties
    <3> QED BY <1>7, <3>1, <3>3
  <2> QED BY <2>3, <2>4, <2>5 DEF t
<1>10. q.strict => CanGrow(s, q, count)
  <2> SUFFICES ASSUME q.strict PROVE CanGrow(s, q, count) OBVIOUS
  <2>1. q.computed + cost \in Nat /\ q.computed <= q.computed + cost BY <1>4, <1>8
  <2>2. q.strict /\ q.computed + cost <= MaxTokens[r] - 1 BY <1>8
  <2> QED BY <2>1, <2>2, StrictGrows
<1>11. CASE ~CanGrow(s, q, count)
  <2>1. ~q.strict /\ Resubmit.on BY <1>3, <1>10, <1>11 DEF Resubmit
  <2>2. t = RollBack(s, r) BY <1>6, <1>11, <2>1
  <2>3. Sound(policy, t, {}) /\ RolledBack(s, t, r) BY <2>1, <2>2, RollBackSound
  <2> QED BY <2>1, <2>3 DEF t
<1> QED BY <1>9, <1>11

----------------------------------------------------------------------------
(* Walks along a queue.                                                    *)

(* The step of each of the three walks along a queue, with its arguments.  *)
Step(walk, x, t, r) ==
  CASE walk = "hand back" -> HandBack(t, r)
    [] walk = "admit" -> AdmitNext(t, r, x.isShort, x.minFree, x.hits)
    [] walk = "schedule" -> ScheduleNext(t, r, x.first)

(* FoldLeft folds the prefixes of a queue, by their sets of places.        *)
Folds(walk, x, base, order, D, f) ==
  f = [S \in SUBSET D |->
         IF S = {} THEN base ELSE Step(walk, x, f[S \ {Max(S)}], order[Max(S)])]

(* The largest place of a prefix is its last.                              *)
LEMMA LastPlace ==
  ASSUME NEW n \in Nat, NEW S \in SUBSET (1 .. (n + 1)), n + 1 \in S
  PROVE  Max(S) = n + 1 /\ S \ {n + 1} \in SUBSET (1 .. n)
<1>1. \A y \in S : n + 1 >= y OBVIOUS
<1>2. \A x \in S : (\A y \in S : x >= y) => x = n + 1 OBVIOUS
<1>3. Max(S) \in S /\ \A y \in S : Max(S) >= y BY <1>1 DEF Max
<1>4. Max(S) = n + 1 BY <1>2, <1>3
<1>5. \A y \in S : y # n + 1 => y \in 1 .. n OBVIOUS
<1> QED BY <1>4, <1>5

(* There is a function that does so.                                       *)
LEMMA FoldExists ==
  ASSUME NEW walk, NEW x, NEW base, NEW order
  PROVE  \A n \in Nat : \E f : Folds(walk, x, base, order, 1 .. n, f)
<1> DEFINE B == { n \in Nat : \E f : Folds(walk, x, base, order, 1 .. n, f) }
<1>1. 0 \in B
  <2>1. \A S \in SUBSET (1 .. 0) : S = {} OBVIOUS
  <2>2. Folds(walk, x, base, order, 1 .. 0, [S \in SUBSET (1 .. 0) |-> base])
    BY <2>1 DEF Folds
  <2> QED BY <2>2
<1>2. ASSUME NEW n \in Nat, n \in B PROVE n + 1 \in B
  <2>1. PICK f : Folds(walk, x, base, order, 1 .. n, f) BY <1>2
  <2> DEFINE g == [S \in SUBSET (1 .. (n + 1)) |->
                     IF n + 1 \in S THEN Step(walk, x, f[S \ {n + 1}], order[n + 1]) ELSE f[S]]
  <2>2. ASSUME NEW S \in SUBSET (1 .. (n + 1))
        PROVE  g[S] = IF S = {} THEN base
                      ELSE Step(walk, x, g[S \ {Max(S)}], order[Max(S)])
    <3>1. CASE n + 1 \in S
      <4>1. Max(S) = n + 1 /\ S \ {n + 1} \in SUBSET (1 .. n) BY <3>1, LastPlace
      <4>2. S \ {n + 1} \in SUBSET (1 .. (n + 1)) /\ n + 1 \notin S \ {n + 1} OBVIOUS
      <4>3. g[S \ {n + 1}] = f[S \ {n + 1}] BY <4>2
      <4>4. g[S] = Step(walk, x, f[S \ {n + 1}], order[n + 1]) BY <3>1
      <4> HIDE DEF g
      <4> QED BY <3>1, <4>1, <4>3, <4>4
    <3>2. CASE n + 1 \notin S
      <4>1. S \in SUBSET (1 .. n) BY <3>2
      <4>2. f[S] = IF S = {} THEN base ELSE Step(walk, x, f[S \ {Max(S)}], order[Max(S)])
        BY <2>1, <4>1 DEF Folds
      <4>3. S \ {Max(S)} \in SUBSET (1 .. (n + 1)) /\ n + 1 \notin S \ {Max(S)} BY <3>2
      <4>4. g[S \ {Max(S)}] = f[S \ {Max(S)}] BY <4>3
      <4>5. g[S] = f[S] BY <3>2
      <4> HIDE DEF g
      <4> QED BY <4>2, <4>4, <4>5
    <3> QED BY <3>1, <3>2
  <2>3. Folds(walk, x, base, order, 1 .. (n + 1), g) BY <2>2 DEF Folds
  <2> QED BY <2>3
<1>3. \A n \in Nat : n \in B
  <2> HIDE DEF B
  <2> QED BY <1>1, <1>2, Induct
<1> QED BY <1>3

(* The states that a walk goes through, from the one it starts in.         *)
Goes(walk, x, base, order, result) ==
  \E g : /\ g[0] = base
         /\ \A i \in Nat : i < Len(order) => g[i + 1] = Step(walk, x, g[i], order[i + 1])
         /\ result = g[Len(order)]

(* The fold is the last of them.                                           *)
LEMMA FoldGoes ==
  ASSUME NEW walk, NEW x, NEW base, NEW order \in Seq(Requests),
         NEW f, Folds(walk, x, base, order, DOMAIN order, f)
  PROVE  Goes(walk, x, base, order, f[DOMAIN order])
<1> DEFINE n == Len(order)
           g == [i \in Nat |-> f[1 .. i]]
<1>1. n \in Nat /\ DOMAIN order = 1 .. n OBVIOUS
<1>2. g[0] = base
  <2>1. 1 .. 0 = {} /\ {} \in SUBSET (1 .. n) OBVIOUS
  <2>2. f[{}] = base BY <1>1, <2>1 DEF Folds
  <2> QED BY <2>1, <2>2
<1>3. ASSUME NEW i \in Nat, i < n PROVE g[i + 1] = Step(walk, x, g[i], order[i + 1])
  <2>1. 1 .. (i + 1) \in SUBSET (1 .. n) BY <1>1, <1>3
  <2>2. i + 1 \in 1 .. (i + 1) /\ 1 .. (i + 1) # {}
    <3>1. i + 1 \in 1 .. (i + 1) OBVIOUS
    <3> QED BY <3>1
  <2>3. Max(1 .. (i + 1)) = i + 1 BY <2>2, LastPlace
  <2>4. (1 .. (i + 1)) \ {i + 1} = 1 .. i OBVIOUS
  <2> DEFINE S == 1 .. (i + 1)
  <2>5. S \in SUBSET (1 .. n) /\ S # {} BY <2>1, <2>2
  <2> HIDE DEF S
  <2>6. f[S] = Step(walk, x, f[S \ {Max(S)}], order[Max(S)])
    BY <1>1, <2>5 DEF Folds
  <2>7. Max(S) = i + 1 /\ S \ {Max(S)} = 1 .. i BY <2>3, <2>4 DEF S
  <2>8. f[S] = Step(walk, x, f[1 .. i], order[i + 1]) BY <2>6, <2>7
  <2> QED BY <2>8 DEF S
<1>4. f[DOMAIN order] = g[n] BY <1>1
<1> HIDE DEF g
<1> QED BY <1>2, <1>3, <1>4 DEF Goes

(* Rebalancing goes along the common lane ...                              *)
LEMMA RebalanceGoes ==
  ASSUME NEW s, s.common \in Seq(Requests), Short.on
  PROVE  Goes("hand back", 0, s, s.common, Rebalance(s))
<1> DEFINE order == s.common
           Is(f) == f = [S \in SUBSET DOMAIN order |->
                           IF S = {} THEN s
                           ELSE HandBack(f[S \ {Max(S)}], order[Max(S)])]
<1>1. PICK f : Folds("hand back", 0, s, order, DOMAIN order, f)
  <2>1. Len(order) \in Nat /\ DOMAIN order = 1 .. Len(order) OBVIOUS
  <2> QED BY <2>1, FoldExists
<1>2. \A t, r : Step("hand back", 0, t, r) = HandBack(t, r) BY DEF Step
<1>3. Is(f) BY <1>1, <1>2 DEF Folds
<1>4. PICK h : Is(h) /\ Rebalance(s) = h[DOMAIN order]
  BY <1>3, Zenon DEF Rebalance, FoldLeft, MapThenFoldSet
<1>5. Folds("hand back", 0, s, order, DOMAIN order, h)
  <2> DEFINE one(S) == IF S = {} THEN s ELSE HandBack(h[S \ {Max(S)}], order[Max(S)])
             two(S) == IF S = {} THEN s
                       ELSE Step("hand back", 0, h[S \ {Max(S)}], order[Max(S)])
  <2>1. \A S : one(S) = two(S) BY <1>2
  <2>2. h = [S \in SUBSET DOMAIN order |-> one(S)] BY <1>4
  <2> HIDE DEF one, two
  <2>3. h = [S \in SUBSET DOMAIN order |-> two(S)] BY <2>1, <2>2
  <2> QED BY <2>3 DEF Folds, two
<1>6. Goes("hand back", 0, s, order, h[DOMAIN order]) BY <1>5, FoldGoes
<1> QED BY <1>4, <1>6

(* ... admission along the requests that may be admitted ...               *)
LEMMA AdmitGoes ==
  ASSUME NEW s, NEW order \in Seq(Requests), NEW isShort, NEW minFree, NEW hits
  PROVE  \E acc :
           /\ Goes("admit", [isShort |-> isShort, minFree |-> minFree, hits |-> hits],
                   [s |-> s, open |-> TRUE], order, acc)
           /\ AdmitInOrder(s, order, isShort, minFree, hits) = acc.s
<1> DEFINE x == [isShort |-> isShort, minFree |-> minFree, hits |-> hits]
           base == [s |-> s, open |-> TRUE]
           Is(f) == f = [S \in SUBSET DOMAIN order |->
                           IF S = {} THEN base
                           ELSE AdmitNext(f[S \ {Max(S)}], order[Max(S)],
                                          isShort, minFree, hits)]
<1>1. PICK f : Folds("admit", x, base, order, DOMAIN order, f)
  <2>1. Len(order) \in Nat /\ DOMAIN order = 1 .. Len(order) OBVIOUS
  <2> HIDE DEF x, base
  <2> QED BY <2>1, FoldExists
<1>2. \A t, r : Step("admit", x, t, r) = AdmitNext(t, r, isShort, minFree, hits)
  <2>1. x.isShort = isShort /\ x.minFree = minFree /\ x.hits = hits OBVIOUS
  <2>2. "admit" # "hand back" OBVIOUS
  <2> HIDE DEF x
  <2> QED BY <2>1, <2>2 DEF Step
<1>3. Is(f)
  <2> HIDE DEF x, base
  <2> QED BY <1>1, <1>2 DEF Folds
<1>4. PICK h : Is(h) /\ AdmitInOrder(s, order, isShort, minFree, hits) = h[DOMAIN order].s
  BY <1>3, Zenon DEF AdmitInOrder, FoldLeft, MapThenFoldSet
<1>5. Folds("admit", x, base, order, DOMAIN order, h)
  <2> DEFINE one(S) == IF S = {} THEN base
                       ELSE AdmitNext(h[S \ {Max(S)}], order[Max(S)], isShort, minFree, hits)
             two(S) == IF S = {} THEN base
                       ELSE Step("admit", x, h[S \ {Max(S)}], order[Max(S)])
  <2> HIDE DEF x, base
  <2>1. \A S : one(S) = two(S) BY <1>2
  <2>2. h = [S \in SUBSET DOMAIN order |-> one(S)] BY <1>4
  <2> HIDE DEF one, two
  <2>3. h = [S \in SUBSET DOMAIN order |-> two(S)] BY <2>1, <2>2
  <2> QED BY <2>3 DEF Folds, two
<1>6. Goes("admit", x, base, order, h[DOMAIN order])
  <2> HIDE DEF x, base
  <2> QED BY <1>5, FoldGoes
<1> QED BY <1>4, <1>6

(* ... and scheduling along a lane.                                        *)
LEMMA LaneGoes ==
  ASSUME NEW s, NEW order \in Seq(Requests), NEW tokens, NEW sequences, NEW first
  PROVE  Goes("schedule", [first |-> first],
              [s EXCEPT !.tokensLeft = tokens, !.seqsLeft = sequences], order,
              ScheduleLane(s, order, tokens, sequences, first))
<1> DEFINE x == [first |-> first]
           base == [s EXCEPT !.tokensLeft = tokens, !.seqsLeft = sequences]
           Is(f) == f = [S \in SUBSET DOMAIN order |->
                           IF S = {} THEN base
                           ELSE ScheduleNext(f[S \ {Max(S)}], order[Max(S)], first)]
<1>1. PICK f : Folds("schedule", x, base, order, DOMAIN order, f)
  <2>1. Len(order) \in Nat /\ DOMAIN order = 1 .. Len(order) OBVIOUS
  <2> HIDE DEF x, base
  <2> QED BY <2>1, FoldExists
<1>2. \A t, r : Step("schedule", x, t, r) = ScheduleNext(t, r, first)
  <2>1. x.first = first OBVIOUS
  <2>2. "schedule" # "hand back" /\ "schedule" # "admit" OBVIOUS
  <2> HIDE DEF x
  <2> QED BY <2>1, <2>2 DEF Step
<1>3. Is(f)
  <2> HIDE DEF x, base
  <2> QED BY <1>1, <1>2 DEF Folds
<1>4. PICK h : Is(h) /\ ScheduleLane(s, order, tokens, sequences, first) = h[DOMAIN order]
  BY <1>3, Zenon DEF ScheduleLane, FoldLeft, MapThenFoldSet
<1>5. Folds("schedule", x, base, order, DOMAIN order, h)
  <2> DEFINE one(S) == IF S = {} THEN base
                       ELSE ScheduleNext(h[S \ {Max(S)}], order[Max(S)], first)
             two(S) == IF S = {} THEN base
                       ELSE Step("schedule", x, h[S \ {Max(S)}], order[Max(S)])
  <2> HIDE DEF x, base
  <2>1. \A S : one(S) = two(S) BY <1>2
  <2>2. h = [S \in SUBSET DOMAIN order |-> one(S)] BY <1>4
  <2> HIDE DEF one, two
  <2>3. h = [S \in SUBSET DOMAIN order |-> two(S)] BY <2>1, <2>2
  <2> QED BY <2>3 DEF Folds, two
<1>6. Goes("schedule", x, base, order, h[DOMAIN order])
  <2> HIDE DEF x, base
  <2> QED BY <1>5, FoldGoes
<1> QED BY <1>4, <1>6

(* Rebalancing leaves the scheduler sound: between steps nothing is in     *)
(* flight.                                                                 *)
LEMMA RebalanceSound ==
  ASSUME policy \in Policies, NEW s, Sound(policy, s, {}), Ids(s) = {}
  PROVE  Sound(policy, Rebalance(s), {}) /\ Admits(s, Rebalance(s))
<1>1. CASE ~Short.on
  <2>1. Rebalance(s) = s BY <1>1 DEF Rebalance
  <2> QED BY <2>1 DEF Admits
<1>2. CASE Short.on
  <2> DEFINE order == s.common
             n == Len(order)
  <2>1. order \in Seq(Requests) BY DEF Sound, States
  <2>2. n \in Nat /\ \A i \in 1 .. n : order[i] \in ToSet(order) BY <2>1 DEF ToSet
  <2>3. Goes("hand back", 0, s, order, Rebalance(s)) BY <1>2, <2>1, RebalanceGoes
  <2> HIDE DEF order
  <2>4. PICK g : /\ g[0] = s
                 /\ \A i \in Nat : i < n => g[i + 1] = Step("hand back", 0, g[i], order[i + 1])
                 /\ Rebalance(s) = g[n]
    BY <2>3 DEF Goes
  <2> DEFINE P(t) == Sound(policy, t, {}) /\ Admits(s, t) /\ t.common = order
             B == { i \in Nat : i <= n => P(g[i]) }
  <2>5. 0 \in B BY <2>4 DEF Admits, order
  <2>6. ASSUME NEW i \in Nat, i \in B PROVE i + 1 \in B
    <3> SUFFICES ASSUME i < n PROVE P(g[i + 1]) BY <2>2
    <3>1. P(g[i]) BY <2>6
    <3> DEFINE t == g[i]
               r == order[i + 1]
    <3>2. g[i + 1] = HandBack(t, r) BY <2>4 DEF Step
    <3>3. r \in ToSet(t.common) BY <2>2, <3>1
    <3>4. r \notin Ids(t) BY <3>1 DEF Admits, Ids
    <3> HIDE DEF t, r
    <3>5. P(t) BY <3>1 DEF t
    <3>6. /\ Sound(policy, HandBack(t, r), {}) /\ Admits(t, HandBack(t, r))
          /\ HandBack(t, r).common = t.common
      BY <1>2, <3>3, <3>4, <3>5, HandBackSound
    <3>7. Admits(s, HandBack(t, r)) BY <3>5, <3>6 DEF Admits
    <3> QED BY <3>2, <3>5, <3>6, <3>7
  <2>7. \A i \in Nat : i \in B
    <3> HIDE DEF B
    <3> QED BY <2>5, <2>6, Induct
  <2>8. n \in B BY <2>2, <2>7
  <2>9. P(g[n]) BY <2>2, <2>8
  <2> QED BY <2>4, <2>9
<1> QED BY <1>1, <1>2

----------------------------------------------------------------------------
(* Admission in order, and through both lanes.                             *)

(* A free slot of the kind asked for is room for another request.          *)
LEMMA SlotIsRoom ==
  ASSUME policy \in Policies, NEW s, Sound(policy, s, {}), NEW r \in Requests,
         NEW isShort \in BOOLEAN, HasSlot(s, isShort)
  PROVE  Room(policy, s, isShort)
<1>1. s \in States /\ Queues(s) /\ Slots(policy, s) BY DEF Sound
<1>2. IsFiniteSet(s.running) BY <1>1, RunningFinite
<1>3. Alone(s, s, r) BY DEF Alone
<1>4. Cardinality(s.running) \in Nat /\ ShortSlots(s) \in Nat BY <1>1, <1>2, <1>3, SlotCounts
<1>5. MaxSequences \in Nat BY BudgetAssumption
<1> DEFINE c == Cardinality(s.running)
           k == ShortSlots(s)
<1>6. c \in Nat /\ k \in Nat BY <1>4
<1>7. Short.on => k <= Short.sequences /\ c - k <= MaxSequences - Short.sequences
  BY <1>1 DEF Slots, Short
<1>8. /\ ~Short.on => c < MaxSequences
      /\ Short.on /\ isShort => k < Short.sequences
      /\ Short.on /\ ~isShort => c - k < MaxSequences - Short.sequences
  BY DEF HasSlot, HasShortSlot, HasCommonSlot
<1>9. Short.on \in BOOLEAN /\ Short.sequences \in Nat BY PolicyFacts
<1> HIDE DEF c, k
<1>10. c < MaxSequences BY <1>5, <1>6, <1>7, <1>8, <1>9
<1> QED BY <1>8, <1>10 DEF Room, c, k, Short

(* Admission passes on what it leaves alone.                               *)
LEMMA AdmitsOn ==
  ASSUME NEW s, NEW t, NEW u, Admits(s, t), Admits(t, u)
  PROVE  Admits(s, u)
BY DEF Admits

(* The next one in order is admitted, or nobody is from here on.           *)
LEMMA AdmitNextSound ==
  ASSUME policy \in Policies, NEW acc \in [s : States, open : BOOLEAN],
         Sound(policy, acc.s, {}), NEW r \in ToSet(acc.s.waiting),
         NEW isShort \in BOOLEAN, NEW m \in Nat, NEW hits, HitsFit(hits),
         isShort => FitsShort(policy, acc.s, r, hits)
  PROVE  LET new == AdmitNext(acc, r, isShort, m, hits)
         IN  /\ new \in [s : States, open : BOOLEAN]
             /\ Sound(policy, new.s, {}) /\ Admits(acc.s, new.s)
             /\ ToSet(acc.s.waiting) \ {r} \subseteq ToSet(new.s.waiting)
<1> DEFINE t == TryAdmit(acc.s, r, isShort, m, hits)
           new == AdmitNext(acc, r, isShort, m, hits)
<1>1. acc.s \in States /\ r \in Requests
  <2>1. acc.s.waiting \in Seq(Requests) BY DEF States
  <2> QED BY <2>1 DEF ToSet
<1>2. CASE acc.open /\ HasSlot(acc.s, isShort) /\ r \in t.running
  <2>1. Room(policy, acc.s, isShort) BY <1>1, <1>2, SlotIsRoom
  <2>2. /\ Sound(policy, t, {}) /\ Admits(acc.s, t)
        /\ \/ t = acc.s /\ r \notin t.running
           \/ r \in t.running /\ ToSet(t.waiting) = ToSet(acc.s.waiting) \ {r}
    BY <2>1, TryAdmitSound
  <2>3. t \in States BY <2>2 DEF Sound
  <2>4. new = [s |-> t, open |-> TRUE] BY <1>2 DEF AdmitNext
  <2> HIDE DEF t, new
  <2>5. new.s = t /\ new \in [s : States, open : BOOLEAN] BY <2>3, <2>4
  <2> QED BY <1>2, <2>2, <2>5 DEF new
<1>3. CASE ~(acc.open /\ HasSlot(acc.s, isShort) /\ r \in t.running)
  <2>1. new = [acc EXCEPT !.open = FALSE] BY <1>3 DEF AdmitNext
  <2> HIDE DEF t, new
  <2>2. new.s = acc.s /\ new \in [s : States, open : BOOLEAN] BY <2>1
  <2>3. Admits(acc.s, acc.s) BY DEF Admits
  <2> QED BY <2>2, <2>3 DEF new
<1> QED BY <1>2, <1>3

(* The first in order has a slot and blocks.                               *)
FirstFits(s, order, isShort, m, hits) ==
  /\ order # << >> /\ HasSlot(s, isShort)
  /\ order[1] \in TryAdmit(s, order[1], isShort, m, hits).running

(* Admission in order leaves the scheduler sound, and with somebody who    *)
(* runs if the first in order could be admitted.                           *)
LEMMA AdmitInOrderSound ==
  ASSUME policy \in Policies, NEW s, Sound(policy, s, {}),
         NEW order \in Seq(Requests), Distinct(order), ToSet(order) \subseteq ToSet(s.waiting),
         NEW isShort \in BOOLEAN, NEW m \in Nat, NEW hits, HitsFit(hits),
         isShort => \A r \in ToSet(order) : FitsShort(policy, s, r, hits)
  PROVE  LET t == AdmitInOrder(s, order, isShort, m, hits)
         IN  /\ Sound(policy, t, {}) /\ Admits(s, t)
             /\ FirstFits(s, order, isShort, m, hits) => t.running # {}
<1> DEFINE x == [isShort |-> isShort, minFree |-> m, hits |-> hits]
           base == [s |-> s, open |-> TRUE]
           n == Len(order)
<1>1. PICK acc : /\ Goes("admit", x, base, order, acc)
                 /\ AdmitInOrder(s, order, isShort, m, hits) = acc.s
  BY AdmitGoes
<1>2. PICK g : /\ g[0] = base
               /\ \A i \in Nat : i < n => g[i + 1] = Step("admit", x, g[i], order[i + 1])
               /\ acc = g[n]
  <2> HIDE DEF x, base
  <2> QED BY <1>1 DEF Goes
<1>3. \A u, r : Step("admit", x, u, r) = AdmitNext(u, r, isShort, m, hits)
  <2>1. x.isShort = isShort /\ x.minFree = m /\ x.hits = hits OBVIOUS
  <2>2. "admit" # "hand back" OBVIOUS
  <2> HIDE DEF x
  <2> QED BY <2>1, <2>2 DEF Step
<1>4. n \in Nat /\ \A i \in 1 .. n : order[i] \in ToSet(order) BY DEF ToSet
<1>5. \A i, j \in 1 .. n : order[i] = order[j] => i = j BY DEF Distinct
<1> DEFINE P(i, u) == /\ u \in [s : States, open : BOOLEAN]
                      /\ Sound(policy, u.s, {}) /\ Admits(s, u.s)
                      /\ \A j \in (i + 1) .. n : order[j] \in ToSet(u.s.waiting)
                      /\ i # 0 /\ FirstFits(s, order, isShort, m, hits) => u.s.running # {}
           B == { i \in Nat : i <= n => P(i, g[i]) }
<1>6. 0 \in B
  <2>1. base.s = s /\ base \in [s : States, open : BOOLEAN]
    <3>1. s \in States BY DEF Sound
    <3> QED BY <3>1
  <2>2. Admits(s, s) BY DEF Admits
  <2> HIDE DEF base
  <2>3. \A j \in (0 + 1) .. n : order[j] \in ToSet(s.waiting) BY <1>4
  <2>4. P(0, base) BY <2>1, <2>2, <2>3
  <2> HIDE DEF P
  <2> QED BY <1>2, <2>4
<1>7. ASSUME NEW i \in Nat, i \in B PROVE i + 1 \in B
  <2> SUFFICES ASSUME i < n PROVE P(i + 1, g[i + 1]) BY <1>4
  <2>1. P(i, g[i]) BY <1>4, <1>7
  <2> DEFINE u == g[i]
             r == order[i + 1]
             new == AdmitNext(u, r, isShort, m, hits)
  <2>2. g[i + 1] = new BY <1>2, <1>3
  <2>3. P(i, u) BY <2>1
  <2>4. i + 1 \in 1 .. n /\ i + 1 \in (i + 1) .. n BY <1>4
  <2>5. r \in ToSet(order) /\ r \in ToSet(u.s.waiting) BY <1>4, <2>3, <2>4
  <2>6. \A j \in (i + 1 + 1) .. n : order[j] # r
    BY <1>4, <1>5
  <2>7. r \in Requests BY <2>4
  <2> HIDE DEF u, r
  <2>8. isShort => FitsShort(policy, u.s, r, hits)
    BY <2>3, <2>5, <2>7 DEF FitsShort, Admits
  <2>9. /\ new \in [s : States, open : BOOLEAN]
        /\ Sound(policy, new.s, {}) /\ Admits(u.s, new.s)
        /\ ToSet(u.s.waiting) \ {r} \subseteq ToSet(new.s.waiting)
    BY <2>3, <2>5, <2>8, AdmitNextSound
  <2> HIDE DEF new
  <2>10. Admits(s, new.s) BY <2>3, <2>9, AdmitsOn
  <2>11. \A j \in (i + 1 + 1) .. n : order[j] \in ToSet(new.s.waiting)
    <3> SUFFICES ASSUME NEW j \in (i + 1 + 1) .. n PROVE order[j] \in ToSet(new.s.waiting)
      OBVIOUS
    <3>1. j \in (i + 1) .. n BY <1>4
    <3> QED BY <2>3, <2>6, <2>9, <3>1
  <2>12. FirstFits(s, order, isShort, m, hits) => new.s.running # {}
    <3> SUFFICES ASSUME FirstFits(s, order, isShort, m, hits) PROVE new.s.running # {}
      OBVIOUS
    <3>1. CASE i # 0
      <4>1. u.s.running # {} BY <2>3, <3>1
      <4>2. u.s.running \subseteq new.s.running BY <2>9 DEF Admits
      <4> QED BY <4>1, <4>2
    <3>2. CASE i = 0
      <4> DEFINE v == TryAdmit(s, order[1], isShort, m, hits)
      <4>1. u = base /\ r = order[1] BY <1>2, <3>2 DEF u, r
      <4>2. u.s = s /\ u.open = TRUE BY <4>1
      <4>3. HasSlot(s, isShort) /\ order[1] \in v.running BY DEF FirstFits
      <4> HIDE DEF v, base
      <4>4. new = [s |-> v, open |-> TRUE]
        BY <4>1, <4>2, <4>3, Zenon DEF new, v, AdmitNext
      <4>5. new.s = v BY <4>4
      <4> QED BY <4>3, <4>5
    <3> QED BY <3>1, <3>2
  <2>13. P(i + 1, new) BY <2>9, <2>10, <2>11, <2>12
  <2> HIDE DEF P
  <2> QED BY <2>2, <2>13
<1>8. \A i \in Nat : i \in B
  <2> HIDE DEF B
  <2> QED BY <1>6, <1>7, Induct
<1>9. n \in B BY <1>4, <1>8
<1>10. P(n, g[n]) BY <1>4, <1>9
<1>11. FirstFits(s, order, isShort, m, hits) => n # 0 BY DEF FirstFits
<1> QED BY <1>1, <1>2, <1>10, <1>11

(* The short ones of this step may be admitted as such.                    *)
ShortFits(p, s, short, hits) ==
  \A r \in Requests : short[r] \in BOOLEAN /\ (short[r] => FitsShort(p, s, r, hits))

(* ... whatever has been admitted meanwhile.                               *)
LEMMA ShortFitsOn ==
  ASSUME NEW p, NEW s, NEW t, Admits(s, t), NEW short, NEW hits, ShortFits(p, s, short, hits)
  PROVE  ShortFits(p, t, short, hits)
BY DEF Admits, ShortFits, FitsShort

(* An idle engine has room.                                                *)
LEMMA IdleRoom ==
  ASSUME policy \in Policies, NEW s, s.running = {}, NEW isShort \in BOOLEAN
  PROVE  Room(policy, s, isShort)
<1>1. Cardinality(s.running) = 0 BY FS_EmptySet
<1>2. ShortSlots(s) = 0
  <2>1. { r \in s.running : s.req[r].slot } = {} OBVIOUS
  <2>2. Cardinality({}) = 0 BY FS_EmptySet
  <2> QED BY <2>1, <2>2, Zenon DEF ShortSlots
<1>3. MaxSequences \in Nat \ {0} BY BudgetAssumption
<1>4. Short.on => 0 < Short.sequences /\ Short.sequences < MaxSequences
      /\ Short.sequences \in Nat
  BY PolicyFacts
<1> QED BY <1>1, <1>2, <1>3, <1>4 DEF Room, Short

(* Without self-resubmission an idle engine has blocks for any request.    *)
LEMMA IdleAdmits ==
  ASSUME policy \in Policies, NEW s, Sound(policy, s, {}), s.running = {}, ~Resubmit.on,
         NEW r \in Requests, NEW isShort \in BOOLEAN, NEW hits, HitsFit(hits)
  PROVE  r \in TryAdmit(s, r, isShort, 0, hits).running
<1>1. Guarantee(s.req[r], isShort) BY DEF Guarantee
<1>2. Used(s) = 0 /\ Claimed(s) = 0
  <2>1. \A count : Counted(count, {}) = {} BY DEF Counted
  <2>2. Cardinality({}) = 0 BY FS_EmptySet
  <2> QED BY <2>1, <2>2, Zenon DEF Used, Claimed
<1>3. BlockLimit(r, TRUE) <= NumBlocks /\ BlockLimit(r, TRUE) \in Nat
  <2>1. MaxTokens[r] - 1 \in Nat BY RequestAssumption
  <2>2. BlocksFor(MaxTokens[r] - 1) \in Nat BY <2>1, Fits
  <2>3. BlocksFor(MaxTokens[r] - 1) <= NumBlocks
    <3>1. NumBlocks \in Nat /\ BlockSize \in Nat BY BudgetAssumption
    <3>2. NumBlocks * BlockSize \in Nat BY <3>1, Multiples
    <3>3. MaxTokens[r] \in Nat /\ MaxTokens[r] <= NumBlocks * BlockSize BY RequestAssumption
    <3>4. MaxTokens[r] - 1 <= NumBlocks * BlockSize BY <3>2, <3>3
    <3> QED BY <2>1, <3>1, <3>4, Fits
  <2> QED BY <2>2, <2>3 DEF BlockLimit
<1>4. BlocksFor(0) = 0
  <2>1. BlockSize \in Nat \ {0} BY BudgetAssumption
  <2>2. 0 + BlockSize - 1 = BlockSize - 1 /\ BlockSize - 1 \in 0 .. (BlockSize - 1) BY <2>1
  <2>3. (BlockSize - 1) \div BlockSize = 0 BY <2>1
  <2> QED BY <2>2, <2>3 DEF BlocksFor
<1>5. NumBlocks \in Nat BY BudgetAssumption
<1>6. CanAdmit(s, r, isShort, 0)
  <2>1. AtLeast(BlocksFor(0), 0) = 0 BY <1>4 DEF AtLeast
  <2>2. Guarantee(s.req[r], isShort) = TRUE BY <1>1 DEF Guarantee
  <2>3. 0 + 0 + BlockLimit(r, TRUE) + 0 <= NumBlocks
    <3> DEFINE l == BlockLimit(r, TRUE)
    <3>1. l \in Nat /\ l <= NumBlocks BY <1>3
    <3> HIDE DEF l
    <3>2. 0 + 0 + l + 0 = l BY <3>1
    <3> QED BY <3>1, <3>2 DEF l
  <2> QED BY <1>2, <2>1, <2>2, <2>3 DEF CanAdmit
<1>7. TryAdmit(s, r, isShort, 0, hits) = Entered(s, r, isShort, 0, hits)
  BY <1>6, Zenon DEF TryAdmit, Entered
<1>8. EnterFields(s, Entered(s, r, isShort, 0, hits), r, isShort, 0, hits)
  <2>1. s \in States /\ 0 \in Nat BY DEF Sound
  <2> QED BY <2>1, EnteredFields
<1>9. Entered(s, r, isShort, 0, hits).running = s.running \cup {r} BY <1>8 DEF EnterFields
<1> QED BY <1>7, <1>9

(* When nobody waits, whoever is known runs.                               *)
LEMMA KnownRuns ==
  ASSUME NEW p, NEW s, NEW t, Sound(p, t, {}), Admits(s, t), s.known # {},
         ~(t.running = {} /\ t.waiting # << >>)
  PROVE  t.running # {}
<1>1. t.known = ToSet(t.waiting) \cup t.running BY DEF Sound, Queues
<1>2. t.known = s.known BY DEF Admits
<1>3. ToSet(<< >>) = {} BY DEF ToSet
<1> QED BY <1>1, <1>2, <1>3

(* Admission through both lanes leaves the scheduler sound, and somebody   *)
(* running if self-resubmission is off.                                    *)
LEMMA AdmitLanesSound ==
  ASSUME policy \in Policies, NEW s, Sound(policy, s, {}), NEW hits, HitsFit(hits),
         NEW short, ShortFits(policy, s, short, hits)
  PROVE  LET t == AdmitLanes(s, short, hits)
         IN  /\ Sound(policy, t, {}) /\ Admits(s, t)
             /\ ~Resubmit.on /\ s.known # {} => t.running # {}
<1> DEFINE theShort == { r \in Requests : short[r] }
           order1 == Among(s.waiting, theShort)
           shorts == AdmitInOrder(s, order1, TRUE, 0, hits)
           order2 == Among(shorts.waiting, Requests \ theShort)
           both == AdmitInOrder(shorts, order2, FALSE, Short.kvTokens, hits)
           t == AdmitLanes(s, short, hits)
<1>1. s.waiting \in Seq(Requests) /\ Distinct(s.waiting) BY DEF Sound, States, Queues
<1>2. /\ order1 \in Seq(Requests) /\ ToSet(order1) = ToSet(s.waiting) \cap theShort
      /\ Distinct(order1)
  <2> HIDE DEF Distinct, theShort
  <2> QED BY <1>1, AmongIs
<1>3. \A r \in ToSet(order1) : FitsShort(policy, s, r, hits) BY <1>2 DEF ShortFits
<1> HIDE DEF order1, theShort
<1>4. Sound(policy, shorts, {}) /\ Admits(s, shorts)
  <2> HIDE DEF Distinct
  <2>1. ToSet(order1) \subseteq ToSet(s.waiting) BY <1>2
  <2> QED BY <1>2, <1>3, <2>1, AdmitInOrderSound
<1> HIDE DEF shorts
<1>5. shorts.waiting \in Seq(Requests) /\ Distinct(shorts.waiting)
  BY <1>4 DEF Sound, States, Queues
<1>6. /\ order2 \in Seq(Requests)
      /\ ToSet(order2) \subseteq ToSet(shorts.waiting) /\ Distinct(order2)
  <2> HIDE DEF Distinct
  <2>1. \A T : /\ Among(shorts.waiting, T) \in Seq(Requests)
               /\ ToSet(Among(shorts.waiting, T)) = ToSet(shorts.waiting) \cap T
               /\ Distinct(Among(shorts.waiting, T))
    BY <1>5, AmongIs
  <2> QED BY <2>1
<1> HIDE DEF order2
<1>7. Sound(policy, both, {}) /\ Admits(shorts, both)
  <2> HIDE DEF Distinct
  <2>1. Short.kvTokens \in Nat BY PolicyFacts
  <2> QED BY <1>4, <1>6, <2>1, AdmitInOrderSound
<1>8. t = IF both.running = {} /\ both.waiting # << >>
          THEN TryAdmit(both, Head(both.waiting), short[Head(both.waiting)], 0, hits)
          ELSE both
  BY Zenon DEF AdmitLanes, theShort, order1, shorts, order2
<1> HIDE DEF both, t
<1>9. Admits(s, both) BY <1>4, <1>7, AdmitsOn
<1>10. CASE both.running = {} /\ both.waiting # << >>
  <2> DEFINE oldest == Head(both.waiting)
  <2>1. both.waiting \in Seq(Requests) BY <1>7 DEF Sound, States
  <2>2. oldest \in Requests /\ oldest \in ToSet(both.waiting)
    <3> HIDE DEF Distinct
    <3> QED BY <1>10, <2>1, QueueHead
  <2>3. t = TryAdmit(both, oldest, short[oldest], 0, hits) BY <1>8, <1>10
  <2> HIDE DEF oldest
  <2>4. ShortFits(policy, both, short, hits) BY <1>9, ShortFitsOn
  <2>5. short[oldest] \in BOOLEAN /\ (short[oldest] => FitsShort(policy, both, oldest, hits))
    BY <2>2, <2>4 DEF ShortFits
  <2>6. Room(policy, both, short[oldest]) BY <1>10, <2>5, IdleRoom
  <2>7. Sound(policy, t, {}) /\ Admits(both, t)
    BY <1>7, <2>2, <2>3, <2>5, <2>6, TryAdmitSound
  <2>8. ~Resubmit.on => oldest \in t.running
    BY <1>7, <1>10, <2>2, <2>3, <2>5, IdleAdmits
  <2>9. Admits(s, t) BY <1>9, <2>7, AdmitsOn
  <2> QED BY <2>7, <2>8, <2>9 DEF t
<1>11. CASE ~(both.running = {} /\ both.waiting # << >>)
  <2>1. t = both BY <1>8, <1>11
  <2>2. s.known # {} => both.running # {} BY <1>7, <1>9, <1>11, KnownRuns
  <2> QED BY <1>7, <1>9, <2>1, <2>2 DEF t
<1> QED BY <1>10, <1>11

(* First come, first served, too.                                          *)
LEMMA AdmitFCFSSound ==
  ASSUME policy \in Policies, ~Short.on, NEW s, Sound(policy, s, {}), NEW hits, HitsFit(hits)
  PROVE  LET t == AdmitFCFS(s, hits)
         IN  /\ Sound(policy, t, {}) /\ Admits(s, t)
             /\ ~Resubmit.on /\ s.known # {} => t.running # {}
<1> DEFINE t == AdmitFCFS(s, hits)
<1>1. s.waiting \in Seq(Requests) /\ Distinct(s.waiting) BY DEF Sound, States, Queues
<1>2. /\ Sound(policy, t, {}) /\ Admits(s, t)
      /\ FirstFits(s, s.waiting, FALSE, 0, hits) => t.running # {}
  <2> HIDE DEF Distinct
  <2> QED BY <1>1, AdmitInOrderSound DEF AdmitFCFS
<1> HIDE DEF t
<1>3. ASSUME ~Resubmit.on, s.known # {} PROVE t.running # {}
  <2>1. CASE s.running # {} BY <1>2, <2>1 DEF Admits
  <2>2. CASE s.running = {}
    <3>1. s.waiting # << >>
      <4>1. Admits(s, s) BY DEF Admits
      <4> QED BY <1>3, <2>2, <4>1, KnownRuns
    <3>2. Head(s.waiting) \in Requests /\ Head(s.waiting) = s.waiting[1]
      BY <1>1, <3>1
    <3>3. s.waiting[1] \in TryAdmit(s, s.waiting[1], FALSE, 0, hits).running
      BY <1>3, <2>2, <3>2, IdleAdmits
    <3>4. HasSlot(s, FALSE) BY <2>2, IdleRoom DEF Room, HasSlot
    <3>5. FirstFits(s, s.waiting, FALSE, 0, hits) BY <3>1, <3>3, <3>4 DEF FirstFits
    <3> QED BY <1>2, <3>5
  <2> QED BY <2>1, <2>2
<1> QED BY <1>2, <1>3 DEF t

(* Whatever the short-request policy.                                      *)
LEMMA AdmitWaitingSound ==
  ASSUME policy \in Policies, NEW s, Sound(policy, s, {}), NEW hits, HitsFit(hits),
         NEW short, ShortFits(policy, s, short, hits)
  PROVE  LET t == AdmitWaiting(s, short, hits)
         IN  /\ Sound(policy, t, {}) /\ Admits(s, t)
             /\ ~Resubmit.on /\ s.known # {} => t.running # {}
<1>1. CASE ~Short.on
  <2>1. AdmitWaiting(s, short, hits) = AdmitFCFS(s, hits) BY <1>1 DEF AdmitWaiting
  <2> QED BY <1>1, <2>1, AdmitFCFSSound
<1>2. CASE Short.on
  <2> DEFINE aged == Aged(s, short)
             oldest == Head(aged)
             u == IF aged # << >> /\ HasCommonSlot(s)
                  THEN TryAdmit(s, oldest, FALSE, 0, hits) ELSE s
             t == AdmitWaiting(s, short, hits)
  <2>1. t = IF aged # << >> /\ oldest \notin u.running THEN u ELSE AdmitLanes(u, short, hits)
    BY <1>2 DEF AdmitWaiting
  <2>2. aged \in Seq(Requests) /\ ToSet(aged) \subseteq ToSet(s.waiting)
    <3>1. s.waiting \in Seq(Requests) BY DEF Sound, States
    <3>2. \A T : Among(s.waiting, T) \in Seq(Requests)
                 /\ ToSet(Among(s.waiting, T)) = ToSet(s.waiting) \cap T
      BY <3>1, AmongIs
    <3> QED BY <3>2 DEF Aged
  <2> HIDE DEF aged
  <2>3. aged # << >> => oldest \in ToSet(s.waiting) /\ oldest \in Requests
    <3> SUFFICES ASSUME aged # << >> PROVE oldest \in ToSet(s.waiting) /\ oldest \in Requests
      OBVIOUS
    <3>1. oldest \in Requests /\ oldest \in ToSet(aged)
      <4> HIDE DEF Distinct
      <4> QED BY <2>2, QueueHead
    <3> QED BY <2>2, <3>1
  <2> HIDE DEF oldest
  <2>4. /\ Sound(policy, u, {}) /\ Admits(s, u)
        /\ aged # << >> /\ ~Resubmit.on /\ s.running = {} => oldest \in u.running
    <3>1. CASE aged # << >> /\ HasCommonSlot(s)
      <4>1. HasSlot(s, FALSE) BY <1>2, <3>1 DEF HasSlot
      <4>2. Room(policy, s, FALSE) BY <2>3, <3>1, <4>1, SlotIsRoom
      <4>3. 0 \in Nat OBVIOUS
      <4> DEFINE v == TryAdmit(s, oldest, FALSE, 0, hits)
      <4>4. Sound(policy, v, {}) /\ Admits(s, v)
        BY <2>3, <3>1, <4>2, <4>3, TryAdmitSound
      <4>5. u = v BY <3>1
      <4>6. ~Resubmit.on /\ s.running = {} => oldest \in v.running
        BY <2>3, <3>1, IdleAdmits
      <4> HIDE DEF u, v
      <4> QED BY <4>4, <4>5, <4>6
    <3>2. CASE ~(aged # << >> /\ HasCommonSlot(s))
      <4>1. u = s BY <3>2
      <4>2. Admits(s, s) BY DEF Admits
      <4>3. s.running = {} => HasCommonSlot(s)
        <5>1. FALSE \in BOOLEAN OBVIOUS
        <5> QED BY <1>2, <5>1, IdleRoom DEF Room, HasCommonSlot, Short
      <4> HIDE DEF u
      <4> QED BY <3>2, <4>1, <4>2, <4>3
    <3> QED BY <3>1, <3>2
  <2> HIDE DEF u, t
  <2>5. CASE aged # << >> /\ oldest \notin u.running
    <3>1. t = u BY <2>1, <2>5
    <3>2. ~Resubmit.on => u.running # {} BY <2>4, <2>5 DEF Admits
    <3> QED BY <2>4, <3>1, <3>2 DEF t
  <2>6. CASE ~(aged # << >> /\ oldest \notin u.running)
    <3>1. t = AdmitLanes(u, short, hits) BY <2>1, <2>6
    <3>2. ShortFits(policy, u, short, hits) BY <2>4, ShortFitsOn
    <3>3. /\ Sound(policy, t, {}) /\ Admits(u, t)
          /\ ~Resubmit.on /\ u.known # {} => t.running # {}
      BY <2>4, <3>1, <3>2, AdmitLanesSound
    <3>4. Admits(s, t) BY <2>4, <3>3, AdmitsOn
    <3>5. u.known = s.known BY <2>4 DEF Admits
    <3> QED BY <3>3, <3>4, <3>5 DEF t
  <2> QED BY <2>5, <2>6
<1>3. Short.on \in BOOLEAN BY PolicyFacts
<1> QED BY <1>1, <1>2, <1>3

----------------------------------------------------------------------------
(* The budgets of a step.                                                  *)

(* One more item adds no more positions than it has tokens.                *)
LEMMA PositionsAppend ==
  ASSUME NEW out \in Seq(Items), IsFiniteSet(Positions(out)), NEW item \in Items
  PROVE  /\ IsFiniteSet(Positions(Append(out, item)))
         /\ Cardinality(Positions(out)) \in Nat
         /\ Cardinality(Positions(Append(out, item))) \in Nat
         /\ Cardinality(Positions(Append(out, item)))
              <= Cardinality(Positions(out)) + (item.tokens + item.lookahead)
<1> DEFINE k == item.tokens + item.lookahead
           new == {item.id} \X (1 .. k)
           old == Positions(out)
           all == Positions(Append(out, item))
           n == Len(out)
           v == Append(out, item)
<1>1. k \in Nat BY DEF Items
<1>2. n \in Nat /\ DOMAIN out = 1 .. n /\ DOMAIN v = 1 .. (n + 1) /\ v[n + 1] = item
      /\ \A i \in 1 .. n : v[i] = out[i]
  OBVIOUS
<1> DEFINE At(x) == {x.id} \X (1 .. x.tokens + x.lookahead)
<1>3. old = UNION { At(out[i]) : i \in 1 .. n } BY <1>2 DEF Positions
<1>4. all = UNION { At(v[i]) : i \in 1 .. (n + 1) } BY <1>2 DEF Positions
<1>5. new = At(item) OBVIOUS
<1> HIDE DEF At, old, all, new, v
<1>6. all = old \cup new
  <2>1. ASSUME NEW e \in all PROVE e \in old \cup new
    <3>1. PICK i \in 1 .. (n + 1) : e \in At(v[i]) BY <1>4
    <3>2. CASE i = n + 1 BY <1>2, <1>5, <3>1, <3>2
    <3>3. CASE i # n + 1
      <4>1. i \in 1 .. n BY <1>2, <3>3
      <4> QED BY <1>2, <1>3, <3>1, <4>1
    <3> QED BY <3>2, <3>3
  <2>2. ASSUME NEW e \in old PROVE e \in all
    <3>1. PICK i \in 1 .. n : e \in At(out[i]) BY <1>3
    <3>2. i \in 1 .. (n + 1) BY <1>2
    <3>3. e \in At(v[i]) BY <1>2, <3>1
    <3> QED BY <1>4, <3>2, <3>3
  <2>3. ASSUME NEW e \in new PROVE e \in all
    <3>1. n + 1 \in 1 .. (n + 1) BY <1>2
    <3>2. e \in At(v[n + 1]) BY <1>2, <1>5, <2>3
    <3> QED BY <1>4, <3>1, <3>2
  <2> QED BY <2>1, <2>2, <2>3
<1>7. IsFiniteSet(new) /\ Cardinality(new) = k
  <2>1. IsFiniteSet({item.id}) /\ Cardinality({item.id}) = 1 BY FS_Singleton
  <2>2. IsFiniteSet(1 .. k) /\ Cardinality(1 .. k) = k
    <3> HIDE DEF k
    <3>1. IsFiniteSet(1 .. k)
          /\ Cardinality(1 .. k) = IF 1 > k THEN 0 ELSE k - 1 + 1
      BY <1>1, FS_Interval
    <3> QED BY <1>1, <3>1
  <2> HIDE DEF k
  <2>3. IsFiniteSet({item.id} \X (1 .. k)) /\ Cardinality({item.id} \X (1 .. k)) = 1 * k
    BY <2>1, <2>2, FS_Product, ZenonT(30)
  <2>4. 1 * k = k BY <1>1
  <2> QED BY <2>3, <2>4 DEF new
<1>8. IsFiniteSet(old) BY DEF old
<1>9. /\ IsFiniteSet(old \cup new)
      /\ Cardinality(old \cup new) =
           Cardinality(old) + Cardinality(new) - Cardinality(old \cap new)
  BY <1>7, <1>8, FS_Union
<1>10. Cardinality(old) \in Nat /\ Cardinality(old \cap new) \in Nat
       /\ Cardinality(old \cup new) \in Nat
  <2>1. IsFiniteSet(old \cap new) BY <1>8, FS_Intersection
  <2> QED BY <1>8, <1>9, <2>1, FS_CardinalityType
<1> HIDE DEF k
<1>11. Cardinality(old \cup new) <= Cardinality(old) + k BY <1>1, <1>7, <1>9, <1>10
<1> QED BY <1>6, <1>9, <1>10, <1>11, Zenon DEF old, all, v, k

(* No work is no position.                                                 *)
LEMMA NoPositions ==
  /\ IsFiniteSet(Positions(<< >>)) /\ Cardinality(Positions(<< >>)) = 0
<1>1. Positions(<< >>) = {} BY DEF Positions
<1>2. IsFiniteSet({}) /\ Cardinality({}) = 0 BY FS_EmptySet
<1> QED BY <1>1, <1>2, Zenon

(* Less work is no more positions.                                         *)
LEMMA PositionsTail ==
  ASSUME NEW out \in Seq(Items), out # << >>, IsFiniteSet(Positions(out))
  PROVE  /\ IsFiniteSet(Positions(Tail(out)))
         /\ Cardinality(Positions(Tail(out))) <= Cardinality(Positions(out))
         /\ Len(Tail(out)) <= Len(out)
<1> DEFINE At(x) == {x.id} \X (1 .. x.tokens + x.lookahead)
           v == Tail(out)
           n == Len(out)
<1>1. /\ n \in Nat /\ n > 0 /\ Len(v) = n - 1 /\ DOMAIN v = 1 .. (n - 1)
      /\ DOMAIN out = 1 .. n /\ \A i \in 1 .. (n - 1) : v[i] = out[i + 1]
  OBVIOUS
<1>2. /\ Positions(out) = UNION { At(out[i]) : i \in 1 .. n }
      /\ Positions(v) = UNION { At(v[i]) : i \in 1 .. (n - 1) }
  BY <1>1 DEF Positions
<1> HIDE DEF At, v, n
<1>3. Positions(v) \subseteq Positions(out)
  <2> SUFFICES ASSUME NEW e \in Positions(v) PROVE e \in Positions(out) OBVIOUS
  <2>1. PICK i \in 1 .. (n - 1) : e \in At(v[i]) BY <1>2
  <2>2. i + 1 \in 1 .. n /\ v[i] = out[i + 1] BY <1>1
  <2> QED BY <1>2, <2>1, <2>2
<1>4. IsFiniteSet(Positions(v)) /\ Cardinality(Positions(v)) <= Cardinality(Positions(out))
  BY <1>3, FS_Subset
<1>5. Len(v) <= n BY <1>1
<1> QED BY <1>4, <1>5 DEF v, n

----------------------------------------------------------------------------
(* Lanes.                                                                  *)

(* The requests whose work in the step returns tokens.                     *)
Served(out) ==
  { r \in Requests : \E i \in DOMAIN out : out[i].id = r /\ out[i].output > 0 }

(* What planning the requests of R does to the rest of the scheduler.      *)
Walks(s, t, R) ==
  /\ t.error = s.error
  /\ Ids(s) \subseteq Ids(t) /\ Ids(t) \subseteq Ids(s) \cup R
  /\ s.running \ R \subseteq t.running
  /\ ToSet(t.launch) \subseteq ToSet(s.launch)
  /\ ToSet(t.common) \subseteq ToSet(s.common)
  /\ Served(s.out) \subseteq Served(t.out)
  /\ ToSet(s.resubmitted) \subseteq ToSet(s.waiting) =>
       ToSet(t.resubmitted) \subseteq ToSet(t.waiting)

(* What is planned and what may still be planned are within the budgets.   *)
Budgets(s, tokens, sequences) ==
  /\ IsFiniteSet(Positions(s.out))
  /\ Cardinality(Positions(s.out)) + s.tokensLeft <= tokens
  /\ Len(s.out) + s.seqsLeft <= sequences

(* Planning one request, or passing it over: one with a strict claim has   *)
(* work in the step if there is any budget.                                *)
LEMMA ScheduleNextSound ==
  ASSUME policy \in Policies, NEW s, Sound(policy, s, {}), s.error = "none",
         NEW r \in s.running, r \notin Ids(s), NEW first \in BOOLEAN,
         NEW T \in Nat, NEW S \in Nat, Budgets(s, T, S)
  PROVE  LET t == ScheduleNext(s, r, first)
         IN  /\ Sound(policy, t, {}) /\ Walks(s, t, {r}) /\ Budgets(t, T, S)
             /\ s.req[r].strict /\ s.seqsLeft > 0 /\ s.tokensLeft > 0 => r \in Ids(t)
             /\ (/\ first /\ s.req[r].strict /\ s.seqsLeft > 0 /\ s.tokensLeft > 0
                 /\ s.req[r].tokens - s.req[r].computed <= s.tokensLeft) =>
                  r \in Served(t.out)
<1> DEFINE t == ScheduleNext(s, r, first)
<1>1. s \in States BY DEF Sound
<1>2. s.tokensLeft \in Nat /\ s.seqsLeft \in Nat /\ s.out \in Seq(Items) /\ r \in Requests
  BY <1>1 DEF States
<1>3. CASE s.tokensLeft = 0 \/ s.seqsLeft = 0
  <2>1. t = s BY <1>3 DEF ScheduleNext
  <2>2. Walks(s, s, {r}) BY DEF Walks
  <2> HIDE DEF t
  <2> QED BY <1>2, <1>3, <2>1, <2>2 DEF t
<1>4. CASE s.tokensLeft > 0 /\ s.seqsLeft > 0
  <2>1. t = ScheduleRequest(s, r, first) BY <1>4 DEF ScheduleNext
  <2>2. /\ Sound(policy, t, {})
        /\ Given(s, t, r) \/ (RolledBack(s, t, r) /\ ~s.req[r].strict)
        /\ (/\ first /\ s.req[r].strict
            /\ s.req[r].tokens - s.req[r].computed <= s.tokensLeft) =>
             \E i \in DOMAIN t.out : t.out[i].id = r /\ t.out[i].output > 0
    BY <1>4, <2>1, ScheduleRequestSound
  <2> HIDE DEF t
  <2>3. CASE RolledBack(s, t, r) /\ ~s.req[r].strict
    <3>1. Walks(s, t, {r}) BY <2>3 DEF RolledBack, Walks, Ids
    <3>2. Budgets(t, T, S) BY <2>3 DEF RolledBack, Budgets
    <3> QED BY <1>2, <2>2, <2>3, <3>1, <3>2 DEF Served, t
  <2>4. CASE Given(s, t, r)
    <3>1. PICK item \in Items :
            /\ item.id = r /\ Granted(s, t, item) /\ Ids(t) = Ids(s) \cup {r}
            /\ item.tokens + item.lookahead <= s.tokensLeft
      BY <2>4 DEF Given
    <3>2. t.out = Append(s.out, item) BY <3>1 DEF Granted
    <3>3. Served(s.out) \subseteq Served(t.out)
      <4>1. ASSUME NEW i \in DOMAIN s.out PROVE i \in DOMAIN t.out /\ t.out[i] = s.out[i]
        BY <1>2, <3>2
      <4> QED BY <4>1 DEF Served
    <3>4. Walks(s, t, {r}) BY <3>1, <3>3 DEF Granted, Walks
    <3>5. Budgets(t, T, S)
      <4> DEFINE c == item.tokens + item.lookahead
                 a == Cardinality(Positions(s.out))
                 b == Cardinality(Positions(t.out))
      <4>1. /\ IsFiniteSet(Positions(t.out)) /\ a \in Nat /\ b \in Nat /\ b <= a + c
        BY <1>2, <3>2, PositionsAppend DEF Budgets
      <4>2. t.tokensLeft = s.tokensLeft - c /\ t.seqsLeft = s.seqsLeft - 1
        BY <3>1 DEF Granted
      <4>3. Len(t.out) = Len(s.out) + 1 /\ Len(s.out) \in Nat BY <1>2, <3>2
      <4>4. a + s.tokensLeft <= T /\ Len(s.out) + s.seqsLeft <= S BY DEF Budgets
      <4>5. c \in Nat BY DEF Items
      <4> HIDE DEF a, b, c
      <4>6. b + t.tokensLeft <= T BY <1>2, <4>1, <4>2, <4>4, <4>5
      <4>7. Len(t.out) + t.seqsLeft <= S BY <1>2, <4>2, <4>3, <4>4
      <4> QED BY <4>1, <4>6, <4>7 DEF Budgets, b
    <3>6. r \in Ids(t) BY <3>1
    <3> QED BY <1>2, <2>2, <3>4, <3>5, <3>6 DEF Served, t
  <2> QED BY <2>2, <2>3, <2>4
<1> QED BY <1>2, <1>3, <1>4

(* Walking on.                                                             *)
LEMMA WalksOn ==
  ASSUME NEW s, NEW t, NEW u, NEW R, NEW r, Walks(s, t, R), Walks(t, u, {r})
  PROVE  Walks(s, u, R \cup {r})
BY DEF Walks

(* The first in a lane has a strict claim, and the lane any budget.        *)
FirstIsStrict(s, order, tokens, sequences) ==
  order # << >> /\ s.req[order[1]].strict /\ tokens > 0 /\ sequences > 0

(* A lane plans its requests within its budgets and leaves the scheduler   *)
(* sound; if the first has a strict claim there is work in the step.       *)
LEMMA LaneSound ==
  ASSUME policy \in Policies, NEW s, Sound(policy, s, {}), s.error = "none",
         NEW order \in Seq(Requests), Distinct(order), ToSet(order) \subseteq s.running,
         ToSet(order) \cap Ids(s) = {}, NEW first \in BOOLEAN,
         NEW tokens \in Nat, NEW sequences \in Nat, NEW T \in Nat, NEW S \in Nat,
         IsFiniteSet(Positions(s.out)), Cardinality(Positions(s.out)) + tokens <= T,
         Len(s.out) + sequences <= S
  PROVE  LET t == ScheduleLane(s, order, tokens, sequences, first)
         IN  /\ Sound(policy, t, {}) /\ Walks(s, t, ToSet(order)) /\ Budgets(t, T, S)
             /\ FirstIsStrict(s, order, tokens, sequences) => Ids(t) # {}
<1> DEFINE x == [first |-> first]
           base == Budgeted(s, tokens, sequences)
           n == Len(order)
           result == ScheduleLane(s, order, tokens, sequences, first)
           Upto(i) == { order[j] : j \in 1 .. i }
<1>1. Goes("schedule", x, base, order, result) BY LaneGoes, Zenon DEF Budgeted
<1>2. /\ Sound(policy, base, {}) /\ Turned(s, base)
      /\ base.tokensLeft = tokens /\ base.seqsLeft = sequences /\ base.req = s.req
  <2>1. Sound(policy, base, {}) BY LaneStarts
  <2>2. Turned(s, base) BY LaneStarts
  <2>3. base.tokensLeft = tokens BY LaneStarts
  <2>4. base.seqsLeft = sequences BY LaneStarts
  <2>5. base.req = s.req
    <3>1. s \in States BY DEF Sound
    <3> QED BY <3>1 DEF States, Budgeted
  <2> QED BY <2>1, <2>2, <2>3, <2>4, <2>5
<1> HIDE DEF base
<1>3. PICK g : /\ g[0] = base
               /\ \A i \in Nat : i < n => g[i + 1] = Step("schedule", x, g[i], order[i + 1])
               /\ result = g[n]
  <2> HIDE DEF x, result
  <2> QED BY <1>1 DEF Goes
<1>4. \A u, r : Step("schedule", x, u, r) = ScheduleNext(u, r, first)
  <2>1. x.first = first OBVIOUS
  <2>2. "schedule" # "hand back" /\ "schedule" # "admit" OBVIOUS
  <2> HIDE DEF x
  <2> QED BY <2>1, <2>2 DEF Step
<1> HIDE DEF x, result
<1>5. /\ n \in Nat /\ \A i \in 1 .. n : order[i] \in s.running /\ order[i] \notin Ids(s)
      /\ Upto(n) = ToSet(order)
  BY DEF ToSet
<1>6. \A i, j \in 1 .. n : order[i] = order[j] => i = j BY DEF Distinct
<1> DEFINE P(i, u) ==
             /\ Sound(policy, u, {}) /\ Walks(s, u, Upto(i)) /\ Budgets(u, T, S)
             /\ i # 0 /\ FirstIsStrict(s, order, tokens, sequences) => Ids(u) # {}
           B == { i \in Nat : i <= n => P(i, g[i]) }
<1>7. 0 \in B
  <2>1. Walks(s, base, Upto(0)) BY <1>2 DEF Turned, Walks, Ids
  <2>2. Budgets(base, T, S) BY <1>2 DEF Turned, Budgets
  <2>3. P(0, base) BY <1>2, <2>1, <2>2
  <2> HIDE DEF P
  <2> QED BY <1>3, <2>3
<1>8. ASSUME NEW i \in Nat, i \in B PROVE i + 1 \in B
  <2> SUFFICES ASSUME i < n PROVE P(i + 1, g[i + 1]) BY <1>5
  <2>1. P(i, g[i]) BY <1>5, <1>8
  <2> DEFINE u == g[i]
             r == order[i + 1]
             new == ScheduleNext(u, r, first)
  <2>2. g[i + 1] = new BY <1>3, <1>4
  <2>3. P(i, u) BY <2>1
  <2>4. i + 1 \in 1 .. n BY <1>5
  <2>5. r \in s.running /\ r \notin Ids(s) BY <1>5, <2>4
  <2>6. r \notin Upto(i)
    <3>1. \A j \in 1 .. i : j \in 1 .. n /\ j # i + 1 BY <1>5
    <3> QED BY <1>6, <2>4, <3>1
  <2>7. Upto(i + 1) = Upto(i) \cup {r}
    <3>1. \A j \in 1 .. (i + 1) : j = i + 1 \/ j \in 1 .. i OBVIOUS
    <3>2. \A j \in 1 .. i : j \in 1 .. (i + 1) OBVIOUS
    <3>3. i + 1 \in 1 .. (i + 1) OBVIOUS
    <3> QED BY <3>1, <3>2, <3>3
  <2> HIDE DEF u, r, Upto
  <2>8. r \in u.running /\ r \notin Ids(u) /\ u.error = "none"
    BY <2>3, <2>5, <2>6 DEF Walks
  <2>9. /\ Sound(policy, new, {}) /\ Walks(u, new, {r}) /\ Budgets(new, T, S)
        /\ u.req[r].strict /\ u.seqsLeft > 0 /\ u.tokensLeft > 0 => r \in Ids(new)
    BY <2>3, <2>8, ScheduleNextSound
  <2> HIDE DEF new
  <2>10. Walks(s, new, Upto(i + 1))
    <3>1. Walks(s, u, Upto(i)) BY <2>3
    <3>2. Walks(u, new, {r}) BY <2>9
    <3>3. Walks(s, new, Upto(i) \cup {r}) BY <3>1, <3>2, WalksOn, Zenon
    <3> QED BY <2>7, <3>3
  <2>11. FirstIsStrict(s, order, tokens, sequences) => Ids(new) # {}
    <3> SUFFICES ASSUME FirstIsStrict(s, order, tokens, sequences) PROVE Ids(new) # {}
      OBVIOUS
    <3>1. CASE i # 0
      <4>1. Ids(u) # {} BY <2>3, <3>1
      <4>2. Ids(u) \subseteq Ids(new) BY <2>9 DEF Walks
      <4> QED BY <4>1, <4>2
    <3>2. CASE i = 0
      <4>1. u = base /\ r = order[1] BY <1>3, <3>2 DEF u, r
      <4>2. u.req[r].strict /\ u.seqsLeft > 0 /\ u.tokensLeft > 0
        BY <1>2, <4>1 DEF FirstIsStrict
      <4> QED BY <2>9, <4>2
    <3> QED BY <3>1, <3>2
  <2>12. P(i + 1, new) BY <2>9, <2>10, <2>11
  <2> HIDE DEF P
  <2> QED BY <2>2, <2>12
<1>9. \A i \in Nat : i \in B
  <2> HIDE DEF B
  <2> QED BY <1>7, <1>8, Induct
<1>10. n \in B BY <1>5, <1>9
<1>11. P(n, g[n]) BY <1>5, <1>10
<1> HIDE DEF Upto
<1>12. FirstIsStrict(s, order, tokens, sequences) => n # 0 BY DEF FirstIsStrict
<1>13. /\ Sound(policy, result, {}) /\ Walks(s, result, ToSet(order)) /\ Budgets(result, T, S)
       /\ FirstIsStrict(s, order, tokens, sequences) => Ids(result) # {}
  BY <1>3, <1>5, <1>11, <1>12
<1> QED BY <1>13 DEF result

(* The only request of the launch lane gets its first output.              *)
LEMMA LaneOfOne ==
  ASSUME policy \in Policies, NEW s, Sound(policy, s, {}), s.error = "none",
         NEW order \in Seq(Requests), Len(order) = 1, ToSet(order) \subseteq s.running,
         ToSet(order) \cap Ids(s) = {},
         NEW tokens \in Nat \ {0}, NEW sequences \in Nat \ {0},
         IsFiniteSet(Positions(s.out)), Cardinality(Positions(s.out)) \in Nat,
         \A r \in ToSet(order) : /\ s.req[r].strict
                                 /\ s.req[r].tokens - s.req[r].computed <= tokens
  PROVE  ToSet(order) \subseteq Served(ScheduleLane(s, order, tokens, sequences, TRUE).out)
<1> DEFINE base == Budgeted(s, tokens, sequences)
           x == [first |-> TRUE]
           result == ScheduleLane(s, order, tokens, sequences, TRUE)
           r == order[1]
           T == Cardinality(Positions(s.out)) + tokens
           S == Len(s.out) + sequences
<1>1. Goes("schedule", x, base, order, result) BY LaneGoes, Zenon DEF Budgeted
<1>2. /\ Sound(policy, base, {}) /\ Turned(s, base)
      /\ base.tokensLeft = tokens /\ base.seqsLeft = sequences
  <2>0. tokens \in Nat /\ sequences \in Nat OBVIOUS
  <2>1. Sound(policy, base, {}) BY <2>0, LaneStarts
  <2>2. Turned(s, base) BY LaneStarts
  <2>3. s \in States BY DEF Sound
  <2>4. base.tokensLeft = tokens /\ base.seqsLeft = sequences BY <2>3 DEF States, Budgeted
  <2> QED BY <2>1, <2>2, <2>3, <2>4
<1>3. base.req = s.req
  <2>1. s \in States BY DEF Sound
  <2> QED BY <2>1 DEF States, Budgeted
<1> HIDE DEF base
<1>4. \A u, q : Step("schedule", x, u, q) = ScheduleNext(u, q, TRUE)
  <2>1. x.first = TRUE OBVIOUS
  <2>2. "schedule" # "hand back" /\ "schedule" # "admit" OBVIOUS
  <2> HIDE DEF x
  <2> QED BY <2>1, <2>2 DEF Step
<1> HIDE DEF x, result
<1>5. result = ScheduleNext(base, r, TRUE)
  <2>1. PICK g : /\ g[0] = base
                 /\ \A i \in Nat : i < 1 => g[i + 1] = Step("schedule", x, g[i], order[i + 1])
                 /\ result = g[1]
    BY <1>1 DEF Goes
  <2>2. 0 \in Nat /\ 0 < 1 /\ 0 + 1 = 1 OBVIOUS
  <2>3. g[1] = Step("schedule", x, g[0], order[1]) BY <2>1, <2>2
  <2> QED BY <1>4, <2>1, <2>3
<1>6. ToSet(order) = {r} BY DEF ToSet
<1>7. r \in base.running /\ r \notin Ids(base) /\ base.error = "none"
  BY <1>2, <1>6 DEF Turned, Ids
<1>8. Len(s.out) \in Nat
  <2>1. s.out \in Seq(Items) BY DEF Sound, States
  <2> QED BY <2>1
<1>9. T \in Nat /\ S \in Nat BY <1>8
<1>10. Budgets(base, T, S) BY <1>2, <1>9 DEF Turned, Budgets
<1>a. base.tokensLeft > 0 /\ base.seqsLeft > 0 BY <1>2
<1>b. base.req[r].strict /\ base.req[r].tokens - base.req[r].computed <= base.tokensLeft
  BY <1>2, <1>3, <1>6
<1> HIDE DEF T, S, r
<1>11. r \in Served(ScheduleNext(base, r, TRUE).out)
  BY <1>2, <1>7, <1>9, <1>10, <1>a, <1>b, ScheduleNextSound
<1> QED BY <1>5, <1>6, <1>11 DEF result

(* The step in flight is within its budgets, and a single reserved         *)
(* sequence goes to the short request that waits for its first output.     *)
StepFits(p, s) ==
  /\ IsFiniteSet(Positions(s.out))
  /\ Cardinality(Positions(s.out)) <= TokenBudget
  /\ Len(s.out) <= MaxSequences
  /\ p.short.sequences = 1 => ToSet(s.launch) \subseteq Served(s.out)

(* With one reserved sequence there is at most one request in the launch   *)
(* lane.                                                                   *)
LEMMA OneLaunch ==
  ASSUME policy \in Policies, NEW s, Sound(policy, s, {}),
         Short.sequences = 1, ToSet(s.launch) # {}
  PROVE  Len(s.launch) = 1 /\ Short.on
<1> DEFINE slots == { r \in s.running : s.req[r].slot }
           v == s.launch
<1>1. /\ s \in States /\ Queues(s) /\ Slots(policy, s)
      /\ \A r \in Requests : Local(policy, s, {}, r)
  BY DEF Sound
<1>2. v \in Seq(Requests) /\ Distinct(v) /\ ToSet(v) \subseteq s.running
      /\ s.running \subseteq Requests
  BY <1>1 DEF States, Queues
<1>3. ASSUME NEW r \in ToSet(v) PROVE Short.on /\ s.req[r].slot
  BY <1>1, <1>2 DEF Local, Short
<1>4. Short.on BY <1>3
<1>5. ToSet(v) \subseteq slots BY <1>2, <1>3
<1>6. IsFiniteSet(slots) /\ IsFiniteSet(s.running)
  <2>1. IsFiniteSet(s.running) BY <1>1, RunningFinite
  <2>2. slots \subseteq s.running OBVIOUS
  <2> QED BY <2>1, <2>2, FS_Subset
<1>7. Cardinality(slots) <= 1 /\ Cardinality(slots) \in Nat
  <2>1. ShortSlots(s) = Cardinality(slots) BY Zenon DEF ShortSlots
  <2>2. ShortSlots(s) <= Short.sequences BY <1>1, <1>4 DEF Slots, Short
  <2>3. Cardinality(slots) \in Nat BY <1>6, FS_CardinalityType
  <2> HIDE DEF slots
  <2> QED BY <2>1, <2>2, <2>3
<1>8. Cardinality(ToSet(v)) <= Cardinality(slots) /\ Cardinality(ToSet(v)) \in Nat
  <2>1. Cardinality(ToSet(v)) <= Cardinality(slots) BY <1>5, <1>6, FS_Subset
  <2>2. IsFiniteSet(ToSet(v)) BY <1>5, <1>6, FS_Subset
  <2> QED BY <2>1, <2>2, FS_CardinalityType
<1>9. Cardinality(ToSet(v)) = Len(v)
  <2> HIDE DEF Distinct
  <2> QED BY <1>2, QueueSize
<1>10. Len(v) # 0
  <2>1. v # << >>
    <3>1. ToSet(<< >>) = {} BY DEF ToSet
    <3> QED BY <3>1
  <2> QED BY <1>2, <2>1
<1>11. Len(v) \in Nat BY <1>2
<1>12. Len(v) = 1
  <2> DEFINE x == Cardinality(ToSet(v))
             y == Cardinality(slots)
             z == Len(v)
  <2>1. x = z /\ x <= y /\ y <= 1 /\ z # 0 /\ x \in Nat /\ y \in Nat /\ z \in Nat
    BY <1>7, <1>8, <1>9, <1>10, <1>11
  <2> HIDE DEF x, y, z
  <2>2. z = 1 BY <2>1
  <2> QED BY <2>2 DEF z
<1> HIDE DEF slots
<1> QED BY <1>4, <1>12

(* Planning a step, from the queues as admission leaves them: without      *)
(* self-resubmission there is work for somebody if anybody runs.           *)
LEMMA ScheduleAdmittedSound ==
  ASSUME policy \in Policies, NEW s, Sound(policy, s, {}), s.out = << >>, s.error = "none"
  PROVE  LET t == ScheduleAdmitted(s)
         IN  /\ Sound(policy, t, {}) /\ StepFits(policy, t) /\ t.error = "none"
             /\ ToSet(s.resubmitted) \subseteq ToSet(s.waiting) =>
                  ToSet(t.resubmitted) \subseteq ToSet(t.waiting)
             /\ ~Resubmit.on /\ s.running # {} => t.out # << >>
<1> DEFINE tokens == IF Short.on THEN Short.tokens ELSE 0
           sequences == IF Short.on THEN Short.sequences ELSE 0
           a == [s EXCEPT !.launch = Rotated(@)]
           b == ScheduleLane(a, s.launch, tokens, sequences, TRUE)
           c == [b EXCEPT !.common = Rotated(@)]
           t == ScheduleLane(c, b.common, TokenBudget - tokens, MaxSequences - sequences, FALSE)
<1>1. ScheduleAdmitted(s) = t BY Zenon DEF ScheduleAdmitted
<1>2. /\ s \in States /\ Queues(s) /\ \A r \in Requests : Local(policy, s, {}, r) BY DEF Sound
<1>3. /\ tokens \in Nat /\ sequences \in Nat
      /\ TokenBudget - tokens \in Nat /\ MaxSequences - sequences \in Nat
      /\ tokens <= TokenBudget /\ sequences <= MaxSequences
      /\ Short.on => /\ tokens = Short.tokens /\ sequences = Short.sequences
                     /\ tokens > 0 /\ sequences > 0
      /\ TokenBudget - tokens > 0 /\ MaxSequences - sequences > 0
  <2>1. TokenBudget \in Nat \ {0} /\ MaxSequences \in Nat \ {0} BY BudgetAssumption
  <2> QED BY <2>1, PolicyFacts, SMTT(30)
<1> HIDE DEF tokens, sequences
<1>4. Sound(policy, a, {}) /\ Turned(s, a) BY LaunchTurned
<1>5. a.req = s.req BY <1>2 DEF States
<1> HIDE DEF a
<1>6. /\ s.launch \in Seq(Requests) /\ Distinct(s.launch)
      /\ ToSet(s.launch) \subseteq a.running /\ Ids(a) = {}
      /\ ToSet(s.launch) \cap ToSet(s.common) = {}
  BY <1>2, <1>4 DEF States, Queues, Turned, Ids
<1>7. /\ a.out = << >> /\ a.error = "none" /\ IsFiniteSet(Positions(a.out))
      /\ Cardinality(Positions(a.out)) = 0 /\ Len(a.out) = 0
  <2>1. a.out = << >> /\ a.error = "none" BY <1>4 DEF Turned
  <2>2. Len(<< >>) = 0 OBVIOUS
  <2> QED BY <2>1, <2>2, NoPositions, Zenon
<1>8. /\ Sound(policy, b, {}) /\ Walks(a, b, ToSet(s.launch)) /\ Budgets(b, tokens, sequences)
      /\ FirstIsStrict(a, s.launch, tokens, sequences) => Ids(b) # {}
  <2>1. 0 + tokens <= tokens /\ 0 + sequences <= sequences BY <1>3
  <2> HIDE DEF Distinct, b
  <2>2. /\ Cardinality(Positions(a.out)) + tokens <= tokens
        /\ Len(a.out) + sequences <= sequences
    BY <1>7, <2>1
  <2>3. ToSet(s.launch) \cap Ids(a) = {} /\ TRUE \in BOOLEAN BY <1>6
  <2> QED BY <1>3, <1>4, <1>6, <1>7, <2>2, <2>3, LaneSound DEF b
<1>9. Short.sequences = 1 => ToSet(s.launch) \subseteq Served(b.out)
  <2> SUFFICES ASSUME Short.sequences = 1, ToSet(s.launch) # {}
               PROVE  ToSet(s.launch) \subseteq Served(b.out)
    OBVIOUS
  <2>1. Len(s.launch) = 1 /\ Short.on BY OneLaunch
  <2>2. tokens \in Nat \ {0} /\ sequences \in Nat \ {0} BY <1>3, <2>1
  <2>3. ASSUME NEW r \in ToSet(s.launch)
        PROVE  a.req[r].strict /\ a.req[r].tokens - a.req[r].computed <= tokens
    <3>1. r \in Requests BY <1>6 DEF ToSet
    <3>2. s.req[r].strict /\ s.req[r].tokens - s.req[r].computed <= Short.effective
      BY <1>2, <3>1 DEF Local, Short
    <3>3. s.req[r].tokens - s.req[r].computed \in Int
      <4>1. s.req[r] \in RequestState BY <1>2, <3>1 DEF States
      <4> QED BY <4>1 DEF RequestState
    <3>4. Short.effective \in Nat /\ Short.tokens \in Nat /\ Short.effective <= Short.tokens
      BY <2>1, PolicyFacts
    <3> QED BY <1>3, <1>5, <2>1, <3>2, <3>3, <3>4
  <2>4. ToSet(s.launch) \cap Ids(a) = {} BY <1>6
  <2>5. Cardinality(Positions(a.out)) \in Nat BY <1>7
  <2> HIDE DEF b
  <2> QED BY <1>4, <1>6, <1>7, <2>1, <2>2, <2>3, <2>4, <2>5, LaneOfOne DEF b
<1> HIDE DEF b
<1>10. Sound(policy, c, {}) /\ Turned(b, c) BY <1>8, CommonTurned
<1> HIDE DEF c
<1>11. /\ b.common \in Seq(Requests) /\ Distinct(b.common)
       /\ ToSet(b.common) \subseteq c.running /\ ToSet(b.common) \cap Ids(c) = {}
       /\ c.error = "none"
  <2>1. b \in States /\ Queues(b) BY <1>8 DEF Sound
  <2>2. ToSet(b.common) \subseteq ToSet(s.common) BY <1>4, <1>8 DEF Turned, Walks
  <2>3. Ids(c) \subseteq ToSet(s.launch) BY <1>6, <1>8, <1>10 DEF Turned, Walks, Ids
  <2>4. c.error = "none" BY <1>7, <1>8, <1>10 DEF Turned, Walks
  <2> QED BY <1>6, <1>10, <2>1, <2>2, <2>3, <2>4 DEF States, Queues, Turned
<1> DEFINE m == Cardinality(Positions(b.out))
           l == Len(b.out)
<1>12. /\ c.out = b.out /\ IsFiniteSet(Positions(b.out)) /\ m \in Nat /\ m <= tokens
       /\ l \in Nat /\ l <= sequences
  <2>1. b.tokensLeft \in Nat /\ b.seqsLeft \in Nat /\ b.out \in Seq(Items)
    BY <1>8 DEF Sound, States
  <2>2. IsFiniteSet(Positions(b.out)) /\ m + b.tokensLeft <= tokens /\ l + b.seqsLeft <= sequences
    BY <1>8 DEF Budgets
  <2>3. m \in Nat BY <2>2, FS_CardinalityType
  <2>4. l \in Nat BY <2>1
  <2>5. c.out = b.out BY <1>10 DEF Turned
  <2> HIDE DEF m, l
  <2>6. m <= tokens /\ l <= sequences BY <1>3, <2>1, <2>2, <2>3, <2>4
  <2> QED BY <2>2, <2>3, <2>4, <2>5, <2>6
<1>13. /\ Sound(policy, t, {}) /\ Walks(c, t, ToSet(b.common))
       /\ Budgets(t, TokenBudget, MaxSequences)
       /\ FirstIsStrict(c, b.common, TokenBudget - tokens, MaxSequences - sequences) =>
            Ids(t) # {}
  <2> HIDE DEF m, l
  <2>1. TokenBudget \in Nat /\ MaxSequences \in Nat BY BudgetAssumption
  <2>2. m + (TokenBudget - tokens) <= TokenBudget /\ l + (MaxSequences - sequences) <= MaxSequences
    BY <1>3, <1>12, <2>1
  <2>3. /\ IsFiniteSet(Positions(c.out))
        /\ Cardinality(Positions(c.out)) + (TokenBudget - tokens) <= TokenBudget
        /\ Len(c.out) + (MaxSequences - sequences) <= MaxSequences
    BY <1>12, <2>2 DEF m, l
  <2> HIDE DEF Distinct, t
  <2>4. FALSE \in BOOLEAN OBVIOUS
  <2> QED BY <1>3, <1>10, <1>11, <2>1, <2>3, <2>4, LaneSound DEF t
<1> HIDE DEF t
<1>14. StepFits(policy, t)
  <2>1. t.tokensLeft \in Nat /\ t.seqsLeft \in Nat /\ t.out \in Seq(Items)
    BY <1>13 DEF Sound, States
  <2>2. /\ IsFiniteSet(Positions(t.out))
        /\ Cardinality(Positions(t.out)) + t.tokensLeft <= TokenBudget
        /\ Len(t.out) + t.seqsLeft <= MaxSequences
    BY <1>13 DEF Budgets
  <2>3. Cardinality(Positions(t.out)) \in Nat /\ Len(t.out) \in Nat
    BY <2>1, <2>2, FS_CardinalityType
  <2>4. TokenBudget \in Nat /\ MaxSequences \in Nat BY BudgetAssumption
  <2>5. Cardinality(Positions(t.out)) <= TokenBudget /\ Len(t.out) <= MaxSequences
    BY <2>1, <2>2, <2>3, <2>4
  <2>6. Short.sequences = 1 => ToSet(t.launch) \subseteq Served(t.out)
    <3> SUFFICES ASSUME Short.sequences = 1 PROVE ToSet(t.launch) \subseteq Served(t.out)
      OBVIOUS
    <3>1. ToSet(t.launch) \subseteq ToSet(c.launch) /\ ToSet(c.launch) = ToSet(b.launch)
      BY <1>10, <1>13 DEF Walks, Turned
    <3>2. ToSet(b.launch) \subseteq ToSet(s.launch)
      BY <1>4, <1>8 DEF Walks, Turned
    <3>3. Served(b.out) \subseteq Served(t.out) BY <1>12, <1>13 DEF Walks
    <3> QED BY <1>9, <3>1, <3>2, <3>3
  <2> QED BY <2>2, <2>5, <2>6 DEF StepFits, Short
<1>15. t.error = "none" BY <1>11, <1>13 DEF Walks
<1>16. ToSet(s.resubmitted) \subseteq ToSet(s.waiting) =>
         ToSet(t.resubmitted) \subseteq ToSet(t.waiting)
  BY <1>4, <1>8, <1>10, <1>13 DEF Walks, Turned
<1>17. ASSUME ~Resubmit.on, s.running # {} PROVE t.out # << >>
  <2>1. /\ \A r \in Requests : Local(policy, a, {}, r) /\ a.running = s.running
        /\ ~policy.resubmit.on
    BY <1>4, <1>17 DEF Sound, Turned, Resubmit
  <2>2. Ids(b) \subseteq Ids(c) /\ Ids(c) \subseteq Ids(t)
    BY <1>10, <1>13 DEF Turned, Walks, Ids
  <2>3. CASE s.launch # << >>
    <3>1. s.launch[1] \in ToSet(s.launch)
      <4> HIDE DEF Distinct
      <4>1. Head(s.launch) \in ToSet(s.launch) BY <1>6, <2>3, QueueHead
      <4> QED BY <4>1
    <3>2. s.launch[1] \in Requests /\ Short.on /\ a.req[s.launch[1]].strict
      BY <1>2, <1>5, <1>6, <3>1 DEF Local, ToSet, Short
    <3>3. FirstIsStrict(a, s.launch, tokens, sequences)
      BY <1>3, <2>3, <3>2 DEF FirstIsStrict
    <3>4. Ids(t) # {} BY <1>8, <2>2, <3>3
    <3> QED BY <3>4 DEF Ids
  <2>4. CASE s.launch = << >>
    <3>1. ToSet(s.launch) = {} BY <2>4 DEF ToSet
    <3>2. a.running \subseteq c.running BY <1>8, <1>10, <3>1 DEF Walks, Turned
    <3>3. ToSet(b.launch) = {} BY <1>4, <1>8, <3>1 DEF Walks, Turned
    <3>4. b.running = ToSet(b.common) /\ c.running = b.running
      BY <1>8, <1>10, <3>3 DEF Sound, Queues, Turned
    <3>5. b.common # << >>
      <4>1. ToSet(<< >>) = {} BY DEF ToSet
      <4>2. PICK r \in s.running : TRUE BY <1>17, Zenon
      <4>3. a.running = s.running BY <1>4 DEF Turned
      <4>4. r \in ToSet(b.common) BY <3>2, <3>4, <4>3
      <4> QED BY <4>1, <4>4, Zenon
    <3>6. b.common[1] \in ToSet(b.common)
      <4> HIDE DEF Distinct
      <4>1. Head(b.common) \in ToSet(b.common) BY <1>11, <3>5, QueueHead
      <4> QED BY <4>1
    <3>7. b.common[1] \in Requests BY <1>11, <3>6 DEF ToSet
    <3>8. c.req[b.common[1]].strict
      BY <1>10, <2>1, <3>4, <3>6, <3>7 DEF Sound, Local
    <3>9. FirstIsStrict(c, b.common, TokenBudget - tokens, MaxSequences - sequences)
      BY <1>3, <3>5, <3>8 DEF FirstIsStrict
    <3>10. Ids(t) # {} BY <1>13, <3>9
    <3> QED BY <3>10 DEF Ids
  <2> QED BY <2>3, <2>4
<1> QED BY <1>1, <1>13, <1>14, <1>15, <1>16, <1>17

----------------------------------------------------------------------------
(* schedule().                                                             *)

(* What the prefix index may answer fits.                                  *)
LEMMA HitsAreFit ==
  ASSUME Sound(policy, sched, {}), NEW hits \in Hits
  PROVE  HitsFit(hits)
<1> SUFFICES ASSUME NEW r \in Requests
             PROVE  hits[r] \in Nat /\ hits[r] * BlockSize < PromptLen[r]
  BY DEF HitsFit
<1> DEFINE h == hits[r]
           n == sched.req[r].published
<1>1. h \in Nat /\ h <= (IF r \in sched.known /\ ~sched.req[r].strict THEN n ELSE 0)
  BY BudgetAssumption DEF Hits
<1>2. n \in Nat /\ n * BlockSize < PromptLen[r]
  <2>1. Local(policy, sched, {}, r) /\ sched \in States BY DEF Sound
  <2>2. sched.req[r] \in RequestState BY <2>1 DEF States
  <2> QED BY <2>1, <2>2 DEF Local, RequestState
<1> HIDE DEF n, h
<1>3. h <= n BY <1>1, <1>2
<1>4. /\ h * BlockSize \in Nat /\ n * BlockSize \in Nat /\ h * BlockSize <= n * BlockSize
  BY <1>1, <1>2, <1>3, BudgetAssumption, Multiples
<1>5. PromptLen[r] \in Nat BY RequestAssumption
<1>6. h * BlockSize < PromptLen[r] BY <1>2, <1>4, <1>5
<1> QED BY <1>1, <1>6 DEF h

(* The short ones are chosen among those that may be admitted as such.     *)
LEMMA ShortIs ==
  ASSUME NEW s, NEW hits
  PROVE  ShortFits(policy, s, [r \in Requests |-> IsShort(s, r, hits)], hits)
<1>1. \A r \in Requests : IsShort(s, r, hits) \in BOOLEAN BY DEF IsShort
<1>2. \A r \in Requests : IsShort(s, r, hits) => FitsShort(policy, s, r, hits)
  BY DEF IsShort, FitsShort, Short
<1> QED BY <1>1, <1>2 DEF ShortFits

(* What schedule() has when it comes to its end.                           *)
Scheduling(p, s) ==
  /\ Sound(p, s, {}) /\ StepFits(p, s) /\ s.error = "none"

(* The first half of schedule(); without self-resubmission it finds work.  *)
LEMMA FirstPassSound ==
  ASSUME policy \in Policies, Sound(policy, sched, {}), sched.out = << >>,
         sched.error = "none", sched.resubmitted = << >>, NEW hits \in Hits
  PROVE  LET t == FirstPass(hits)
         IN  /\ Scheduling(policy, t) /\ ToSet(t.resubmitted) \subseteq ToSet(t.waiting)
             /\ ~Resubmit.on /\ sched.known # {} => t.out # << >>
<1> DEFINE a == Rebalance(sched)
           short == [r \in Requests |-> IsShort(a, r, hits)]
           b == Age(a, short)
           c == AdmitWaiting(b, short, hits)
           t == ScheduleAdmitted(c)
<1>1. FirstPass(hits) = t BY Zenon DEF FirstPass
<1>2. Ids(sched) = {} BY DEF Ids
<1>3. Sound(policy, a, {}) /\ Admits(sched, a) BY <1>2, RebalanceSound
<1> HIDE DEF a
<1>4. ShortFits(policy, a, short, hits) BY ShortIs
<1>5. HitsFit(hits) BY HitsAreFit
<1> HIDE DEF short
<1>6. Sound(policy, b, {}) /\ Admits(a, b) BY <1>3, AgeSound
<1> HIDE DEF b
<1>7. ShortFits(policy, b, short, hits) BY <1>4, <1>6, ShortFitsOn
<1>8. /\ Sound(policy, c, {}) /\ Admits(b, c)
      /\ ~Resubmit.on /\ b.known # {} => c.running # {}
  BY <1>5, <1>6, <1>7, AdmitWaitingSound
<1> HIDE DEF c
<1>9. Admits(sched, c)
  <2>1. Admits(sched, b) BY <1>3, <1>6, AdmitsOn
  <2> QED BY <1>8, <2>1, AdmitsOn
<1>10. c.out = << >> /\ c.error = "none" /\ c.resubmitted = << >> BY <1>9 DEF Admits
<1>11. ToSet(c.resubmitted) \subseteq ToSet(c.waiting)
  <2>1. ToSet(<< >>) = {} BY DEF ToSet
  <2> QED BY <1>10, <2>1
<1>12. /\ Sound(policy, t, {}) /\ StepFits(policy, t) /\ t.error = "none"
       /\ ToSet(t.resubmitted) \subseteq ToSet(t.waiting)
       /\ ~Resubmit.on /\ c.running # {} => t.out # << >>
  BY <1>8, <1>10, <1>11, ScheduleAdmittedSound
<1>13. b.known = sched.known BY <1>3, <1>6 DEF Admits
<1> HIDE DEF t
<1> QED BY <1>1, <1>8, <1>12, <1>13 DEF Scheduling

(* The second half, when everybody was rolled back.                        *)
LEMMA RecoverSound ==
  ASSUME policy \in Policies, NEW s, Scheduling(policy, s), s.out = << >>,
         s.resubmitted # << >>, ToSet(s.resubmitted) \subseteq ToSet(s.waiting),
         NEW hits, HitsFit(hits)
  PROVE  Scheduling(policy, Recover(s, hits))
<1> DEFINE first == Head(s.resubmitted)
           a == [s EXCEPT !.req[first].forced = TRUE,
                          !.waiting = <<first>> \o Without(@, first)]
           short == [r \in Requests |-> IsShort(a, r, hits)]
           c == AdmitWaiting(a, short, hits)
           t == ScheduleAdmitted(c)
<1>1. Recover(s, hits) = t BY Zenon DEF Recover
<1>2. first \in ToSet(s.waiting)
  <2>1. s.resubmitted \in Seq(Requests) BY DEF Scheduling, Sound, States
  <2>2. first \in ToSet(s.resubmitted)
    <3> HIDE DEF Distinct
    <3> QED BY <2>1, QueueHead
  <2> QED BY <2>2
<1> HIDE DEF first
<1>3. Sound(policy, a, {}) /\ Admits(s, a) BY <1>2, FrontSound DEF Scheduling
<1> HIDE DEF a
<1>4. ShortFits(policy, a, short, hits) BY ShortIs
<1> HIDE DEF short
<1>5. Sound(policy, c, {}) /\ Admits(a, c) BY <1>3, <1>4, AdmitWaitingSound
<1> HIDE DEF c
<1>6. c.out = << >> /\ c.error = "none" BY <1>3, <1>5 DEF Admits, Scheduling
<1>7. Sound(policy, t, {}) /\ StepFits(policy, t) /\ t.error = "none"
  BY <1>5, <1>6, ScheduleAdmittedSound
<1> HIDE DEF t
<1> QED BY <1>1, <1>7 DEF Scheduling

(* What holds between any two operations of the scheduler: it is sound,    *)
(* its step is within the budgets, nobody is left of the rolled-back ones, *)
(* and schedule() never raises because a promise was broken.               *)
SchedInv(p, s) ==
  /\ Sound(p, s, {})
  /\ StepFits(p, s)
  /\ s.resubmitted = << >>
  /\ s.error \in {"none", "no progress"}

(* What schedule() returns.                                                *)
LEMMA ReturnedSound ==
  ASSUME NEW p, NEW s, Scheduling(p, s)
  PROVE  /\ SchedInv(p, Returned(s))
         /\ s.out # << >> => Returned(s).error = "none"
<1> DEFINE e == IF s.error = "none" /\ s.out = << >> THEN "no progress" ELSE s.error
           o == IF s.error = "none" THEN s.out ELSE << >>
           t == Returned(s)
<1>1. s \in States /\ Sound(p, s, {}) /\ s.error = "none" BY DEF Scheduling, Sound
<1>2. t = [s EXCEPT !.resubmitted = << >>, !.tokensLeft = 0, !.seqsLeft = 0,
                    !.out = o, !.error = e]
  BY Zenon DEF Returned
<1>3. o = s.out /\ e \in {"none", "no progress"} /\ e \in Errors
  <2>1. o = s.out BY <1>1
  <2>2. e = "none" \/ e = "no progress" BY <1>1, Zenon
  <2>3. "none" \in Errors /\ "no progress" \in Errors BY DEF Errors
  <2> HIDE DEF e, o
  <2> QED BY <2>1, <2>2, <2>3
<1> HIDE DEF e, o, t
<1>4. << >> \in Seq(Requests) BY QueueEmpty
<1>5. /\ t \in States /\ t.req = s.req /\ t.known = s.known /\ t.running = s.running
      /\ t.out = s.out /\ t.waiting = s.waiting /\ t.launch = s.launch
      /\ t.common = s.common /\ t.resubmitted = << >> /\ t.error = e
  BY <1>1, <1>2, <1>3, <1>4 DEF States
<1>6. Same(s, t) BY <1>5 DEF Same, SameMembers, Alike
<1>7. Sound(p, t, {}) BY <1>1, <1>5, <1>6, SameSound
<1>8. StepFits(p, t) BY <1>5 DEF Scheduling, StepFits
<1>9. s.out # << >> => e = "none" BY <1>1 DEF e
<1> QED BY <1>3, <1>5, <1>7, <1>8, <1>9 DEF SchedInv, t

----------------------------------------------------------------------------
(* Every operation keeps the invariant.                                    *)

(* A new scheduler has made no promise.                                    *)
LEMMA InitSound == Init => policy \in Policies /\ SchedInv(policy, sched)
<1> SUFFICES ASSUME Init PROVE policy \in Policies /\ SchedInv(policy, sched) OBVIOUS
<1> DEFINE s == sched
<1>1. \A r \in Requests : Fresh(r) \in RequestState BY FreshState
<1>2. /\ s.known = {} /\ s.waiting = << >> /\ s.running = {} /\ s.launch = << >>
      /\ s.common = << >> /\ s.req = [r \in Requests |-> Fresh(r)]
      /\ s.resubmitted = << >> /\ s.out = << >> /\ s.error = "none"
      /\ s.tokensLeft = 0 /\ s.seqsLeft = 0
      /\ policy \in Policies
  BY DEF Init
<1>3. s \in States
  <2>1. << >> \in Seq(Requests) /\ << >> \in Seq(Items) BY QueueEmpty
  <2>2. s.req \in [Requests -> RequestState] BY <1>1, <1>2
  <2>3. s = [known |-> s.known, waiting |-> s.waiting, running |-> s.running,
             launch |-> s.launch, common |-> s.common, req |-> s.req,
             resubmitted |-> s.resubmitted, out |-> s.out,
             tokensLeft |-> s.tokensLeft, seqsLeft |-> s.seqsLeft, error |-> s.error]
    BY DEF Init
  <2>4. s.error \in Errors BY <1>2 DEF Errors
  <2> HIDE DEF s
  <2>5. /\ s.known \in SUBSET Requests /\ s.waiting \in Seq(Requests)
        /\ s.running \in SUBSET Requests /\ s.launch \in Seq(Requests)
        /\ s.common \in Seq(Requests) /\ s.resubmitted \in Seq(Requests)
        /\ s.out \in Seq(Items) /\ s.tokensLeft \in Nat /\ s.seqsLeft \in Nat
    BY <1>2, <2>1
  <2> QED BY <2>2, <2>3, <2>4, <2>5 DEF States
<1> HIDE DEF s
<1>4. ToSet(<< >>) = {} /\ Distinct(<< >>) BY QueueEmpty
<1>5. Queues(s)
  <2> HIDE DEF Distinct
  <2> QED BY <1>2, <1>4 DEF Queues
<1>6. ASSUME NEW r \in Requests PROVE Local(policy, s, {}, r)
  <2>1. s.req[r] = Fresh(r) BY <1>2
  <2>2. r \notin s.running /\ r \notin s.known /\ r \notin ToSet(s.launch) BY <1>2, <1>4
  <2>3. Fresh(r).attached = FALSE /\ Fresh(r).blocks = 0
        /\ Fresh(r).published * BlockSize < PromptLen[r]
    BY FreshState
  <2> QED BY <2>1, <2>2, <2>3 DEF Local
<1>7. Cardinality({}) = 0 BY FS_EmptySet
<1>8. Used(s) = 0 /\ Claimed(s) = 0
  <2>1. \A f : Counted(f, {}) = {} BY DEF Counted
  <2> QED BY <1>2, <1>7, <2>1, Zenon DEF Used, Claimed
<1>9. Ledger(s) BY <1>8, BudgetAssumption DEF Ledger
<1>10. ShortSlots(s) = 0 /\ Cardinality(s.running) = 0
  <2>1. { r \in s.running : s.req[r].slot } = {} BY <1>2
  <2> QED BY <1>2, <1>7, <2>1, Zenon DEF ShortSlots
<1>11. Slots(policy, s)
  <2>1. MaxSequences \in Nat BY BudgetAssumption
  <2>2. policy.short.on => policy.short.sequences \in Nat
                           /\ policy.short.sequences < MaxSequences
    BY <1>2, PolicyFacts DEF Short
  <2> QED BY <1>10, <2>1, <2>2 DEF Slots
<1>12. InFlight(s)
  <2>1. Len(s.out) = 0 BY <1>2
  <2> QED BY <2>1 DEF InFlight
<1>13. StepFits(policy, s)
  <2>1. Len(s.out) = 0 BY <1>2
  <2>2. IsFiniteSet(Positions(s.out)) /\ Cardinality(Positions(s.out)) = 0
    BY <1>2, NoPositions, Zenon
  <2>3. ToSet(s.launch) = {} BY <1>2, <1>4
  <2> QED BY <2>1, <2>2, <2>3, BudgetAssumption DEF StepFits
<1>14. Sound(policy, s, {}) BY <1>3, <1>5, <1>6, <1>9, <1>11, <1>12 DEF Sound
<1> QED BY <1>2, <1>13, <1>14 DEF SchedInv, s

(* A request arrives.                                                      *)
LEMMA AddKeeps ==
  ASSUME policy \in Policies, SchedInv(policy, sched), NEW r \in Requests, Add(r)
  PROVE  SchedInv(policy, sched')
<1> DEFINE t == [sched EXCEPT !.known = @ \cup {r}, !.waiting = Append(@, r),
                              !.req[r] = Fresh(r)]
<1>1. r \notin sched.known /\ sched' = t BY DEF Add
<1>2. /\ Sound(policy, t, {}) /\ t.launch = sched.launch
      /\ t.out = sched.out /\ t.resubmitted = sched.resubmitted /\ t.error = sched.error
  BY <1>1, AddSound DEF SchedInv
<1> HIDE DEF t
<1> QED BY <1>1, <1>2 DEF SchedInv, StepFits

(* A request is cancelled between two steps, or while others are in one.   *)
LEMMA CancelKeeps ==
  ASSUME policy \in Policies, SchedInv(policy, sched), NEW r \in Requests, Cancel(r)
  PROVE  SchedInv(policy, sched')
<1> DEFINE t == Removed(sched, r)
<1>1. r \notin Ids(sched) /\ sched' = t BY DEF Cancel, Scheduled, Ids
<1>2. Sound(policy, sched, {r}) BY Exempt DEF SchedInv
<1>3. /\ Sound(policy, t, {}) /\ ToSet(t.launch) = ToSet(sched.launch) \ {r}
      /\ t.out = sched.out /\ t.resubmitted = sched.resubmitted /\ t.error = sched.error
  BY <1>1, <1>2, RemovedSound
<1> HIDE DEF t
<1> QED BY <1>1, <1>3 DEF SchedInv, StepFits

(* schedule() is called.                                                   *)
LEMMA ScheduleKeeps ==
  ASSUME policy \in Policies, SchedInv(policy, sched), Schedule
  PROVE  /\ SchedInv(policy, sched')
         /\ ~Resubmit.on => sched'.error = "none"
<1>1. /\ sched.out = << >> /\ sched.error = "none" /\ sched.resubmitted = << >>
      /\ sched.known # {}
      /\ Sound(policy, sched, {})
  BY DEF Schedule, MaySchedule, SchedInv
<1>2. PICK hits \in Hits :
        sched' = IF /\ FirstPass(hits).error = "none" /\ FirstPass(hits).out = << >>
                    /\ FirstPass(hits).resubmitted # << >>
                 THEN Returned(Recover(FirstPass(hits), hits))
                 ELSE Returned(FirstPass(hits))
  BY Zenon DEF Schedule
<1> DEFINE s == FirstPass(hits)
<1>3. /\ Scheduling(policy, s) /\ ToSet(s.resubmitted) \subseteq ToSet(s.waiting)
      /\ ~Resubmit.on => s.out # << >>
  BY <1>1, FirstPassSound
<1>4. HitsFit(hits) BY <1>1, HitsAreFit
<1> HIDE DEF s
<1>5. CASE s.error = "none" /\ s.out = << >> /\ s.resubmitted # << >>
  <2> DEFINE t == Recover(s, hits)
  <2>1. Scheduling(policy, t) BY <1>3, <1>4, <1>5, RecoverSound
  <2>2. sched' = Returned(t) BY <1>2, <1>5 DEF s
  <2> HIDE DEF t
  <2> QED BY <1>3, <1>5, <2>1, <2>2, ReturnedSound
<1>6. CASE ~(s.error = "none" /\ s.out = << >> /\ s.resubmitted # << >>)
  <2>1. sched' = Returned(s) BY <1>2, <1>6 DEF s
  <2> QED BY <1>3, <2>1, ReturnedSound
<1> QED BY <1>5, <1>6

(* Who is served by a step, when the result of its first item is applied.  *)
LEMMA ServedTail ==
  ASSUME NEW out \in Seq(Items), out # << >>, NEW r \in Served(out)
  PROVE  \/ r \in Served(Tail(out))
         \/ r = Head(out).id /\ Head(out).output > 0
<1> DEFINE v == Tail(out)
           n == Len(out)
<1>1. /\ n \in Nat /\ n > 0 /\ DOMAIN v = 1 .. (n - 1) /\ DOMAIN out = 1 .. n
      /\ Head(out) = out[1] /\ \A i \in 1 .. (n - 1) : v[i] = out[i + 1]
  OBVIOUS
<1>2. PICK i \in 1 .. n : out[i].id = r /\ out[i].output > 0 BY <1>1 DEF Served
<1>3. r \in Requests BY DEF Served
<1>4. CASE i = 1 BY <1>1, <1>2, <1>4
<1>5. CASE i # 1
  <2>1. i - 1 \in DOMAIN v /\ v[i - 1] = out[i]
    <3>1. i - 1 \in 1 .. (n - 1) /\ (i - 1) + 1 = i BY <1>1, <1>5
    <3> QED BY <1>1, <3>1
  <2> HIDE DEF v
  <2> QED BY <1>2, <1>3, <2>1 DEF Served, v
<1> QED BY <1>4, <1>5

(* The step that is left fits its budgets, too.                            *)
LEMMA RestFits ==
  ASSUME NEW p, NEW s \in States, StepFits(p, s), s.out # << >>,
         NEW t, t.out = Tail(s.out), ToSet(t.launch) \subseteq ToSet(s.launch),
         Head(s.out).output > 0 => Head(s.out).id \notin ToSet(t.launch)
  PROVE  StepFits(p, t)
<1>1. s.out \in Seq(Items) BY DEF States
<1>2. /\ IsFiniteSet(Positions(s.out)) /\ Cardinality(Positions(s.out)) <= TokenBudget
      /\ Len(s.out) <= MaxSequences
  BY DEF StepFits
<1> DEFINE a == Cardinality(Positions(s.out))
           b == Cardinality(Positions(t.out))
<1>3. IsFiniteSet(Positions(t.out)) /\ b <= a /\ Len(t.out) <= Len(s.out)
  BY <1>1, <1>2, PositionsTail
<1>4. a \in Nat /\ b \in Nat BY <1>2, <1>3, FS_CardinalityType
<1>5. Len(s.out) \in Nat /\ Len(t.out) \in Nat BY <1>1
<1>6. b <= TokenBudget /\ Len(t.out) <= MaxSequences
  <2> DEFINE k == Len(s.out)
             l == Len(t.out)
  <2>1. /\ b <= a /\ a <= TokenBudget /\ l <= k /\ k <= MaxSequences
        /\ a \in Nat /\ b \in Nat /\ k \in Nat /\ l \in Nat
    BY <1>2, <1>3, <1>4, <1>5
  <2> HIDE DEF a, b, k, l
  <2>2. b <= TokenBudget /\ l <= MaxSequences BY <2>1, BudgetAssumption
  <2> QED BY <2>2 DEF l
<1>7. ASSUME p.short.sequences = 1 PROVE ToSet(t.launch) \subseteq Served(t.out)
  <2> SUFFICES ASSUME NEW r \in ToSet(t.launch) PROVE r \in Served(t.out) OBVIOUS
  <2>1. r \in Served(s.out) BY <1>7 DEF StepFits
  <2> QED BY <1>1, <2>1, ServedTail
<1> QED BY <1>3, <1>6, <1>7 DEF StepFits

(* A result is applied.                                                    *)
LEMMA CompleteKeeps ==
  ASSUME policy \in Policies, SchedInv(policy, sched), Complete
  PROVE  SchedInv(policy, sched')
<1> DEFINE item == Head(sched.out)
           r == item.id
           rest == [sched EXCEPT !.out = Tail(@)]
<1>1. sched.out # << >> /\ Sound(policy, sched, {}) /\ sched \in States
      /\ sched.resubmitted = << >> /\ sched.error \in {"none", "no progress"}
      /\ StepFits(policy, sched)
  BY DEF Complete, SchedInv, Sound
<1>2. PICK new \in (IF item.output = 0 THEN {0} ELSE 1 .. item.output) :
      \E cached \in 0 .. AtMost(item.lookahead, AtLeast(new - 1, 0)) :
        LET s == Completed(rest, r, item.tokens + cached, new)
        IN  \/ s.req[r].tokens < MaxTokens[r] /\ sched' = s
            \/ new > 0 /\ sched' = Removed(s, r)
  BY Zenon DEF Complete
<1>3. PICK cached \in 0 .. AtMost(item.lookahead, AtLeast(new - 1, 0)) :
        LET s == Completed(rest, r, item.tokens + cached, new)
        IN  \/ s.req[r].tokens < MaxTokens[r] /\ sched' = s
            \/ new > 0 /\ sched' = Removed(s, r)
  BY <1>2
<1> DEFINE s == Completed(rest, r, item.tokens + cached, new)
<1>4. \/ s.req[r].tokens < MaxTokens[r] /\ sched' = s
      \/ new > 0 /\ sched' = Removed(s, r)
  BY <1>3, Zenon
<1>5. /\ Taken(sched, rest, r) /\ item \in Items /\ r \in Requests
      /\ Sound(policy, rest, {r}) /\ ItemOf(rest, item)
  BY <1>1, TakenSound
<1> HIDE DEF rest, item
<1>6. Result(item, new, cached)
  <2>1. item.output \in Nat /\ item.lookahead \in Nat BY <1>5 DEF Items
  <2>2. new \in Nat /\ (item.output = 0 => new = 0)
        /\ (item.output > 0 => new > 0 /\ new <= item.output)
    BY <1>2, <2>1
  <2>3. AtMost(item.lookahead, AtLeast(new - 1, 0)) \in Nat
        /\ AtMost(item.lookahead, AtLeast(new - 1, 0)) <= item.lookahead
        /\ (new > 0 => AtMost(item.lookahead, AtLeast(new - 1, 0)) <= new - 1)
        /\ (new = 0 => AtMost(item.lookahead, AtLeast(new - 1, 0)) = 0)
    BY <2>1, <2>2 DEF AtMost, AtLeast
  <2>4. cached \in Nat /\ cached <= AtMost(item.lookahead, AtLeast(new - 1, 0))
    BY <2>3
  <2> QED BY <2>1, <2>2, <2>3, <2>4 DEF Result
<1>7. rest.req[r].tokens < MaxTokens[r]
  <2>1. r \in sched.running /\ rest.req = sched.req BY <1>5 DEF Taken
  <2>2. r \in sched.known BY <1>1, <2>1 DEF Sound, Queues
  <2>3. Local(policy, sched, {}, r) BY <1>1, <1>5 DEF Sound
  <2> QED BY <2>1, <2>2, <2>3 DEF Local
<1>8. r \notin Ids(rest) /\ rest.out = Tail(sched.out) /\ rest.launch = sched.launch
      /\ rest.resubmitted = sched.resubmitted /\ rest.error = sched.error
  BY <1>5 DEF Taken
<1>9. /\ Sound(policy, s, {r})
      /\ s.req[r].tokens < MaxTokens[r] => Sound(policy, s, {})
      /\ s.out = rest.out /\ Ids(s) = Ids(rest)
      /\ s.resubmitted = rest.resubmitted /\ s.error = rest.error
      /\ ToSet(s.launch) \subseteq ToSet(rest.launch)
      /\ new > 0 => r \notin ToSet(s.launch)
  BY <1>5, <1>6, <1>7, <1>8, CompletedSound
<1> HIDE DEF s
<1>10. item.output > 0 => new > 0 BY <1>6 DEF Result
<1>11. CASE s.req[r].tokens < MaxTokens[r] /\ sched' = s
  <2>1. Sound(policy, s, {}) BY <1>9, <1>11
  <2>2. StepFits(policy, s)
    <3>1. Head(sched.out).output > 0 => Head(sched.out).id \notin ToSet(s.launch)
      BY <1>9, <1>10 DEF item
    <3>2. s.out = Tail(sched.out) /\ ToSet(s.launch) \subseteq ToSet(sched.launch)
      BY <1>8, <1>9
    <3> QED BY <1>1, <3>1, <3>2, RestFits
  <2> QED BY <1>1, <1>8, <1>9, <1>11, <2>1, <2>2 DEF SchedInv
<1>12. CASE new > 0 /\ sched' = Removed(s, r)
  <2> DEFINE t == Removed(s, r)
  <2>1. /\ Sound(policy, t, {}) /\ ToSet(t.launch) = ToSet(s.launch) \ {r}
        /\ t.out = s.out /\ t.resubmitted = s.resubmitted /\ t.error = s.error
    BY <1>5, <1>8, <1>9, RemovedSound
  <2> HIDE DEF t
  <2>2. StepFits(policy, t)
    <3>1. Head(sched.out).output > 0 => Head(sched.out).id \notin ToSet(t.launch)
      BY <2>1 DEF item
    <3>2. t.out = Tail(sched.out) /\ ToSet(t.launch) \subseteq ToSet(sched.launch)
      BY <1>8, <1>9, <2>1
    <3> QED BY <1>1, <3>1, <3>2, RestFits
  <2>3. sched' = t BY <1>12 DEF t
  <2> QED BY <1>1, <1>8, <1>9, <2>1, <2>2, <2>3 DEF SchedInv
<1> QED BY <1>4, <1>11, <1>12

(* A result is thrown away.                                                *)
LEMMA DiscardKeeps ==
  ASSUME policy \in Policies, SchedInv(policy, sched), Discard
  PROVE  SchedInv(policy, sched')
<1> DEFINE item == Head(sched.out)
           r == item.id
           rest == [sched EXCEPT !.out = Tail(@)]
           t == Removed(rest, r)
<1>1. sched.out # << >> /\ Sound(policy, sched, {}) /\ sched \in States
      /\ sched.resubmitted = << >> /\ sched.error \in {"none", "no progress"}
      /\ StepFits(policy, sched) /\ sched' = t
  BY DEF Discard, SchedInv, Sound
<1>2. Taken(sched, rest, r) /\ r \in Requests /\ Sound(policy, rest, {r})
  BY <1>1, TakenSound
<1> HIDE DEF rest, item
<1>3. r \notin Ids(rest) /\ rest.out = Tail(sched.out) /\ rest.launch = sched.launch
      /\ rest.resubmitted = sched.resubmitted /\ rest.error = sched.error
  BY <1>2 DEF Taken
<1>4. /\ Sound(policy, t, {}) /\ ToSet(t.launch) = ToSet(rest.launch) \ {r}
      /\ t.out = rest.out /\ t.resubmitted = rest.resubmitted /\ t.error = rest.error
  BY <1>2, <1>3, RemovedSound
<1> HIDE DEF t
<1>5. StepFits(policy, t)
  <2>1. Head(sched.out).output > 0 => Head(sched.out).id \notin ToSet(t.launch)
    BY <1>4 DEF item
  <2>2. t.out = Tail(sched.out) /\ ToSet(t.launch) \subseteq ToSet(sched.launch)
    BY <1>3, <1>4
  <2> QED BY <1>1, <2>1, <2>2, RestFits
<1> QED BY <1>1, <1>3, <1>4, <1>5 DEF SchedInv

----------------------------------------------------------------------------
(* The theorems.                                                           *)

(* The inductive invariant: between any two operations, with one of the    *)
(* configured policies, everything above holds.                            *)
SchedulerInv == policy \in Policies /\ SchedInv(policy, sched)

(* No operation breaks it.                                                 *)
LEMMA SchedulerStep == SchedulerInv /\ [Next]_vars => SchedulerInv'
<1> SUFFICES ASSUME SchedulerInv, [Next]_vars PROVE SchedulerInv' OBVIOUS
<1>1. policy \in Policies /\ SchedInv(policy, sched) BY DEF SchedulerInv
<1>2. CASE UNCHANGED vars BY <1>1, <1>2 DEF vars, SchedulerInv
<1>3. CASE Next
  <2>1. policy' = policy BY <1>3 DEF Next, Add, Cancel, Schedule, Complete, Discard
  <2>2. ASSUME NEW r \in Requests, Add(r) PROVE SchedInv(policy, sched')
    BY <1>1, <2>2, AddKeeps
  <2>3. ASSUME NEW r \in Requests, Cancel(r) PROVE SchedInv(policy, sched')
    BY <1>1, <2>3, CancelKeeps
  <2>4. CASE Schedule BY <1>1, <2>1, <2>4, ScheduleKeeps DEF SchedulerInv
  <2>5. CASE Complete BY <1>1, <2>1, <2>5, CompleteKeeps DEF SchedulerInv
  <2>6. CASE Discard BY <1>1, <2>1, <2>6, DiscardKeeps DEF SchedulerInv
  <2>7. SchedInv(policy, sched') => SchedulerInv' BY <1>1, <2>1 DEF SchedulerInv
  <2> QED BY <1>3, <2>2, <2>3, <2>4, <2>5, <2>6, <2>7 DEF Next
<1> QED BY <1>2, <1>3

(* The scheduler's invariant, in every state of every run.                 *)
THEOREM SchedulerInvariant == Spec => []SchedulerInv
<1>1. Init => SchedulerInv BY InitSound DEF SchedulerInv
<1> QED BY <1>1, SchedulerStep, PTL DEF Spec

(* The end of a step raises nothing.                                       *)
LEMMA EndKeepsError ==
  ASSUME sched \in States, Complete \/ Discard PROVE sched'.error = sched.error
<1> DEFINE rest == [sched EXCEPT !.out = Tail(@)]
           r == Head(sched.out).id
<1>1. rest.error = sched.error /\ rest \in States
  <2>1. sched.out # << >> BY DEF Complete, Discard
  <2>2. Tail(sched.out) \in Seq(Items) BY <2>1 DEF States
  <2> QED BY <2>2 DEF States
<1> HIDE DEF rest, r
<1>2. ASSUME NEW n, NEW m
      PROVE  /\ Completed(rest, r, n, m).error = rest.error
             /\ Removed(Completed(rest, r, n, m), r).error = rest.error
             /\ Removed(rest, r).error = rest.error
  BY <1>1 DEF States, Completed, Removed
<1>3. CASE Discard
  <2>1. sched' = Removed(rest, r) BY <1>3, Zenon DEF Discard, rest, r
  <2> QED BY <1>1, <1>2, <2>1
<1>4. CASE Complete
  <2>1. PICK n, m : sched' = Completed(rest, r, n, m)
                    \/ sched' = Removed(Completed(rest, r, n, m), r)
    BY <1>4, Zenon DEF Complete, rest, r
  <2> QED BY <1>1, <1>2, <2>1
<1> QED BY <1>3, <1>4

(* Without self-resubmission the scheduler always finds work: schedule()   *)
(* never raises, whatever is waiting, admitted or served.                  *)
THEOREM SchedulerNeverStuck == Spec => [](NeverStuck \/ Resubmit.on)
<1> DEFINE Inv == SchedulerInv /\ (NeverStuck \/ Resubmit.on)
<1>1. Init => Inv
  <2>1. Init => SchedulerInv BY InitSound DEF SchedulerInv
  <2>2. Init => NeverStuck BY DEF Init, NeverStuck
  <2> QED BY <2>1, <2>2
<1>2. Inv /\ [Next]_vars => Inv'
  <2> SUFFICES ASSUME SchedulerInv, NeverStuck, ~Resubmit.on, [Next]_vars PROVE NeverStuck'
    <3>1. SchedulerInv /\ [Next]_vars => SchedulerInv' BY SchedulerStep
    <3>2. [Next]_vars => policy' = policy
      BY DEF vars, Next, Add, Cancel, Schedule, Complete, Discard
    <3>3. [Next]_vars => (Resubmit.on)' = Resubmit.on BY <3>2 DEF Resubmit
    <3> QED BY <3>1, <3>3
  <2>1. /\ policy \in Policies /\ SchedInv(policy, sched) /\ sched \in States
        /\ sched.error = "none"
    BY DEF SchedulerInv, SchedInv, Sound, NeverStuck
  <2>2. ASSUME NEW s \in States, NEW r PROVE Removed(s, r).error = s.error
    BY <2>2 DEF Removed, States
  <2>3. ASSUME NEW r \in Requests, Add(r) PROVE sched'.error = "none"
    BY <2>1, <2>3 DEF Add, States
  <2>4. ASSUME NEW r \in Requests, Cancel(r) PROVE sched'.error = "none"
    BY <2>1, <2>2, <2>4 DEF Cancel
  <2>5. CASE Schedule BY <2>1, <2>5, ScheduleKeeps DEF NeverStuck
  <2>6. CASE Complete \/ Discard BY <2>1, <2>6, EndKeepsError DEF NeverStuck
  <2>7. CASE UNCHANGED vars BY <2>1, <2>7 DEF vars, NeverStuck
  <2> QED BY <2>3, <2>4, <2>5, <2>6, <2>7 DEF Next, NeverStuck
<1>3. Inv => NeverStuck \/ Resubmit.on OBVIOUS
<1> HIDE DEF Inv
<1> QED BY <1>1, <1>2, <1>3, PTL DEF Spec

(* A request never has more tokens than it may, nor computed tokens that   *)
(* it does not have.                                                       *)
THEOREM SchedulerTypeOK == Spec => []TypeOK
<1>1. SchedulerInv => TypeOK
  <2> SUFFICES ASSUME SchedulerInv PROVE TypeOK OBVIOUS
  <2>1. /\ sched \in States /\ Queues(sched)
        /\ \A r \in Requests : Local(policy, sched, {}, r)
    BY DEF SchedulerInv, SchedInv, Sound
  <2>2. ASSUME NEW r \in sched.known
        PROVE  /\ sched.req[r].tokens \in PromptLen[r] .. MaxTokens[r] - 1
               /\ sched.req[r].computed < sched.req[r].tokens
    <3>1. r \in Requests BY <2>1 DEF States
    <3>2. /\ sched.req[r].tokens \in PromptLen[r] .. MaxTokens[r]
          /\ sched.req[r].tokens < MaxTokens[r]
          /\ sched.req[r].computed < sched.req[r].tokens
      BY <2>1, <3>1 DEF Local
    <3>3. PromptLen[r] \in Nat /\ MaxTokens[r] \in Nat BY <3>1, RequestAssumption
    <3> QED BY <3>2, <3>3
  <2> QED BY <2>1, <2>2 DEF TypeOK, States
<1> QED BY <1>1, SchedulerInvariant, PTL

(* Every request is in exactly one queue, once, and owns KV if and only if *)
(* it runs, over any run of additions, admissions, handovers, rollbacks,   *)
(* first outputs and removals.                                             *)
THEOREM SchedulerQueuesExact == Spec => []QueuesExact
<1>1. SchedulerInv => QueuesExact
  <2> SUFFICES ASSUME SchedulerInv PROVE QueuesExact OBVIOUS
  <2> DEFINE w == sched.waiting
             a == sched.launch
             c == sched.common
  <2>1. /\ sched \in States /\ Queues(sched)
        /\ \A r \in Requests : Local(policy, sched, {}, r)
    BY DEF SchedulerInv, SchedInv, Sound
  <2>2. /\ w \in Seq(Requests) /\ a \in Seq(Requests) /\ c \in Seq(Requests)
        /\ sched.running \subseteq Requests
    BY <2>1 DEF States
  <2>3. /\ Distinct(w) /\ Distinct(a) /\ Distinct(c)
        /\ ToSet(a) \cap ToSet(c) = {} /\ ToSet(w) \cap sched.running = {}
        /\ sched.running = ToSet(a) \cup ToSet(c)
        /\ sched.known = ToSet(w) \cup sched.running
    BY <2>1 DEF Queues
  <2>4. Len(w) + Len(a) + Len(c) = Cardinality(sched.known)
    <3> HIDE DEF Distinct, w, a, c
    <3>1. /\ IsFiniteSet(ToSet(w)) /\ Cardinality(ToSet(w)) = Len(w)
          /\ IsFiniteSet(ToSet(a)) /\ Cardinality(ToSet(a)) = Len(a)
          /\ IsFiniteSet(ToSet(c)) /\ Cardinality(ToSet(c)) = Len(c)
      BY <2>2, <2>3, QueueSize
    <3>2. /\ IsFiniteSet(ToSet(a) \cup ToSet(c))
          /\ Cardinality(ToSet(a) \cup ToSet(c)) = Cardinality(ToSet(a)) + Cardinality(ToSet(c))
      BY <2>3, <3>1, DisjointSizes
    <3>3. Cardinality(ToSet(w) \cup sched.running)
            = Cardinality(ToSet(w)) + Cardinality(sched.running)
      BY <2>3, <3>1, <3>2, DisjointSizes
    <3>4. Cardinality(sched.known) = Cardinality(ToSet(w)) + Cardinality(sched.running)
      BY <2>3, <3>3, Zenon
    <3>5. Cardinality(sched.running) = Cardinality(ToSet(a)) + Cardinality(ToSet(c))
      BY <2>3, <3>2, Zenon
    <3>6. Len(w) \in Nat /\ Len(a) \in Nat /\ Len(c) \in Nat BY <2>2
    <3> QED BY <3>1, <3>4, <3>5, <3>6
  <2>5. \A r \in Requests :
          /\ sched.req[r].attached <=> r \in sched.running
          /\ r \notin sched.running => sched.req[r].blocks = 0
          /\ r \in ToSet(a) <=>
               r \in sched.running /\ sched.req[r].short /\ ~sched.req[r].visible
    BY <2>1 DEF Local
  <2>6. ToSet(a) = { r \in sched.running : sched.req[r].short /\ ~sched.req[r].visible }
    BY <2>2, <2>3, <2>5
  <2>7. ToSet(w) \cup (ToSet(a) \cup ToSet(c)) = sched.known
        /\ ToSet(a) \cup ToSet(c) = sched.running
    BY <2>3
  <2> QED BY <2>4, <2>5, <2>6, <2>7 DEF QueuesExact
<1> QED BY <1>1, SchedulerInvariant, PTL

(* A step stays within the token and the sequence budget, has KV for all   *)
(* of its positions, and neither lane takes the slots kept for the other.  *)
THEOREM SchedulerWithinBudget == Spec => []WithinBudget
<1>1. SchedulerInv => WithinBudget
  <2> SUFFICES ASSUME SchedulerInv PROVE WithinBudget OBVIOUS
  <2>1. /\ sched \in States /\ Slots(policy, sched) /\ InFlight(sched)
        /\ StepFits(policy, sched)
    BY DEF SchedulerInv, SchedInv, Sound
  <2>2. sched.out \in Seq(Items) BY <2>1 DEF States
  <2>3. Cardinality(Positions(sched.out)) <= TokenBudget /\ Len(sched.out) <= MaxSequences
    BY <2>1 DEF StepFits
  <2>4. Cardinality(Scheduled) = Len(sched.out)
    <3> DEFINE v == [i \in 1 .. Len(sched.out) |-> sched.out[i].id]
    <3>1. v \in Seq(Requests) /\ Len(v) = Len(sched.out)
      <4>1. \A i \in 1 .. Len(sched.out) : sched.out[i].id \in Requests
        <5>1. \A i \in 1 .. Len(sched.out) : sched.out[i] \in Items BY <2>2
        <5> QED BY <5>1 DEF Items
      <4>2. Len(sched.out) \in Nat BY <2>2
      <4> QED BY <4>1, <4>2
    <3>2. Distinct(v) BY <2>1, <3>1 DEF InFlight, Distinct
    <3>3. ToSet(v) = Scheduled
      <4>1. DOMAIN sched.out = 1 .. Len(sched.out) BY <2>2
      <4> QED BY <4>1 DEF ToSet, Scheduled
    <3> HIDE DEF v, Distinct
    <3>4. Cardinality(ToSet(v)) = Len(v) BY <3>1, <3>2, QueueSize
    <3> QED BY <3>1, <3>3, <3>4, Zenon
  <2>5. \A i \in DOMAIN sched.out :
          LET item == sched.out[i]
              q == sched.req[item.id]
          IN  /\ item.tokens > 0
              /\ q.computed + item.tokens + item.lookahead <= q.blocks * BlockSize
              /\ item.output > 0 => q.computed + item.tokens = q.tokens
    <3>1. DOMAIN sched.out = 1 .. Len(sched.out) BY <2>2
    <3> QED BY <2>1, <3>1 DEF InFlight, ItemOf
  <2>6. /\ Cardinality(sched.running) <= MaxSequences
        /\ Short.on => /\ ShortSlots(sched) <= Short.sequences
                       /\ Cardinality(sched.running) - ShortSlots(sched)
                            <= MaxSequences - Short.sequences
    BY <2>1 DEF Slots, Short
  <2> QED BY <2>3, <2>4, <2>5, <2>6 DEF WithinBudget
<1> QED BY <1>1, SchedulerInvariant, PTL

(* With one reserved sequence a short request has its first token in the   *)
(* step it is admitted in, whatever is prefilled beside it.                *)
THEOREM SchedulerFirstTokenAtOnce == Spec => []FirstTokenAtOnce
<1>1. SchedulerInv => FirstTokenAtOnce
  BY DEF SchedulerInv, SchedInv, StepFits, Served, FirstTokenAtOnce, Short
<1> QED BY <1>1, SchedulerInvariant, PTL

(* schedule() never raises because a request that is admitted lost the     *)
(* blocks it was promised, has nothing to compute, or has all the tokens   *)
(* it may have: what is left of NeverStuck is "no progress".               *)
PromisesKept ==
  sched.error \notin
    {"lost completion guarantee", "no pending tokens", "token limit reached"}

(* What is used and what is promised always fits the pool, so that no      *)
(* promise is ever broken.                                                 *)
THEOREM SchedulerPromisesKept == Spec => [](PromisesKept /\ Ledger(sched))
<1>1. SchedulerInv => PromisesKept /\ Ledger(sched)
  BY DEF SchedulerInv, SchedInv, Sound, PromisesKept
<1> QED BY <1>1, SchedulerInvariant, PTL

=============================================================================
