---------------------------- MODULE AlgorithmProofs ----------------------------
(* Proofs about the pure algorithms, on any input: KnowledgeQueries (searches,  *)
(* the repair inbox and the release gate), TurnQueries (the model window and    *)
(* the experience of a turn) and QualityQueries (the trends and the history of  *)
(* reviews), with the lemmas about orders and lists they rest on.               *)
EXTENDS KnowledgeQueries, TurnQueries, QualityQueries, FiniteSetTheorems,
        SequenceTheorems, WellFoundedInduction, TLAPS

-----------------------------------------------------------------------------
(* Order                                                                       *)

StrictOrder(S, order) ==
  /\ \A a \in S : <<a, a>> \notin order
  /\ \A a, b, c \in S : <<a, b>> \in order /\ <<b, c>> \in order => <<a, c>> \in order
  /\ \A a, b \in S : a = b \/ <<a, b>> \in order \/ <<b, a>> \in order

(* A list in order: each element of S once, in its place. *)
Lists(s, S, order) ==
  /\ s \in Seq(S) /\ Len(s) = Cardinality(S)
  /\ \A x \in S : \E n \in 1..Len(s) : s[n] = x
  /\ \A i, j \in 1..Len(s) : i < j => <<s[i], s[j]>> \in order

(* Counting what comes before each element puts them on the places 1..n, one on *)
(* each, and in order.                                                          *)
LEMMA OrderedLists ==
  ASSUME NEW S, IsFiniteSet(S), NEW order, StrictOrder(S, order)
  PROVE  Lists(Ordered(S, order), S, order)
<1> DEFINE Ahead(c) == {b \in S : <<b, c>> \in order}
<1>0. PICK N : N = Cardinality(S)
  OBVIOUS
<1>1. N \in Nat
  BY <1>0, FS_CardinalityType
<1>2. PICK place : place = [c \in S |-> Cardinality(Ahead(c)) + 1]
  OBVIOUS
<1>3. \A c \in S : IsFiniteSet(Ahead(c)) /\ Cardinality(Ahead(c)) \in Nat
  <2>1. \A c \in S : Ahead(c) \in SUBSET S
    OBVIOUS
  <2> QED
    BY <2>1, FS_Subset, FS_CardinalityType
<1>4. ASSUME NEW c \in S PROVE Cardinality(Ahead(c)) <= N - 1
  <2>1. Ahead(c) \in SUBSET (S \ {c})
    BY DEF StrictOrder
  <2> HIDE DEF Ahead
  <2>2. IsFiniteSet(S \ {c}) /\ Cardinality(S \ {c}) = N - 1
    BY <1>0, FS_RemoveElement
  <2> QED
    BY <2>1, <2>2, FS_Subset
<1>5. ASSUME NEW a \in S, NEW b \in S, <<a, b>> \in order
      PROVE  Cardinality(Ahead(a)) < Cardinality(Ahead(b))
  <2>1. Ahead(a) \cup {a} \in SUBSET Ahead(b) /\ a \notin Ahead(a)
    BY <1>5 DEF StrictOrder
  <2>2. Cardinality(Ahead(a) \cup {a}) = Cardinality(Ahead(a)) + 1
    BY <1>3, <2>1, FS_AddElement
  <2>3. Cardinality(Ahead(a) \cup {a}) <= Cardinality(Ahead(b))
    BY <1>3, <2>1, FS_Subset
  <2> QED
    BY <1>3, <2>2, <2>3
<1>6. \A c \in S : place[c] = Cardinality(Ahead(c)) + 1
  BY <1>2
<1> HIDE DEF Ahead
<1>7. place \in [S -> 1..N]
  <2>1. place = [c \in S |-> place[c]]
    BY <1>2
  <2>2. \A c \in S : place[c] \in 1..N
    BY <1>1, <1>3, <1>4, <1>6
  <2> QED
    BY <2>1, <2>2
<1>8. \A a, b \in S : <<a, b>> \in order => place[a] < place[b]
  BY <1>3, <1>5, <1>6
<1>9. place \in Injection(S, 1..N)
  <2>1. \A c \in S : place[c] \in Nat
    BY <1>7
  <2>2. ASSUME NEW a \in S, NEW b \in S, a # b PROVE place[a] # place[b]
    <3>1. <<a, b>> \in order \/ <<b, a>> \in order
      BY <2>2 DEF StrictOrder
    <3>2. place[a] < place[b] \/ place[b] < place[a]
      BY <1>8, <3>1
    <3> QED
      BY <2>1, <3>2
  <2> QED
    BY <1>7, <2>2 DEF Injection, IsInjective
<1>10. place \in Surjection(S, 1..N)
  <2>1. IsFiniteSet(1..N) /\ Cardinality(1..N) = N
    BY <1>1, FS_Interval
  <2> QED
    BY <1>0, <1>9, <2>1, FS_Injection
<1>11. \A n \in 1..N : \E c \in S : place[c] = n
  BY <1>10 DEF Surjection
<1>s. PICK s : s = Ordered(S, order)
  OBVIOUS
<1>12. s = [n \in 1..N |-> CHOOSE x \in S : Cardinality(Ahead(x)) + 1 = n]
  BY <1>0, <1>s DEF Ordered, Ahead
<1>13. \A n \in 1..N : s[n] \in S /\ place[s[n]] = n
  <2>1. \A n \in 1..N : \E x \in S : Cardinality(Ahead(x)) + 1 = n
    BY <1>6, <1>11
  <2>2. ASSUME NEW n \in 1..N PROVE s[n] \in S /\ Cardinality(Ahead(s[n])) + 1 = n
    BY <1>12, <2>1
  <2> QED
    BY <1>6, <2>2
<1>14. s \in Seq(S) /\ Len(s) = N
  <2>1. s = [n \in 1..N |-> s[n]]
    BY <1>12
  <2>2. s \in [1..N -> S]
    BY <1>13, <2>1
  <2> QED
    BY <1>1, <2>2
<1>15. ASSUME NEW x \in S PROVE \E n \in 1..N : s[n] = x
  <2>1. place[x] \in 1..N /\ s[place[x]] \in S /\ place[s[place[x]]] = place[x]
    BY <1>7, <1>13
  <2>2. s[place[x]] = x
    BY <1>9, <2>1 DEF Injection, IsInjective
  <2> QED
    BY <2>1, <2>2
<1>16. ASSUME NEW i \in 1..N, NEW j \in 1..N, i < j PROVE <<s[i], s[j]>> \in order
  <2>1. s[i] \in S /\ s[j] \in S /\ place[s[i]] = i /\ place[s[j]] = j
    BY <1>13
  <2>2. ~(<<s[j], s[i]>> \in order) /\ s[i] # s[j]
    BY <1>1, <1>8, <1>16, <2>1
  <2> QED
    BY <2>1, <2>2 DEF StrictOrder
<1> QED
  BY <1>0, <1>s, <1>14, <1>15, <1>16 DEF Lists

LEMMA FirstFewKeeps ==
  ASSUME NEW S, NEW s \in Seq(S), NEW limit \in Nat
  PROVE  LET few == FirstFew(s, limit)
         IN  /\ few \in Seq(S)
             /\ Len(few) = (IF Len(s) < limit THEN Len(s) ELSE limit)
             /\ \A i \in 1..Len(few) : few[i] = s[i]
<1>1. PICK n : n = (IF Len(s) < limit THEN Len(s) ELSE limit)
  OBVIOUS
<1>2. Len(s) \in Nat /\ n \in Nat /\ n <= Len(s)
  BY <1>1, LenProperties
<1>3. FirstFew(s, limit) = SubSeq(s, 1, n)
  BY <1>1 DEF FirstFew
<1>4. \A i \in 1..n : s[i] \in S
  BY <1>2, ElementOfSeq
<1>5. /\ SubSeq(s, 1, n) \in Seq(S)
      /\ Len(SubSeq(s, 1, n)) = IF 1 <= n THEN n - 1 + 1 ELSE 0
      /\ \A i \in 1..(n - 1 + 1) : SubSeq(s, 1, n)[i] = s[1 + i - 1]
  BY <1>2, <1>4, SubSeqProperties
<1>6. Len(SubSeq(s, 1, n)) = n /\ n - 1 + 1 = n
  BY <1>2, <1>5
<1>7. \A i \in 1..n : SubSeq(s, 1, n)[i] = s[i]
  BY <1>2, <1>5, <1>6
<1> QED
  BY <1>1, <1>3, <1>5, <1>6, <1>7

(* What is kept of an ordered list comes before what is not. *)
KeepsBest(few, S, order, limit) ==
  /\ few \in Seq(S) /\ Range(few) \subseteq S
  /\ Len(few) = (IF Cardinality(S) < limit THEN Cardinality(S) ELSE limit)
  /\ \A i, j \in 1..Len(few) : i < j => <<few[i], few[j]>> \in order
  /\ \A c \in Range(few), x \in S \ Range(few) : <<c, x>> \in order
  /\ Cardinality(S) <= limit => Range(few) = S
  /\ IsFiniteSet(Range(few)) /\ Cardinality(Range(few)) <= limit

LEMMA BestFew ==
  ASSUME NEW S, IsFiniteSet(S), NEW order, NEW all, Lists(all, S, order), NEW limit \in Nat,
         NEW few, few = FirstFew(all, limit)
  PROVE  KeepsBest(few, S, order, limit)
<1>1. /\ all \in Seq(S) /\ Len(all) = Cardinality(S) /\ Len(all) \in Nat
      /\ \A x \in S : \E n \in 1..Len(all) : all[n] = x
      /\ \A i, j \in 1..Len(all) : i < j => <<all[i], all[j]>> \in order
  BY LenProperties DEF Lists
<1>2. /\ few \in Seq(S)
      /\ Len(few) = (IF Len(all) < limit THEN Len(all) ELSE limit)
      /\ \A i \in 1..Len(few) : few[i] = all[i]
  BY <1>1, FirstFewKeeps
<1>N. PICK N : N = Len(all)
  OBVIOUS
<1>n. PICK n : n = Len(few)
  OBVIOUS
<1>3. n \in Nat /\ N \in Nat /\ n <= N /\ n <= limit /\ (N <= limit => n = N) /\ DOMAIN few = 1..n
  BY <1>1, <1>2, <1>N, <1>n, LenProperties
<1>4. \A i \in 1..n : few[i] \in S /\ i \in 1..N /\ few[i] = all[i]
  BY <1>1, <1>2, <1>3, <1>n, <1>N, ElementOfSeq
<1>5. Range(few) = {few[i] : i \in 1..n}
  BY <1>3 DEF Range
<1>6. Range(few) \subseteq S
  BY <1>4, <1>5
<1>7. \A i, j \in 1..n : i < j => <<few[i], few[j]>> \in order
  BY <1>1, <1>4, <1>N
<1>8. ASSUME NEW c \in Range(few), NEW x \in S \ Range(few) PROVE <<c, x>> \in order
  <2>1. PICK i \in 1..n : few[i] = c
    BY <1>5
  <2>2. PICK j \in 1..N : all[j] = x
    BY <1>1, <1>N
  <2>3. j \notin 1..n
    BY <1>4, <1>5, <2>2
  <2>4. i < j /\ i \in 1..N
    BY <1>3, <2>3
  <2> QED
    BY <1>1, <1>4, <1>N, <2>1, <2>2, <2>4
<1>9. ASSUME Cardinality(S) <= limit PROVE Range(few) = S
  <2>1. n = N
    BY <1>1, <1>3, <1>9, <1>N
  <2>2. \A x \in S : \E i \in 1..n : few[i] = x
    BY <1>1, <1>4, <1>N, <2>1
  <2> QED
    BY <1>5, <1>6, <2>2
<1>10. IsFiniteSet(Range(few)) /\ Cardinality(Range(few)) <= limit
  <2>1. IsFiniteSet(1..n) /\ Cardinality(1..n) = n
    BY <1>3, FS_Interval
  <2>2. PICK f : f = [i \in 1..n |-> few[i]]
    OBVIOUS
  <2>3. f \in Surjection(1..n, Range(few))
    BY <1>5, <2>2 DEF Surjection
  <2>4. IsFiniteSet(Range(few)) /\ Cardinality(Range(few)) <= Cardinality(1..n)
    BY <2>1, <2>3, FS_Surjection
  <2>5. Cardinality(Range(few)) \in Nat
    BY <2>4, FS_CardinalityType
  <2> QED
    BY <1>3, <2>1, <2>4, <2>5
<1> QED
  BY <1>1, <1>2, <1>6, <1>7, <1>8, <1>9, <1>10, <1>n DEF KeepsBest

LEMMA ListIsEmpty ==
  ASSUME NEW S, NEW s \in Seq(S)
  PROVE  /\ s = << >> <=> Len(s) = 0
         /\ Range(s) = {} <=> s = << >>
         /\ DOMAIN s = {} <=> s = << >>
         /\ Range(s) = {s[i] : i \in 1..Len(s)}
         /\ Range(s) \subseteq S
<1>1. PICK n : n = Len(s)
  OBVIOUS
<1>2. n \in Nat /\ DOMAIN s = 1..n /\ (n = 0 <=> s = << >>)
  BY <1>1, LenProperties, EmptySeq
<1>3. 1..n = {} <=> n = 0
  BY <1>2
<1>4. Range(s) = {s[i] : i \in 1..n}
  BY <1>2 DEF Range
<1>5. Range(s) = {} <=> 1..n = {}
  BY <1>4
<1>6. \A i \in 1..n : s[i] \in S
  BY <1>1, ElementOfSeq
<1> QED
  BY <1>1, <1>2, <1>3, <1>4, <1>5, <1>6

LEMMA FiniteImage ==
  ASSUME NEW S, IsFiniteSet(S), NEW f, DOMAIN f = S
  PROVE  IsFiniteSet({f[x] : x \in S})
<1> DEFINE g == [x \in S |-> f[x]]
<1>1. g \in Surjection(S, {f[x] : x \in S})
  BY DEF Surjection
<1> QED
  BY <1>1, FS_Surjection

(* The least of some numbers. *)
LEMMA MinOf ==
  ASSUME NEW S \in SUBSET Nat, S # {}
  PROVE  Min(S) \in S /\ \A x \in S : Min(S) <= x
<1>1. PICK m \in S : \A n \in S : ~(<<n, m>> \in OpToRel(<, Nat))
  BY NatLessThanWellFounded, WFMin
<1>2. ASSUME NEW n \in S PROVE m <= n
  <2>1. ~(n < m)
    BY <1>1 DEF OpToRel
  <2> QED
    BY <2>1
<1> QED
  BY <1>2 DEF Min

-----------------------------------------------------------------------------
(* Lists                                                                       *)

LEMMA LastExists ==
    ASSUME NEW n \in Nat, NEW S, S \subseteq 0..n, S # {}
    PROVE  \E i \in S : \A j \in S : j <= i
<1> DEFINE Intervals == {0..(n - i) : i \in S}
           R == StrictSubsetOrdering(Nat)
<1>1. Intervals \subseteq FiniteSubsetsOf(Nat) /\ Intervals # {}
  <2>1. \A i \in S : n - i \in Nat
    OBVIOUS
  <2>2. \A i \in S : 0..(n - i) \subseteq Nat /\ IsFiniteSet(0..(n - i))
    BY <2>1, FS_Interval, SMT
  <2> QED
    BY <2>2 DEF FiniteSubsetsOf
<1>2. IsWellFoundedOn(R, FiniteSubsetsOf(Nat))
  BY FS_StrictSubsetOrderingWellFounded
<1> HIDE DEF R
<1>3. PICK U \in Intervals : \A V \in Intervals : <<V, U>> \notin R
  <2> HIDE DEF Intervals
  <2> QED
    BY <1>1, <1>2, WFMin
<1>4. PICK i \in S : U = 0..(n - i)
  OBVIOUS
<1>5. ASSUME NEW j \in S PROVE j <= i
  <2> SUFFICES ASSUME i < j PROVE FALSE
    BY SMT
  <2>1. 0..(n - j) \in Intervals
    OBVIOUS
  <2>2. /\ 0..(n - j) \subseteq 0..(n - i) /\ 0..(n - j) # 0..(n - i)
        /\ 0..(n - j) \subseteq Nat /\ 0..(n - i) \subseteq Nat
    BY SMT
  <2>3. <<0..(n - j), 0..(n - i)>> \in R
    BY <2>2 DEF R, StrictSubsetOrdering
  <2> QED
    BY <1>3, <1>4, <2>1, <2>3
<1> QED
  BY <1>5

(* Induction.  What is to be shown of numbers or of texts is a set of them.     *)

LEMMA Counting ==
    ASSUME NEW n \in Nat, NEW S, 0 \in S, \A i \in 0..n : i < n /\ i \in S => i + 1 \in S
    PROVE  \A i \in 0..n : i \in S
<1> DEFINE Reached == {m \in 0..n : \A i \in 0..m : i \in S}
<1>1. PICK m \in Reached : \A j \in Reached : j <= m
  <2>1. Reached \subseteq 0..n /\ 0 \in Reached
    OBVIOUS
  <2> HIDE DEF Reached
  <2> QED
    BY <2>1, LastExists
<1>2. m = n
  <2> SUFFICES ASSUME m < n PROVE FALSE
    OBVIOUS
  <2>1. m + 1 \in S /\ m + 1 \in 0..n
    OBVIOUS
  <2>2. \A i \in 0..(m + 1) : i \in 0..m \/ i = m + 1
    OBVIOUS
  <2>3. m + 1 \in Reached
    BY <2>1, <2>2
  <2>4. ~(m + 1 <= m)
    OBVIOUS
  <2> QED
    BY <1>1, <2>3, <2>4
<1> QED
  BY <1>2

(* A function of the numbers up to N is defined step by step. *)
IsStep(step, N, V) == step \in [V \X (1..N) -> V]

Stepped(g, base, step, N, V) ==
  g \in [0..N -> V] /\ g[0] = base /\ \A n \in 1..N : g[n] = step[<<g[n - 1], n>>]

LEMMA Recursion ==
  ASSUME NEW N \in Nat, NEW V, NEW base \in V, NEW step, IsStep(step, N, V)
  PROVE  \E g : Stepped(g, base, step, N, V)
<1>0. step \in [V \X (1..N) -> V]
  BY DEF IsStep
<1> DEFINE T == {m \in 0..N : \E g \in [0..m -> V] :
                   g[0] = base /\ \A n \in 1..m : g[n] = step[<<g[n - 1], n>>]}
<1>1. 0 \in T
  <2>1. PICK g : g = [n \in 0..0 |-> base]
    OBVIOUS
  <2>2. g \in [0..0 -> V] /\ g[0] = base /\ 1..0 = {}
    BY <2>1
  <2> QED
    BY <2>2
<1>2. ASSUME NEW m \in 0..N, m < N, m \in T PROVE m + 1 \in T
  <2>1. PICK g \in [0..m -> V] : g[0] = base /\ \A n \in 1..m : g[n] = step[<<g[n - 1], n>>]
    BY <1>2
  <2>2. PICK v : v = step[<<g[m], m + 1>>]
    OBVIOUS
  <2>3. m \in Nat /\ m + 1 \in 1..N /\ v \in V
    BY <1>0, <1>2, <2>2
  <2>4. PICK h : h = [n \in 0..(m + 1) |-> IF n = m + 1 THEN v ELSE g[n]]
    OBVIOUS
  <2>5. h \in [0..(m + 1) -> V]
    BY <2>3, <2>4
  <2>6. h[0] = base
    BY <2>1, <2>3, <2>4
  <2>7. ASSUME NEW n \in 1..(m + 1) PROVE h[n] = step[<<h[n - 1], n>>]
    <3>1. CASE n = m + 1
      <4>1. n - 1 = m /\ h[n] = v /\ h[n - 1] = g[m]
        BY <2>3, <2>4, <3>1
      <4> QED
        BY <2>2, <3>1, <4>1
    <3>2. CASE n # m + 1
      <4>1. n \in 1..m /\ h[n] = g[n] /\ h[n - 1] = g[n - 1]
        BY <2>3, <2>4, <3>2
      <4> QED
        BY <2>1, <4>1
    <3> QED
      BY <3>1, <3>2
  <2> QED
    BY <2>3, <2>5, <2>6, <2>7
<1> HIDE DEF T
<1>3. N \in T
  <2>1. \A i \in 0..N : i \in T
    BY <1>1, <1>2, Counting
  <2> QED
    BY <2>1
<1> QED
  BY <1>3 DEF T, Stepped

Follows(f, g, N) == f[0] = g[0] /\ \A n \in 1..N : f[n - 1] = g[n - 1] => f[n] = g[n]

LEMMA SameSteps ==
  ASSUME NEW N \in Nat, NEW f, NEW g, Follows(f, g, N)
  PROVE  \A n \in 0..N : f[n] = g[n]
<1> DEFINE T == {n \in 0..N : f[n] = g[n]}
<1>1. 0 \in T
  BY DEF Follows
<1>2. ASSUME NEW n \in 0..N, n < N, n \in T PROVE n + 1 \in T
  <2>1. n + 1 \in 1..N /\ (n + 1) - 1 = n
    BY <1>2
  <2>2. f[n] = g[n]
    BY <1>2
  <2> QED
    BY <2>1, <2>2 DEF Follows
<1> HIDE DEF T
<1>3. \A n \in 0..N : n \in T
  BY <1>1, <1>2, Counting
<1> QED
  BY <1>3 DEF T

LEMMA RangeOfAppend ==
  ASSUME NEW V, NEW s \in Seq(V), NEW x \in V
  PROVE  Range(Append(s, x)) = Range(s) \cup {x}
<1>1. PICK n \in Nat : n = Len(s)
  BY LenProperties
<1>2. /\ DOMAIN s = 1..n /\ Append(s, x) \in Seq(V) /\ Len(Append(s, x)) = n + 1
      /\ \A i \in 1..n : Append(s, x)[i] = s[i]
      /\ Append(s, x)[n + 1] = x
  BY <1>1, LenProperties, AppendProperties
<1>3. DOMAIN Append(s, x) = 1..n \cup {n + 1}
  <2>1. DOMAIN Append(s, x) = 1..(n + 1)
    BY <1>2, LenProperties
  <2>2. 1..(n + 1) = 1..n \cup {n + 1}
    BY <1>1
  <2> QED
    BY <2>1, <2>2
<1> QED
  BY <1>2, <1>3 DEF Range

(* How Only reads s. *)
KeepsIn(kept, s, S) ==
  /\ kept[0] = << >>
  /\ \A n \in 1..Len(s) : kept[n] = IF s[n] \in S THEN Append(kept[n - 1], s[n]) ELSE kept[n - 1]

LEMMA OnlyReads ==
  ASSUME NEW V, NEW s \in Seq(V), NEW S
  PROVE  \E kept \in [0..Len(s) -> Seq(V)] : KeepsIn(kept, s, S) /\ Only(s, S) = kept[Len(s)]
<1>N. PICK N : N = Len(s)
  OBVIOUS
<1>1. N \in Nat /\ \A n \in 1..N : s[n] \in V
  BY <1>N, LenProperties, ElementOfSeq
<1> DEFINE step == [x \in Seq(V) \X (1..N) |-> IF s[x[2]] \in S THEN Append(x[1], s[x[2]]) ELSE x[1]]
<1>2. step \in [Seq(V) \X (1..N) -> Seq(V)]
  BY <1>1
<1>3. << >> \in Seq(V)
  OBVIOUS
<1>4. \A v \in Seq(V), n \in 1..N : step[<<v, n>>] = IF s[n] \in S THEN Append(v, s[n]) ELSE v
  OBVIOUS
<1> HIDE DEF step
<1>5. PICK g \in [0..N -> Seq(V)] : g[0] = << >> /\ \A n \in 1..N : g[n] = step[<<g[n - 1], n>>]
  <2>1. IsStep(step, N, Seq(V))
    BY <1>2 DEF IsStep
  <2>2. \E g : Stepped(g, << >>, step, N, Seq(V))
    BY <1>1, <1>3, <2>1, Recursion
  <2> QED
    BY <2>2 DEF Stepped
<1>6. \A n \in 1..N : n - 1 \in 0..N /\ g[n - 1] \in Seq(V)
  BY <1>1
<1>7. \A n \in 1..N : g[n] = IF s[n] \in S THEN Append(g[n - 1], s[n]) ELSE g[n - 1]
  BY <1>4, <1>5, <1>6
<1> DEFINE Is(f) == f = [n \in 0..Len(s) |->
                          IF n = 0 THEN << >>
                          ELSE IF s[n] \in S THEN Append(f[n - 1], s[n]) ELSE f[n - 1]]
<1>8. Is(g)
  <2>1. \A n \in 0..N : n = 0 \/ n \in 1..N
    BY <1>1
  <2> QED
    BY <1>N, <1>5, <1>7, <2>1
<1>9. PICK f : f = CHOOSE h : Is(h)
  OBVIOUS
<1>10. Is(f)
  BY <1>8, <1>9
<1>11. f = g
  <2>1. DOMAIN f = 0..N /\ f[0] = << >>
    BY <1>1, <1>10, <1>N
  <2>2. ASSUME NEW n \in 1..N
        PROVE  f[n] = IF s[n] \in S THEN Append(f[n - 1], s[n]) ELSE f[n - 1]
    <3>1. n \in 0..Len(s) /\ n # 0
      BY <1>1, <1>N
    <3> QED
      BY <1>10, <3>1, Zenon
  <2>3. \A n \in 1..N : f[n - 1] = g[n - 1] => f[n] = g[n]
    BY <1>7, <2>2, Zenon
  <2>4. Follows(f, g, N)
    BY <1>5, <2>1, <2>3 DEF Follows
  <2>5. \A n \in 0..N : f[n] = g[n]
    BY <1>1, <2>4, SameSteps
  <2>6. f = [n \in 0..N |-> f[n]] /\ g = [n \in 0..N |-> g[n]]
    BY <1>10, <1>N
  <2> QED
    BY <2>5, <2>6
<1>12. Only(s, S) = f[Len(s)]
  BY <1>9 DEF Only
<1> QED
  BY <1>5, <1>7, <1>11, <1>12, <1>N DEF KeepsIn

LEMMA OnlyKeeps ==
  ASSUME NEW V, NEW s \in Seq(V), NEW S
  PROVE  /\ Only(s, S) \in Seq(V)
         /\ Range(Only(s, S)) = Range(s) \cap S
<1>N. PICK N : N = Len(s)
  OBVIOUS
<1>1. N \in Nat /\ DOMAIN s = 1..N
  BY <1>N, LenProperties
<1>2. PICK kept \in [0..N -> Seq(V)] : KeepsIn(kept, s, S) /\ Only(s, S) = kept[N]
  BY <1>N, OnlyReads
<1>3. /\ kept[0] = << >>
      /\ \A n \in 1..N : kept[n] = IF s[n] \in S THEN Append(kept[n - 1], s[n]) ELSE kept[n - 1]
  BY <1>2, <1>N DEF KeepsIn
<1> DEFINE Read(n) == {s[i] : i \in 1..n}
           T == {n \in 0..N : Range(kept[n]) = Read(n) \cap S}
<1>4. 0 \in T
  <2>1. Range(kept[0]) = {} /\ Read(0) = {}
    BY <1>3 DEF Range
  <2> QED
    BY <1>1, <2>1
<1>5. ASSUME NEW n \in 0..N, n < N, n \in T PROVE n + 1 \in T
  <2>1. n + 1 \in 1..N /\ (n + 1) - 1 = n /\ n + 1 \in 0..N /\ n \in Nat
    BY <1>1, <1>5
  <2>2. Read(n + 1) = Read(n) \cup {s[n + 1]}
    <3>1. 1..(n + 1) = 1..n \cup {n + 1}
      BY <2>1
    <3> QED
      BY <3>1
  <2>3. kept[n] \in Seq(V) /\ s[n + 1] \in V
    BY <1>2, <1>N, <2>1, ElementOfSeq
  <2>4. kept[n + 1] = IF s[n + 1] \in S THEN Append(kept[n], s[n + 1]) ELSE kept[n]
    BY <1>3, <2>1
  <2>5. Range(Append(kept[n], s[n + 1])) = Range(kept[n]) \cup {s[n + 1]}
    BY <2>3, RangeOfAppend
  <2> HIDE DEF Read
  <2>6. Range(kept[n + 1]) = Read(n + 1) \cap S
    BY <1>5, <2>2, <2>4, <2>5
  <2> QED
    BY <2>1, <2>6
<1> HIDE DEF T
<1>6. N \in T
  <2>1. \A n \in 0..N : n \in T
    BY <1>1, <1>4, <1>5, Counting
  <2> QED
    BY <1>1, <2>1
<1>7. Read(N) = Range(s)
  BY <1>1 DEF Range
<1> QED
  BY <1>1, <1>2, <1>6, <1>7 DEF T

LEMMA OnlyAgrees ==
  ASSUME NEW V, NEW s \in Seq(V), NEW S, NEW T, \A x \in V : x \in S <=> x \in T
  PROVE  Only(s, S) = Only(s, T)
<1>N. PICK N : N = Len(s)
  OBVIOUS
<1>1. N \in Nat /\ \A n \in 1..N : s[n] \in V
  BY <1>N, LenProperties, ElementOfSeq
<1>2. PICK f : KeepsIn(f, s, S) /\ Only(s, S) = f[N]
  BY <1>N, OnlyReads
<1>3. PICK g : KeepsIn(g, s, T) /\ Only(s, T) = g[N]
  BY <1>N, OnlyReads
<1>4. Follows(f, g, N)
  BY <1>1, <1>2, <1>3, <1>N DEF KeepsIn, Follows
<1>5. \A n \in 0..N : f[n] = g[n]
  BY <1>1, <1>4, SameSteps
<1> QED
  BY <1>1, <1>2, <1>3, <1>5

Associates(s, t, x) == Append(s \o t, x) = s \o Append(t, x)

LEMMA AppendToConcat ==
  ASSUME NEW V, NEW s \in Seq(V), NEW t \in Seq(V), NEW x \in V
  PROVE  Associates(s, t, x)
<1>1. <<x>> \in Seq(V) /\ s \o t \in Seq(V)
  BY ConcatProperties
<1>2. Append(t, x) = t \o <<x>> /\ Append(s \o t, x) = (s \o t) \o <<x>>
  BY <1>1, AppendIsConcat
<1> QED
  BY <1>1, <1>2, ConcatAssociative DEF Associates

KeepsParts(s, t, S) == Only(s \o t, S) = Only(s, S) \o Only(t, S)

LEMMA OnlyConcat ==
  ASSUME NEW V, NEW s \in Seq(V), NEW t \in Seq(V), NEW S
  PROVE  KeepsParts(s, t, S)
<1>N. PICK N : N = Len(s)
  OBVIOUS
<1>M. PICK M : M = Len(t)
  OBVIOUS
<1>a. PICK a : a = s \o t
  OBVIOUS
<1>1. N \in Nat /\ M \in Nat /\ \A n \in 1..M : t[n] \in V
  BY <1>N, <1>M, LenProperties, ElementOfSeq
<1>2. /\ a \in Seq(V) /\ Len(a) = N + M
      /\ \A n \in 1..N : a[n] = s[n]
      /\ \A n \in 1..M : a[N + n] = t[n]
  <2>1. /\ a \in Seq(V) /\ Len(a) = N + M
        /\ \A i \in 1..(N + M) : a[i] = IF i <= N THEN s[i] ELSE t[i - N]
    BY <1>a, <1>N, <1>M, ConcatProperties
  <2>2. \A n \in 1..N : n \in 1..(N + M) /\ n <= N
    BY <1>1
  <2>3. \A n \in 1..M : N + n \in 1..(N + M) /\ ~(N + n <= N) /\ (N + n) - N = n
    BY <1>1
  <2> QED
    BY <2>1, <2>2, <2>3
<1>3. PICK ks \in [0..N -> Seq(V)] : KeepsIn(ks, s, S) /\ Only(s, S) = ks[N]
  BY <1>N, OnlyReads
<1>4. PICK kt \in [0..M -> Seq(V)] : KeepsIn(kt, t, S) /\ Only(t, S) = kt[M]
  BY <1>M, OnlyReads
<1>5. PICK ka : KeepsIn(ka, a, S) /\ Only(a, S) = ka[N + M]
  <2>1. \E ka : KeepsIn(ka, a, S) /\ Only(a, S) = ka[Len(a)]
    BY <1>2, OnlyReads
  <2> QED
    BY <1>2, <2>1
<1>6. \A n \in 0..N : ka[n] = ks[n]
  <2>1. \A n \in 1..N : n \in 1..(N + M)
    BY <1>1
  <2>2. Follows(ka, ks, N)
    BY <1>2, <1>3, <1>5, <1>N, <2>1 DEF KeepsIn, Follows
  <2> QED
    BY <1>1, <2>2, SameSteps
<1> DEFINE T == {n \in 0..M : ka[N + n] = ks[N] \o kt[n]}
<1>7. 0 \in T
  <2>1. ka[N] = ks[N] /\ N + 0 = N
    BY <1>1, <1>6
  <2>2. ks[N] \in Seq(V) /\ kt[0] = << >>
    BY <1>1, <1>3, <1>4 DEF KeepsIn
  <2>3. PICK k \in Seq(V) : k = ks[N]
    BY <2>2
  <2>4. k \o << >> = k
    BY ConcatEmptySeq
  <2> QED
    <3>1. ks[N] \o kt[0] = k \o << >>
      BY <2>2, <2>3, Zenon
    <3>2. ka[N + 0] = k
      BY <2>1, <2>3, Zenon
    <3>3. ka[N + 0] = ks[N] \o kt[0]
      BY <2>4, <3>1, <3>2, Zenon
    <3>4. 0 \in 0..M
      BY <1>1
    <3> QED
      BY <3>3, <3>4, Zenon
<1>8. ASSUME NEW n \in 0..M, n < M, n \in T PROVE n + 1 \in T
  <2>1. n + 1 \in 1..M /\ (n + 1) - 1 = n /\ n + 1 \in 0..M
    BY <1>1, <1>8
  <2>2. N + (n + 1) \in 1..(N + M) /\ (N + (n + 1)) - 1 = N + n
    BY <1>1, <2>1
  <2>x. PICK x : x = t[n + 1]
    OBVIOUS
  <2>3. ka[N + (n + 1)] = IF x \in S THEN Append(ka[N + n], x) ELSE ka[N + n]
    BY <1>2, <1>5, <2>1, <2>2, <2>x DEF KeepsIn
  <2>4. kt[n + 1] = IF x \in S THEN Append(kt[n], x) ELSE kt[n]
    BY <1>4, <1>M, <2>1, <2>x DEF KeepsIn
  <2>5. x \in V /\ kt[n] \in Seq(V) /\ ks[N] \in Seq(V)
    BY <1>1, <1>3, <1>4, <2>1, <2>x
  <2>6. Append(ks[N] \o kt[n], x) = ks[N] \o Append(kt[n], x)
    <3>1. PICK p \in Seq(V), q \in Seq(V) : p = ks[N] /\ q = kt[n]
      BY <2>5
    <3>2. Append(p \o q, x) = p \o Append(q, x)
      <4>1. x \in V
        BY <2>5
      <4>2. Associates(p, q, x)
        BY <4>1, AppendToConcat
      <4> QED
        BY <4>2 DEF Associates
    <3> QED
      BY <3>1, <3>2, Zenon
  <2>7. ka[N + n] = ks[N] \o kt[n]
    BY <1>8
  <2>8. ka[N + (n + 1)] = ks[N] \o kt[n + 1]
    BY <2>3, <2>4, <2>6, <2>7, Zenon
  <2> QED
    BY <2>1, <2>8
<1> HIDE DEF T
<1>9. M \in T
  <2>1. \A n \in 0..M : n \in T
    BY <1>1, <1>7, <1>8, Counting
  <2> QED
    BY <1>1, <2>1
<1> QED
  BY <1>3, <1>4, <1>5, <1>9, <1>a DEF T, KeepsParts

LEMMA OnlyNone ==
  ASSUME NEW V, NEW s \in Seq(V), NEW S, Range(s) \cap S = {}
  PROVE  Only(s, S) = << >>
<1>k. PICK k : k = Only(s, S)
  OBVIOUS
<1>1. k \in Seq(V) /\ Range(k) = {}
  BY <1>k, OnlyKeeps
<1>2. Len(k) \in Nat /\ DOMAIN k = 1..Len(k)
  BY <1>1, LenProperties
<1>3. Len(k) = 0
  <2>1. Len(k) # 0 => k[1] \in Range(k)
    BY <1>2 DEF Range
  <2> QED
    BY <1>1, <2>1
<1> QED
  BY <1>1, <1>3, <1>k, EmptySeq

LEMMA OnlyAppends ==
  ASSUME NEW V, NEW s \in Seq(V), NEW S, NEW x \in V
  PROVE  Only(Append(s, x), S) = IF x \in S THEN Append(Only(s, S), x) ELSE Only(s, S)
<1>N. PICK N : N = Len(s)
  OBVIOUS
<1>a. PICK a : a = Append(s, x)
  OBVIOUS
<1>1. /\ N \in Nat /\ a \in Seq(V) /\ Len(a) = N + 1
      /\ \A n \in 1..N : a[n] = s[n]
      /\ a[N + 1] = x
  BY <1>N, <1>a, LenProperties, AppendProperties
<1>2. PICK f : KeepsIn(f, s, S) /\ Only(s, S) = f[N]
  BY <1>N, OnlyReads
<1>3. PICK g : KeepsIn(g, a, S) /\ Only(a, S) = g[N + 1]
  BY <1>1, OnlyReads
<1>4. Follows(f, g, N)
  <2>1. \A n \in 1..N : n \in 1..(N + 1)
    BY <1>1
  <2> QED
    BY <1>1, <1>2, <1>3, <1>N, <2>1 DEF KeepsIn, Follows
<1>5. \A n \in 0..N : f[n] = g[n]
  BY <1>1, <1>4, SameSteps
<1>6. g[N] = f[N]
  BY <1>1, <1>5
<1>7. g[N + 1] = IF x \in S THEN Append(g[N], x) ELSE g[N]
  <2>1. N + 1 \in 1..(N + 1) /\ (N + 1) - 1 = N
    BY <1>1
  <2> QED
    BY <1>1, <1>3, <2>1 DEF KeepsIn
<1> QED
  BY <1>2, <1>3, <1>6, <1>7, <1>a

LEMMA OnlyAll ==
  ASSUME NEW V, NEW s \in Seq(V), NEW S, \A i \in DOMAIN s : s[i] \in S
  PROVE  Only(s, S) = s
<1>N. PICK N : N = Len(s)
  OBVIOUS
<1>1. N \in Nat /\ DOMAIN s = 1..N /\ \A n \in 1..N : s[n] \in V
  BY <1>N, LenProperties, ElementOfSeq
<1>2. PICK f : KeepsIn(f, s, S) /\ Only(s, S) = f[N]
  BY <1>N, OnlyReads
<1>g. PICK g : g = [n \in 0..N |-> SubSeq(s, 1, n)]
  OBVIOUS
<1>3. g[0] = << >>
  BY <1>1, <1>g, SubSeqEmpty
<1>4. ASSUME NEW n \in 1..N PROVE g[n] = Append(g[n - 1], s[n])
  <2>1. n \in 0..N /\ n - 1 \in 0..N /\ n \in Int /\ n - 1 \in Int /\ 1 \in Int
    BY <1>1
  <2>2. \A i \in 1..(n - 1) : s[i] \in V
    BY <1>1
  <2>3. SubSeq(s, 1, n - 1) \in Seq(V)
    BY <2>1, <2>2, SubSeqProperties
  <2>4. SubSeq(s, 1, n) = SubSeq(s, 1, n - 1) \o <<s[n]>>
    <3>1. 1 \in 1..Len(s) /\ n \in 1..Len(s)
      BY <1>1, <1>N
    <3> QED
      BY <3>1, SubSeqRecursiveSecond
  <2>5. Append(SubSeq(s, 1, n - 1), s[n]) = SubSeq(s, 1, n - 1) \o <<s[n]>>
    BY <1>1, <2>3, AppendIsConcat
  <2> QED
    BY <1>g, <2>1, <2>4, <2>5
<1>5. Follows(f, g, N)
  BY <1>1, <1>2, <1>3, <1>4, <1>N DEF KeepsIn, Follows
<1>6. f[N] = g[N]
  BY <1>1, <1>5, SameSteps
<1>7. g[N] = s
  BY <1>1, <1>g, <1>N, SubSeqFull
<1> QED
  BY <1>2, <1>6, <1>7

-----------------------------------------------------------------------------
(* The stages of a search                                                      *)

Keys == Nat \X Nat

LEMMA BeforeOrders ==
  ASSUME NEW S \in SUBSET Keys, NEW score \in [S -> Nat]
  PROVE  StrictOrder(S, ByScore(score))
<1>1. \A a \in S : /\ a[1] \in Nat /\ a[2] \in Nat /\ score[a] \in Nat
                   /\ a = <<a[1], a[2]>>
  BY DEF Keys
<1>2. \A a \in S : ~Before(score, a, a)
  BY <1>1 DEF Before
<1>3. \A a, b, c \in S : Before(score, a, b) /\ Before(score, b, c) => Before(score, a, c)
  BY <1>1 DEF Before
<1>4. \A a, b \in S : a = b \/ Before(score, a, b) \/ Before(score, b, a)
  BY <1>1 DEF Before
<1>5. ASSUME NEW a \in S, NEW b \in S PROVE <<a, b>> \in ByScore(score) <=> Before(score, a, b)
  BY DEF ByScore
<1> QED
  BY <1>2, <1>3, <1>4, <1>5 DEF StrictOrder

(* The best few of the scored chunks. *)
LEMMA RankedFew ==
  ASSUME NEW S \in SUBSET Keys, IsFiniteSet(S), NEW score \in [S -> Nat], NEW limit \in Nat \ {0},
         NEW few, few = FirstFew(Ranked(score), limit)
  PROVE  /\ few \in Seq(S) /\ Range(few) \subseteq S
         /\ \A c \in Range(few), x \in S \ Range(few) : score[c] >= score[x]
         /\ Cardinality(S) <= limit => Range(few) = S
         /\ IsFiniteSet(Range(few)) /\ Cardinality(Range(few)) <= limit
         /\ few = << >> <=> S = {}
<1>1. PICK order : order = ByScore(score)
  OBVIOUS
<1>2. StrictOrder(S, order)
  BY <1>1, BeforeOrders
<1>3. Ranked(score) = Ordered(S, order)
  BY <1>1 DEF Ranked
<1>4. Lists(Ranked(score), S, order)
  BY <1>2, <1>3, OrderedLists
<1>5. /\ few \in Seq(S) /\ Range(few) \subseteq S
      /\ Len(few) = (IF Cardinality(S) < limit THEN Cardinality(S) ELSE limit)
      /\ \A c \in Range(few), x \in S \ Range(few) : <<c, x>> \in order
      /\ Cardinality(S) <= limit => Range(few) = S
      /\ IsFiniteSet(Range(few)) /\ Cardinality(Range(few)) <= limit
  <2>1. KeepsBest(few, S, order, limit)
    BY <1>4, BestFew
  <2> QED
    BY <2>1 DEF KeepsBest
<1>6. ASSUME NEW c \in Range(few), NEW x \in S \ Range(few) PROVE score[c] >= score[x]
  <2>1. Before(score, c, x)
    BY <1>1, <1>5 DEF ByScore
  <2>2. score[c] \in Nat /\ score[x] \in Nat
    BY <1>5
  <2> QED
    BY <2>1, <2>2 DEF Before
<1>7. few = << >> <=> S = {}
  <2>1. Cardinality(S) \in Nat /\ (Cardinality(S) = 0 <=> S = {})
    BY FS_CardinalityType, FS_EmptySet
  <2>2. few = << >> <=> Len(few) = 0
    BY <1>5, ListIsEmpty
  <2> QED
    BY <1>5, <2>1, <2>2
<1> QED
  BY <1>5, <1>6, <1>7

LEMMA ChunksAreKeys ==
  ASSUME NEW docs, IsLibrary(docs), NEW D \in SUBSET DOMAIN docs
  PROVE  Chunks(docs, D) \in SUBSET Keys /\ IsFiniteSet(Chunks(docs, D))
<1>1. ASSUME NEW d \in D
      PROVE  DOMAIN docs[d].chunks \subseteq Nat /\ IsFiniteSet(DOMAIN docs[d].chunks)
  <2>1. docs[d].chunks \in Seq(Range(docs[d].chunks))
    BY DEF IsLibrary, IsSequence
  <2>2. Len(docs[d].chunks) \in Nat /\ DOMAIN docs[d].chunks = 1..Len(docs[d].chunks)
    BY <2>1, LenProperties
  <2> QED
    BY <2>2, FS_Interval
<1>2. Chunks(docs, D) \in SUBSET Keys
  BY <1>1 DEF Chunks, Keys, IsLibrary
<1>3. ASSUME NEW d \in D PROVE IsFiniteSet({<<d, n>> : n \in DOMAIN docs[d].chunks})
  <2> DEFINE f == [n \in DOMAIN docs[d].chunks |-> <<d, n>>]
  <2>1. {<<d, n>> : n \in DOMAIN docs[d].chunks} = {f[n] : n \in DOMAIN docs[d].chunks}
    OBVIOUS
  <2>2. DOMAIN f = DOMAIN docs[d].chunks
    OBVIOUS
  <2> HIDE DEF f
  <2> QED
    BY <1>1, <2>1, <2>2, FiniteImage
<1> DEFINE of == [d \in D |-> {<<d, n>> : n \in DOMAIN docs[d].chunks}]
<1>4. IsFiniteSet(D)
  BY FS_Subset DEF IsLibrary
<1>5. IsFiniteSet({of[d] : d \in D}) /\ \A T \in {of[d] : d \in D} : IsFiniteSet(T)
  BY <1>3, <1>4, FiniteImage
<1>6. Chunks(docs, D) = UNION {of[d] : d \in D}
  BY DEF Chunks
<1> QED
  BY <1>2, <1>5, <1>6, FS_UNION

LEMMA ScoreIsNat ==
  ASSUME NEW text, NEW query, IsSequence(query)
  PROVE  /\ ScoreChunk(text, query) \in Nat
         /\ ContainsPhrase(text, query) => ScoreChunk(text, query) >= 2
<1>1. Len(query) \in Nat /\ DOMAIN query = 1..Len(query)
  BY LenProperties DEF IsSequence
<1>2. IsFiniteSet(DOMAIN query)
  BY <1>1, FS_Interval
<1>3. Cardinality({i \in DOMAIN query : query[i] \in Range(text)}) \in Nat
  BY <1>2, FS_Subset, FS_CardinalityType
<1> QED
  BY <1>3 DEF ScoreChunk

(* The chunks a query finds anything in. *)
Hits(docs, D, query) == {c \in Chunks(docs, D) : ScoreOf(docs, c, query) > 0}

IsScores(found) == found = [c \in DOMAIN found |-> found[c]] /\ \A c \in DOMAIN found : found[c] \in Nat

(* The best few of them, with their scores. *)
FindsBest(found, docs, D, query, limit) ==
  /\ IsScores(found) /\ DOMAIN found \subseteq Hits(docs, D, query)
  /\ DOMAIN found = {} <=> Hits(docs, D, query) = {}
  /\ \A c \in DOMAIN found : found[c] = ScoreOf(docs, c, query)
  /\ \A c \in DOMAIN found, x \in Hits(docs, D, query) \ DOMAIN found :
       ScoreOf(docs, c, query) >= ScoreOf(docs, x, query)
  /\ IsFiniteSet(DOMAIN found) /\ Cardinality(DOMAIN found) <= limit

LEMMA LexicalFinds ==
  ASSUME NEW docs, IsLibrary(docs), NEW D \in SUBSET DOMAIN docs,
         NEW query, IsSequence(query), NEW limit \in Nat \ {0},
         NEW found, found = LexicalSearch(docs, D, query, limit)
  PROVE  FindsBest(found, docs, D, query, limit)
<1>C. PICK C : C = Chunks(docs, D)
  OBVIOUS
<1>score. PICK score : score = [c \in C |-> ScoreChunk(docs[c[1]].chunks[c[2]], query)]
  OBVIOUS
<1>H. PICK H : H = {h \in C : score[h] > 0}
  OBVIOUS
<1>hits. PICK hits : hits = [c \in H |-> score[c]]
  OBVIOUS
<1>few. PICK few : few = FirstFew(Ranked(hits), limit)
  OBVIOUS
<1>1. C \in SUBSET Keys /\ IsFiniteSet(C)
  BY <1>C, ChunksAreKeys
<1>2. score \in [C -> Nat]
  BY <1>score, ScoreIsNat
<1>3. H \in SUBSET C /\ H \in SUBSET Keys /\ IsFiniteSet(H) /\ hits \in [H -> Nat]
  BY <1>1, <1>2, <1>H, <1>hits, FS_Subset
<1>4. H = Hits(docs, D, query) /\ \A c \in C : score[c] = ScoreOf(docs, c, query)
  BY <1>C, <1>score, <1>H DEF Hits, ScoreOf
<1>5. /\ few \in Seq(H) /\ Range(few) \subseteq H
      /\ \A c \in Range(few), x \in H \ Range(few) : hits[c] >= hits[x]
      /\ IsFiniteSet(Range(few)) /\ Cardinality(Range(few)) <= limit
      /\ few = << >> <=> H = {}
  BY <1>3, <1>few, RankedFew
<1>6. Range(few) = {} <=> H = {}
  BY <1>5, ListIsEmpty
<1>7. found = [c \in Range(few) |-> score[c]]
  <2> DEFINE s == [c \in Chunks(docs, D) |-> ScoreChunk(docs[c[1]].chunks[c[2]], query)]
  <2> DEFINE found0 == [c \in {h \in DOMAIN s : s[h] > 0} |-> s[c]]
  <2>1. LexicalSearch(docs, D, query, limit) = [c \in Range(FirstFew(Ranked(found0), limit)) |-> s[c]]
    BY DEF LexicalSearch
  <2>2. s = score
    BY <1>C, <1>score
  <2> HIDE DEF s
  <2>3. {h \in DOMAIN s : s[h] > 0} = H
    BY <1>score, <1>H, <2>2
  <2>4. found0 = hits
    BY <1>hits, <2>2, <2>3
  <2> HIDE DEF found0
  <2> QED
    BY <1>few, <2>1, <2>2, <2>4
<1>8. DOMAIN found = Range(few) /\ \A c \in DOMAIN found : found[c] = score[c]
  BY <1>7
<1>9. IsScores(found)
  BY <1>2, <1>3, <1>5, <1>7 DEF IsScores
<1>10. ASSUME NEW c \in DOMAIN found, NEW x \in H \ DOMAIN found
       PROVE  ScoreOf(docs, c, query) >= ScoreOf(docs, x, query)
  <2>1. c \in Range(few) /\ x \in H \ Range(few) /\ c \in H
    BY <1>5, <1>8
  <2>2. hits[c] = ScoreOf(docs, c, query) /\ hits[x] = ScoreOf(docs, x, query)
    BY <1>3, <1>4, <1>hits, <2>1
  <2> QED
    BY <1>5, <2>1, <2>2
<1> QED
  BY <1>3, <1>4, <1>5, <1>6, <1>8, <1>9, <1>10 DEF FindsBest

LEMMA VectorFinds ==
  ASSUME NEW docs, IsLibrary(docs), NEW D \in SUBSET DOMAIN docs, NEW limit \in Nat \ {0},
         NEW vector, vector.scores \in [DOMAIN vector.scores -> Nat],
         NEW found, found = VectorSearch(docs, D, vector, limit)
  PROVE  IsScores(found) /\ DOMAIN found \subseteq Chunks(docs, D)
<1>1. CASE vector.state # "ok"
  BY <1>1 DEF VectorSearch, NothingFound, IsScores
<1>2. CASE vector.state = "ok"
  <2>S. PICK S : S = DOMAIN vector.scores \cap Chunks(docs, D)
    OBVIOUS
  <2>known. PICK known : known = [c \in S |-> vector.scores[c]]
    OBVIOUS
  <2>few. PICK few : few = FirstFew(Ranked(known), limit)
    OBVIOUS
  <2>1. found = [c \in Range(few) |-> known[c]]
    BY <1>2, <2>S, <2>known, <2>few DEF VectorSearch
  <2>2. S \in SUBSET Keys /\ IsFiniteSet(S)
    BY <2>S, ChunksAreKeys, FS_Subset
  <2>3. known \in [S -> Nat]
    BY <2>S, <2>known
  <2>4. Range(few) \subseteq S
    BY <2>2, <2>3, <2>few, RankedFew
  <2> QED
    BY <2>1, <2>3, <2>4, <2>S DEF IsScores
<1> QED
  BY <1>1, <1>2

LEMMA FusedSums ==
  ASSUME NEW lexical, NEW vectored, IsScores(lexical), IsScores(vectored),
         NEW fused, fused = Fused(lexical, vectored)
  PROVE  /\ IsScores(fused) /\ DOMAIN fused \subseteq DOMAIN lexical \cup DOMAIN vectored
         /\ \A c \in DOMAIN fused : fused[c] > 0
         /\ \A c \in DOMAIN lexical : lexical[c] > 0 => c \in DOMAIN fused /\ fused[c] >= lexical[c]
         /\ DOMAIN vectored = {} => \A c \in DOMAIN fused : c \in DOMAIN lexical /\ fused[c] = lexical[c]
<1>T. PICK T : T = DOMAIN lexical \cup DOMAIN vectored
  OBVIOUS
<1>total. PICK total : total = [c \in T |-> ScoreIn(lexical, c) + ScoreIn(vectored, c)]
  OBVIOUS
<1>1. \A c : ScoreIn(lexical, c) \in Nat /\ ScoreIn(vectored, c) \in Nat
  BY DEF ScoreIn, IsScores
<1>2. fused = [c \in {h \in T : total[h] > 0} |-> total[c]]
  BY <1>T, <1>total DEF Fused
<1>3. \A c \in T : total[c] \in Nat /\ total[c] >= ScoreIn(lexical, c)
                   /\ (c \notin DOMAIN vectored => total[c] = ScoreIn(lexical, c))
  BY <1>1, <1>total DEF ScoreIn
<1>4. IsScores(fused) /\ DOMAIN fused \subseteq T /\ \A c \in DOMAIN fused : fused[c] > 0
  BY <1>2, <1>3 DEF IsScores
<1>5. ASSUME NEW c \in DOMAIN lexical, lexical[c] > 0 PROVE c \in DOMAIN fused /\ fused[c] >= lexical[c]
  <2>1. c \in T /\ ScoreIn(lexical, c) = lexical[c] /\ lexical[c] \in Nat
    BY <1>T DEF ScoreIn, IsScores
  <2>2. total[c] \in Nat /\ total[c] >= lexical[c]
    BY <1>3, <2>1
  <2> QED
    BY <1>2, <1>5, <2>1, <2>2
<1>6. ASSUME DOMAIN vectored = {}, NEW c \in DOMAIN fused PROVE c \in DOMAIN lexical /\ fused[c] = lexical[c]
  <2>1. c \in DOMAIN lexical /\ total[c] = ScoreIn(lexical, c) /\ fused[c] = total[c]
    BY <1>2, <1>3, <1>6, <1>T
  <2> QED
    BY <2>1 DEF ScoreIn
<1> QED
  BY <1>4, <1>5, <1>6, <1>T

-----------------------------------------------------------------------------
(* Search, stage after stage                                                   *)

OpenIn(docs, space) == InSpace(docs, ReviewActive(docs, ReadyDocuments(docs)), space)

GatedIn(docs, space) == InSpace(docs, Gated(docs, ReadyDocuments(docs)), space)

LEMMA OpenAndGated ==
  ASSUME NEW docs, NEW space
  PROVE  /\ OpenIn(docs, space) \in SUBSET DOMAIN docs /\ GatedIn(docs, space) \in SUBSET DOMAIN docs
         /\ OpenIn(docs, space) = {d \in Usable(docs, space) : docs[d].review \in Eligible}
         /\ GatedIn(docs, space) = {d \in Usable(docs, space) : docs[d].review \notin Eligible}
  BY DEF OpenIn, GatedIn, InSpace, ReviewActive, Gated, ReadyDocuments, Usable

(* How a search ends, with these documents and with what passed. *)
Ends(found, r, ready, open, passed, results, why) ==
  \/ /\ found.results = << >>
     /\ \/ r.query = << >> /\ found.reason = "query_empty"
        \/ r.query # << >> /\ ready = {} /\ found.reason = "no_ready_documents"
        \/ r.query # << >> /\ ready # {} /\ open = {} /\ found.reason = "no_review_active_documents"
        \/ r.minScore > 0 /\ passed = {} /\ found.reason = "below_threshold"
        \/ ~(r.minScore > 0) /\ passed = {} /\ found.reason = why
  \/ r.query # << >> /\ passed # {} /\ found.reason = None /\ found.results = results

LateEnd(r, passed, results, why, count) ==
  IF r.minScore > 0 /\ passed = {} THEN NoSource("below_threshold", count)
  ELSE IF passed = {} THEN NoSource(why, count)
  ELSE [results |-> results, reason |-> None, gated |-> count]

LEMMA EndsLate ==
  ASSUME NEW r, NEW ready, NEW open, NEW passed, NEW results, NEW why, NEW count,
         r.query # << >>
  PROVE  Ends(LateEnd(r, passed, results, why, count), r, ready, open, passed, results, why)
<1>1. CASE r.minScore > 0 /\ passed = {}
  BY <1>1 DEF NoSource, Ends, LateEnd
<1>2. CASE ~(r.minScore > 0) /\ passed = {}
  BY <1>2 DEF NoSource, Ends, LateEnd
<1>3. CASE passed # {}
  BY <1>3 DEF Ends, LateEnd
<1> QED
  BY <1>1, <1>2, <1>3

(* The stages of a search, one made from those before it. *)
Stages(docs, r, v, limit, lexical, vectored, fused, passed, results, why) ==
  /\ limit = (IF r.limit = 0 THEN 3 ELSE r.limit)
  /\ lexical = (IF r.mode = "vector" THEN NothingFound
                ELSE LexicalSearch(docs, OpenIn(docs, r.space), r.query, limit))
  /\ vectored = (IF r.mode = "lexical" THEN NothingFound
                 ELSE VectorSearch(docs, OpenIn(docs, r.space), v, limit))
  /\ fused = Fused(lexical, vectored)
  /\ passed = {c \in DOMAIN fused : fused[c] >= r.minScore}
  /\ results = FirstFew(Ranked([c \in passed |-> fused[c]]), limit)
  /\ why = ReasonForNone(docs, GatedIn(docs, r.space), r, v)

LEMMA SearchEnds ==
  ASSUME NEW docs, NEW r, NEW v, NEW limit, NEW lexical, NEW vectored, NEW fused, NEW passed,
         NEW results, NEW why, Stages(docs, r, v, limit, lexical, vectored, fused, passed, results, why)
  PROVE  Ends(Search(docs, r, v), r, ReadyDocuments(docs), OpenIn(docs, r.space), passed, results, why)
<1>found. PICK found : found = Search(docs, r, v)
  OBVIOUS
<1>ready. PICK ready : ready = ReadyDocuments(docs)
  OBVIOUS
<1>open. PICK open : open = OpenIn(docs, r.space)
  OBVIOUS
<1>gated. PICK gated : gated = GatedIn(docs, r.space)
  OBVIOUS
<1>count. PICK count : count = Cardinality(gated)
  OBVIOUS
<1>1. CASE r.query = << >>
  <2>1. found = NoSource("query_empty", 0)
    BY <1>1, <1>found DEF Search
  <2> QED
    BY <1>1, <1>found, <2>1 DEF NoSource, Ends
<1>2. CASE r.query # << >> /\ ready = {}
  <2>1. found = NoSource("no_ready_documents", count)
    BY <1>2, <1>found, <1>ready, <1>gated, <1>count DEF Search, GatedIn
  <2> QED
    BY <1>2, <1>found, <1>ready, <2>1 DEF NoSource, Ends
<1>3. CASE r.query # << >> /\ ready # {} /\ open = {}
  <2>1. found = NoSource("no_review_active_documents", count)
    BY <1>3, <1>found, <1>ready, <1>open, <1>gated, <1>count DEF Search, OpenIn, GatedIn
  <2> QED
    BY <1>3, <1>found, <1>ready, <1>open, <2>1 DEF NoSource, Ends
<1>4. CASE r.query # << >> /\ ready # {} /\ open # {}
  <2>1. found = LateEnd(r, passed, results, why, count)
    <3> DEFINE open0     == InSpace(docs, ReviewActive(docs, ReadyDocuments(docs)), r.space)
    <3> DEFINE gated0    == InSpace(docs, Gated(docs, ReadyDocuments(docs)), r.space)
    <3> DEFINE limit0    == IF r.limit = 0 THEN 3 ELSE r.limit
    <3> DEFINE lexical0  == IF r.mode = "vector" THEN NothingFound
                            ELSE LexicalSearch(docs, open0, r.query, limit0)
    <3> DEFINE vectored0 == IF r.mode = "lexical" THEN NothingFound
                            ELSE VectorSearch(docs, open0, v, limit0)
    <3> DEFINE fused0    == Fused(lexical0, vectored0)
    <3> DEFINE passed0   == {c \in DOMAIN fused0 : fused0[c] >= r.minScore}
    <3> DEFINE results0  == FirstFew(Ranked([c \in passed0 |-> fused0[c]]), limit0)
    <3>0. r.query # << >> /\ ReadyDocuments(docs) # {} /\ open0 # {}
      BY <1>4, <1>ready, <1>open DEF OpenIn
    <3>1. Search(docs, r, v)
            = LateEnd(r, passed0, results0, ReasonForNone(docs, gated0, r, v), Cardinality(gated0))
      BY <3>0 DEF Search, LateEnd
    <3>g. gated0 = gated /\ open0 = open
      BY <1>gated, <1>open DEF GatedIn, OpenIn
    <3> HIDE DEF gated0, open0
    <3>2. limit0 = limit
      BY DEF Stages
    <3>3. lexical0 = lexical /\ vectored0 = vectored
      BY <1>open, <3>2, <3>g DEF Stages
    <3> HIDE DEF limit0, lexical0, vectored0
    <3>4. fused0 = fused
      BY <3>3 DEF Stages
    <3> HIDE DEF fused0
    <3>5. passed0 = passed
      BY <3>4 DEF Stages
    <3> HIDE DEF passed0
    <3>6. results0 = results
      BY <3>2, <3>4, <3>5 DEF Stages
    <3>7. ReasonForNone(docs, gated0, r, v) = why
      BY <1>gated, <3>g DEF Stages
    <3> HIDE DEF results0
    <3> QED
      BY <1>found, <1>count, <3>1, <3>5, <3>6, <3>7, <3>g
  <2>2. Ends(LateEnd(r, passed, results, why, count), r, ready, open, passed, results, why)
    BY <1>4, EndsLate
  <2> QED
    BY <1>found, <1>ready, <1>open, <2>1, <2>2
<1> QED
  BY <1>1, <1>2, <1>3, <1>4

(* The best of what a lexical search finds pass, if they reach the threshold. *)
BestPass(passed, docs, D, query, limit, minScore) ==
  /\ passed \subseteq Hits(docs, D, query)
  /\ IsFiniteSet(passed) /\ Cardinality(passed) <= limit
  /\ \A c \in passed, x \in Chunks(docs, D) \ passed :
       ScoreOf(docs, c, query) >= ScoreOf(docs, x, query)
  /\ \A c \in Hits(docs, D, query) : ScoreOf(docs, c, query) >= minScore => passed # {}

LEMMA LexicalPasses ==
  ASSUME NEW docs, IsLibrary(docs), NEW D \in SUBSET DOMAIN docs,
         NEW query, IsSequence(query), NEW limit \in Nat \ {0}, NEW minScore \in Nat,
         NEW lexical, lexical = LexicalSearch(docs, D, query, limit),
         NEW fused, fused = Fused(lexical, NothingFound),
         NEW passed, passed = {c \in DOMAIN fused : fused[c] >= minScore}
  PROVE  BestPass(passed, docs, D, query, limit, minScore)
<1>1. /\ IsScores(lexical) /\ DOMAIN lexical \subseteq Hits(docs, D, query)
      /\ DOMAIN lexical = {} <=> Hits(docs, D, query) = {}
      /\ \A c \in DOMAIN lexical : lexical[c] = ScoreOf(docs, c, query)
      /\ \A c \in DOMAIN lexical, x \in Hits(docs, D, query) \ DOMAIN lexical :
           ScoreOf(docs, c, query) >= ScoreOf(docs, x, query)
      /\ IsFiniteSet(DOMAIN lexical) /\ Cardinality(DOMAIN lexical) <= limit
  <2>1. FindsBest(lexical, docs, D, query, limit)
    BY LexicalFinds
  <2> QED
    BY <2>1 DEF FindsBest
<1>2. \A c : ScoreOf(docs, c, query) \in Nat
  BY ScoreIsNat DEF ScoreOf
<1>3. \A c \in DOMAIN lexical : lexical[c] > 0
  BY <1>1 DEF Hits
<1>4. DOMAIN fused = DOMAIN lexical /\ \A c \in DOMAIN fused : fused[c] = lexical[c]
  <2>1. IsScores(NothingFound) /\ DOMAIN NothingFound = {}
    BY DEF IsScores, NothingFound
  <2>2. /\ \A c \in DOMAIN lexical : lexical[c] > 0 => c \in DOMAIN fused
        /\ \A c \in DOMAIN fused : c \in DOMAIN lexical /\ fused[c] = lexical[c]
    BY <1>1, <2>1, FusedSums
  <2> QED
    BY <1>3, <2>2
<1>5. passed = {c \in DOMAIN lexical : ScoreOf(docs, c, query) >= minScore}
  BY <1>1, <1>4
<1>6. IsFiniteSet(passed) /\ Cardinality(passed) <= limit
  <2>1. /\ IsFiniteSet(passed) /\ Cardinality(passed) <= Cardinality(DOMAIN lexical)
        /\ Cardinality(passed) \in Nat /\ Cardinality(DOMAIN lexical) \in Nat
    BY <1>1, <1>5, FS_Subset, FS_CardinalityType
  <2> QED
    BY <1>1, <2>1
<1>7. ASSUME NEW c \in passed, NEW x \in Chunks(docs, D) \ passed
      PROVE  ScoreOf(docs, c, query) >= ScoreOf(docs, x, query)
  <2>1. /\ ScoreOf(docs, c, query) \in Nat /\ ScoreOf(docs, x, query) \in Nat
        /\ c \in DOMAIN lexical /\ ScoreOf(docs, c, query) >= minScore
    BY <1>2, <1>5
  <2>2. CASE x \in DOMAIN lexical
    BY <1>5, <2>1, <2>2
  <2>3. CASE x \in Hits(docs, D, query) \ DOMAIN lexical
    BY <1>1, <2>1, <2>3
  <2>4. CASE x \notin Hits(docs, D, query)
    BY <2>1, <2>4 DEF Hits
  <2> QED
    BY <2>2, <2>3, <2>4
<1>8. ASSUME NEW c \in Hits(docs, D, query), ScoreOf(docs, c, query) >= minScore
      PROVE  passed # {}
  <2>1. CASE c \in DOMAIN lexical
    BY <1>5, <1>8, <2>1
  <2>2. CASE c \notin DOMAIN lexical
    <3>1. PICK d : d \in DOMAIN lexical
      BY <1>1
    <3>2. ScoreOf(docs, d, query) >= ScoreOf(docs, c, query)
      BY <1>1, <2>2, <3>1
    <3>3. ScoreOf(docs, d, query) >= minScore
      BY <1>2, <1>8, <3>2
    <3> QED
      BY <1>5, <3>1, <3>3
  <2> QED
    BY <2>1, <2>2
<1> QED
  BY <1>1, <1>5, <1>6, <1>7, <1>8 DEF BestPass

(* What a search answers with, and why it has no answer. *)
AnswersWith(found, docs, r, open, gated) ==
  /\ found.results \in Seq(Chunks(docs, open)) /\ found.reason \in Reasons \cup {None}
  /\ found.results = << >> <=> found.reason # None
  /\ r.mode = "lexical" =>
       /\ Range(found.results) \subseteq Hits(docs, open, r.query)
       /\ found.results # << >> => r.query # << >>
       /\ \A c \in Range(found.results), y \in Chunks(docs, open) \ Range(found.results) :
            ScoreOf(docs, c, r.query) >= ScoreOf(docs, y, r.query)
       /\ r.query # << >> =>
            \A c \in Hits(docs, open, r.query) :
              ScoreOf(docs, c, r.query) >= r.minScore => found.results # << >>
  /\ found.reason = "no_matching_chunks" /\ r.mode # "vector" =>
       Hits(docs, open, r.query) = {} /\ Hits(docs, gated, r.query) = {}
  /\ found.reason = "no_ready_documents" => ReadyDocuments(docs) = {}
  /\ found.reason = "no_review_active_documents" => open = {}

LEMMA SearchAnswers ==
  ASSUME NEW docs, IsLibrary(docs), NEW r, IsSequence(r.query), r.limit \in Nat, r.minScore \in Nat,
         NEW v, v.scores \in [DOMAIN v.scores -> Nat], NEW found, found = Search(docs, r, v),
         NEW open, open = OpenIn(docs, r.space), NEW gated, gated = GatedIn(docs, r.space)
  PROVE  AnswersWith(found, docs, r, open, gated)
<1>limit. PICK limit : limit = (IF r.limit = 0 THEN 3 ELSE r.limit)
  OBVIOUS
<1>ready. PICK ready : ready = ReadyDocuments(docs)
  OBVIOUS
<1>lexical. PICK lexical : lexical = (IF r.mode = "vector" THEN NothingFound
                                      ELSE LexicalSearch(docs, open, r.query, limit))
  OBVIOUS
<1>vectored. PICK vectored : vectored = (IF r.mode = "lexical" THEN NothingFound
                                         ELSE VectorSearch(docs, open, v, limit))
  OBVIOUS
<1>fused. PICK fused : fused = Fused(lexical, vectored)
  OBVIOUS
<1>passed. PICK passed : passed = {c \in DOMAIN fused : fused[c] >= r.minScore}
  OBVIOUS
<1>results. PICK results : results = FirstFew(Ranked([c \in passed |-> fused[c]]), limit)
  OBVIOUS
<1>1. limit \in Nat \ {0} /\ open \in SUBSET DOMAIN docs /\ gated \in SUBSET DOMAIN docs
  BY <1>limit, OpenAndGated
<1>2. IsScores(NothingFound) /\ DOMAIN NothingFound = {}
  BY DEF IsScores, NothingFound
<1>3. IsScores(lexical) /\ DOMAIN lexical \subseteq Chunks(docs, open)
  <2>1. CASE r.mode = "vector"
    BY <1>2, <1>lexical, <2>1
  <2>2. CASE r.mode # "vector"
    <3>1. lexical = LexicalSearch(docs, open, r.query, limit)
      BY <1>lexical, <2>2
    <3>2. FindsBest(lexical, docs, open, r.query, limit)
      BY <1>1, <3>1, LexicalFinds
    <3> QED
      BY <3>2 DEF FindsBest, Hits
  <2> QED
    BY <2>1, <2>2
<1>4. IsScores(vectored) /\ DOMAIN vectored \subseteq Chunks(docs, open)
  <2>1. CASE r.mode = "lexical"
    BY <1>2, <1>vectored, <2>1
  <2>2. CASE r.mode # "lexical"
    <3>1. vectored = VectorSearch(docs, open, v, limit)
      BY <1>vectored, <2>2
    <3> QED
      BY <1>1, <3>1, VectorFinds
  <2> QED
    BY <2>1, <2>2
<1>5. /\ IsScores(fused) /\ DOMAIN fused \subseteq Chunks(docs, open)
      /\ \A c \in DOMAIN lexical : lexical[c] > 0 => c \in DOMAIN fused
  <2>1. /\ IsScores(fused) /\ DOMAIN fused \subseteq DOMAIN lexical \cup DOMAIN vectored
        /\ \A c \in DOMAIN lexical : lexical[c] > 0 => c \in DOMAIN fused /\ fused[c] >= lexical[c]
    BY <1>3, <1>4, <1>fused, FusedSums
  <2> QED
    BY <1>3, <1>4, <2>1
<1>6. /\ passed \subseteq Chunks(docs, open) /\ passed \in SUBSET Keys /\ IsFiniteSet(passed)
      /\ [c \in passed |-> fused[c]] \in [passed -> Nat]
  <2>1. passed \subseteq DOMAIN fused /\ \A c \in DOMAIN fused : fused[c] \in Nat
    BY <1>5, <1>passed DEF IsScores
  <2>2. Chunks(docs, open) \in SUBSET Keys /\ IsFiniteSet(Chunks(docs, open))
    BY <1>1, ChunksAreKeys
  <2>3. passed \subseteq Chunks(docs, open)
    BY <1>5, <2>1
  <2>4. IsFiniteSet(passed)
    BY <2>2, <2>3, FS_Subset
  <2> QED
    BY <2>1, <2>2, <2>3, <2>4
<1>7. /\ results \in Seq(passed) /\ Range(results) \subseteq passed
      /\ Cardinality(passed) <= limit => Range(results) = passed
      /\ results = << >> <=> passed = {}
  <2>1. PICK ranked : ranked = [c \in passed |-> fused[c]]
    OBVIOUS
  <2>2. ranked \in [passed -> Nat] /\ results = FirstFew(Ranked(ranked), limit)
    BY <1>6, <1>results, <2>1
  <2>3. passed \in SUBSET Keys /\ IsFiniteSet(passed) /\ limit \in Nat \ {0}
    BY <1>1, <1>6
  <2> QED
    BY <2>2, <2>3, RankedFew
<1>why. PICK why : why = ReasonForNone(docs, gated, r, v)
  OBVIOUS
<1>ends. Ends(found, r, ready, open, passed, results, why)
  <2>1. Stages(docs, r, v, limit, lexical, vectored, fused, passed, results, why)
    BY <1>limit, <1>lexical, <1>vectored, <1>fused, <1>passed, <1>results, <1>why DEF Stages
  <2> QED
    BY <1>ready, <2>1, SearchEnds
<1>8. \/ /\ found.results = << >>
         /\ \/ r.query = << >> /\ found.reason = "query_empty"
            \/ r.query # << >> /\ ready = {} /\ found.reason = "no_ready_documents"
            \/ r.query # << >> /\ ready # {} /\ open = {} /\ found.reason = "no_review_active_documents"
            \/ r.minScore > 0 /\ passed = {} /\ found.reason = "below_threshold"
            \/ ~(r.minScore > 0) /\ passed = {} /\ found.reason = why
      \/ r.query # << >> /\ passed # {} /\ found.reason = None /\ found.results = results
  BY <1>ends DEF Ends
<1>9. why \in {"review_gated_documents", "vector_unavailable", "vector_failed", "no_matching_chunks"}
  BY <1>why DEF ReasonForNone
<1>10. found.results \in Seq(Chunks(docs, open))
  <2>1. << >> \in Seq(Chunks(docs, open)) /\ results \in Seq(Chunks(docs, open))
    BY <1>6, <1>7
  <2> QED
    BY <1>8, <2>1
<1>11. /\ found.reason \in Reasons \cup {None} /\ (found.results = << >> <=> found.reason # None)
       /\ found.reason = "no_ready_documents" => ready = {}
       /\ found.reason = "no_review_active_documents" => open = {}
  BY <1>7, <1>8, <1>9, ReasonsAssumption DEF Reasons
<1>12. ASSUME r.mode = "lexical"
       PROVE  /\ Range(found.results) \subseteq Hits(docs, open, r.query)
              /\ found.results # << >> => r.query # << >>
              /\ \A c \in Range(found.results), y \in Chunks(docs, open) \ Range(found.results) :
                   ScoreOf(docs, c, r.query) >= ScoreOf(docs, y, r.query)
              /\ r.query # << >> =>
                   \A c \in Hits(docs, open, r.query) :
                     ScoreOf(docs, c, r.query) >= r.minScore => found.results # << >>
  <2>1. lexical = LexicalSearch(docs, open, r.query, limit) /\ vectored = NothingFound
    BY <1>lexical, <1>vectored, <1>12
  <2>2. fused = Fused(lexical, NothingFound)
    BY <1>fused, <2>1
  <2>3. /\ passed \subseteq Hits(docs, open, r.query) /\ Cardinality(passed) <= limit
        /\ \A c \in passed, y \in Chunks(docs, open) \ passed :
             ScoreOf(docs, c, r.query) >= ScoreOf(docs, y, r.query)
        /\ \A c \in Hits(docs, open, r.query) :
             ScoreOf(docs, c, r.query) >= r.minScore => passed # {}
    <3>1. BestPass(passed, docs, open, r.query, limit, r.minScore)
      BY <1>1, <1>passed, <2>1, <2>2, LexicalPasses
    <3> QED
      BY <3>1 DEF BestPass
  <2>4. Range(results) = passed
    BY <1>7, <2>3
  <2>5. CASE found.results = results
    <3>1. results # << >> => r.query # << >>
      BY <1>7, <1>8, <2>5
    <3> QED
      BY <1>7, <2>3, <2>4, <2>5, <3>1
  <2>6. CASE found.results = << >> /\ (r.query = << >> \/ ready = {} \/ open = {})
    <3>1. Range(<< >>) = {}
      BY DEF Range
    <3>2. r.query # << >> => Chunks(docs, open) = {}
      BY <1>ready, <2>6 DEF Chunks, OpenIn, InSpace, ReviewActive
    <3> QED
      BY <2>6, <3>1, <3>2 DEF Hits
  <2>7. CASE found.results = << >> /\ passed = {}
    <3>1. results = << >>
      BY <1>7, <2>7
    <3> QED
      BY <2>5, <2>7, <3>1
  <2> QED
    BY <1>8, <2>5, <2>6, <2>7
<1>13. ASSUME found.reason = "no_matching_chunks", r.mode # "vector"
       PROVE  Hits(docs, open, r.query) = {} /\ Hits(docs, gated, r.query) = {}
  <2>1. passed = {} /\ ~(r.minScore > 0) /\ why = "no_matching_chunks"
    BY <1>8, <1>13, ReasonsAssumption DEF Reasons
  <2>2. DOMAIN fused = {}
    <3>1. \A c \in DOMAIN fused : fused[c] >= r.minScore
      BY <1>5, <2>1 DEF IsScores
    <3> QED
      BY <1>passed, <2>1, <3>1
  <2>3. lexical = LexicalSearch(docs, open, r.query, limit)
    BY <1>lexical, <1>13
  <2>4. FindsBest(lexical, docs, open, r.query, limit)
    BY <1>1, <2>3, LexicalFinds
  <2>5. DOMAIN lexical = {}
    BY <1>5, <2>2, <2>4 DEF FindsBest, Hits
  <2>6. Hits(docs, open, r.query) = {}
    BY <2>4, <2>5 DEF FindsBest
  <2>one. PICK one \in Nat \ {0} : one = 1
    OBVIOUS
  <2>one0. PICK closed : closed = LexicalSearch(docs, gated, r.query, one)
    OBVIOUS
  <2>7. DOMAIN closed = {}
    BY <1>13, <1>why, <2>1, <2>one, <2>one0 DEF ReasonForNone
  <2>8. FindsBest(closed, docs, gated, r.query, one)
    BY <1>1, <2>one0, LexicalFinds
  <2> QED
    BY <2>6, <2>7, <2>8 DEF FindsBest
<1> QED
  BY <1>10, <1>11, <1>12, <1>13, <1>ready DEF AnswersWith

-----------------------------------------------------------------------------
(* A search and what the console says of the same documents                    *)

LEMMA FlagsShown ==
  ASSUME NEW docs, NEW d \in DOMAIN docs,
         NEW flags, flags = DocumentDetail(Described(docs), d, << >>).flags
  PROVE  /\ "disabled" \in flags <=> docs[d].status = "disabled"
         /\ "document_failed" \in flags <=> docs[d].status = "failed"
         /\ "review_gated" \in flags <=> docs[d].review \notin Eligible
         /\ "no_chunks" \in flags <=> docs[d].chunks = << >>
<1>1. /\ Described(docs)[d].status = docs[d].status /\ Described(docs)[d].review = docs[d].review
      /\ Described(docs)[d].chunks = docs[d].chunks
  BY DEF Described
<1>2. flags = QualityFlags(Described(docs), d)
  BY DEF DocumentDetail
<1> QED
  BY <1>1, <1>2 DEF QualityFlags, Raised

(* Without a ready document every space is called empty. *)
LEMMA EmptyShown ==
  ASSUME NEW docs, ReadyDocuments(docs) = {}, NEW space
  PROVE  HealthSummary(Described(docs), space, "active").status = "empty"
<1>D. PICK D : D = ListBySpace(Described(docs), space)
  OBVIOUS
<1>1. {d \in D : Described(docs)[d].status = "ready"} = {}
  BY <1>D DEF ListBySpace, Described, ReadyDocuments
<1>2. StatusCount(Described(docs), D, "ready") = 0
  BY <1>1, FS_EmptySet DEF StatusCount
<1>3. "no_active_documents" \in AttentionReasons(Described(docs), D, "active")
  BY <1>2 DEF AttentionReasons, Raised
<1>4. HealthStatus(AttentionReasons(Described(docs), D, "active")) = "empty"
  BY <1>3 DEF HealthStatus
<1> QED
  BY <1>D, <1>4 DEF HealthSummary

(* What is promised of a search, of its own results. *)
Promised(docs, r, found, usable, given) ==
  /\ (found.results = << >>) <=> (found.reason # None)
  /\ \A c \in given : c[1] \in usable /\ docs[c[1]].review \in Eligible
  /\ r.mode = "lexical" =>
       \A c \in given, x \in Chunks(docs, {d \in usable : docs[d].review \in Eligible}) \ given :
          ScoreOf(docs, c, r.query) >= ScoreOf(docs, x, r.query)
  /\ found.reason = "no_matching_chunks" /\ r.mode # "vector" =>
       \A x \in Chunks(docs, usable) : ScoreOf(docs, x, r.query) = 0
  /\ \A c \in given : DocumentDetail(Described(docs), c[1], << >>).flags
                         \cap {"disabled", "document_failed", "review_gated", "no_chunks"} = {}
  /\ found.reason = "no_ready_documents" =>
       \A d \in DOMAIN docs : HealthSummary(Described(docs), docs[d].space, "active").status = "empty"
  /\ found.reason = "no_review_active_documents" =>
       \A d \in usable : "review_gated" \in DocumentDetail(Described(docs), d, << >>).flags
  /\ r.mode = "lexical" /\ r.space = None /\ r.minScore <= 2 /\ r.query # << >> =>
       (CitationTest(docs, r.query) # << >> => found.results # << >>)

LEMMA SearchPromises ==
  ASSUME NEW docs, IsLibrary(docs), NEW r, IsSequence(r.query), r.limit \in Nat, r.minScore \in Nat,
         NEW v, v.scores \in [DOMAIN v.scores -> Nat], NEW found, found = Search(docs, r, v)
  PROVE  Promised(docs, r, found, Usable(docs, r.space), Range(found.results))
<1>usable. PICK usable : usable = Usable(docs, r.space)
  OBVIOUS
<1>given. PICK given : given = Range(found.results)
  OBVIOUS
<1>open. PICK open : open = OpenIn(docs, r.space)
  OBVIOUS
<1>gated. PICK gated : gated = GatedIn(docs, r.space)
  OBVIOUS
<1>2. /\ found.results \in Seq(Chunks(docs, open)) /\ found.reason \in Reasons \cup {None}
      /\ found.results = << >> <=> found.reason # None
      /\ r.mode = "lexical" =>
           /\ Range(found.results) \subseteq Hits(docs, open, r.query)
           /\ found.results # << >> => r.query # << >>
           /\ \A c \in Range(found.results), y \in Chunks(docs, open) \ Range(found.results) :
                ScoreOf(docs, c, r.query) >= ScoreOf(docs, y, r.query)
           /\ r.query # << >> =>
                \A c \in Hits(docs, open, r.query) :
                  ScoreOf(docs, c, r.query) >= r.minScore => found.results # << >>
      /\ found.reason = "no_matching_chunks" /\ r.mode # "vector" =>
           Hits(docs, open, r.query) = {} /\ Hits(docs, gated, r.query) = {}
      /\ found.reason = "no_ready_documents" => ReadyDocuments(docs) = {}
      /\ found.reason = "no_review_active_documents" => open = {}
  <2>1. AnswersWith(found, docs, r, open, gated)
    BY <1>open, <1>gated, SearchAnswers
  <2> QED
    BY <2>1 DEF AnswersWith
<1>3. /\ usable \in SUBSET DOMAIN docs
      /\ open = {d \in usable : docs[d].review \in Eligible}
      /\ gated = {d \in usable : docs[d].review \notin Eligible}
  BY <1>usable, <1>open, <1>gated, OpenAndGated DEF Usable
<1>4. ASSUME NEW c \in given
      PROVE  c[1] \in usable /\ docs[c[1]].review \in Eligible /\ docs[c[1]].chunks # << >>
  <2>1. c \in Chunks(docs, open)
    BY <1>2, <1>given, ListIsEmpty
  <2>2. c[1] \in open /\ c[2] \in DOMAIN docs[c[1]].chunks
    BY <2>1 DEF Chunks
  <2>3. DOMAIN << >> = {}
    OBVIOUS
  <2> QED
    BY <1>3, <2>2, <2>3
<1>5. ASSUME r.mode = "lexical",
             NEW c \in given, NEW x \in Chunks(docs, {d \in usable : docs[d].review \in Eligible}) \ given
      PROVE  ScoreOf(docs, c, r.query) >= ScoreOf(docs, x, r.query)
  BY <1>2, <1>3, <1>5, <1>given
<1>6. ASSUME found.reason = "no_matching_chunks", r.mode # "vector", NEW x \in Chunks(docs, usable)
      PROVE  ScoreOf(docs, x, r.query) = 0
  <2>1. x \in Chunks(docs, open) \/ x \in Chunks(docs, gated)
    BY <1>3 DEF Chunks
  <2>2. x \notin Hits(docs, open, r.query) /\ x \notin Hits(docs, gated, r.query)
    BY <1>2, <1>6
  <2>3. ScoreOf(docs, x, r.query) \in Nat
    BY ScoreIsNat DEF ScoreOf
  <2> QED
    BY <2>1, <2>2, <2>3 DEF Hits
<1>7. ASSUME NEW c \in given
      PROVE  DocumentDetail(Described(docs), c[1], << >>).flags
               \cap {"disabled", "document_failed", "review_gated", "no_chunks"} = {}
  <2>1. c[1] \in DOMAIN docs /\ docs[c[1]].status = "ready"
    BY <1>4, <1>usable DEF Usable
  <2>flags. PICK flags : flags = DocumentDetail(Described(docs), c[1], << >>).flags
    OBVIOUS
  <2>2. /\ "disabled" \notin flags /\ "document_failed" \notin flags
        /\ "review_gated" \notin flags /\ "no_chunks" \notin flags
    BY <1>4, <2>1, <2>flags, FlagsShown
  <2> QED
    BY <2>2, <2>flags
<1>8. ASSUME found.reason = "no_ready_documents", NEW d \in DOMAIN docs
      PROVE  HealthSummary(Described(docs), docs[d].space, "active").status = "empty"
  BY <1>2, <1>8, EmptyShown
<1>9. ASSUME found.reason = "no_review_active_documents", NEW d \in usable
      PROVE  "review_gated" \in DocumentDetail(Described(docs), d, << >>).flags
  <2>1. d \in DOMAIN docs /\ docs[d].review \notin Eligible
    BY <1>2, <1>3, <1>9
  <2> QED
    BY <2>1, FlagsShown
<1>10. ASSUME r.mode = "lexical", r.space = None, r.minScore <= 2, r.query # << >>,
              CitationTest(docs, r.query) # << >>
       PROVE  found.results # << >>
  <2>all. PICK all : all = ReviewActive(docs, ReadyDocuments(docs))
    OBVIOUS
  <2>1. PICK c \in Chunks(docs, all) : ContainsPhrase(docs[c[1]].chunks[c[2]], r.query)
    BY <1>10, <2>all DEF CitationTest
  <2>2. all = open
    BY <1>10, <1>open, <2>all DEF OpenIn, InSpace
  <2>3. ScoreOf(docs, c, r.query) \in Nat /\ ScoreOf(docs, c, r.query) >= 2
    BY <2>1, ScoreIsNat DEF ScoreOf
  <2>4. c \in Hits(docs, open, r.query) /\ ScoreOf(docs, c, r.query) >= r.minScore
    BY <1>10, <2>1, <2>2, <2>3 DEF Hits
  <2> QED
    BY <1>2, <1>10, <2>4
<1>11. Promised(docs, r, found, usable, given)
  BY <1>2, <1>4, <1>5, <1>6, <1>7, <1>8, <1>9, <1>10 DEF Promised
<1> QED
  BY <1>11, <1>usable, <1>given

LEMMA AnswersAsked ==
  ASSUME algorithm = "search", IsSearch(input)
  PROVE  SearchAnswersAsked
<1>1. Promised(input.docs, input.request, Search(input.docs, input.request, input.vector),
               Usable(input.docs, input.request.space),
               Range(Search(input.docs, input.request, input.vector).results))
  BY SearchPromises DEF IsSearch
<1> QED
  BY <1>1 DEF Promised, SearchAnswersAsked

-----------------------------------------------------------------------------
(* The repair inbox                                                            *)

(* An item is that of a gap on file. *)
IsItem(i, gaps, timeline, documents, records, g) ==
  g \in DOMAIN gaps /\ i = Item(g, gaps[g], timeline, documents, records[g])

(* What the order of the inbox reads in an item, and what the item promises. *)
IsRanked(i) ==
  /\ i.gap \in Nat /\ i.occurrences \in Nat /\ i.seenAt \in Nat
  /\ i.priority \in {"high", "medium", "low"}
  /\ i.priority = "low" <=> i.status \notin Unresolved

AsksReviewer(i) ==
  i.reason = "review_gated_documents" /\ i.status \in Unresolved =>
    i.priority = "high" /\ i.next = "review and retest"

LEMMA ItemFields ==
  ASSUME NEW gaps, NEW timeline, NEW documents, NEW records, NEW g, NEW i,
         IsItem(i, gaps, timeline, documents, records, g),
         DOMAIN gaps \subseteq Nat, IsSequence(timeline),
         \A h \in DOMAIN gaps : gaps[h].updated \in Nat,
         \A n \in DOMAIN timeline : timeline[n].at \in Nat
  PROVE  i.gap = g /\ IsRanked(i) /\ AsksReviewer(i)
<1>gap. PICK gap : gap = gaps[g]
  OBVIOUS
<1>seen. PICK seen : seen = MatchingTimelineItems(gap, timeline)
  OBVIOUS
<1>number. PICK number : number = Cardinality(seen)
  OBVIOUS
<1>state. PICK state : state = (IF seen = {} THEN "unknown" ELSE timeline[Min(seen)].state)
  OBVIOUS
<1>linked. PICK linked : linked = LinkedDocuments(g, gap, documents)
  OBVIOUS
<1>1. seen \subseteq DOMAIN timeline /\ DOMAIN timeline \subseteq Nat /\ IsFiniteSet(DOMAIN timeline)
  <2>1. timeline \in Seq(Range(timeline))
    BY DEF IsSequence
  <2>2. Len(timeline) \in Nat /\ DOMAIN timeline = 1..Len(timeline)
    BY <2>1, LenProperties
  <2>3. PICK n \in Nat : n = Len(timeline)
    BY <2>2
  <2>4. IsFiniteSet(1..n) /\ 1..n \subseteq Nat
    BY FS_Interval
  <2>5. seen \subseteq DOMAIN timeline
    BY <1>seen DEF MatchingTimelineItems
  <2> QED
    BY <2>2, <2>3, <2>4, <2>5
<1>2. number \in Nat
  BY <1>1, <1>number, FS_Subset, FS_CardinalityType
<1>3. seen # {} => Min(seen) \in DOMAIN timeline
  BY <1>1, MinOf
<1>4. /\ i.gap = g /\ i.status = gap.status /\ i.reason = gap.reason /\ i.occurrences = number
      /\ i.seenAt = (IF seen = {} THEN gap.updated ELSE timeline[Min(seen)].at)
      /\ i.priority = Priority(gap, state, number, Cardinality(linked))
      /\ i.next = NextAction(gap, state, Cardinality(linked))
  BY <1>gap, <1>seen, <1>number, <1>state, <1>linked DEF IsItem, Item
<1>5. i.seenAt \in Nat /\ i.gap \in Nat
  BY <1>3, <1>4, <1>gap DEF IsItem
<1>6. /\ i.priority \in {"high", "medium", "low"}
      /\ i.priority = "low" <=> gap.status \notin Unresolved
  BY <1>4 DEF Priority
<1>7. ASSUME gap.reason = "review_gated_documents", gap.status \in Unresolved
      PROVE  i.priority = "high" /\ i.next = "review and retest"
  <2>1. WaitsForReview(gap, state)
    BY <1>7 DEF WaitsForReview
  <2>2. i.priority = "high"
    BY <1>4, <1>7, <2>1 DEF Priority
  <2>3. gap.status \notin {"resolved", "ignored"}
    BY <1>7 DEF Unresolved
  <2>4. i.next = "review and retest"
    BY <1>4, <1>7, <2>1, <2>3 DEF NextAction
  <2> QED
    BY <2>2, <2>4
<1>8. IsRanked(i)
  BY <1>2, <1>4, <1>5, <1>6 DEF IsRanked
<1>9. AsksReviewer(i)
  BY <1>4, <1>7 DEF AsksReviewer
<1> QED
  BY <1>4, <1>8, <1>9

(* The keys of an item, as the numbers that are compared one after another. *)
Key(i) == <<StatusRank(i.status), PriorityRank(i.priority), -i.occurrences, -i.seenAt, i.gap>>

KeyLess(k, l) ==
  \/ k[1] < l[1]
  \/ k[1] = l[1] /\ k[2] < l[2]
  \/ k[1] = l[1] /\ k[2] = l[2] /\ k[3] < l[3]
  \/ k[1] = l[1] /\ k[2] = l[2] /\ k[3] = l[3] /\ k[4] < l[4]
  \/ k[1] = l[1] /\ k[2] = l[2] /\ k[3] = l[3] /\ k[4] = l[4] /\ k[5] < l[5]

IsKey(k) == k[1] \in Int /\ k[2] \in Int /\ k[3] \in Int /\ k[4] \in Int /\ k[5] \in Int

LEMMA KeysAreOrdered ==
  ASSUME NEW k, IsKey(k), NEW l, IsKey(l), NEW m, IsKey(m)
  PROVE  /\ ~KeyLess(k, k)
         /\ KeyLess(k, l) /\ KeyLess(l, m) => KeyLess(k, m)
         /\ KeyLess(k, l) \/ KeyLess(l, k) \/ k[5] = l[5]
         /\ KeyLess(k, l) => k[1] < l[1] \/ (k[1] = l[1] /\ k[2] <= l[2])
<1>1. ~KeyLess(k, k)
  BY DEF KeyLess, IsKey
<1>2. KeyLess(k, l) /\ KeyLess(l, m) => KeyLess(k, m)
  BY DEF KeyLess, IsKey
<1>3. KeyLess(k, l) \/ KeyLess(l, k) \/ k[5] = l[5]
  BY DEF KeyLess, IsKey
<1>4. KeyLess(k, l) => k[1] < l[1] \/ (k[1] = l[1] /\ k[2] <= l[2])
  BY DEF KeyLess, IsKey
<1> QED
  BY <1>1, <1>2, <1>3, <1>4

LEMMA KeyOfItem ==
  ASSUME NEW i, IsRanked(i)
  PROVE  /\ IsKey(Key(i)) /\ Key(i)[1] = StatusRank(i.status)
         /\ Key(i)[2] = PriorityRank(i.priority) /\ Key(i)[5] = i.gap
<1>1. /\ Key(i)[1] = StatusRank(i.status) /\ Key(i)[2] = PriorityRank(i.priority)
      /\ Key(i)[3] = -i.occurrences /\ Key(i)[4] = -i.seenAt /\ Key(i)[5] = i.gap
  BY DEF Key
<1>2. StatusRank(i.status) \in Int /\ PriorityRank(i.priority) \in Int
  BY DEF StatusRank, PriorityRank
<1>3. -i.occurrences \in Int /\ -i.seenAt \in Int /\ i.gap \in Int
  BY DEF IsRanked
<1> QED
  BY <1>1, <1>2, <1>3 DEF IsKey

LEMMA SortedByKeys ==
  ASSUME NEW a, IsRanked(a), NEW b, IsRanked(b)
  PROVE  SortLess(a, b) <=> KeyLess(Key(a), Key(b))
<1>left. PICK left : left = <<StatusRank(a.status), PriorityRank(a.priority), b.occurrences, b.seenAt, a.gap>>
  OBVIOUS
<1>right. PICK right : right = <<StatusRank(b.status), PriorityRank(b.priority), a.occurrences, a.seenAt, b.gap>>
  OBVIOUS
<1>k. PICK k : k = Key(a)
  OBVIOUS
<1>l. PICK l : l = Key(b)
  OBVIOUS
<1>1. DOMAIN left = 1..5
  BY <1>left
<1>2. SortLess(a, b) <=>
        \E n \in 1..5 : left[n] < right[n] /\ \A m \in 1..(n - 1) : left[m] = right[m]
  BY <1>1, <1>left, <1>right DEF SortLess
<1>3. (\E n \in 1..5 : left[n] < right[n] /\ \A m \in 1..(n - 1) : left[m] = right[m])
        <=> KeyLess(left, right)
  BY DEF KeyLess
<1>4. /\ left[1] = k[1] /\ left[2] = k[2] /\ left[3] = -l[3] /\ left[4] = -l[4] /\ left[5] = k[5]
      /\ right[1] = l[1] /\ right[2] = l[2] /\ right[3] = -k[3] /\ right[4] = -k[4] /\ right[5] = l[5]
  <2>1. a.occurrences \in Nat /\ a.seenAt \in Nat /\ b.occurrences \in Nat /\ b.seenAt \in Nat
    BY DEF IsRanked
  <2>2. /\ k[1] = StatusRank(a.status) /\ k[2] = PriorityRank(a.priority)
        /\ k[3] = -a.occurrences /\ k[4] = -a.seenAt /\ k[5] = a.gap
    BY <1>k DEF Key
  <2>3. /\ l[1] = StatusRank(b.status) /\ l[2] = PriorityRank(b.priority)
        /\ l[3] = -b.occurrences /\ l[4] = -b.seenAt /\ l[5] = b.gap
    BY <1>l DEF Key
  <2>4. /\ left[1] = StatusRank(a.status) /\ left[2] = PriorityRank(a.priority)
        /\ left[3] = b.occurrences /\ left[4] = b.seenAt /\ left[5] = a.gap
    BY <1>left
  <2>5. /\ right[1] = StatusRank(b.status) /\ right[2] = PriorityRank(b.priority)
        /\ right[3] = a.occurrences /\ right[4] = a.seenAt /\ right[5] = b.gap
    BY <1>right
  <2>6. -(-b.occurrences) = b.occurrences /\ -(-b.seenAt) = b.seenAt
        /\ -(-a.occurrences) = a.occurrences /\ -(-a.seenAt) = a.seenAt
    BY <2>1
  <2> QED
    BY <2>2, <2>3, <2>4, <2>5, <2>6
<1>5. IsKey(k) /\ IsKey(l)
  BY <1>k, <1>l, KeyOfItem
<1>6. KeyLess(left, right) <=> KeyLess(k, l)
  BY <1>4, <1>5 DEF KeyLess, IsKey
<1> QED
  BY <1>2, <1>3, <1>6, <1>k, <1>l

(* Items of different gaps are told apart, and the more urgent comes first. *)
LEMMA NeedOrders ==
  ASSUME NEW all, \A i \in all : IsRanked(i),
         \A i, j \in all : i.gap = j.gap => i = j
  PROVE  /\ StrictOrder(all, ByNeed(all))
         /\ \A i, j \in all : <<i, j>> \in ByNeed(all) => WorkRank(i) <= WorkRank(j)
<1>1. ASSUME NEW a \in all PROVE IsRanked(a) /\ IsKey(Key(a)) /\ Key(a)[5] = a.gap
  BY KeyOfItem
<1>2. ASSUME NEW a \in all, NEW b \in all
      PROVE  <<a, b>> \in ByNeed(all) <=> KeyLess(Key(a), Key(b))
  <2>1. <<a, b>> \in ByNeed(all) <=> SortLess(a, b)
    BY DEF ByNeed
  <2> QED
    BY <2>1, SortedByKeys
<1>3. ASSUME NEW a \in all PROVE <<a, a>> \notin ByNeed(all)
  BY <1>1, <1>2, KeysAreOrdered
<1>4. ASSUME NEW a \in all, NEW b \in all, NEW c \in all,
             <<a, b>> \in ByNeed(all), <<b, c>> \in ByNeed(all)
      PROVE  <<a, c>> \in ByNeed(all)
  <2>1. IsKey(Key(a)) /\ IsKey(Key(b)) /\ IsKey(Key(c))
    BY <1>1
  <2>2. KeyLess(Key(a), Key(b)) /\ KeyLess(Key(b), Key(c))
    BY <1>2, <1>4
  <2>3. KeyLess(Key(a), Key(c))
    BY <2>1, <2>2, KeysAreOrdered
  <2> QED
    BY <1>2, <2>3
<1>5. ASSUME NEW a \in all, NEW b \in all
      PROVE  a = b \/ <<a, b>> \in ByNeed(all) \/ <<b, a>> \in ByNeed(all)
  <2>1. IsKey(Key(a)) /\ IsKey(Key(b)) /\ Key(a)[5] = a.gap /\ Key(b)[5] = b.gap
    BY <1>1
  <2>2. KeyLess(Key(a), Key(b)) \/ KeyLess(Key(b), Key(a)) \/ a.gap = b.gap
    BY <2>1, KeysAreOrdered
  <2> QED
    BY <1>2, <2>2
<1>6. ASSUME NEW a \in all, NEW b \in all, <<a, b>> \in ByNeed(all)
      PROVE  WorkRank(a) <= WorkRank(b)
  <2>1. /\ IsKey(Key(a)) /\ Key(a)[1] = StatusRank(a.status) /\ Key(a)[2] = PriorityRank(a.priority)
        /\ IsKey(Key(b)) /\ Key(b)[1] = StatusRank(b.status) /\ Key(b)[2] = PriorityRank(b.priority)
    BY KeyOfItem
  <2>2. KeyLess(Key(a), Key(b))
    BY <1>2, <1>6
  <2>3. Key(a)[1] < Key(b)[1] \/ (Key(a)[1] = Key(b)[1] /\ Key(a)[2] <= Key(b)[2])
    BY <2>1, <2>2, KeysAreOrdered
  <2>4. CASE StatusRank(a.status) < StatusRank(b.status)
    <3>1. b.status \notin Unresolved
      BY <2>4 DEF StatusRank
    <3>2. WorkRank(b) = 2 /\ WorkRank(a) \in {0, 1, 2}
      BY <3>1 DEF WorkRank
    <3> QED
      BY <3>2
  <2>5. CASE /\ StatusRank(a.status) = StatusRank(b.status)
             /\ PriorityRank(a.priority) <= PriorityRank(b.priority)
    <3>1. a.status \in Unresolved <=> b.status \in Unresolved
      BY <2>5 DEF StatusRank
    <3>2. CASE a.status \notin Unresolved
      <4>1. WorkRank(a) = 2 /\ WorkRank(b) = 2
        BY <3>1, <3>2 DEF WorkRank
      <4> QED
        BY <4>1
    <3>3. CASE a.status \in Unresolved
      <4>1. a.priority \in {"high", "medium"} /\ b.priority \in {"high", "medium"}
        BY <3>1, <3>3 DEF IsRanked
      <4>2. a.priority = "high" \/ b.priority # "high"
        BY <2>5, <4>1 DEF PriorityRank
      <4> QED
        BY <3>1, <3>3, <4>1, <4>2 DEF WorkRank
    <3> QED
      BY <3>2, <3>3
  <2> QED
    BY <2>1, <2>3, <2>4, <2>5
<1> QED
  BY <1>3, <1>4, <1>5, <1>6 DEF StrictOrder

(* A page of an ordered list. *)
LEMMA PageKeeps ==
  ASSUME NEW S, IsFiniteSet(S), NEW order, NEW all, Lists(all, S, order), NEW limit \in Nat,
         NEW page, page = Page(all, limit)
  PROVE  /\ Len(page) = (IF limit \in 1..Cardinality(S) THEN limit ELSE Cardinality(S))
         /\ DOMAIN page = 1..Len(page) /\ \A i \in DOMAIN page : page[i] \in S
         /\ \A i, j \in DOMAIN page : i < j => <<page[i], page[j]>> \in order
         /\ \A i \in DOMAIN page, x \in S \ Range(page) : <<page[i], x>> \in order
<1>1. /\ all \in Seq(S) /\ Len(all) = Cardinality(S) /\ Len(all) \in Nat /\ DOMAIN all = 1..Len(all)
      /\ \A x \in S : \E n \in 1..Len(all) : all[n] = x
      /\ \A i, j \in 1..Len(all) : i < j => <<all[i], all[j]>> \in order
  BY LenProperties DEF Lists
<1>2. CASE limit > 0 /\ Len(all) > limit
  <2>1. page = FirstFew(all, limit)
    BY <1>1, <1>2 DEF Page, FirstFew
  <2>2. /\ page \in Seq(S) /\ Len(page) = limit
        /\ \A i, j \in 1..Len(page) : i < j => <<page[i], page[j]>> \in order
        /\ \A c \in Range(page), x \in S \ Range(page) : <<c, x>> \in order
    <3>1. KeepsBest(page, S, order, limit)
      BY <2>1, BestFew
    <3>2. ~(Cardinality(S) < limit)
      BY <1>1, <1>2
    <3> QED
      BY <3>1, <3>2 DEF KeepsBest
  <2>3. DOMAIN page = 1..Len(page) /\ \A i \in DOMAIN page : page[i] \in S /\ page[i] \in Range(page)
    BY <2>2, LenProperties, ElementOfSeq DEF Range
  <2>4. limit \in 1..Cardinality(S)
    BY <1>1, <1>2
  <2> QED
    BY <2>2, <2>3, <2>4
<1>3. CASE ~(limit > 0 /\ Len(all) > limit)
  <2>1. page = all
    BY <1>3 DEF Page
  <2>2. \A i \in 1..Len(all) : all[i] \in S
    BY <1>1, ElementOfSeq
  <2>3. S \ Range(page) = {}
    BY <1>1, <2>1 DEF Range
  <2>4. limit \in 1..Cardinality(S) => limit = Cardinality(S)
    BY <1>1, <1>3
  <2> QED
    BY <1>1, <2>1, <2>2, <2>3, <2>4
<1> QED
  BY <1>2, <1>3

LEMMA WorkComesFirst ==
  ASSUME algorithm = "inbox", IsInbox(input)
  PROVE  InboxPutsWorkFirst
<1>gaps. PICK gaps : gaps = input.gaps
  OBVIOUS
<1>timeline. PICK timeline : timeline = input.timeline
  OBVIOUS
<1>filter. PICK filter : filter = input.filter
  OBVIOUS
<1>all. PICK all : all = InboxItems(gaps, timeline, input.documents, input.records, filter)
  OBVIOUS
<1>page. PICK page : page = Inbox(gaps, timeline, input.documents, input.records, filter)
  OBVIOUS
<1>1. /\ DOMAIN gaps \subseteq Nat /\ IsFiniteSet(DOMAIN gaps) /\ IsSequence(timeline)
      /\ \A h \in DOMAIN gaps : gaps[h].updated \in Nat
      /\ \A n \in DOMAIN timeline : timeline[n].at \in Nat
      /\ filter.limit \in Nat
  BY <1>gaps, <1>timeline, <1>filter DEF IsInbox
<1>2. \A i \in all : \E g : IsItem(i, gaps, timeline, input.documents, input.records, g)
  BY <1>all DEF InboxItems, IsItem
<1>3. ASSUME NEW i \in all
      PROVE  /\ IsRanked(i) /\ AsksReviewer(i)
             /\ IsItem(i, gaps, timeline, input.documents, input.records, i.gap)
  <2>1. PICK g : IsItem(i, gaps, timeline, input.documents, input.records, g)
    BY <1>2
  <2>2. i.gap = g /\ IsRanked(i) /\ AsksReviewer(i)
    BY <1>1, <2>1, ItemFields
  <2> QED
    BY <2>1, <2>2
<1>4. \A i, j \in all : i.gap = j.gap => i = j
  BY <1>3 DEF IsItem
<1>5. IsFiniteSet(all)
  <2>f. PICK f : f = [g \in DOMAIN gaps |-> Item(g, gaps[g], timeline, input.documents, input.records[g])]
    OBVIOUS
  <2>1. IsFiniteSet({f[g] : g \in DOMAIN gaps})
    BY <1>1, <2>f, FiniteImage
  <2>2. all \subseteq {f[g] : g \in DOMAIN gaps}
    BY <1>2, <2>f DEF IsItem
  <2> QED
    BY <2>1, <2>2, FS_Subset
<1>order. PICK order : order = ByNeed(all)
  OBVIOUS
<1>6. /\ StrictOrder(all, order)
      /\ \A i, j \in all : <<i, j>> \in order => WorkRank(i) <= WorkRank(j)
  BY <1>3, <1>4, <1>order, NeedOrders
<1>7. Lists(Ordered(all, order), all, order)
  BY <1>5, <1>6, OrderedLists
<1>8. page = Page(Ordered(all, order), filter.limit)
  BY <1>page, <1>all, <1>order DEF Inbox, SortedThenCut
<1>9. /\ Len(page) = (IF filter.limit \in 1..Cardinality(all) THEN filter.limit ELSE Cardinality(all))
      /\ \A i \in DOMAIN page : page[i] \in all
      /\ \A i, j \in DOMAIN page : i < j => <<page[i], page[j]>> \in order
      /\ \A i \in DOMAIN page, x \in all \ Range(page) : <<page[i], x>> \in order
  BY <1>1, <1>5, <1>7, <1>8, PageKeeps
<1>10. \A i, j \in DOMAIN page : i < j => WorkRank(page[i]) <= WorkRank(page[j])
  BY <1>6, <1>9
<1>11. \A i \in DOMAIN page, x \in all \ Range(page) : WorkRank(page[i]) <= WorkRank(x)
  BY <1>6, <1>9
<1>12. \A x \in all : x.reason = "review_gated_documents" /\ x.status \in Unresolved =>
                       x.priority = "high" /\ x.next = "review and retest"
  BY <1>3 DEF AsksReviewer
<1> QED
  BY <1>9, <1>10, <1>11, <1>12, <1>gaps, <1>timeline, <1>filter, <1>all, <1>page DEF InboxPutsWorkFirst

-----------------------------------------------------------------------------
(* The release gate                                                            *)

(* What a promoted case gets from the knowledge on file. *)
PromotedOutput(o, docs, r) ==
  /\ ~docs.readable => o.category = "executor_unavailable"
  /\ docs.readable => \A d \in o.documents : Backed(docs.library, d, r.space)
  /\ docs.readable /\ SupportRank(o.state) > 0 => \E d \in DOMAIN docs.library : Backed(docs.library, d, r.space)

LEMMA PromotedAnswers ==
  ASSUME NEW docs, IsLibrary(docs.library), NEW r, IsRevision(r),
         NEW o, o = OutputOf(PromotedCase(r), docs)
  PROVE  PromotedOutput(o, docs, r)
<1>library. PICK library : library = docs.library
  OBVIOUS
<1>ask. PICK ask : ask = [query |-> r.question, mode |-> "lexical", limit |-> 5,
                          space |-> r.space, minScore |-> 0]
  OBVIOUS
<1>found. PICK found : found = Search(library, ask, NoIndex)
  OBVIOUS
<1>1. o = ExecutePromoted(PromotedCase(r), docs)
  BY DEF OutputOf, PromotedCase, IsRevision
<1>2. PromotedCase(r).promotion = r
  BY DEF PromotedCase
<1>3. CASE ~docs.readable
  BY <1>1, <1>3 DEF ExecutePromoted, PromotedOutput, Silent
<1>4. CASE docs.readable
  <2>1. /\ o.documents = {found.results[i][1] : i \in DOMAIN found.results}
        /\ o.state = (IF found.results = << >> THEN "unsupported" ELSE "grounded")
    BY <1>1, <1>2, <1>4, <1>library, <1>ask, <1>found DEF ExecutePromoted, Silent
  <2>open. PICK open : open = OpenIn(library, r.space)
    OBVIOUS
  <2>gated. PICK gated : gated = GatedIn(library, r.space)
    OBVIOUS
  <2>2. found.results \in Seq(Chunks(library, open))
    <3>1. /\ ask.query = r.question /\ ask.limit = 5 /\ ask.minScore = 0 /\ ask.space = r.space
          /\ IsSequence(ask.query)
      BY <1>ask DEF IsRevision
    <3>2. NoIndex.scores \in [DOMAIN NoIndex.scores -> Nat]
      BY DEF NoIndex, NothingFound
    <3>3. AnswersWith(found, library, ask, open, gated)
      BY <1>library, <1>found, <2>open, <2>gated, <3>1, <3>2, SearchAnswers
    <3> QED
      BY <3>3 DEF AnswersWith
  <2>3. \A d \in open : Backed(library, d, r.space)
    BY <2>open DEF OpenIn, Backed, InSpace, ReviewActive, Gated, ReadyDocuments, IsRevision
  <2>4. \A i \in DOMAIN found.results : found.results[i][1] \in open
    <3>1. ASSUME NEW i \in DOMAIN found.results PROVE found.results[i] \in Chunks(library, open)
      BY <2>2, ElementOfSeq, LenProperties
    <3> QED
      BY <3>1 DEF Chunks
  <2>5. ASSUME SupportRank(o.state) > 0 PROVE \E d \in open : TRUE
    <3>1. found.results # << >>
      BY <2>1, <2>5 DEF SupportRank
    <3>2. DOMAIN found.results # {}
      BY <2>2, <3>1, ListIsEmpty
    <3> QED
      BY <2>4, <3>2
  <2>6. \A d \in open : d \in DOMAIN library
    BY <2>3 DEF Backed
  <2> QED
    BY <1>4, <1>library, <2>1, <2>3, <2>4, <2>5, <2>6 DEF PromotedOutput
<1> QED
  BY <1>3, <1>4

(* What a promoted case that passes shows of its repair. *)
LEMMA PassedIsBacked ==
  ASSUME NEW docs, NEW r, IsRevision(r), NEW o, PromotedOutput(o, docs, r),
         ~Fails("rag", PromotedCase(r), o)
  PROVE  /\ docs.readable
         /\ \A d \in r.documents : Backed(docs.library, d, r.space)
         /\ r.support # None => \E d \in DOMAIN docs.library : Backed(docs.library, d, r.space)
<1>e. PICK e : e = PromotedCase(r).expected.rag
  OBVIOUS
<1>1. e.support = r.support /\ e.documents = r.documents /\ PromotedCase(r).promotion = r
  BY <1>e DEF PromotedCase
<1>2. ~RagFails(e, o, r)
  BY <1>e, <1>1 DEF Fails
<1>3. docs.readable
  BY <1>2 DEF RagFails, PromotedOutput, IsRevision
<1>4. r.documents \subseteq o.documents
  BY <1>1, <1>2 DEF RagFails
<1>5. ASSUME r.support # None PROVE SupportRank(o.state) > 0
  <2>1. ~(SupportRank(o.state) < SupportRank(r.support))
    BY <1>1, <1>2, <1>5 DEF RagFails
  <2>2. SupportRank(r.support) \in {1, 2}
    BY <1>5 DEF SupportRank, IsRevision
  <2>3. SupportRank(o.state) \in {0, 1, 2}
    BY DEF SupportRank
  <2> QED
    BY <2>1, <2>2, <2>3
<1> QED
  BY <1>3, <1>4, <1>5 DEF PromotedOutput

(* Of the active revisions the highest are loaded, up to the limit. *)
LEMMA PromotedAreLoaded ==
  ASSUME NEW revisions, IsSequence(revisions), \A r \in Range(revisions) : IsRevision(r),
         NEW promoted, promoted = Promoted(revisions)
  PROVE  /\ IsSequence(promoted) /\ Range(promoted) \subseteq Range(revisions)
         /\ \A r \in Range(revisions) :
              r.active => \/ r \in Range(promoted)
                          \/ /\ Len(promoted) = PromotionLimit
                             /\ \A s \in Range(promoted) : s.revision >= r.revision
<1>active. PICK active : active = {i \in DOMAIN revisions : revisions[i].active}
  OBVIOUS
<1>number. PICK number : number = [i \in active |-> revisions[i].revision]
  OBVIOUS
<1>before. PICK before : before = {p \in active \X active :
                                     \/ number[p[1]] > number[p[2]]
                                     \/ number[p[1]] = number[p[2]] /\ p[1] < p[2]}
  OBVIOUS
<1>order. PICK order : order = Ordered(active, before)
  OBVIOUS
<1>all. PICK all : all = [n \in DOMAIN order |-> revisions[order[n]]]
  OBVIOUS
<1>few. PICK few : few = FirstFew(order, PromotionLimit)
  OBVIOUS
<1>1. promoted = FirstFew(all, PromotionLimit)
  BY <1>active, <1>number, <1>before, <1>order, <1>all DEF Promoted
<1>2. /\ active \subseteq 1..Len(revisions) /\ Len(revisions) \in Nat /\ IsFiniteSet(active)
      /\ \A i \in active : revisions[i] \in Range(revisions)
  <2>1. DOMAIN revisions = 1..Len(revisions) /\ Len(revisions) \in Nat
    BY LenProperties DEF IsSequence
  <2>2. IsFiniteSet(1..Len(revisions))
    BY <2>1, FS_Interval
  <2> QED
    BY <1>active, <2>1, <2>2, FS_Subset DEF Range
<1>3. number \in [active -> Nat] /\ \A i \in active : number[i] = revisions[i].revision
  BY <1>2, <1>number DEF IsRevision
<1>4. StrictOrder(active, before)
  <2>1. active \subseteq Nat
    BY <1>2
  <2>2. ASSUME NEW a \in active, NEW b \in active
        PROVE  <<a, b>> \in before <=> \/ number[a] > number[b]
                                       \/ number[a] = number[b] /\ a < b
    BY <1>before
  <2>3. \A a \in active : number[a] \in Nat
    BY <1>3
  <2> QED
    BY <2>1, <2>2, <2>3 DEF StrictOrder
<1>5. Lists(order, active, before)
  BY <1>2, <1>4, <1>order, OrderedLists
<1>6. KeepsBest(few, active, before, PromotionLimit)
  BY <1>2, <1>5, <1>few, BestFew, PromotionLimitAssumption
<1>7. /\ order \in Seq(active) /\ Len(order) \in Nat /\ DOMAIN order = 1..Len(order)
      /\ \A n \in 1..Len(order) : order[n] \in active
  BY <1>5, LenProperties, ElementOfSeq DEF Lists
<1>8. /\ all \in Seq(Range(revisions)) /\ Len(all) = Len(order)
      /\ \A n \in 1..Len(order) : all[n] = revisions[order[n]]
  <2>1. all \in [1..Len(order) -> Range(revisions)]
    BY <1>2, <1>7, <1>all
  <2> QED
    BY <1>7, <1>all, <2>1
<1>9. /\ promoted \in Seq(Range(revisions)) /\ Len(promoted) = Len(few) /\ Len(few) \in Nat
      /\ \A n \in 1..Len(few) : few[n] \in active /\ promoted[n] = revisions[few[n]]
  <2>1. /\ promoted \in Seq(Range(revisions))
        /\ Len(promoted) = (IF Len(all) < PromotionLimit THEN Len(all) ELSE PromotionLimit)
        /\ \A n \in 1..Len(promoted) : promoted[n] = all[n]
    BY <1>1, <1>8, FirstFewKeeps, PromotionLimitAssumption
  <2>2. /\ few \in Seq(active)
        /\ Len(few) = (IF Len(order) < PromotionLimit THEN Len(order) ELSE PromotionLimit)
        /\ \A n \in 1..Len(few) : few[n] = order[n]
    BY <1>7, <1>few, FirstFewKeeps, PromotionLimitAssumption
  <2>3. Len(few) \in Nat /\ Len(promoted) = Len(few) /\ Len(few) <= Len(order)
    BY <1>7, <1>8, <2>1, <2>2, PromotionLimitAssumption
  <2>4. ASSUME NEW n \in 1..Len(few) PROVE few[n] \in active /\ promoted[n] = revisions[few[n]]
    <3>1. n \in 1..Len(order) /\ n \in 1..Len(promoted)
      BY <1>7, <2>3
    <3> QED
      BY <1>7, <1>8, <2>1, <2>2, <3>1
  <2> QED
    BY <2>1, <2>3, <2>4
<1>10. /\ Range(promoted) = {promoted[n] : n \in 1..Len(few)} /\ Range(promoted) \subseteq Range(revisions)
       /\ Range(few) = {few[n] : n \in 1..Len(few)} /\ IsSequence(promoted)
  <2>1. few \in Seq(active)
    BY <1>6 DEF KeepsBest
  <2>2. DOMAIN promoted = 1..Len(few) /\ DOMAIN few = 1..Len(few)
    BY <1>9, <2>1, LenProperties
  <2>3. \A n \in 1..Len(few) : promoted[n] \in Range(promoted)
    BY <2>2 DEF Range
  <2>4. promoted \in Seq(Range(promoted))
    <3>1. promoted \in [1..Len(few) -> Range(promoted)]
      BY <1>9, <2>2, <2>3
    <3> QED
      BY <1>9, <3>1
  <2> QED
    BY <1>2, <1>9, <2>2, <2>4 DEF Range, IsSequence
<1>11. ASSUME NEW r \in Range(revisions), r.active, r \notin Range(promoted)
       PROVE  /\ Len(promoted) = PromotionLimit
              /\ \A s \in Range(promoted) : s.revision >= r.revision
  <2>1. PICK i \in active : revisions[i] = r
    BY <1>11, <1>active DEF Range
  <2>2. i \notin Range(few)
    BY <1>9, <1>10, <1>11, <2>1
  <2>3. Len(few) = PromotionLimit
    <3>1. ~(Cardinality(active) <= PromotionLimit)
      BY <1>6, <2>1, <2>2 DEF KeepsBest
    <3>2. Cardinality(active) \in Nat
      BY <1>2, FS_CardinalityType
    <3>3. ~(Cardinality(active) < PromotionLimit)
      BY <3>1, <3>2, PromotionLimitAssumption
    <3> QED
      BY <1>6, <3>3 DEF KeepsBest
  <2>4. ASSUME NEW s \in Range(promoted) PROVE s.revision >= r.revision
    <3>1. PICK n \in 1..Len(few) : s = revisions[few[n]] /\ few[n] \in active /\ few[n] \in Range(few)
      BY <1>9, <1>10
    <3>2. <<few[n], i>> \in before
      BY <1>6, <2>1, <2>2, <3>1 DEF KeepsBest
    <3>3. number[few[n]] >= number[i]
      BY <1>3, <1>before, <2>1, <3>1, <3>2
    <3> QED
      BY <1>3, <2>1, <3>1, <3>3
  <2> QED
    BY <1>9, <2>3, <2>4
<1> QED
  BY <1>10, <1>11

Joins(joined, s, m, t, n) ==
  /\ DOMAIN joined = 1..(m + n)
  /\ \A i \in 1..m : i \in 1..(m + n) /\ joined[i] = s[i]
  /\ \A i \in 1..n : m + i \in 1..(m + n) /\ joined[m + i] = t[i]
  /\ \A i \in 1..(m + n) : i \in 1..m \/ \E k \in 1..n : i = m + k

LEMMA Joined ==
  ASSUME NEW m \in Nat, NEW n \in Nat, NEW S, NEW s \in [1..m -> S], NEW t \in [1..n -> S],
         NEW joined, joined = s \o t
  PROVE  Joins(joined, s, m, t, n)
<1>1. s \in Seq(S) /\ Len(s) = m /\ t \in Seq(S) /\ Len(t) = n
  OBVIOUS
<1>2. /\ joined \in Seq(S) /\ Len(joined) = m + n
      /\ \A i \in 1..(m + n) : joined[i] = IF i <= m THEN s[i] ELSE t[i - m]
  BY <1>1, ConcatProperties
<1>3. DOMAIN joined = 1..(m + n)
  BY <1>2, LenProperties
<1>4. ASSUME NEW i \in 1..m PROVE i \in 1..(m + n) /\ joined[i] = s[i]
  <2>1. i \in 1..(m + n) /\ i <= m
    OBVIOUS
  <2> QED
    BY <1>2, <2>1
<1>5. ASSUME NEW i \in 1..n PROVE m + i \in 1..(m + n) /\ joined[m + i] = t[i]
  <2>1. m + i \in 1..(m + n) /\ ~(m + i <= m) /\ (m + i) - m = i
    OBVIOUS
  <2> QED
    BY <1>2, <2>1
<1>6. ASSUME NEW i \in 1..(m + n), i \notin 1..m PROVE \E k \in 1..n : i = m + k
  <2>1. i - m \in 1..n /\ i = m + (i - m)
    BY <1>6
  <2> QED
    BY <2>1
<1> QED
  BY <1>3, <1>4, <1>5, <1>6 DEF Joins

(* The cases that are run, and their ids: those on file and the promoted ones. *)
CasesOf(files, promoted) == files \o [i \in DOMAIN promoted |-> PromotedCase(promoted[i])]

IdsOf(files, promoted) ==
  [i \in DOMAIN files |-> files[i].id] \o [i \in DOMAIN promoted |-> promoted[i].case]

LEMMA CasesListed ==
  ASSUME NEW files, IsSequence(files), NEW revisions, IsSequence(revisions),
         NEW cases, cases = CasesOf(files, revisions), NEW ids, ids = IdsOf(files, revisions)
  PROVE  /\ DOMAIN ids = DOMAIN cases /\ \A i \in DOMAIN cases : ids[i] = cases[i].id
         /\ DOMAIN cases \subseteq Nat \ {0}
         /\ \A c \in Range(files) : c \in ToSet(cases)
         /\ \A r \in Range(revisions) : PromotedCase(r) \in ToSet(cases)
         /\ ToSet(cases) = {cases[i] : i \in DOMAIN cases}
<1>m. PICK m : m = Len(files)
  OBVIOUS
<1>n. PICK n : n = Len(revisions)
  OBVIOUS
<1>promoted. PICK promoted : promoted = [i \in DOMAIN revisions |-> PromotedCase(revisions[i])]
  OBVIOUS
<1>own. PICK own : own = [i \in DOMAIN files |-> files[i].id]
  OBVIOUS
<1>new. PICK new : new = [i \in DOMAIN revisions |-> revisions[i].case]
  OBVIOUS
<1>1. m \in Nat /\ DOMAIN files = 1..m /\ n \in Nat /\ DOMAIN revisions = 1..n
  BY <1>m, <1>n, LenProperties DEF IsSequence
<1>S. PICK S : S = Range(files) \cup {promoted[i] : i \in 1..n}
  OBVIOUS
<1>T. PICK T : T = {own[i] : i \in 1..m} \cup {new[i] : i \in 1..n}
  OBVIOUS
<1>2. files \in [1..m -> S] /\ promoted \in [1..n -> S]
  <2>1. files \in [1..m -> Range(files)]
    BY <1>m, LenProperties DEF IsSequence
  <2>2. files \in [1..m -> S]
    BY <1>S, <2>1
  <2>3. promoted \in [1..n -> S]
    BY <1>1, <1>S, <1>promoted
  <2> QED
    BY <2>2, <2>3
<1>3. own \in [1..m -> T] /\ new \in [1..n -> T]
  BY <1>1, <1>T, <1>own, <1>new
<1>4. cases = files \o promoted /\ ids = own \o new
  BY <1>promoted, <1>own, <1>new DEF CasesOf, IdsOf
<1>5. /\ DOMAIN cases = 1..(m + n)
      /\ \A i \in 1..m : i \in 1..(m + n) /\ cases[i] = files[i]
      /\ \A i \in 1..n : m + i \in 1..(m + n) /\ cases[m + i] = promoted[i]
      /\ \A i \in 1..(m + n) : i \in 1..m \/ \E k \in 1..n : i = m + k
  <2>1. Joins(cases, files, m, promoted, n)
    BY <1>1, <1>2, <1>4, Joined
  <2> QED
    BY <2>1 DEF Joins
<1>6. /\ DOMAIN ids = 1..(m + n)
      /\ \A i \in 1..m : ids[i] = own[i]
      /\ \A i \in 1..n : ids[m + i] = new[i]
  <2>1. Joins(ids, own, m, new, n)
    BY <1>1, <1>3, <1>4, Joined
  <2> QED
    BY <2>1 DEF Joins
<1>7. ASSUME NEW i \in 1..(m + n) PROVE ids[i] = cases[i].id
  <2>1. CASE i \in 1..m
    BY <1>1, <1>5, <1>6, <1>own, <2>1
  <2>2. CASE i \notin 1..m
    <3>1. PICK k \in 1..n : i = m + k
      BY <1>5, <2>2
    <3>2. cases[i] = promoted[k] /\ ids[i] = new[k]
      BY <1>5, <1>6, <3>1
    <3>3. promoted[k] = PromotedCase(revisions[k]) /\ new[k] = revisions[k].case
      BY <1>1, <1>promoted, <1>new
    <3> QED
      BY <3>2, <3>3 DEF PromotedCase
  <2> QED
    BY <2>1, <2>2
<1>8. ToSet(cases) = {cases[i] : i \in DOMAIN cases}
  BY DEF ToSet
<1>9. ASSUME NEW c \in Range(files) PROVE c \in ToSet(cases)
  <2>1. PICK i \in 1..m : files[i] = c
    BY <1>1 DEF Range
  <2> QED
    BY <1>5, <1>8, <2>1
<1>10. ASSUME NEW r \in Range(revisions) PROVE PromotedCase(r) \in ToSet(cases)
  <2>1. PICK i \in 1..n : revisions[i] = r
    BY <1>1 DEF Range
  <2>2. promoted[i] = PromotedCase(r)
    BY <1>1, <1>promoted, <2>1
  <2> QED
    BY <1>5, <1>8, <2>2
<1>11. DOMAIN ids = DOMAIN cases /\ DOMAIN cases \subseteq Nat \ {0}
  BY <1>1, <1>5, <1>6
<1>12. \A i \in DOMAIN cases : ids[i] = cases[i].id
  BY <1>5, <1>7
<1> QED
  BY <1>8, <1>9, <1>10, <1>11, <1>12

ChecksOf(cases, docs) ==
  {Check(c.id, k, Status(k, c, OutputOf(c, docs)), k \in c.required, c.promotion) :
     c \in ToSet(cases), k \in CheckNames}

LEMMA IdsTellApart ==
  ASSUME NEW cases, DOMAIN cases \subseteq Nat \ {0}, Repeated(cases) = {},
         NEW i \in DOMAIN cases, NEW j \in DOMAIN cases, cases[i].id = cases[j].id
  PROVE  i = j
<1>1. ASSUME NEW a \in DOMAIN cases, NEW b \in DOMAIN cases, a < b, cases[a].id = cases[b].id
      PROVE  b \in Repeated(cases)
  <2>1. a \in 1..(b - 1)
    BY <1>1
  <2> QED
    BY <1>1, <2>1 DEF Repeated
<1>2. ~(i < j) /\ ~(j < i)
  BY <1>1
<1> QED
  BY <1>2

(* A case behind another with its id fails the suite; otherwise each is checked. *)
LEMMA SuiteRuns ==
  ASSUME NEW files, NEW revisions, NEW docs,
         NEW cases, cases = CasesOf(files, Promoted(revisions)), DOMAIN cases \subseteq Nat \ {0},
         NEW suite, suite = RunEval(files, revisions, docs),
         Decide(suite).decision = "permitted"
  PROVE  Repeated(cases) = {} /\ suite = SuiteOf(ChecksOf(cases, docs))
<1>outputs. PICK outputs : outputs = [id \in {c.id : c \in ToSet(cases)} |->
                                       OutputOf(CHOOSE c \in ToSet(cases) : c.id = id, docs)]
  OBVIOUS
<1>1. suite = Run(cases, outputs)
  BY <1>outputs DEF RunEval, CasesOf
<1>2. Repeated(cases) = {}
  <2>0. SUFFICES ASSUME Repeated(cases) # {} PROVE FALSE
    OBVIOUS
  <2>1. PICK x : x = Check(cases[Min(Repeated(cases))].id, "case_validation", "failed", TRUE, None)
    OBVIOUS
  <2>2. suite = SuiteOf({x})
    BY <1>1, <2>0, <2>1 DEF Run
  <2>3. x.status = "failed"
    BY <2>1 DEF Check
  <2>4. x.case \in suite.failed
    BY <2>2, <2>3 DEF SuiteOf
  <2> QED
    BY <2>4 DEF Decide, Decision
<1> DEFINE made == {Check(c.id, k, Status(k, c, outputs[c.id]), k \in c.required, c.promotion) :
                      c \in ToSet(cases), k \in CheckNames}
<1>3. suite = SuiteOf(made)
  BY <1>1, <1>2 DEF Run
<1>4. ASSUME NEW c \in ToSet(cases) PROVE outputs[c.id] = OutputOf(c, docs)
  <2>1. PICK first : first = CHOOSE b \in ToSet(cases) : b.id = c.id
    OBVIOUS
  <2>2. first \in ToSet(cases) /\ first.id = c.id
    BY <2>1
  <2>3. first = c
    BY <1>2, <2>2, IdsTellApart DEF ToSet
  <2> QED
    BY <1>outputs, <2>1, <2>3
<1>5. made = ChecksOf(cases, docs)
  BY <1>4 DEF ChecksOf
<1> HIDE DEF made
<1> QED
  BY <1>2, <1>3, <1>5

LEMMA PermittedMeans ==
  ASSUME NEW checks, Decide(SuiteOf(checks)).decision = "permitted", NEW x \in checks
  PROVE  x.status # "failed" /\ ~(x.required /\ x.status = "skipped")
<1>suite. PICK suite : suite = SuiteOf(checks)
  OBVIOUS
<1>1. suite.checks = checks /\ suite.failed = {y.case : y \in {z \in checks : z.status = "failed"}}
  BY <1>suite DEF SuiteOf
<1>2. suite.failed = {} /\ {y.case : y \in {z \in suite.checks : z.required /\ z.status = "skipped"}} = {}
  BY <1>suite DEF Decide, Decision
<1> QED
  BY <1>1, <1>2

(* Of a case, each required check has run and passed. *)
LEMMA CasePassed ==
  ASSUME NEW cases, NEW docs, NEW checks, checks = ChecksOf(cases, docs),
         Decide(SuiteOf(checks)).decision = "permitted",
         NEW c \in ToSet(cases), NEW k \in CheckNames, k \in c.required
  PROVE  /\ k \in DOMAIN c.expected \cup {"cost_performance"} /\ ~Fails(k, c, OutputOf(c, docs))
         /\ \E x \in checks : /\ x.check = k /\ x.case = c.id /\ x.promotion = c.promotion
                              /\ x.required /\ x.status = "passed"
<1>o. PICK o : o = OutputOf(c, docs)
  OBVIOUS
<1>x. PICK x : x = Check(c.id, k, Status(k, c, o), k \in c.required, c.promotion)
  OBVIOUS
<1>1. x \in checks
  BY <1>o, <1>x DEF ChecksOf
<1>2. /\ x.status = Status(k, c, o) /\ x.required /\ x.check = k /\ x.case = c.id
      /\ x.promotion = c.promotion
  BY <1>x DEF Check
<1>3. x.status # "failed" /\ ~(x.required /\ x.status = "skipped")
  BY <1>1, PermittedMeans
<1>4. k \in DOMAIN c.expected \cup {"cost_performance"} /\ ~Fails(k, c, o) /\ x.status = "passed"
  BY <1>2, <1>3 DEF Status
<1> QED
  BY <1>1, <1>2, <1>4, <1>o

LEMMA StatusIs ==
  ASSUME NEW cases, NEW docs, NEW x \in ChecksOf(cases, docs)
  PROVE  x.status \in {"passed", "failed", "skipped"}
<1>1. PICK c \in ToSet(cases), k \in CheckNames :
        x = Check(c.id, k, Status(k, c, OutputOf(c, docs)), k \in c.required, c.promotion)
  BY DEF ChecksOf
<1>2. Status(k, c, OutputOf(c, docs)) \in {"passed", "failed", "skipped"}
  BY DEF Status
<1> QED
  BY <1>1, <1>2 DEF Check

LEMMA GateNeedsChecks ==
  ASSUME algorithm = "release", IsRelease(input)
  PROVE  ReleaseNeedsEveryCheck
<1>files. PICK files : files = input.files
  OBVIOUS
<1>revisions. PICK revisions : revisions = input.revisions
  OBVIOUS
<1>docs. PICK docs : docs = input.docs
  OBVIOUS
<1>promoted. PICK promoted : promoted = Promoted(revisions)
  OBVIOUS
<1>cases. PICK cases : cases = CasesOf(files, promoted)
  OBVIOUS
<1>ids. PICK ids : ids = IdsOf(files, promoted)
  OBVIOUS
<1>suite. PICK suite : suite = RunEval(files, revisions, docs)
  OBVIOUS
<1>seen. PICK seen : seen = Observations(suite, "r1")
  OBVIOUS
<1>0. SUFFICES ASSUME LoadCases(files), Decide(suite).decision = "permitted"
               PROVE  /\ IsInjective(ids)
                      /\ \A c \in Range(files) : EveryCheckRan(c, docs)
                      /\ \A r \in Range(promoted) : StillRepaired(r, docs, seen)
                      /\ \A r \in Range(revisions) :
                           r.active => \/ StillRepaired(r, docs, seen)
                                       \/ /\ Len(promoted) = PromotionLimit
                                          /\ \A s \in Range(promoted) : s.revision >= r.revision
                      /\ Kept(seen, {[o EXCEPT !.status = "failed"] : o \in seen}) = seen
  BY <1>files, <1>revisions, <1>docs, <1>promoted, <1>ids, <1>suite, <1>seen
     DEF ReleaseNeedsEveryCheck, IdsOf
<1>input. /\ IsSequence(files) /\ IsSequence(revisions) /\ IsLibrary(docs.library)
          /\ \A r \in Range(revisions) : IsRevision(r)
  BY <1>files, <1>revisions, <1>docs DEF IsRelease
<1>loaded. /\ IsSequence(promoted) /\ Range(promoted) \subseteq Range(revisions)
           /\ \A r \in Range(revisions) :
                r.active => \/ r \in Range(promoted)
                            \/ /\ Len(promoted) = PromotionLimit
                               /\ \A s \in Range(promoted) : s.revision >= r.revision
  BY <1>input, <1>promoted, PromotedAreLoaded
<1>1. /\ IsSequence(files) /\ IsSequence(promoted) /\ IsLibrary(docs.library)
      /\ \A r \in Range(promoted) : IsRevision(r)
  BY <1>input, <1>loaded
<1>2. /\ DOMAIN ids = DOMAIN cases /\ \A i \in DOMAIN cases : ids[i] = cases[i].id
      /\ DOMAIN cases \subseteq Nat \ {0}
      /\ \A c \in Range(files) : c \in ToSet(cases)
      /\ \A r \in Range(promoted) : PromotedCase(r) \in ToSet(cases)
  BY <1>1, <1>cases, <1>ids, CasesListed
<1>checks. PICK checks : checks = ChecksOf(cases, docs)
  OBVIOUS
<1>3. Repeated(cases) = {} /\ suite = SuiteOf(checks)
  <2>1. Decide(suite).decision = "permitted"
    BY <1>0
  <2>2. DOMAIN cases \subseteq Nat \ {0}
    BY <1>2
  <2> QED
    BY <2>1, <2>2, <1>promoted, <1>cases, <1>suite, <1>checks, SuiteRuns
<1>4. IsInjective(ids)
  BY <1>2, <1>3, IdsTellApart DEF IsInjective
<1>5. ASSUME NEW c \in Range(files) PROVE EveryCheckRan(c, docs)
  <2>1. c.required \subseteq CheckNames
    <3>1. PICK i \in DOMAIN files : files[i] = c
      BY DEF Range
    <3> QED
      BY <1>0, <3>1 DEF LoadCases, ValidCase
  <2>2. ASSUME NEW k \in c.required
        PROVE  k \in DOMAIN c.expected \cup {"cost_performance"} /\ ~Fails(k, c, OutputOf(c, docs))
    BY <1>0, <1>2, <1>3, <1>checks, <2>1, CasePassed
  <2> QED
    BY <2>2 DEF EveryCheckRan
<1>6. suite.checks = checks
  BY <1>3 DEF SuiteOf
<1>7. seen = {[run |-> "r1", case |-> x.case, promotion |-> x.promotion, status |-> ObservedStatus(x.status)] :
                x \in {y \in checks : y.required /\ y.check = "rag" /\ y.promotion # None}}
  BY <1>6, <1>seen DEF Observations
<1>8. ASSUME NEW o \in seen PROVE o.status = "passed"
  <2>1. PICK x \in checks : /\ x.required
                            /\ o = [run |-> "r1", case |-> x.case, promotion |-> x.promotion,
                                    status |-> ObservedStatus(x.status)]
    BY <1>7
  <2>2. x.status # "failed" /\ ~(x.required /\ x.status = "skipped")
    BY <1>0, <1>3, PermittedMeans
  <2>3. x.status = "passed"
    BY <1>checks, <2>1, <2>2, StatusIs
  <2> QED
    BY <2>1, <2>3 DEF ObservedStatus
<1>9. ASSUME NEW r \in Range(promoted) PROVE StillRepaired(r, docs, seen)
  <2>c. PICK c : c = PromotedCase(r)
    OBVIOUS
  <2>1. IsRevision(r) /\ r # None /\ c \in ToSet(cases)
    BY <1>1, <1>2, <2>c DEF IsRevision
  <2>2. "rag" \in CheckNames /\ "rag" \in c.required /\ c.promotion = r
    BY <2>c DEF CheckNames, PromotedCase
  <2>3. ~Fails("rag", c, OutputOf(c, docs))
    BY <1>0, <1>3, <1>checks, <2>1, <2>2, CasePassed
  <2>4. PromotedOutput(OutputOf(c, docs), docs, r)
    BY <1>1, <2>1, <2>c, PromotedAnswers
  <2>5. /\ docs.readable
        /\ \A d \in r.documents : Backed(docs.library, d, r.space)
        /\ r.support # None => \E d \in DOMAIN docs.library : Backed(docs.library, d, r.space)
    BY <2>1, <2>3, <2>4, <2>c, PassedIsBacked
  <2>6. PICK x \in checks : x.check = "rag" /\ x.promotion = r /\ x.required
    BY <1>0, <1>3, <1>checks, <2>1, <2>2, CasePassed
  <2>o. PICK o : o = [run |-> "r1", case |-> x.case, promotion |-> x.promotion,
                      status |-> ObservedStatus(x.status)]
    OBVIOUS
  <2>7. o \in seen /\ o.promotion = r
    BY <1>7, <2>1, <2>6, <2>o
  <2>8. {y.status : y \in {z \in seen : z.promotion = r}} = {"passed"}
    BY <1>8, <2>7
  <2> QED
    BY <2>5, <2>8 DEF StillRepaired
<1>10. Kept(seen, {[o EXCEPT !.status = "failed"] : o \in seen}) = seen
  <2>1. ASSUME NEW o \in seen PROVE SameObservation([o EXCEPT !.status = "failed"], o)
    <3>1. PICK x : o = [run |-> "r1", case |-> x.case, promotion |-> x.promotion,
                        status |-> ObservedStatus(x.status)]
      BY <1>7
    <3>2. [o EXCEPT !.status = "failed"] =
            [run |-> "r1", case |-> x.case, promotion |-> x.promotion, status |-> "failed"]
      BY <3>1
    <3> QED
      BY <3>1, <3>2 DEF SameObservation
  <2> QED
    BY <2>1 DEF Kept
<1> QED
  BY <1>4, <1>5, <1>9, <1>10, <1>loaded

-----------------------------------------------------------------------------
(* The three promises                                                          *)

InputIsOne ==
  /\ algorithm = "search" => IsSearch(input)
  /\ algorithm = "inbox" => IsInbox(input)
  /\ algorithm = "release" => IsRelease(input)

LEMMA OneInput == Queries => []InputIsOne
<1>1. Choosing({"search", "inbox", "release"}) => InputIsOne
  BY DEF Choosing, InputIsOne
<1>2. InputIsOne /\ [AskSearch \/ OpenInbox \/ ProposeRelease]_called => InputIsOne'
  <2> SUFFICES ASSUME InputIsOne, [AskSearch \/ OpenInbox \/ ProposeRelease]_called
               PROVE  InputIsOne'
    OBVIOUS
  <2>1. CASE AskSearch
    BY <2>1, InputsAssumption DEF AskSearch, Take, InputIsOne
  <2>2. CASE OpenInbox
    BY <2>2, InputsAssumption DEF OpenInbox, Take, InputIsOne
  <2>3. CASE ProposeRelease
    BY <2>3, InputsAssumption DEF ProposeRelease, Take, InputIsOne
  <2>4. CASE UNCHANGED called
    BY <2>4 DEF called, InputIsOne
  <2> QED
    BY <2>1, <2>2, <2>3, <2>4
<1> QED
  BY <1>1, <1>2, PTL DEF Queries

(* Whatever the documents, the request and the scores of the index: what a search
   answers with may be cited, nothing better is left out, and the reasons it
   gives for finding nothing are true of the documents and agree with health,
   document flags and citation tests (Pipeline.Search, HealthSummary,
   DocumentDetail, CitationTest). *)
THEOREM SearchesAnswer == Queries => []SearchAnswersAsked
<1>1. InputIsOne => SearchAnswersAsked
  <2>1. CASE algorithm = "search"
    BY <2>1, AnswersAsked DEF InputIsOne
  <2>2. CASE algorithm # "search"
    BY <2>2 DEF SearchAnswersAsked
  <2> QED
    BY <2>1, <2>2
<1> QED
  BY <1>1, OneInput, PTL

(* Whatever the gaps, the timeline and the filter, a page of the repair inbox holds
   the most urgent gaps in their order (RepairInboxService.List). *)
THEOREM InboxesPutWorkFirst == Queries => []InboxPutsWorkFirst
<1>1. InputIsOne => InboxPutsWorkFirst
  <2>1. CASE algorithm = "inbox"
    BY <2>1, WorkComesFirst DEF InputIsOne
  <2>2. CASE algorithm # "inbox"
    BY <2>2 DEF InboxPutsWorkFirst
  <2> QED
    BY <2>1, <2>2
<1> QED
  BY <1>1, OneInput, PTL

(* Whatever the case files, the promoted repairs, the limit of those that are
   loaded and the knowledge on file, a release is permitted only if every required
   check of the files ran and passed and each promoted repair that was loaded is
   still backed by its documents; an active one is passed over only for a limit of
   others of no lower revision (LoadCases, filterRepairEvalPromotions, Runner.Run,
   ReleaseGate.Decide). *)
THEOREM ReleasesNeedEveryCheck == Queries => []ReleaseNeedsEveryCheck
<1>1. InputIsOne => ReleaseNeedsEveryCheck
  <2>1. CASE algorithm = "release"
    BY <2>1, GateNeedsChecks DEF InputIsOne
  <2>2. CASE algorithm # "release"
    BY <2>2 DEF ReleaseNeedsEveryCheck
  <2> QED
    BY <2>1, <2>2
<1> QED
  BY <1>1, OneInput, PTL

-----------------------------------------------------------------------------
(* The model window                                                            *)

(* The costs of the first messages, one more at a time. *)
Adds(sums, ms, N) ==
  /\ sums \in [0..N -> Int] /\ sums[0] = 0
  /\ \A i \in 1..N : sums[i] = sums[i - 1] + Estimate[ms[i]]

LEMMA SumsExist ==
  ASSUME NEW ms \in Seq(Messages)
  PROVE  \E sums : Adds(sums, ms, Len(ms))
<1>N. PICK N : N = Len(ms)
  OBVIOUS
<1>1. N \in Nat /\ \A i \in 1..N : ms[i] \in Messages
  BY <1>N, LenProperties, ElementOfSeq
<1>2. \A i \in 1..N : Estimate[ms[i]] \in Nat
  BY <1>1, WindowAssumption
<1> DEFINE step == [x \in Int \X (1..N) |-> x[1] + Estimate[ms[x[2]]]]
<1>3. IsStep(step, N, Int)
  BY <1>2 DEF IsStep
<1>4. \A v \in Int, i \in 1..N : step[<<v, i>>] = v + Estimate[ms[i]]
  OBVIOUS
<1> HIDE DEF step
<1>5. PICK g : Stepped(g, 0, step, N, Int)
  <2>1. 0 \in Int
    OBVIOUS
  <2> QED
    BY <1>1, <1>3, <2>1, Recursion
<1>6. g \in [0..N -> Int] /\ g[0] = 0 /\ \A i \in 1..N : g[i] = step[<<g[i - 1], i>>]
  BY <1>5 DEF Stepped
<1>7. \A i \in 1..N : g[i - 1] \in Int
  BY <1>1, <1>6
<1>8. Adds(g, ms, N)
  BY <1>4, <1>6, <1>7 DEF Adds
<1> QED
  BY <1>8, <1>N

LEMMA TotalOfSuffix ==
  ASSUME NEW ms \in Seq(Messages), NEW sums, Adds(sums, ms, Len(ms)), NEW i \in 1..(Len(ms) + 1)
  PROVE  TotalEstimate(SubSeq(ms, i, Len(ms)), Estimate) = sums[Len(ms)] - sums[i - 1]
<1>N. PICK N : N = Len(ms)
  OBVIOUS
<1>1. N \in Nat /\ i \in 1..(N + 1)
  BY <1>N, LenProperties
<1>2. /\ sums \in [0..N -> Int]
      /\ \A j \in 1..N : sums[j] = sums[j - 1] + Estimate[ms[j]]
  BY <1>N DEF Adds
<1>t. PICK t : t = SubSeq(ms, i, N)
  OBVIOUS
<1>M. PICK M : M = N - i + 1
  OBVIOUS
<1>3. M \in Nat /\ i - 1 + M = N /\ Len(t) = M /\ \A j \in 1..M : t[j] = ms[i - 1 + j]
  <2>1. \A j \in i..N : ms[j] \in Messages
    BY <1>1, <1>N, ElementOfSeq
  <2>2. /\ Len(t) = IF i <= N THEN N - i + 1 ELSE 0
        /\ \A j \in 1..(N - i + 1) : t[j] = ms[i + j - 1]
    BY <1>1, <1>t, <2>1, SubSeqProperties
  <2>3. \A j \in 1..M : i + j - 1 = i - 1 + j
    BY <1>1, <1>M
  <2> QED
    BY <1>1, <1>M, <2>2, <2>3
<1> DEFINE Is(f) == f = [j \in 0..Len(t) |-> IF j = 0 THEN 0 ELSE f[j - 1] + Estimate[t[j]]]
<1>g. PICK g : g = [j \in 0..M |-> sums[i - 1 + j] - sums[i - 1]]
  OBVIOUS
<1>4. \A j \in 0..M : g[j] = sums[i - 1 + j] - sums[i - 1]
  BY <1>g
<1>5. g[0] = 0 /\ g[M] = sums[N] - sums[i - 1]
  <2>1. 0 \in 0..M /\ M \in 0..M /\ i - 1 \in 0..N /\ i - 1 + 0 = i - 1
    BY <1>1, <1>3
  <2>2. sums[i - 1] \in Int
    BY <1>2, <2>1
  <2>3. g[0] = sums[i - 1] - sums[i - 1]
    BY <1>4, <2>1
  <2> QED
    BY <1>3, <1>4, <2>1, <2>2, <2>3
<1>6. ASSUME NEW j \in 1..M PROVE g[j] = g[j - 1] + Estimate[t[j]]
  <2>1. i - 1 + j \in 1..N /\ (i - 1 + j) - 1 = i - 1 + (j - 1) /\ j - 1 \in 0..M /\ j \in 0..M
    BY <1>1, <1>3
  <2>2. sums[i - 1 + j] = sums[i - 1 + (j - 1)] + Estimate[ms[i - 1 + j]]
    BY <1>2, <2>1
  <2>3. /\ sums[i - 1] \in Int /\ sums[i - 1 + (j - 1)] \in Int
        /\ Estimate[ms[i - 1 + j]] \in Int
    <3>1. i - 1 \in 0..N /\ i - 1 + (j - 1) \in 0..N
      BY <1>1, <1>3, <2>1
    <3>2. ms[i - 1 + j] \in Messages
      BY <1>N, <2>1, ElementOfSeq
    <3>3. Estimate[ms[i - 1 + j]] \in Nat
      BY <3>2, WindowAssumption
    <3> QED
      BY <1>2, <3>1, <3>3
  <2>4. g[j] = sums[i - 1 + j] - sums[i - 1] /\ g[j - 1] = sums[i - 1 + (j - 1)] - sums[i - 1]
    BY <1>4, <2>1
  <2>5. t[j] = ms[i - 1 + j]
    BY <1>3
  <2> QED
    BY <2>2, <2>3, <2>4, <2>5
<1>7. Is(g)
  <2>1. \A j \in 0..M : j = 0 \/ j \in 1..M
    BY <1>3
  <2>2. g = [j \in 0..M |-> g[j]]
    BY <1>g
  <2> QED
    BY <1>3, <1>5, <1>6, <2>1, <2>2
<1>8. PICK f : f = CHOOSE h : Is(h)
  OBVIOUS
<1>9. Is(f)
  BY <1>7, <1>8
<1>10. TotalEstimate(t, Estimate) = f[M]
  BY <1>3, <1>8 DEF TotalEstimate
<1>11. Follows(f, g, M)
  <2>1. f[0] = 0
    BY <1>3, <1>9
  <2>2. ASSUME NEW j \in 1..M PROVE f[j] = f[j - 1] + Estimate[t[j]]
    <3>1. j \in 0..Len(t) /\ j # 0
      BY <1>3
    <3> QED
      BY <1>9, <3>1, Zenon
  <2> QED
    BY <1>5, <1>6, <2>1, <2>2 DEF Follows
<1>12. \A j \in 0..M : f[j] = g[j]
  BY <1>3, <1>11, SameSteps
<1>13. f[M] = g[M]
  BY <1>3, <1>12
<1> QED
  BY <1>5, <1>10, <1>13, <1>N, <1>t

(* After the first i messages every user message is answered, except a last one. *)
Turns(ms, i) ==
  \A j \in (i + 1)..Len(ms) : ms[j].role = IF (j - i) % 2 = 1 THEN "user" ELSE "assistant"

(* Where the loop is: i messages are not taken, of the top it started with, and *)
(* the others are whole turns that have been paid for.                         *)
Taking(i, left, top, ms, budget, sums) ==
  /\ i \in 0..top /\ left \in Int
  /\ (top - i) % 2 = 0
  /\ Turns(ms, i)
  /\ left = budget - (sums[Len(ms)] - sums[i])
  /\ i < top => left >= 0

Fits(i, left, ms) ==
  i >= 2 /\ IsPair(ms[i - 1], ms[i]) /\ Estimate[ms[i - 1]] + Estimate[ms[i]] <= left

LEMMA TakesTurn ==
  ASSUME NEW ms \in Seq(Messages), NEW sums, Adds(sums, ms, Len(ms)), NEW budget \in Int,
         NEW top \in 0..Len(ms), NEW i, NEW left, Taking(i, left, top, ms, budget, sums),
         Fits(i, left, ms)
  PROVE  Taking(i - 2, left - (Estimate[ms[i - 1]] + Estimate[ms[i]]), top, ms, budget, sums)
<1>N. PICK N : N = Len(ms)
  OBVIOUS
<1>1. N \in Nat /\ top \in 0..N
  BY <1>N, LenProperties
<1>2. /\ i \in 0..top /\ left \in Int /\ (top - i) % 2 = 0
      /\ \A j \in (i + 1)..N : ms[j].role = IF (j - i) % 2 = 1 THEN "user" ELSE "assistant"
      /\ left = budget - (sums[N] - sums[i])
  BY <1>N DEF Taking, Turns
<1>a. PICK a : a = Estimate[ms[i - 1]]
  OBVIOUS
<1>b. PICK b : b = Estimate[ms[i]]
  OBVIOUS
<1>3. i >= 2 /\ ms[i - 1].role = "user" /\ ms[i].role = "assistant" /\ a + b <= left
  BY <1>a, <1>b DEF Fits, IsPair
<1>i. i \in Int /\ N \in Int /\ 2 <= i /\ i <= N
  BY <1>1, <1>2, <1>3
<1>4. a \in Nat /\ b \in Nat
  <2>1. i - 1 \in 1..N /\ i \in 1..N
    BY <1>i
  <2>2. ms[i - 1] \in Messages /\ ms[i] \in Messages
    BY <1>N, <2>1, ElementOfSeq
  <2> QED
    BY <1>a, <1>b, <2>2, WindowAssumption
<1>5. sums[i] = sums[i - 2] + a + b /\ sums[i - 2] \in Int /\ sums[N] \in Int
  <2>1. /\ sums \in [0..N -> Int]
        /\ \A j \in 1..N : sums[j] = sums[j - 1] + Estimate[ms[j]]
    BY <1>N DEF Adds
  <2>2. i \in 1..N /\ i - 1 \in 1..N /\ (i - 1) - 1 = i - 2 /\ i - 2 \in 0..N
    BY <1>i
  <2>3. sums[i] = sums[i - 1] + b /\ sums[i - 1] = sums[i - 2] + a
    BY <1>a, <1>b, <2>1, <2>2
  <2>4. sums[i - 2] \in Int /\ sums[N] \in Int
    BY <1>1, <2>1, <2>2
  <2> QED
    BY <1>4, <2>3, <2>4
<1>6. i - 2 \in 0..top /\ left - (a + b) \in Int /\ (top - (i - 2)) % 2 = 0 /\ left - (a + b) >= 0
  BY <1>1, <1>2, <1>3, <1>4
<1>7. left - (a + b) = budget - (sums[N] - sums[i - 2])
  <2>1. PICK p \in Int, q \in Int : p = sums[i - 2] /\ q = sums[N]
    BY <1>5
  <2>2. sums[i] = p + a + b /\ left = budget - (q - sums[i])
    BY <1>2, <1>5, <2>1
  <2>3. left - (a + b) = budget - (q - p)
    <3>1. p \in Int /\ q \in Int
      BY <2>1
    <3> QED
      BY <1>4, <2>2, <3>1
  <2> QED
    BY <2>1, <2>3
<1>8. ASSUME NEW j \in (i - 2 + 1)..N
      PROVE  ms[j].role = IF (j - (i - 2)) % 2 = 1 THEN "user" ELSE "assistant"
  <2>1. CASE j = i - 1
    <3>1. (j - (i - 2)) % 2 = 1
      BY <1>1, <1>2, <2>1
    <3> QED
      BY <1>3, <2>1, <3>1
  <2>2. CASE j = i
    <3>1. (j - (i - 2)) % 2 # 1
      BY <1>i, <2>2
    <3>2. ms[j].role = "assistant"
      BY <1>3, <2>2, Zenon
    <3> QED
      BY <3>1, <3>2, Zenon
  <2>3. CASE j # i /\ j # i - 1
    <3>1. j \in (i + 1)..N
      BY <1>1, <1>2, <2>3
    <3>2. (j - (i - 2)) % 2 = (j - i) % 2
      <4>1. PICK d \in Int : d = j - i
        BY <1>i, <3>1
      <4>2. j - (i - 2) = d + 2 /\ (d + 2) % 2 = d % 2
        BY <1>i, <3>1, <4>1
      <4> QED
        BY <4>1, <4>2
    <3>3. ms[j].role = IF (j - i) % 2 = 1 THEN "user" ELSE "assistant"
      BY <1>2, <3>1
    <3> QED
      BY <3>2, <3>3, Zenon
  <2> QED
    BY <2>1, <2>2, <2>3
<1> QED
  BY <1>a, <1>b, <1>6, <1>7, <1>8, <1>N DEF Taking, Turns

(* Where the selection ends: nothing more fits. *)
LEMMA SelectionEnds ==
  ASSUME NEW ms \in Seq(Messages), NEW sums, Adds(sums, ms, Len(ms)), NEW budget \in Int,
         NEW from, from = AfterLatest(ms, Estimate, budget),
         Taking(from.index, from.remaining, from.index, ms, budget, sums),
         from.index \in 0..Len(ms)
  PROVE  \E i, left : /\ Taking(i, left, from.index, ms, budget, sums) /\ ~Fits(i, left, ms)
                      /\ SelectRecentTurns(ms, Estimate, budget) = SubSeq(ms, i + 1, Len(ms))
<1>N. PICK N : N = Len(ms)
  OBVIOUS
<1>1. N \in Nat
  BY <1>N, LenProperties
<1>top. PICK top : top = from.index
  OBVIOUS
<1> DEFINE V == {v \in [index : 0..top, remaining : Int] :
                   Taking(v.index, v.remaining, top, ms, budget, sums)}
           step == [x \in V \X (1..N) |-> TakePair(ms, Estimate, x[1])]
<1>2. top \in 0..N
  BY <1>N, <1>top
<1>3. ASSUME NEW v \in V
      PROVE  /\ TakePair(ms, Estimate, v) \in V
             /\ Fits(v.index, v.remaining, ms) => TakePair(ms, Estimate, v).index = v.index - 2
             /\ ~Fits(v.index, v.remaining, ms) => TakePair(ms, Estimate, v) = v
  <2>c. PICK c : c = Estimate[ms[v.index - 1]] + Estimate[ms[v.index]]
    OBVIOUS
  <2>1. TakePair(ms, Estimate, v) =
          IF Fits(v.index, v.remaining, ms)
          THEN [index |-> v.index - 2, remaining |-> v.remaining - c] ELSE v
    BY <2>c DEF TakePair, Fits
  <2>2. ASSUME Fits(v.index, v.remaining, ms)
        PROVE  [index |-> v.index - 2, remaining |-> v.remaining - c] \in V
    <3>1. Taking(v.index - 2, v.remaining - c, top, ms, budget, sums)
      BY <1>2, <1>N, <2>2, <2>c, TakesTurn
    <3>2. v.index - 2 \in 0..top /\ v.remaining - c \in Int
      BY <3>1 DEF Taking
    <3> QED
      BY <3>1, <3>2
  <2> QED
    BY <2>1, <2>2
<1>4. from \in V
  <2>1. from = [index |-> from.index, remaining |-> from.remaining]
    BY DEF AfterLatest
  <2>2. from.index \in 0..top /\ from.remaining \in Int
    BY <1>top DEF Taking
  <2> QED
    BY <1>top, <2>1, <2>2
<1> HIDE DEF V
<1>5. IsStep(step, N, V)
  BY <1>3 DEF IsStep
<1>6. \A v \in V, n \in 1..N : step[<<v, n>>] = TakePair(ms, Estimate, v)
  OBVIOUS
<1> HIDE DEF step
<1>7. PICK g : Stepped(g, from, step, N, V)
  BY <1>1, <1>4, <1>5, Recursion
<1>8. g \in [0..N -> V] /\ g[0] = from /\ \A n \in 1..N : g[n] = TakePair(ms, Estimate, g[n - 1])
  <2>1. g \in [0..N -> V] /\ g[0] = from /\ \A n \in 1..N : g[n] = step[<<g[n - 1], n>>]
    BY <1>7 DEF Stepped
  <2>2. \A n \in 1..N : g[n - 1] \in V
    BY <1>1, <2>1
  <2> QED
    BY <1>6, <2>1, <2>2
<1> DEFINE Is(f) == f = [k \in 0..N |-> IF k = 0 THEN AfterLatest(ms, Estimate, budget)
                                       ELSE TakePair(ms, Estimate, f[k - 1])]
<1>9. Is(g)
  <2>1. \A n \in 0..N : n = 0 \/ n \in 1..N
    BY <1>1
  <2>2. g = [n \in 0..N |-> g[n]]
    BY <1>8
  <2> QED
    BY <1>8, <2>1, <2>2
<1>10. PICK f : f = CHOOSE h : Is(h)
  OBVIOUS
<1>11. Is(f)
  BY <1>9, <1>10
<1>12. SelectRecentTurns(ms, Estimate, budget) = SubSeq(ms, f[N].index + 1, N)
  BY <1>10, <1>N DEF SelectRecentTurns
<1>13. Follows(f, g, N)
  <2>1. f[0] = from
    BY <1>1, <1>11
  <2>2. ASSUME NEW n \in 1..N PROVE f[n] = TakePair(ms, Estimate, f[n - 1])
    <3>1. n \in 0..N /\ n # 0
      BY <1>1
    <3> QED
      BY <1>11, <3>1, Zenon
  <2> QED
    BY <1>8, <2>1, <2>2 DEF Follows
<1> HIDE DEF Is
<1>14. f[N] = g[N]
  <2>1. \A n \in 0..N : f[n] = g[n]
    BY <1>1, <1>13, SameSteps
  <2> QED
    BY <1>1, <2>1
<1> DEFINE Done(n) == ~Fits(g[n].index, g[n].remaining, ms)
           T == {n \in 0..N : Done(n) \/ g[n].index = top - 2 * n}
<1>15. 0 \in T
  BY <1>1, <1>2, <1>8, <1>top
<1>16. ASSUME NEW n \in 0..N, n < N, n \in T PROVE n + 1 \in T
  <2>1. g[n + 1] = TakePair(ms, Estimate, g[n]) /\ g[n] \in V /\ n + 1 \in 0..N
    <3>1. n + 1 \in 1..N /\ (n + 1) - 1 = n /\ n + 1 \in 0..N
      BY <1>1, <1>16
    <3> QED
      BY <1>8, <3>1
  <2>2. CASE Done(n)
    BY <1>3, <2>1, <2>2
  <2>3. CASE ~Done(n)
    <3>1. g[n].index = top - 2 * n /\ g[n + 1].index = g[n].index - 2
      BY <1>3, <1>16, <2>1, <2>3
    <3> QED
      BY <1>2, <2>1, <3>1
  <2> QED
    BY <2>2, <2>3
<1>17. N \in T
  <2> HIDE DEF T
  <2>1. \A n \in 0..N : n \in T
    BY <1>1, <1>15, <1>16, Counting
  <2> QED
    BY <1>1, <2>1
<1>18. g[N] \in V
  BY <1>1, <1>8
<1>19. Taking(g[N].index, g[N].remaining, top, ms, budget, sums) /\ g[N].index \in 0..top
  BY <1>18 DEF V
<1>20. ~Fits(g[N].index, g[N].remaining, ms)
  <2>1. CASE g[N].index = top - 2 * N
    <3>1. ~(g[N].index >= 2)
      BY <1>1, <1>2, <2>1
    <3> QED
      BY <3>1 DEF Fits
  <2> QED
    BY <1>17, <2>1
<1> QED
  BY <1>12, <1>14, <1>19, <1>20, <1>N, <1>top

LEMMA SumsGrow ==
  ASSUME NEW ms \in Seq(Messages), NEW sums, Adds(sums, ms, Len(ms)), NEW i \in 0..Len(ms)
  PROVE  \A j \in 0..i : sums[j] <= sums[i]
<1>N. PICK N : N = Len(ms)
  OBVIOUS
<1>1. N \in Nat /\ i \in 0..N
  BY <1>N, LenProperties
<1>2. /\ sums \in [0..N -> Int]
      /\ \A k \in 1..N : sums[k] = sums[k - 1] + Estimate[ms[k]]
  BY <1>N DEF Adds
<1> DEFINE T == {k \in 0..i : sums[i - k] <= sums[i]}
<1>3. 0 \in T
  <2>1. i - 0 = i /\ sums[i] \in Int
    BY <1>1, <1>2
  <2> QED
    BY <1>1, <2>1
<1>4. ASSUME NEW k \in 0..i, k < i, k \in T PROVE k + 1 \in T
  <2>1. i - k \in 1..N /\ (i - k) - 1 = i - (k + 1) /\ i - (k + 1) \in 0..N /\ k + 1 \in 0..i
    BY <1>1, <1>4
  <2>2. Estimate[ms[i - k]] \in Nat
    <3>1. ms[i - k] \in Messages
      BY <1>N, <2>1, ElementOfSeq
    <3> QED
      BY <3>1, WindowAssumption
  <2>3. sums[i - k] = sums[i - (k + 1)] + Estimate[ms[i - k]]
    BY <1>2, <2>1
  <2>4. sums[i - (k + 1)] \in Int /\ sums[i] \in Int /\ sums[i - k] <= sums[i]
    BY <1>1, <1>2, <1>4, <2>1
  <2>5. sums[i - (k + 1)] <= sums[i]
    BY <2>2, <2>3, <2>4
  <2> QED
    BY <2>1, <2>5
<1>5. i \in Nat
  BY <1>1
<1> HIDE DEF T
<1>6. \A k \in 0..i : k \in T
  BY <1>3, <1>4, <1>5, Counting
<1>7. ASSUME NEW j \in 0..i PROVE sums[j] <= sums[i]
  <2>1. i - j \in 0..i /\ i - (i - j) = j
    BY <1>5
  <2>2. sums[i - (i - j)] <= sums[i]
    BY <1>6, <2>1 DEF T
  <2> QED
    BY <2>1, <2>2
<1> QED
  BY <1>7

LEMMA SendableMeans ==
  ASSUME NEW ms \in Seq(Messages), NEW sums, Adds(sums, ms, Len(ms)), NEW budget \in Int,
         NEW i \in 0..Len(ms)
  PROVE  Sendable(ms, i + 1, Estimate, budget) <=>
           /\ Turns(ms, i)
           /\ \/ sums[Len(ms)] - sums[i] <= budget
              \/ i = Len(ms)
              \/ i + 1 = Len(ms) /\ EndsWithUser(ms)
<1>N. PICK N : N = Len(ms)
  OBVIOUS
<1>1. N \in Nat /\ i \in 0..N /\ i + 1 \in 1..(N + 1) /\ i + 1 - 1 = i
  BY <1>N, LenProperties
<1>t. PICK t : t = SubSeq(ms, i + 1, N)
  OBVIOUS
<1>2. TotalEstimate(t, Estimate) = sums[N] - sums[i]
  BY <1>1, <1>N, <1>t, TotalOfSuffix
<1>M. PICK M : M = N - i
  OBVIOUS
<1>3. /\ t \in Seq(Messages) /\ M \in Nat /\ Len(t) = M /\ DOMAIN t = 1..M
      /\ \A j \in 1..M : t[j] = ms[i + j]
  <2>1. \A j \in (i + 1)..N : ms[j] \in Messages
    BY <1>1, <1>N, ElementOfSeq
  <2>2. /\ t \in Seq(Messages)
        /\ Len(t) = IF i + 1 <= N THEN N - (i + 1) + 1 ELSE 0
        /\ \A j \in 1..(N - (i + 1) + 1) : t[j] = ms[i + 1 + j - 1]
    BY <1>1, <1>t, <2>1, SubSeqProperties
  <2>3. N - (i + 1) + 1 = M /\ (i + 1 <= N \/ M = 0) /\ M \in Nat
    BY <1>1, <1>M
  <2>4. Len(t) = M
    BY <2>2, <2>3
  <2>5. \A j \in 1..M : i + 1 + j - 1 = i + j
    BY <1>1, <2>3
  <2> QED
    BY <2>2, <2>3, <2>4, <2>5, LenProperties
<1>4. t = << >> <=> i = N
  <2>1. t = << >> <=> M = 0
    BY <1>3, EmptySeq
  <2> QED
    BY <1>1, <1>M, <2>1
<1>5. WholeTurns(t) <=> Turns(ms, i)
  <2>1. ASSUME WholeTurns(t), NEW j \in (i + 1)..N
        PROVE  ms[j].role = IF (j - i) % 2 = 1 THEN "user" ELSE "assistant"
    <3>1. j - i \in 1..M /\ i + (j - i) = j
      BY <1>1, <1>M
    <3>2. t[j - i].role = IF (j - i) % 2 = 1 THEN "user" ELSE "assistant"
      BY <1>3, <2>1, <3>1 DEF WholeTurns
    <3>3. t[j - i] = ms[j]
      BY <1>3, <3>1
    <3> QED
      BY <3>2, <3>3, Zenon
  <2>2. ASSUME Turns(ms, i), NEW j \in 1..M
        PROVE  t[j].role = IF j % 2 = 1 THEN "user" ELSE "assistant"
    <3>1. i + j \in (i + 1)..N /\ (i + j) - i = j
      BY <1>1, <1>M
    <3>2. ms[i + j].role = IF ((i + j) - i) % 2 = 1 THEN "user" ELSE "assistant"
      BY <1>N, <2>2, <3>1 DEF Turns
    <3>3. ((i + j) - i) % 2 = j % 2
      BY <3>1
    <3>4. t[j] = ms[i + j]
      BY <1>3
    <3> QED
      BY <3>2, <3>3, <3>4, Zenon
  <2> QED
    BY <1>3, <1>N, <2>1, <2>2 DEF WholeTurns, Turns
<1>6. Sendable(ms, i + 1, Estimate, budget) <=>
        /\ WholeTurns(t)
        /\ \/ TotalEstimate(t, Estimate) <= budget
           \/ t = << >>
           \/ i + 1 = N /\ EndsWithUser(ms)
  BY <1>N, <1>t DEF Sendable
<1> QED
  BY <1>2, <1>4, <1>5, <1>6, <1>N

(* Nothing longer may be sent than what is selected. *)
LEMMA NothingLonger ==
  ASSUME NEW ms \in Seq(Messages), NEW sums, Adds(sums, ms, Len(ms)), NEW budget \in Int,
         NEW top \in 0..Len(ms), NEW i, NEW left, Taking(i, left, top, ms, budget, sums),
         ~Fits(i, left, ms),
         NEW j \in 0..Len(ms), j < i, (top - j) % 2 = 0
  PROVE  ~Sendable(ms, j + 1, Estimate, budget)
<1> SUFFICES ASSUME Sendable(ms, j + 1, Estimate, budget) PROVE FALSE
  OBVIOUS
<1>N. PICK N : N = Len(ms)
  OBVIOUS
<1>1. N \in Nat /\ top \in 0..N /\ j \in 0..N
  BY <1>N, LenProperties
<1>2. i \in 0..top /\ left \in Int /\ (top - i) % 2 = 0 /\ left = budget - (sums[N] - sums[i])
  BY <1>N DEF Taking
<1>3. /\ Turns(ms, j)
      /\ sums[N] - sums[j] <= budget \/ j = N \/ j + 1 = N
  BY <1>N, SendableMeans
<1>4. /\ i \in Int /\ j \in Int /\ 2 <= i /\ j <= i - 2 /\ i <= N /\ 0 <= j
      /\ (i - j) % 2 = 0
  BY <1>1, <1>2
<1>5. ms[i - 1].role = "user" /\ ms[i].role = "assistant"
  <2>1. i - 1 \in (j + 1)..N /\ i \in (j + 1)..N /\ ((i - 1) - j) % 2 = 1 /\ (i - j) % 2 # 1
    BY <1>1, <1>4
  <2>2. /\ ms[i - 1].role = IF ((i - 1) - j) % 2 = 1 THEN "user" ELSE "assistant"
        /\ ms[i].role = IF (i - j) % 2 = 1 THEN "user" ELSE "assistant"
    BY <1>3, <1>N, <2>1, Zenon DEF Turns
  <2> QED
    BY <2>1, <2>2, Zenon
<1>a. PICK a : a = Estimate[ms[i - 1]]
  OBVIOUS
<1>b. PICK b : b = Estimate[ms[i]]
  OBVIOUS
<1>6. a \in Nat /\ b \in Nat
  <2>1. i - 1 \in 1..N /\ i \in 1..N
    BY <1>1, <1>4
  <2>2. ms[i - 1] \in Messages /\ ms[i] \in Messages
    BY <1>N, <2>1, ElementOfSeq
  <2> QED
    BY <1>a, <1>b, <2>2, WindowAssumption
<1>7. ~(a + b <= left)
  BY <1>4, <1>5, <1>a, <1>b DEF Fits, IsPair
<1>8. /\ sums[i] = sums[i - 2] + a + b /\ sums[i - 2] \in Int /\ sums[N] \in Int
      /\ sums[j] \in Int /\ sums[j] <= sums[i - 2]
  <2>1. /\ sums \in [0..N -> Int]
        /\ \A k \in 1..N : sums[k] = sums[k - 1] + Estimate[ms[k]]
    BY <1>N DEF Adds
  <2>2. /\ i \in 1..N /\ i - 1 \in 1..N /\ (i - 1) - 1 = i - 2 /\ i - 2 \in 0..N
        /\ j \in 0..(i - 2)
    BY <1>1, <1>4
  <2>3. sums[i] = sums[i - 1] + b /\ sums[i - 1] = sums[i - 2] + a
    BY <1>a, <1>b, <2>1, <2>2
  <2>4. sums[i - 2] \in Int /\ sums[N] \in Int /\ sums[j] \in Int
    BY <1>1, <2>1, <2>2
  <2>5. sums[j] <= sums[i - 2]
    BY <1>N, <2>2, SumsGrow
  <2> QED
    BY <1>6, <2>3, <2>4, <2>5
<1>9. sums[N] - sums[j] <= budget
  BY <1>1, <1>3, <1>4
<1>10. PICK p, q, r : p = sums[i - 2] /\ q = sums[N] /\ r = sums[j]
  OBVIOUS
<1>11. /\ p \in Int /\ q \in Int /\ r \in Int /\ r <= p /\ q - r <= budget
       /\ left = budget - (q - (p + a + b))
  BY <1>2, <1>8, <1>9, <1>10
<1> QED
  BY <1>2, <1>6, <1>7, <1>11

LEMMA LeastIsChosen ==
  ASSUME NEW S \in SUBSET Int, NEW i \in S, \A j \in S : i <= j
  PROVE  (CHOOSE x \in S : \A y \in S : x <= y) = i
<1>1. PICK c : c = CHOOSE x \in S : \A y \in S : x <= y
  OBVIOUS
<1>2. c \in S /\ \A y \in S : c <= y
  BY <1>1
<1>3. c <= i /\ i <= c /\ c \in Int /\ i \in Int
  BY <1>2
<1> QED
  BY <1>1, <1>3

LEMMA SelectsLongest ==
  ASSUME NEW ms \in Seq(Messages), NEW budget \in Int
  PROVE  SelectRecentTurns(ms, Estimate, budget) = LongestSuffix(ms, Estimate, budget)
<1>N. PICK N : N = Len(ms)
  OBVIOUS
<1>1. N \in Nat
  BY <1>N, LenProperties
<1>2. PICK sums : Adds(sums, ms, Len(ms))
  BY SumsExist
<1>3. sums \in [0..N -> Int] /\ \A k \in 1..N : sums[k] = sums[k - 1] + Estimate[ms[k]]
  BY <1>2, <1>N DEF Adds
<1>from. PICK from : from = AfterLatest(ms, Estimate, budget)
  OBVIOUS
<1>top. PICK top : top = from.index
  OBVIOUS
<1>4. /\ ms = << >> <=> N = 0
      /\ EndsWithUser(ms) <=> N # 0 /\ ms[N].role = "user"
  BY <1>1, <1>N, EmptySeq DEF EndsWithUser
<1>5. /\ EndsWithUser(ms) => from = [index |-> N - 1, remaining |-> budget - Estimate[ms[N]]]
      /\ ~EndsWithUser(ms) => from = [index |-> N, remaining |-> budget]
  BY <1>4, <1>from, <1>N DEF AfterLatest
<1>6. /\ top \in 0..N
      /\ EndsWithUser(ms) => N \in 1..N /\ top = N - 1
      /\ ~EndsWithUser(ms) => top = N
  BY <1>1, <1>4, <1>5, <1>top
<1>7. Taking(top, from.remaining, top, ms, budget, sums)
  <2>1. top \in 0..top /\ (top - top) % 2 = 0
    BY <1>1, <1>6
  <2>2. CASE EndsWithUser(ms)
    <3>1. PICK e : e = Estimate[ms[N]]
      OBVIOUS
    <3>2. e \in Nat
      <4>1. ms[N] \in Messages
        BY <1>6, <1>N, <2>2, ElementOfSeq
      <4> QED
        BY <3>1, <4>1, WindowAssumption
    <3>3. sums[N] = sums[N - 1] + e /\ sums[N - 1] \in Int
      <4>1. N - 1 \in 0..N
        BY <1>6, <2>2
      <4> QED
        BY <1>3, <1>6, <2>2, <3>1, <4>1
    <3>4. from.remaining = budget - e
      BY <1>5, <2>2, <3>1
    <3>5. budget - e \in Int /\ budget - e = budget - (sums[N] - sums[N - 1])
      BY <3>2, <3>3
    <3>6. Turns(ms, top)
      <4>1. ASSUME NEW j \in (N - 1 + 1)..N PROVE j = N /\ (j - (N - 1)) % 2 = 1
        BY <1>1
      <4> QED
        BY <1>4, <1>6, <1>N, <2>2, <4>1 DEF Turns
    <3> QED
      BY <1>1, <1>6, <1>N, <2>1, <2>2, <3>4, <3>5, <3>6 DEF Taking
  <2>3. CASE ~EndsWithUser(ms)
    <3>1. from.remaining = budget /\ sums[N] \in Int
      BY <1>1, <1>3, <1>5, <2>3
    <3>2. budget = budget - (sums[N] - sums[N])
      BY <3>1
    <3>3. Turns(ms, top)
      <4>1. (N + 1)..N = {}
        BY <1>1
      <4> QED
        BY <1>6, <1>N, <2>3, <4>1 DEF Turns
    <3> QED
      BY <1>1, <1>6, <1>N, <2>1, <2>3, <3>1, <3>2, <3>3 DEF Taking
  <2> QED
    BY <2>2, <2>3
<1>8. PICK i, left : /\ Taking(i, left, top, ms, budget, sums) /\ ~Fits(i, left, ms)
                     /\ SelectRecentTurns(ms, Estimate, budget) = SubSeq(ms, i + 1, N)
  BY <1>2, <1>6, <1>7, <1>from, <1>top, <1>N, SelectionEnds
<1>9. /\ i \in 0..top /\ Turns(ms, i) /\ left = budget - (sums[N] - sums[i]) /\ left \in Int
      /\ i < top => left >= 0
  BY <1>8, <1>N DEF Taking
<1>starts. PICK starts : starts = {k \in 1..(N + 1) : Sendable(ms, k, Estimate, budget)}
  OBVIOUS
<1>10. i + 1 \in starts
  <2>1. i + 1 \in 1..(N + 1) /\ i \in 0..N
    BY <1>1, <1>6, <1>9
  <2>2. CASE i < top
    <3>1. sums[N] \in Int /\ sums[i] \in Int
      BY <1>1, <1>3, <2>1
    <3>2. sums[N] - sums[i] <= budget
      BY <1>9, <2>2, <3>1
    <3>3. Sendable(ms, i + 1, Estimate, budget)
      BY <1>2, <1>9, <1>N, <2>1, <3>2, SendableMeans
    <3> QED
      BY <1>starts, <2>1, <3>3
  <2>3. CASE i = top
    <3>1. i = N \/ (i + 1 = N /\ EndsWithUser(ms))
      BY <1>1, <1>6, <2>3
    <3>2. Sendable(ms, i + 1, Estimate, budget)
      BY <1>2, <1>9, <1>N, <2>1, <3>1, SendableMeans
    <3> QED
      BY <1>starts, <2>1, <3>2
  <2> QED
    BY <1>6, <1>9, <2>2, <2>3
<1>11. ASSUME NEW k \in starts PROVE i + 1 <= k
  <2> SUFFICES ASSUME ~(i + 1 <= k) PROVE FALSE
    OBVIOUS
  <2>1. PICK j : j = k - 1
    OBVIOUS
  <2>2. k \in 1..(N + 1) /\ Sendable(ms, k, Estimate, budget)
    BY <1>starts
  <2>3. j \in 0..N /\ j < i /\ j + 1 = k /\ j + 1 <= N
    BY <1>1, <1>6, <1>9, <2>1, <2>2
  <2>4. Turns(ms, j)
    BY <1>2, <1>N, <2>2, <2>3, SendableMeans
  <2>5. ms[N].role = IF (N - j) % 2 = 1 THEN "user" ELSE "assistant"
    <3>1. N \in (j + 1)..N
      BY <1>1, <2>3
    <3> QED
      BY <1>N, <2>4, <3>1 DEF Turns
  <2>6. (top - j) % 2 = 0
    <3>1. CASE EndsWithUser(ms)
      <4>1. (N - j) % 2 = 1
        BY <1>4, <2>5, <3>1, Zenon
      <4> QED
        BY <1>1, <1>6, <2>3, <3>1, <4>1
    <3>2. CASE ~EndsWithUser(ms)
      <4>1. N # 0
        BY <1>1, <2>3
      <4>2. ~((N - j) % 2 = 1)
        BY <1>4, <2>5, <3>2, <4>1, Zenon
      <4> QED
        BY <1>1, <1>6, <2>3, <3>2, <4>2
    <3> QED
      BY <3>1, <3>2
  <2>7. ~Sendable(ms, j + 1, Estimate, budget)
    BY <1>2, <1>6, <1>8, <1>N, <2>3, <2>6, NothingLonger
  <2> QED
    BY <2>2, <2>3, <2>7
<1>12. starts \in SUBSET Int
  BY <1>1, <1>starts
<1>13. (CHOOSE k \in starts : \A j \in starts : k <= j) = i + 1
  BY <1>10, <1>11, <1>12, LeastIsChosen
<1>14. LongestSuffix(ms, Estimate, budget) = SubSeq(ms, i + 1, N)
  BY <1>13, <1>starts, <1>N DEF LongestSuffix
<1> QED
  BY <1>8, <1>14

(* A transcript only grows, by messages. *)
TranscriptIsOne ==
  algorithm = "window" => input \in [messages : Seq(Messages), budget : Int]

LEMMA OneTranscript == TurnQuestions => []TranscriptIsOne
<1>1. Choosing({"window", "turn"}) => TranscriptIsOne
  BY DEF Choosing, TranscriptIsOne
<1>2. TranscriptIsOne /\ [TakeTranscript \/ AddMessage \/ ShowTurn]_called => TranscriptIsOne'
  <2> SUFFICES ASSUME TranscriptIsOne, [TakeTranscript \/ AddMessage \/ ShowTurn]_called
               PROVE  TranscriptIsOne'
    OBVIOUS
  <2>1. CASE TakeTranscript
    <3>1. PICK b \in Budgets : Take("window", [messages |-> << >>, budget |-> b])
      BY <2>1 DEF TakeTranscript
    <3>2. b \in Int /\ << >> \in Seq(Messages)
      BY WindowAssumption
    <3> QED
      BY <3>1, <3>2 DEF Take, TranscriptIsOne
  <2>2. CASE AddMessage
    <3>1. PICK m \in Messages : input' = [input EXCEPT !.messages = Append(@, m)]
      BY <2>2 DEF AddMessage
    <3>2. input \in [messages : Seq(Messages), budget : Int]
      BY <2>2 DEF AddMessage, TranscriptIsOne
    <3>3. Append(input.messages, m) \in Seq(Messages)
      BY <3>2, AppendProperties
    <3> QED
      BY <3>1, <3>2, <3>3 DEF TranscriptIsOne
  <2>3. CASE ShowTurn
    BY <2>3 DEF ShowTurn, Take, TranscriptIsOne
  <2>4. CASE UNCHANGED called
    BY <2>4 DEF called, TranscriptIsOne
  <2> QED
    BY <2>1, <2>2, <2>3, <2>4
<1> QED
  BY <1>1, <1>2, PTL DEF TurnQuestions

(* Whatever the transcript, the estimates and the budget, the window is the
   system messages and the longest suffix of whole turns of the others that fits,
   or a last message of the user's that does not (Window, selectRecentTurns). *)
THEOREM WindowsAreLongest == TurnQuestions => []WindowIsLongestSuffix
<1>1. TranscriptIsOne => WindowIsLongestSuffix
  <2> SUFFICES ASSUME TranscriptIsOne, algorithm = "window"
               PROVE  WindowIsLongestSuffix
    BY DEF WindowIsLongestSuffix
  <2>1. input.messages \in Seq(Messages) /\ input.budget \in Int
    BY DEF TranscriptIsOne
  <2>2. PICK others : others = CollectNonSystemMessages(input.messages)
    OBVIOUS
  <2>3. others \in Seq(Messages)
    BY <2>1, <2>2, OnlyKeeps DEF CollectNonSystemMessages
  <2>4. SelectRecentTurns(others, Estimate, input.budget)
          = LongestSuffix(others, Estimate, input.budget)
    BY <2>1, <2>3, SelectsLongest
  <2> QED
    BY <2>2, <2>4 DEF WindowIsLongestSuffix, Window
<1> QED
  BY <1>1, OneTranscript, PTL

-----------------------------------------------------------------------------
(* The history of reviews                                                      *)

LEMMA SequencesAreFinite ==
  ASSUME NEW s, IsSequence(s)
  PROVE  Len(s) \in Nat /\ DOMAIN s = 1..Len(s) /\ IsFiniteSet(Range(s)) /\ ToSet(s) = Range(s)
<1>1. s \in Seq(Range(s))
  BY DEF IsSequence
<1>2. PICK n \in Nat : n = Len(s) /\ DOMAIN s = 1..n
  BY <1>1, LenProperties
<1>3. ToSet(s) = Range(s) /\ Range(s) = {s[i] : i \in DOMAIN s}
  BY DEF ToSet, Range
<1>4. IsFiniteSet(DOMAIN s)
  BY <1>2, FS_Interval
<1>5. IsFiniteSet({s[i] : i \in DOMAIN s})
  BY <1>4, FiniteImage
<1> QED
  BY <1>2, <1>3, <1>5

(* A rate that was observed has a value. *)
RateShown(metric) == metric.status = "observed" => metric.value # << >>

LEMMA RatesShown ==
  ASSUME NEW numerator, NEW denominator \in Nat
  PROVE  RateShown(RateMetric(numerator, denominator))
<1>1. CASE denominator < MinSample
  <2>1. SampleStatus(denominator) # "observed"
    <3>1. denominator = 0 \/ (denominator > 0 /\ denominator < MinSample)
      BY <1>1
    <3> QED
      BY <3>1 DEF SampleStatus
  <2> QED
    BY <2>1 DEF RateShown, RateMetric
<1>2. CASE ~(denominator < MinSample)
  <2>1. <<numerator, denominator>> # << >>
    OBVIOUS
  <2> QED
    BY <1>2, <2>1 DEF RateShown, RateMetric
<1> QED
  BY <1>1, <1>2

(* The first records of a store are records of it. *)
LEMMA ListedAreOnFile ==
  ASSUME NEW records, IsSequence(records)
  PROVE  Listed(records) \in Seq(Range(records)) /\ Range(Listed(records)) \subseteq Range(records)
<1>few. PICK few : few = FirstFew(records, SourceLimit)
  OBVIOUS
<1>1. few \in Seq(Range(records))
  BY <1>few, FirstFewKeeps DEF IsSequence, SourceLimit
<1> QED
  BY <1>1, <1>few, ListIsEmpty DEF Listed

(* What is picked out of the listed records. *)
LEMMA ListedIsSequence ==
  ASSUME NEW records, IsSequence(records), NEW S, NEW s, s = Only(Listed(records), S)
  PROVE  /\ IsSequence(s)
         /\ \A r \in Range(s) : r \in Range(records) /\ r \in S
<1>V. PICK V : V = Range(records)
  OBVIOUS
<1>few. PICK few : few = Listed(records)
  OBVIOUS
<1>1. few \in Seq(V) /\ Range(few) \subseteq V
  BY <1>V, <1>few, ListedAreOnFile
<1>2. s \in Seq(V) /\ Range(s) = Range(few) \cap S
  BY <1>1, <1>few, OnlyKeeps
<1>3. IsSequence(s)
  <2>1. PICK n \in Nat : n = Len(s) /\ s \in [1..n -> V]
    BY <1>2, LenProperties
  <2>2. s \in [1..n -> Range(s)]
    BY <2>1 DEF Range
  <2> QED
    BY <2>2 DEF IsSequence
<1> QED
  BY <1>1, <1>2, <1>3, <1>V

LEMMA ObservationsSelected ==
  ASSUME NEW gaps, NEW observations, IsSequence(observations), NEW filter
  PROVE  LET selected == SelectedObservations(gaps, observations, filter)
         IN  /\ IsSequence(selected)
             /\ \A o \in Range(selected) :
                  /\ o \in Range(observations) /\ o.gap \in SelectedGaps(gaps, filter)
                  /\ SpaceSelected(o.space, filter) /\ InWindow(o.at, filter)
<1>S. PICK S : S = {o \in ToSet(observations) : /\ o.gap \in SelectedGaps(gaps, filter)
                                                /\ SpaceSelected(o.space, filter)
                                                /\ InWindow(o.at, filter)}
  OBVIOUS
<1>s. PICK s : s = SelectedObservations(gaps, observations, filter)
  OBVIOUS
<1>1. s = Only(Listed(observations), S)
  BY <1>S, <1>s DEF SelectedObservations
<1>2. IsSequence(s) /\ \A o \in Range(s) : o \in Range(observations) /\ o \in S
  BY <1>1, ListedIsSequence
<1> QED
  BY <1>2, <1>S, <1>s

LEMMA SnapshotsShow ==
  ASSUME NEW snapshot \in Snapshots
  PROVE  RateShown(snapshot.eval)
<1>1. PICK x \in Reviewed : snapshot = Snapshot(Project(x.sources, x.filter))
  BY DEF Snapshots
<1>2. PICK selected : selected = SelectedObservations(x.sources.gaps, x.sources.observations, x.filter)
  OBVIOUS
<1>3. Len(selected) \in Nat
  <2>1. IsSequence(x.sources.observations)
    BY QualityAssumption DEF IsSources
  <2>2. IsSequence(selected)
    BY <1>2, <2>1, ObservationsSelected
  <2> QED
    BY <2>2, SequencesAreFinite
<1>4. \E passed : snapshot.eval = RateMetric(passed, Len(selected))
  <2>1. snapshot.eval = Project(x.sources, x.filter).eval.rate
    BY <1>1 DEF Snapshot
  <2>2. Project(x.sources, x.filter).eval
          = PromotedEval(x.sources.gaps, x.sources.observations, x.filter)
    BY DEF Project
  <2>3. \E passed : PromotedEval(x.sources.gaps, x.sources.observations, x.filter).rate
                      = RateMetric(passed, Len(selected))
    BY <1>2 DEF PromotedEval
  <2> QED
    BY <2>1, <2>2, <2>3
<1> QED
  BY <1>3, <1>4, RatesShown

(* A review and another by end of window and age. *)
MoreRecent(r, other) ==
  \/ r.filter.end > other.filter.end
  \/ r.filter.end = other.filter.end /\ Newer(r, other)

IsReviewed(S) ==
  /\ \A r \in S : r.id \in Nat /\ r.at \in Nat /\ r.filter.end \in Nat
  /\ \A r, s \in S : r.id = s.id => r = s

LEMMA NewerOrders ==
  ASSUME NEW S, IsReviewed(S)
  PROVE  /\ StrictOrder(S, {p \in S \X S : Newer(p[1], p[2])})
         /\ StrictOrder(S, {p \in S \X S : MoreRecent(p[1], p[2])})
<1>1. \A a, b \in S : /\ <<a, b>> \in {p \in S \X S : Newer(p[1], p[2])} <=> Newer(a, b)
                      /\ <<a, b>> \in {p \in S \X S : MoreRecent(p[1], p[2])} <=> MoreRecent(a, b)
  OBVIOUS
<1>2. \A a \in S : ~Newer(a, a) /\ ~MoreRecent(a, a)
  BY DEF IsReviewed, Newer, MoreRecent
<1>3. ASSUME NEW a \in S, NEW b \in S, NEW c \in S
      PROVE  /\ Newer(a, b) /\ Newer(b, c) => Newer(a, c)
             /\ MoreRecent(a, b) /\ MoreRecent(b, c) => MoreRecent(a, c)
  <2>1. PICK ai, bi, ci, aa, ba, ca, ae, be, ce :
          /\ ai = a.id /\ bi = b.id /\ ci = c.id /\ aa = a.at /\ ba = b.at /\ ca = c.at
          /\ ae = a.filter.end /\ be = b.filter.end /\ ce = c.filter.end
    OBVIOUS
  <2>2. /\ ai \in Nat /\ bi \in Nat /\ ci \in Nat /\ aa \in Nat /\ ba \in Nat /\ ca \in Nat
        /\ ae \in Nat /\ be \in Nat /\ ce \in Nat
    BY <2>1 DEF IsReviewed
  <2>3. /\ Newer(a, b) <=> aa > ba \/ (aa = ba /\ ai > bi)
        /\ Newer(b, c) <=> ba > ca \/ (ba = ca /\ bi > ci)
        /\ Newer(a, c) <=> aa > ca \/ (aa = ca /\ ai > ci)
        /\ MoreRecent(a, b) <=> ae > be \/ (ae = be /\ Newer(a, b))
        /\ MoreRecent(b, c) <=> be > ce \/ (be = ce /\ Newer(b, c))
        /\ MoreRecent(a, c) <=> ae > ce \/ (ae = ce /\ Newer(a, c))
    BY <2>1 DEF Newer, MoreRecent
  <2> QED
    BY <2>2, <2>3
<1>4. ASSUME NEW a \in S, NEW b \in S
      PROVE  /\ a = b \/ Newer(a, b) \/ Newer(b, a)
             /\ a = b \/ MoreRecent(a, b) \/ MoreRecent(b, a)
  <2>1. PICK ai, bi, aa, ba, ae, be :
          /\ ai = a.id /\ bi = b.id /\ aa = a.at /\ ba = b.at
          /\ ae = a.filter.end /\ be = b.filter.end
    OBVIOUS
  <2>2. /\ ai \in Nat /\ bi \in Nat /\ aa \in Nat /\ ba \in Nat /\ ae \in Nat /\ be \in Nat
        /\ ai = bi => a = b
    BY <2>1 DEF IsReviewed
  <2>3. /\ Newer(a, b) <=> aa > ba \/ (aa = ba /\ ai > bi)
        /\ Newer(b, a) <=> ba > aa \/ (ba = aa /\ bi > ai)
        /\ MoreRecent(a, b) <=> ae > be \/ (ae = be /\ Newer(a, b))
        /\ MoreRecent(b, a) <=> be > ae \/ (be = ae /\ Newer(b, a))
    BY <2>1 DEF Newer, MoreRecent
  <2> QED
    BY <2>2, <2>3
<1>n. PICK n : n = {p \in S \X S : Newer(p[1], p[2])}
  OBVIOUS
<1>l. PICK l : l = {p \in S \X S : MoreRecent(p[1], p[2])}
  OBVIOUS
<1>5. \A a, b \in S : (<<a, b>> \in n <=> Newer(a, b)) /\ (<<a, b>> \in l <=> MoreRecent(a, b))
  BY <1>1, <1>l, <1>n
<1>6. StrictOrder(S, n)
  BY <1>2, <1>3, <1>4, <1>5 DEF StrictOrder
<1>7. StrictOrder(S, l)
  BY <1>2, <1>3, <1>4, <1>5 DEF StrictOrder
<1> QED
  BY <1>6, <1>7, <1>l, <1>n

(* The first of an ordered list comes before the others. *)
LEMMA FirstOfList ==
  ASSUME NEW S, IsFiniteSet(S), S # {}, NEW order, NEW items, Lists(items, S, order)
  PROVE  /\ items # << >> /\ Len(items) \in Nat \ {0} /\ items[1] \in S /\ Head(items) = items[1]
         /\ \A x \in S : x = items[1] \/ <<items[1], x>> \in order
<1>1. /\ items \in Seq(S) /\ Len(items) = Cardinality(S)
      /\ \A x \in S : \E n \in 1..Len(items) : items[n] = x
      /\ \A i, j \in 1..Len(items) : i < j => <<items[i], items[j]>> \in order
  BY DEF Lists
<1>n. PICK n : n = Len(items)
  OBVIOUS
<1>2. n \in Nat /\ n # 0
  BY <1>1, <1>n, FS_CardinalityType, FS_EmptySet
<1>3. items # << >>
  BY <1>1, <1>2, <1>n, ListIsEmpty
<1>4. items[1] \in S
  <2>1. 1 \in 1..n
    BY <1>2
  <2> QED
    BY <1>1, <1>n, <2>1, ElementOfSeq
<1>5. Head(items) = items[1]
  BY <1>1, <1>3, HeadTailProperties
<1>6. ASSUME NEW x \in S PROVE x = items[1] \/ <<items[1], x>> \in order
  <2>1. PICK k \in 1..n : items[k] = x
    BY <1>1, <1>n
  <2>2. CASE k = 1
    BY <2>1, <2>2
  <2>3. CASE k # 1
    <3>1. 1 \in 1..n /\ 1 < k
      BY <1>2, <2>3
    <3> QED
      BY <1>1, <1>n, <2>1, <3>1
  <2> QED
    BY <2>2, <2>3
<1> QED
  BY <1>2, <1>3, <1>4, <1>5, <1>6, <1>n

(* The closest earlier window of the same scope, zone and length. *)
LEMMA PredecessorIsClosest ==
  ASSUME NEW records, NEW current, IsReviewed(Predecessors(current, records)),
         IsFiniteSet(Predecessors(current, records)), Predecessors(current, records) # {},
         NEW p, p = Predecessor(current, records)
  PROVE  /\ p \in Predecessors(current, records)
         /\ \A x \in Predecessors(current, records) : x.filter.end <= p.filter.end
<1>E. PICK E : E = Predecessors(current, records)
  OBVIOUS
<1>order. PICK order : order = {q \in E \X E : MoreRecent(q[1], q[2])}
  OBVIOUS
<1>1. Lists(Ordered(E, order), E, order)
  <2>1. StrictOrder(E, order)
    BY <1>E, <1>order, NewerOrders
  <2> QED
    BY <1>E, <2>1, OrderedLists
<1>2. PICK best \in E : \A x \in E : x = best \/ <<best, x>> \in order
  BY <1>1, <1>E, FirstOfList
<1>3. \A x \in E \ {best} : MoreRecent(best, x)
  BY <1>2, <1>order
<1>4. p = CHOOSE r \in E : \A other \in E \ {r} : MoreRecent(r, other)
  BY <1>E DEF Predecessor, MoreRecent
<1>5. p \in E /\ \A other \in E \ {p} : MoreRecent(p, other)
  BY <1>3, <1>4
<1>6. ASSUME NEW x \in E PROVE x.filter.end <= p.filter.end
  <2>1. x.filter.end \in Nat /\ p.filter.end \in Nat
    BY <1>5, <1>E DEF IsReviewed
  <2>2. x = p \/ MoreRecent(p, x)
    BY <1>5
  <2> QED
    BY <2>1, <2>2 DEF MoreRecent
<1> QED
  BY <1>5, <1>6, <1>E

(* What ReviewsCompareLikeWithLike asks of a page of the reviews of a scope. *)
ComparesLike(listed, latest, scope, excluded) ==
  LET Earlier(r) == {x \in scope : /\ x.filter.zone = r.filter.zone
                                   /\ x.filter.days = r.filter.days
                                   /\ x.filter.end < r.filter.end}
  IN  /\ scope # {} => latest \in scope /\ \A r \in scope : latest.at >= r.at
      /\ listed.comparison # {} <=> scope # {} /\ excluded = 0 /\ Earlier(latest) # {}
      /\ \A c \in listed.comparison : \E p \in Earlier(latest) :
           /\ c.previous = p.id /\ c.current = latest.id
           /\ \A x \in Earlier(latest) : x.filter.end <= p.filter.end
           /\ "eval" \in c.metrics => << >> \notin {p.snapshot.eval.value, latest.snapshot.eval.value}

LEMMA ReviewsAnswer ==
  ASSUME IsHistory(input)
  PROVE  ReviewsCompareLikeWithLike
<1> SUFFICES ASSUME algorithm = "reviews", LimitAccepted(input.limit)
             PROVE  ReviewsCompareLikeWithLike
  BY DEF ReviewsCompareLikeWithLike
<1>r. PICK records : records = input.records
  OBVIOUS
<1>s. PICK space : space = input.space
  OBVIOUS
<1>x. PICK excluded : excluded = input.excluded
  OBVIOUS
<1>m. PICK limit : limit = input.limit
  OBVIOUS
<1>1. IsSequence(records) /\ ToSet(records) = Range(records) /\ IsFiniteSet(Range(records))
  BY <1>r, SequencesAreFinite DEF IsHistory
<1>2. limit \in Nat /\ limit >= 1
  BY <1>m DEF LimitAccepted
<1>3. /\ IsReviewed(Range(records))
      /\ \A r \in Range(records) : RateShown(r.snapshot.eval)
  BY <1>r, SnapshotsShow DEF IsHistory, IsReviewed
<1>scope. PICK scope : scope = {r \in ToSet(records) : r.filter.space = space}
  OBVIOUS
<1>4. scope \in SUBSET Range(records) /\ IsFiniteSet(scope) /\ IsReviewed(scope)
  <2>1. scope \in SUBSET Range(records)
    BY <1>1, <1>scope
  <2> QED
    BY <1>1, <1>3, <2>1, FS_Subset DEF IsReviewed
<1>items. PICK items : items = Sorted(scope, Newer)
  OBVIOUS
<1>order. PICK order : order = {q \in scope \X scope : Newer(q[1], q[2])}
  OBVIOUS
<1>5. Lists(items, scope, order)
  <2>1. StrictOrder(scope, order)
    BY <1>4, <1>order, NewerOrders
  <2>2. items = Ordered(scope, order)
    BY <1>items, <1>order DEF Sorted
  <2> QED
    BY <1>4, <2>1, <2>2, OrderedLists
<1>listed. PICK listed : listed = List(records, excluded, space, limit)
  OBVIOUS
<1>page. PICK page : page = listed.checkpoints
  OBVIOUS
<1>latest. PICK latest : latest = Head(page)
  OBVIOUS
<1>6. /\ page = FirstFew(items, limit)
      /\ listed.comparison
           = IF items # << >> /\ excluded = 0 /\ Predecessors(Head(items), records) # {}
             THEN {Comparison(Head(items), Predecessor(Head(items), records))} ELSE {}
  BY <1>items, <1>listed, <1>page, <1>scope DEF List, FirstFew
<1> DEFINE Earlier(r) == {x \in scope : /\ x.filter.zone = r.filter.zone
                                        /\ x.filter.days = r.filter.days
                                        /\ x.filter.end < r.filter.end}
<1>7. ASSUME scope = {} PROVE ComparesLike(listed, latest, scope, excluded)
  <2>1. items = << >>
    BY <1>4, <1>5, <1>7, ListIsEmpty, FS_EmptySet DEF Lists
  <2>2. listed.comparison = {}
    BY <1>6, <2>1
  <2> QED
    BY <1>7, <2>2 DEF ComparesLike
<1>8. ASSUME scope # {} PROVE ComparesLike(listed, latest, scope, excluded)
  <2>1. /\ items # << >> /\ Len(items) \in Nat \ {0} /\ items[1] \in scope /\ Head(items) = items[1]
        /\ \A r \in scope : r = items[1] \/ <<items[1], r>> \in order
    BY <1>4, <1>5, <1>8, FirstOfList
  <2>2. latest = items[1]
    <3>1. items \in Seq(scope)
      BY <1>5 DEF Lists
    <3>2. /\ page \in Seq(scope) /\ Len(page) = (IF Len(items) < limit THEN Len(items) ELSE limit)
          /\ \A i \in 1..Len(page) : page[i] = items[i]
      BY <1>2, <1>6, <3>1, FirstFewKeeps
    <3>3. Len(page) \in Nat /\ Len(page) >= 1
      BY <1>2, <2>1, <3>2
    <3>4. 1 \in 1..Len(page) /\ page # << >>
      BY <3>2, <3>3, ListIsEmpty
    <3>5. Head(page) = page[1]
      BY <3>2, <3>4, HeadTailProperties
    <3> QED
      BY <1>latest, <3>2, <3>4, <3>5
  <2>3. latest \in scope /\ \A r \in scope : latest.at >= r.at
    <3>1. ASSUME NEW r \in scope PROVE latest.at >= r.at
      <4>1. latest.at \in Nat /\ r.at \in Nat
        BY <1>4, <2>1, <2>2 DEF IsReviewed
      <4>2. r = latest \/ Newer(latest, r)
        BY <1>order, <2>1, <2>2
      <4> QED
        BY <4>1, <4>2 DEF Newer
    <3> QED
      BY <2>1, <2>2, <3>1
  <2>4. Predecessors(latest, records) = Earlier(latest)
    <3>1. latest.filter.space = space
      BY <1>scope, <2>3
    <3> QED
      BY <1>scope, <3>1 DEF Predecessors, Compatible
  <2>5. listed.comparison = IF excluded = 0 /\ Earlier(latest) # {}
                            THEN {Comparison(latest, Predecessor(latest, records))} ELSE {}
    BY <1>6, <2>1, <2>2, <2>4
  <2>6. ASSUME excluded = 0, Earlier(latest) # {}
        PROVE  LET c == Comparison(latest, Predecessor(latest, records))
               IN  \E p \in Earlier(latest) :
                     /\ c.previous = p.id /\ c.current = latest.id
                     /\ \A x \in Earlier(latest) : x.filter.end <= p.filter.end
                     /\ "eval" \in c.metrics =>
                          << >> \notin {p.snapshot.eval.value, latest.snapshot.eval.value}
    <3>1. PICK p : p = Predecessor(latest, records)
      OBVIOUS
    <3>2. /\ IsReviewed(Predecessors(latest, records)) /\ IsFiniteSet(Predecessors(latest, records))
          /\ Predecessors(latest, records) # {}
      <4>1. Earlier(latest) \in SUBSET scope
        OBVIOUS
      <4>2. IsReviewed(Earlier(latest)) /\ IsFiniteSet(Earlier(latest))
        BY <1>4, <4>1, FS_Subset DEF IsReviewed
      <4> QED
        BY <2>4, <2>6, <4>2
    <3>3. p \in Earlier(latest) /\ \A x \in Earlier(latest) : x.filter.end <= p.filter.end
      BY <2>4, <3>1, <3>2, PredecessorIsClosest
    <3>4. PICK c : c = Comparison(latest, p)
      OBVIOUS
    <3>5. /\ c.previous = p.id /\ c.current = latest.id
          /\ "eval" \in c.metrics => /\ latest.snapshot.eval.status = "observed"
                                    /\ p.snapshot.eval.status = "observed"
      BY <3>4 DEF Comparison, Comparable
    <3>6. RateShown(p.snapshot.eval) /\ RateShown(latest.snapshot.eval)
      BY <1>3, <1>4, <2>3, <3>3
    <3>7. "eval" \in c.metrics => << >> \notin {p.snapshot.eval.value, latest.snapshot.eval.value}
      BY <3>5, <3>6 DEF RateShown
    <3> QED
      BY <3>1, <3>3, <3>4, <3>5, <3>7
  <2>7. listed.comparison # {} <=> scope # {} /\ excluded = 0 /\ Earlier(latest) # {}
    BY <1>8, <2>5
  <2>8. \A c \in listed.comparison : \E p \in Earlier(latest) :
           /\ c.previous = p.id /\ c.current = latest.id
           /\ \A x \in Earlier(latest) : x.filter.end <= p.filter.end
           /\ "eval" \in c.metrics =>
                << >> \notin {p.snapshot.eval.value, latest.snapshot.eval.value}
    BY <2>5, <2>6
  <2> QED
    BY <2>3, <2>7, <2>8 DEF ComparesLike
<1>9. ComparesLike(listed, latest, scope, excluded)
  BY <1>7, <1>8
<1>10. ComparesLike(List(input.records, input.excluded, input.space, input.limit),
                    Head(List(input.records, input.excluded, input.space, input.limit).checkpoints),
                    {r \in ToSet(input.records) : r.filter.space = input.space}, input.excluded)
  BY <1>9, <1>latest, <1>listed, <1>m, <1>page, <1>r, <1>s, <1>scope, <1>x
<1> QED
  BY <1>10 DEF ComparesLike, ReviewsCompareLikeWithLike

-----------------------------------------------------------------------------
(* Trends                                                                      *)

IsWindow(filter) ==
  /\ filter.start \in Int /\ filter.end \in Int /\ filter.days = filter.end - filter.start
  /\ filter.days \in 1..MaxDays

LEMMA WindowsAreBounded ==
  ASSUME NEW from \in Nat \cup {NoDay}, NEW to \in Nat \cup {NoDay}, NEW today \in Nat, NEW space,
         NEW zone, FilterAccepted(from, to),
         NEW filter, filter = ParseFilter(from, to, space, today, zone)
  PROVE  IsWindow(filter) /\ filter.space = space
<1>1. CASE from = NoDay
  <2>1. filter = Filter(today + 1 - DefaultDays, today + 1, space, zone)
    BY <1>1 DEF ParseFilter
  <2>2. /\ filter.start = today + 1 - 30 /\ filter.end = today + 1 /\ filter.space = space
        /\ filter.days = (today + 1) - (today + 1 - 30)
    BY <2>1 DEF Filter, DefaultDays
  <2> QED
    BY <2>2 DEF IsWindow, MaxDays
<1>2. CASE from # NoDay
  <2>1. filter = Filter(from, to + 1, space, zone)
    BY <1>2 DEF ParseFilter
  <2>2. /\ filter.start = from /\ filter.end = to + 1 /\ filter.space = space
        /\ filter.days = to + 1 - from
    BY <2>1 DEF Filter
  <2>3. from \in Nat /\ to \in Nat /\ to + 1 - from \in 1..MaxDays
    BY <1>2 DEF FilterAccepted
  <2> QED
    BY <2>2, <2>3 DEF IsWindow, MaxDays
<1> QED
  BY <1>1, <1>2

WeekOf(moment, filter) == (Day(moment) - filter.start) \div 7

(* The weeks are those of the window, and each moment of it is in one of them. *)
LEMMA WeeksOfWindow ==
  ASSUME NEW filter, IsWindow(filter)
  PROVE  /\ Weeks(filter.days) \in 1..MaxBuckets
         /\ \A w \in 1..Weeks(filter.days) :
              filter.start + 7 * (w - 1) \in filter.start..(filter.end - 1)
         /\ \A moment \in Int : InWindow(moment, filter) =>
              WeekOf(moment, filter) \in 0..(Weeks(filter.days) - 1)
<1>1. PICK start, end, days : start = filter.start /\ end = filter.end /\ days = filter.days
  OBVIOUS
<1>2. start \in Int /\ end \in Int /\ days = end - start /\ days \in 1..90
  BY <1>1 DEF IsWindow, MaxDays
<1>w. PICK weeks : weeks = (days + 6) \div 7
  OBVIOUS
<1>3. weeks \in Int /\ weeks \in 1..13 /\ 7 * weeks <= days + 6 /\ days <= 7 * weeks
  BY <1>2, <1>w
<1>4. Weeks(filter.days) = weeks
  <2>1. Weeks(days) = IF weeks < 13 THEN weeks ELSE 13
    BY <1>w DEF Weeks, MaxBuckets
  <2> QED
    BY <1>1, <1>3, <2>1
<1>5. ASSUME NEW w \in 1..weeks PROVE start + 7 * (w - 1) \in start..(end - 1)
  BY <1>2, <1>3
<1>6. ASSUME NEW moment \in Int, InWindow(moment, filter)
      PROVE  WeekOf(moment, filter) \in 0..(weeks - 1)
  <2>1. 2 * start <= moment /\ moment < 2 * end
    BY <1>1, <1>6 DEF InWindow, Midnight
  <2>2. PICK day : day = moment \div 2
    OBVIOUS
  <2>3. day \in Int /\ start <= day /\ day < end
    BY <1>2, <2>1, <2>2
  <2>4. WeekOf(moment, filter) = (day - start) \div 7
    BY <1>1, <2>2 DEF WeekOf, Day
  <2>5. (day - start) \div 7 \in 0..(weeks - 1)
    BY <1>2, <1>3, <2>3
  <2> QED
    BY <2>4, <2>5
<1> QED
  BY <1>1, <1>3, <1>4, <1>5, <1>6 DEF MaxBuckets

(* What is true of some elements of a sequence is true of finitely many. *)
LEMMA CountsAreNat ==
  ASSUME NEW s, IsSequence(s)
  PROVE  \A I \in SUBSET DOMAIN s : /\ IsFiniteSet(I) /\ Cardinality(I) \in Nat
                                    /\ Cardinality(I) <= Len(s)
<1>1. PICK n \in Nat : n = Len(s) /\ DOMAIN s = 1..n
  BY SequencesAreFinite
<1>2. IsFiniteSet(DOMAIN s) /\ Cardinality(DOMAIN s) = n
  <2>0. n \in Nat
    BY <1>1
  <2>1. IsFiniteSet(1..n) /\ Cardinality(1..n) = n
    BY <2>0, FS_Interval
  <2> QED
    BY <1>1, <2>1
<1> QED
  BY <1>1, <1>2, FS_Subset, FS_CardinalityType

(* A sum over the weeks counts each observation once. *)
LEMMA WeeksAddUp ==
  ASSUME NEW selected, IsSequence(selected), NEW filter, IsWindow(filter), NEW status \in Statuses,
         \A o \in Range(selected) : o.at \in Int /\ InWindow(o.at, filter)
  PROVE  InWeeks(EvalBuckets(selected, filter), status)
           = Cardinality({i \in DOMAIN selected : selected[i].status = status})
<1>W. PICK W : W = Weeks(filter.days)
  OBVIOUS
<1>1. W \in Nat /\ W >= 1
  BY <1>W, WeeksOfWindow DEF MaxBuckets
<1>b. PICK buckets : buckets = EvalBuckets(selected, filter)
  OBVIOUS
<1> DEFINE In(w) == {i \in DOMAIN selected : WeekOf(selected[i].at, filter) = w - 1
                                             /\ selected[i].status = status}
           Until(w) == {i \in DOMAIN selected : WeekOf(selected[i].at, filter) \in 0..(w - 1)
                                                /\ selected[i].status = status}
<1>2. /\ DOMAIN buckets = 1..W
      /\ \A w \in 1..W : buckets[w].count[status] = Cardinality(In(w))
  BY <1>b, <1>W DEF EvalBuckets, Count, WeekOf
<1>3. Len(buckets) = W
  BY <1>1, <1>2, <1>b, <1>W DEF EvalBuckets
<1>4. \A w \in 1..W : Cardinality(In(w)) \in Nat /\ IsFiniteSet(In(w))
  BY CountsAreNat
<1>5. \A w \in 0..W : Cardinality(Until(w)) \in Nat /\ IsFiniteSet(Until(w))
  BY CountsAreNat
<1>6. ASSUME NEW w \in 1..W
      PROVE  Cardinality(Until(w)) = Cardinality(Until(w - 1)) + Cardinality(In(w))
  <2>1. 0..(w - 1) = 0..(w - 1 - 1) \cup {w - 1} /\ w - 1 \notin 0..(w - 1 - 1)
    BY <1>1
  <2>2. Until(w) = Until(w - 1) \cup In(w) /\ Until(w - 1) \cap In(w) = {}
    BY <2>1
  <2> HIDE DEF Until, In
  <2>3. IsFiniteSet(Until(w - 1)) /\ IsFiniteSet(In(w))
    <3>1. w - 1 \in 0..W
      BY <1>1
    <3> QED
      BY <1>4, <1>5, <3>1
  <2>4. Cardinality(Until(w)) = Cardinality(Until(w - 1)) + Cardinality(In(w))
                                  - Cardinality(Until(w - 1) \cap In(w))
    BY <2>2, <2>3, FS_Union
  <2>5. Cardinality(Until(w - 1) \cap In(w)) = 0
    BY <2>2, FS_EmptySet
  <2>6. Cardinality(Until(w - 1)) \in Nat /\ Cardinality(In(w)) \in Nat
    BY <2>3, FS_CardinalityType
  <2> QED
    BY <2>4, <2>5, <2>6
<1>7. Cardinality(Until(0)) = 0
  <2>1. Until(0) = {}
    OBVIOUS
  <2> QED
    BY <2>1, FS_EmptySet
<1>8. Until(W) = {i \in DOMAIN selected : selected[i].status = status}
  <2>1. ASSUME NEW i \in DOMAIN selected PROVE WeekOf(selected[i].at, filter) \in 0..(W - 1)
    <3>1. selected[i] \in Range(selected)
      BY DEF Range
    <3> QED
      BY <1>W, <3>1, WeeksOfWindow
  <2> QED
    BY <2>1
<1>u. PICK u : u = [w \in 0..W |-> Cardinality(Until(w))]
  OBVIOUS
<1>c. PICK c : c = [w \in 1..W |-> Cardinality(In(w))]
  OBVIOUS
<1> HIDE DEF Until, In
<1>9. /\ u[0] = 0 /\ u[W] = Cardinality(Until(W))
      /\ \A w \in 1..W : u[w] = u[w - 1] + c[w] /\ c[w] = buckets[w].count[status]
  <2>1. 0 \in 0..W /\ W \in 0..W /\ \A w \in 1..W : w - 1 \in 0..W /\ w \in 0..W
    BY <1>1
  <2> QED
    BY <1>2, <1>6, <1>7, <1>c, <1>u, <2>1
<1> DEFINE Is(f) == f = [n \in 0..W |-> IF n = 0 THEN 0 ELSE f[n - 1] + buckets[n].count[status]]
<1>10. Is(u)
  <2>1. \A n \in 0..W : n = 0 \/ n \in 1..W
    BY <1>1
  <2>2. u = [n \in 0..W |-> u[n]]
    BY <1>u
  <2>3. \A n \in 1..W : u[n] = u[n - 1] + buckets[n].count[status]
    BY <1>9
  <2> QED
    BY <1>9, <2>1, <2>2, <2>3
<1>11. PICK f : f = CHOOSE h : Is(h)
  OBVIOUS
<1>12. Is(f)
  BY <1>10, <1>11
<1>13. InWeeks(buckets, status) = f[W]
  BY <1>11, <1>3 DEF InWeeks
<1>14. Follows(f, u, W)
  <2>1. f[0] = 0
    BY <1>1, <1>12
  <2>2. ASSUME NEW n \in 1..W PROVE f[n] = f[n - 1] + buckets[n].count[status]
    <3>1. n \in 0..W /\ n # 0
      BY <1>1
    <3> QED
      BY <1>12, <3>1, Zenon
  <2> QED
    BY <1>9, <2>1, <2>2 DEF Follows
<1> HIDE DEF Is
<1>15. f[W] = u[W]
  <2>1. \A n \in 0..W : f[n] = u[n]
    BY <1>1, <1>14, SameSteps
  <2> QED
    BY <1>1, <2>1
<1> QED
  BY <1>8, <1>9, <1>13, <1>15, <1>b

LEMMA MaxOf ==
  ASSUME NEW S \in SUBSET Int, IsFiniteSet(S), S # {}
  PROVE  Max(S) \in S /\ \A x \in S : x <= Max(S)
<1>order. PICK order : order = {p \in S \X S : p[1] > p[2]}
  OBVIOUS
<1>1. \A a, b \in S : <<a, b>> \in order <=> a > b
  BY <1>order
<1>2. StrictOrder(S, order)
  BY <1>1 DEF StrictOrder
<1>3. Lists(Ordered(S, order), S, order)
  BY <1>2, OrderedLists
<1>items. PICK items : items = Ordered(S, order)
  OBVIOUS
<1>m. PICK m : m = items[1]
  OBVIOUS
<1>4. m \in S /\ \A x \in S : x = m \/ <<m, x>> \in order
  BY <1>3, <1>items, <1>m, FirstOfList
<1>5. ASSUME NEW x \in S PROVE m >= x
  <2>1. m \in Int /\ x \in Int
    BY <1>4
  <2>2. x = m \/ m > x
    BY <1>1, <1>4
  <2> QED
    BY <2>1, <2>2
<1>6. Max(S) \in S /\ \A x \in S : Max(S) >= x
  BY <1>4, <1>5 DEF Max
<1> QED
  BY <1>6

LEMMA OccurrencesAreNat ==
  ASSUME NEW records, IsSequence(records), \A r \in Range(records) : r.occurrences \in Nat
  PROVE  Occurrences(records) \in Nat
<1>N. PICK N \in Nat : N = Len(records) /\ DOMAIN records = 1..N
  BY SequencesAreFinite
<1>1. \A n \in 1..N : records[n].occurrences \in Nat
  BY <1>N DEF Range
<1> DEFINE step == [x \in Nat \X (1..N) |-> x[1] + records[x[2]].occurrences]
<1>2. IsStep(step, N, Nat)
  BY <1>1 DEF IsStep
<1>3. \A v \in Nat, i \in 1..N : step[<<v, i>>] = v + records[i].occurrences
  OBVIOUS
<1> HIDE DEF step
<1>4. PICK g : Stepped(g, 0, step, N, Nat)
  <2>1. 0 \in Nat
    OBVIOUS
  <2> QED
    BY <1>N, <1>2, <2>1, Recursion
<1>5. /\ g \in [0..N -> Nat] /\ g[0] = 0
      /\ \A i \in 1..N : g[i] = g[i - 1] + records[i].occurrences
  <2>1. g \in [0..N -> Nat] /\ g[0] = 0 /\ \A i \in 1..N : g[i] = step[<<g[i - 1], i>>]
    BY <1>4 DEF Stepped
  <2>2. \A i \in 1..N : g[i - 1] \in Nat
    BY <1>N, <2>1
  <2> QED
    BY <1>3, <2>1, <2>2
<1> DEFINE Is(f) == f = [n \in 0..N |-> IF n = 0 THEN 0 ELSE f[n - 1] + records[n].occurrences]
<1>6. Is(g)
  <2>1. \A n \in 0..N : n = 0 \/ n \in 1..N
    BY <1>N
  <2>2. g = [n \in 0..N |-> g[n]]
    BY <1>5
  <2> QED
    BY <1>5, <2>1, <2>2
<1>7. PICK f : f = CHOOSE h : Is(h)
  OBVIOUS
<1>8. Is(f)
  BY <1>6, <1>7
<1>9. Occurrences(records) = f[N]
  BY <1>7, <1>N DEF Occurrences
<1>10. Follows(f, g, N)
  <2>1. f[0] = 0
    BY <1>8, <1>N
  <2>2. ASSUME NEW n \in 1..N PROVE f[n] = f[n - 1] + records[n].occurrences
    <3>1. n \in 0..N /\ n # 0
      BY <1>N
    <3> QED
      BY <1>8, <3>1, Zenon
  <2> QED
    BY <1>5, <2>1, <2>2 DEF Follows
<1> HIDE DEF Is
<1>11. f[N] = g[N] /\ g[N] \in Nat
  <2>1. \A n \in 0..N : f[n] = g[n]
    BY <1>N, <1>10, SameSteps
  <2>2. N \in 0..N
    BY <1>N
  <2> QED
    BY <1>5, <2>1, <2>2
<1> QED
  BY <1>9, <1>11

LEMMA OnlyIsSequence ==
  ASSUME NEW s, IsSequence(s), NEW S
  PROVE  /\ IsSequence(Only(s, S)) /\ Range(Only(s, S)) = Range(s) \cap S
         /\ Only(s, S) \in Seq(Range(s))
<1>1. s \in Seq(Range(s))
  BY DEF IsSequence
<1>2. Only(s, S) \in Seq(Range(s)) /\ Range(Only(s, S)) = Range(s) \cap S
  BY <1>1, OnlyKeeps
<1>o. PICK o : o = Only(s, S)
  OBVIOUS
<1>3. IsSequence(o)
  <2>1. PICK n \in Nat : n = Len(o) /\ o \in [1..n -> Range(s)]
    BY <1>2, <1>o, LenProperties
  <2>2. o \in [1..n -> Range(o)]
    BY <2>1 DEF Range
  <2> QED
    BY <2>2 DEF IsSequence
<1> QED
  BY <1>2, <1>3, <1>o

(* A ranking has at most five. *)
LEMMA TopOf ==
  ASSUME NEW F, IsFiniteSet(F), NEW order, StrictOrder(F, order),
         NEW top, top = Top(Ordered(F, order))
  PROVE  top \in Seq(F) /\ Len(top) \in 0..RankLimit
<1>1. Lists(Ordered(F, order), F, order)
  BY OrderedLists
<1>2. top = FirstFew(Ordered(F, order), RankLimit) /\ RankLimit \in Nat
  BY DEF Top, RankLimit
<1>3. Ordered(F, order) \in Seq(F)
  BY <1>1 DEF Lists
<1>4. /\ top \in Seq(F)
      /\ Len(top) = IF Len(Ordered(F, order)) < RankLimit THEN Len(Ordered(F, order)) ELSE RankLimit
  BY <1>2, <1>3, FirstFewKeeps
<1>5. Len(Ordered(F, order)) \in Nat
  BY <1>3, LenProperties
<1> QED
  BY <1>2, <1>4, <1>5

(* The questions that are ranked are gaps of the window, in their own space. *)
LEMMA QuestionsRanked ==
  ASSUME NEW gaps, DOMAIN gaps \subseteq Nat,
         NEW selected, IsSequence(selected),
         \A r \in Range(selected) : r.gap \in DOMAIN gaps /\ r.occurrences \in Nat,
         NEW questions, questions = FailingQuestions(gaps, selected)
  PROVE  /\ Len(questions) \in 0..RankLimit /\ DOMAIN questions = 1..Len(questions)
         /\ \A i \in DOMAIN questions :
              /\ questions[i].key \in {r.gap : r \in Range(selected)}
              /\ questions[i].space = gaps[questions[i].key].space
<1>G. PICK G : G = {selected[i].gap : i \in DOMAIN selected}
  OBVIOUS
<1>1. G = {r.gap : r \in Range(selected)} /\ IsFiniteSet(G) /\ G \subseteq Nat
  <2>1. G = {r.gap : r \in Range(selected)}
    BY <1>G DEF Range
  <2>2. IsFiniteSet(DOMAIN selected)
    BY SequencesAreFinite, CountsAreNat
  <2>3. PICK f : f = [i \in DOMAIN selected |-> selected[i].gap]
    OBVIOUS
  <2>4. IsFiniteSet({f[i] : i \in DOMAIN selected})
    BY <2>2, <2>3, FiniteImage
  <2>5. G = {f[i] : i \in DOMAIN selected}
    BY <1>G, <2>3
  <2> QED
    BY <2>1, <2>4, <2>5
<1>f. PICK f : f = [g \in G |-> Failure(g, gaps[g].space,
                                     Only(selected, {r \in ToSet(selected) : r.gap = g}))]
  OBVIOUS
<1>F. PICK F : F = {f[g] : g \in G}
  OBVIOUS
<1>2. IsFiniteSet(F)
  <2>1. DOMAIN f = G
    BY <1>f
  <2> QED
    BY <1>1, <1>F, <2>1, FiniteImage
<1>3. \A g \in G : /\ f[g].key = g /\ f[g].space = gaps[g].space
                   /\ f[g].occurrences \in Nat /\ f[g].confirmed \in Nat
  <2> SUFFICES ASSUME NEW g \in G
               PROVE  /\ f[g].key = g /\ f[g].space = gaps[g].space
                      /\ f[g].occurrences \in Nat /\ f[g].confirmed \in Nat
    OBVIOUS
  <2>1. PICK records : records = Only(selected, {r \in ToSet(selected) : r.gap = g})
    OBVIOUS
  <2>2. IsSequence(records) /\ Range(records) \subseteq Range(selected)
    BY <2>1, OnlyIsSequence
  <2>3. Occurrences(records) \in Nat
    BY <2>2, OccurrencesAreNat
  <2>4. Count(records, LAMBDA r : r.status = "confirmed") \in Nat
    BY <2>2, CountsAreNat DEF Count
  <2>5. f[g] = [key |-> g, space |-> gaps[g].space, occurrences |-> Occurrences(records),
                confirmed |-> Count(records, LAMBDA r : r.status = "confirmed")]
    BY <1>f, <2>1 DEF Failure
  <2> QED
    BY <2>3, <2>4, <2>5
<1> DEFINE Ahead(a, b) == \/ a.occurrences > b.occurrences
                          \/ a.occurrences = b.occurrences /\ a.confirmed > b.confirmed
                          \/ a.occurrences = b.occurrences /\ a.confirmed = b.confirmed /\ a.key < b.key
<1>order. PICK order : order = {p \in F \X F : Ahead(p[1], p[2])}
  OBVIOUS
<1>4. StrictOrder(F, order)
  <2>1. \A a, b \in F : <<a, b>> \in order <=> Ahead(a, b)
    BY <1>order
  <2>2. \A a \in F : a.occurrences \in Nat /\ a.confirmed \in Nat /\ a.key \in Nat
    BY <1>1, <1>3, <1>F
  <2>3. \A a, b \in F : a.key = b.key => a = b
    BY <1>3, <1>F
  <2>4. \A a \in F : ~Ahead(a, a)
    BY <2>2
  <2>5. ASSUME NEW a \in F, NEW b \in F, NEW c \in F, Ahead(a, b), Ahead(b, c) PROVE Ahead(a, c)
    <3>1. PICK ao, ac, ak, bo, bc, bk, co, cc, ck :
            /\ ao = a.occurrences /\ ac = a.confirmed /\ ak = a.key
            /\ bo = b.occurrences /\ bc = b.confirmed /\ bk = b.key
            /\ co = c.occurrences /\ cc = c.confirmed /\ ck = c.key
      OBVIOUS
    <3>2. /\ ao \in Nat /\ ac \in Nat /\ ak \in Nat /\ bo \in Nat /\ bc \in Nat /\ bk \in Nat
          /\ co \in Nat /\ cc \in Nat /\ ck \in Nat
      BY <2>2, <3>1
    <3>3. /\ ao > bo \/ (ao = bo /\ ac > bc) \/ (ao = bo /\ ac = bc /\ ak < bk)
          /\ bo > co \/ (bo = co /\ bc > cc) \/ (bo = co /\ bc = cc /\ bk < ck)
      BY <2>5, <3>1
    <3>4. ao > co \/ (ao = co /\ ac > cc) \/ (ao = co /\ ac = cc /\ ak < ck)
      BY <3>2, <3>3
    <3> QED
      BY <3>1, <3>4
  <2>6. ASSUME NEW a \in F, NEW b \in F PROVE a = b \/ Ahead(a, b) \/ Ahead(b, a)
    BY <2>2, <2>3
  <2> HIDE DEF Ahead
  <2> QED
    BY <2>1, <2>4, <2>5, <2>6 DEF StrictOrder
<1>5. questions = Top(Ordered(F, order))
  <2>1. F = {Failure(g, gaps[g].space, Only(selected, {r \in ToSet(selected) : r.gap = g})) : g \in G}
    BY <1>F, <1>f
  <2> QED
    BY <1>G, <1>order, <2>1 DEF FailingQuestions, Sorted
<1>6. questions \in Seq(F) /\ Len(questions) \in 0..RankLimit
  BY <1>2, <1>4, <1>5, TopOf
<1>7. DOMAIN questions = 1..Len(questions) /\ \A i \in 1..Len(questions) : questions[i] \in F
  BY <1>6, LenProperties, ElementOfSeq
<1>8. ASSUME NEW i \in DOMAIN questions
      PROVE  /\ questions[i].key \in {r.gap : r \in Range(selected)}
             /\ questions[i].space = gaps[questions[i].key].space
  <2>1. PICK g \in G : questions[i] = f[g]
    BY <1>7, <1>F
  <2> QED
    BY <1>1, <1>3, <2>1
<1> QED
  BY <1>6, <1>7, <1>8

(* The promoted cases that are ranked name a gap of the window, in its own space. *)
LEMMA FailuresRanked ==
  ASSUME NEW gaps,
         NEW selected, IsSequence(selected),
         \A o \in Range(selected) : o.case \in Nat /\ o.at \in Int /\ o.space = gaps[o.gap].space,
         NEW failures, failures = PromotedFailures(selected)
  PROVE  /\ Len(failures) \in 0..RankLimit /\ DOMAIN failures = 1..Len(failures)
         /\ \A i \in DOMAIN failures :
              /\ failures[i].gap \in {o.gap : o \in Range(selected)}
              /\ failures[i].space = gaps[failures[i].gap].space
<1>C. PICK C : C = {selected[i].case : i \in DOMAIN selected}
  OBVIOUS
<1>1. C = {o.case : o \in Range(selected)} /\ IsFiniteSet(C) /\ C \subseteq Nat
  <2>1. C = {o.case : o \in Range(selected)}
    BY <1>C DEF Range
  <2>2. IsFiniteSet(DOMAIN selected)
    BY SequencesAreFinite, CountsAreNat
  <2>3. PICK f : f = [i \in DOMAIN selected |-> selected[i].case]
    OBVIOUS
  <2>4. IsFiniteSet({f[i] : i \in DOMAIN selected})
    BY <2>2, <2>3, FiniteImage
  <2>5. C = {f[i] : i \in DOMAIN selected}
    BY <1>C, <2>3
  <2> QED
    BY <2>1, <2>4, <2>5
<1>f. PICK f : f = [c \in C |-> CaseFailure(c, selected)]
  OBVIOUS
<1>A. PICK A : A = {f[c] : c \in C}
  OBVIOUS
<1>F. PICK F : F = {x \in A : x.failed > 0}
  OBVIOUS
<1>2. IsFiniteSet(F)
  <2>1. DOMAIN f = C
    BY <1>f
  <2>2. IsFiniteSet(A)
    BY <1>1, <1>A, <2>1, FiniteImage
  <2>3. F \in SUBSET A
    BY <1>F
  <2> QED
    BY <2>2, <2>3, FS_Subset
<1>3. ASSUME NEW c \in C
      PROVE  /\ f[c].case = c /\ f[c].failed \in Nat /\ f[c].latest \in Int
             /\ f[c].gap \in {o.gap : o \in Range(selected)} /\ f[c].space = gaps[f[c].gap].space
  <2>1. PICK seen : seen = Only(selected, {o \in ToSet(selected) : o.case = c})
    OBVIOUS
  <2>2. /\ IsSequence(seen) /\ Range(seen) = {o \in Range(selected) : o.case = c}
    <3>1. /\ IsSequence(seen)
          /\ Range(seen) = Range(selected) \cap {o \in ToSet(selected) : o.case = c}
      BY <2>1, OnlyIsSequence
    <3>2. ToSet(selected) = Range(selected)
      BY SequencesAreFinite
    <3> QED
      BY <3>1, <3>2
  <2>3. Range(seen) # {}
    BY <1>1, <2>2
  <2>4. PICK n \in Nat : n = Len(seen) /\ DOMAIN seen = 1..n
    BY <2>2, SequencesAreFinite
  <2>5. n \in DOMAIN seen
    BY <2>3, <2>4 DEF Range
  <2>6. PICK last : last = seen[n]
    OBVIOUS
  <2>7. last \in Range(seen) /\ Last(seen) = last
    BY <2>4, <2>5, <2>6 DEF Range, Last
  <2>8. Count(seen, LAMBDA o : o.status = "failed") \in Nat
    BY <2>2, CountsAreNat DEF Count
  <2>9. Max({seen[i].at : i \in DOMAIN seen}) \in Int
    <3>1. PICK S : S = {seen[i].at : i \in DOMAIN seen}
      OBVIOUS
    <3>2. S \in SUBSET Int
      BY <2>2, <3>1 DEF Range
    <3>3. S # {}
      BY <2>5, <3>1
    <3>4. IsFiniteSet(S)
      <4>1. IsFiniteSet(DOMAIN seen)
        BY <2>2, SequencesAreFinite, CountsAreNat
      <4>2. PICK g : g = [i \in DOMAIN seen |-> seen[i].at]
        OBVIOUS
      <4>3. IsFiniteSet({g[i] : i \in DOMAIN seen})
        BY <4>1, <4>2, FiniteImage
      <4>4. S = {g[i] : i \in DOMAIN seen}
        BY <3>1, <4>2
      <4> QED
        BY <4>3, <4>4
    <3> QED
      BY <3>1, <3>2, <3>3, <3>4, MaxOf
  <2>10. f[c] = [case |-> c, gap |-> last.gap, space |-> last.space,
                 failed |-> Count(seen, LAMBDA o : o.status = "failed"),
                 latest |-> Max({seen[i].at : i \in DOMAIN seen})]
    BY <1>f, <2>1, <2>7 DEF CaseFailure
  <2>11. last \in Range(selected) /\ last.space = gaps[last.gap].space
    BY <2>2, <2>7
  <2> QED
    BY <2>8, <2>9, <2>10, <2>11
<1> DEFINE Ahead(a, b) == \/ a.failed > b.failed
                          \/ a.failed = b.failed /\ a.latest > b.latest
                          \/ a.failed = b.failed /\ a.latest = b.latest /\ a.case < b.case
<1>order. PICK order : order = {p \in F \X F : Ahead(p[1], p[2])}
  OBVIOUS
<1>4. StrictOrder(F, order)
  <2>1. \A a, b \in F : <<a, b>> \in order <=> Ahead(a, b)
    BY <1>order
  <2>2. \A a \in F : a.failed \in Nat /\ a.latest \in Int /\ a.case \in Nat
    BY <1>1, <1>3, <1>A, <1>F
  <2>3. \A a, b \in F : a.case = b.case => a = b
    BY <1>3, <1>A, <1>F
  <2>4. \A a \in F : ~Ahead(a, a)
    BY <2>2
  <2>5. ASSUME NEW a \in F, NEW b \in F, NEW c \in F, Ahead(a, b), Ahead(b, c) PROVE Ahead(a, c)
    <3>1. PICK ao, ac, ak, bo, bc, bk, co, cc, ck :
            /\ ao = a.failed /\ ac = a.latest /\ ak = a.case
            /\ bo = b.failed /\ bc = b.latest /\ bk = b.case
            /\ co = c.failed /\ cc = c.latest /\ ck = c.case
      OBVIOUS
    <3>2. /\ ao \in Nat /\ ac \in Int /\ ak \in Nat /\ bo \in Nat /\ bc \in Int /\ bk \in Nat
          /\ co \in Nat /\ cc \in Int /\ ck \in Nat
      BY <2>2, <3>1
    <3>3. /\ ao > bo \/ (ao = bo /\ ac > bc) \/ (ao = bo /\ ac = bc /\ ak < bk)
          /\ bo > co \/ (bo = co /\ bc > cc) \/ (bo = co /\ bc = cc /\ bk < ck)
      BY <2>5, <3>1
    <3>4. ao > co \/ (ao = co /\ ac > cc) \/ (ao = co /\ ac = cc /\ ak < ck)
      BY <3>2, <3>3
    <3> QED
      BY <3>1, <3>4
  <2>6. ASSUME NEW a \in F, NEW b \in F PROVE a = b \/ Ahead(a, b) \/ Ahead(b, a)
    BY <2>2, <2>3
  <2> HIDE DEF Ahead
  <2> QED
    BY <2>1, <2>4, <2>5, <2>6 DEF StrictOrder
<1>5. failures = Top(Ordered(F, order))
  <2>1. A = {CaseFailure(c, selected) : c \in C}
    BY <1>A, <1>f
  <2> QED
    BY <1>C, <1>F, <1>order, <2>1 DEF PromotedFailures, Sorted
<1>6. failures \in Seq(F) /\ Len(failures) \in 0..RankLimit
  BY <1>2, <1>4, <1>5, TopOf
<1>7. DOMAIN failures = 1..Len(failures) /\ \A i \in 1..Len(failures) : failures[i] \in F
  BY <1>6, LenProperties, ElementOfSeq
<1>8. ASSUME NEW i \in DOMAIN failures
      PROVE  /\ failures[i].gap \in {o.gap : o \in Range(selected)}
             /\ failures[i].space = gaps[failures[i].gap].space
  <2>1. PICK c \in C : failures[i] = f[c]
    BY <1>7, <1>A, <1>F
  <2> QED
    BY <1>3, <2>1
<1> QED
  BY <1>6, <1>7, <1>8

(* A set that is put into a sequence is there, each element once. *)
LEMMA SetInSequence ==
  ASSUME NEW S, IsFiniteSet(S), NEW s, s = SetToSeq(S)
  PROVE  s \in [1..Cardinality(S) -> S] /\ IsInjective(s)
<1>1. ExistsBijection(1..Cardinality(S), S)
  BY FS_CardinalityType
<1>2. PICK f : f \in [1..Cardinality(S) -> S] /\ IsInjective(f)
  BY <1>1 DEF ExistsBijection, Bijection, Injection
<1> QED
  BY <1>2 DEF SetToSeq

AtMostFive(s) == Len(s) \in 0..RankLimit /\ DOMAIN s = 1..Len(s)

FromEither(projection, questions, failures) ==
  \A c \in CandidateGaps(projection) :
    \/ \E i \in DOMAIN questions : c = <<questions[i].key, questions[i].space>>
    \/ \E i \in DOMAIN failures : c = <<failures[i].gap, failures[i].space>>

(* Five questions and five cases name at most ten gaps. *)
LEMMA CandidatesAreFew ==
  ASSUME NEW projection, NEW q, q = projection.recurrence.questions,
         NEW e, e = projection.eval.failures,
         AtMostFive(q), AtMostFive(e),
         NEW ranked, ranked = {c[1] : c \in CandidateGaps(projection)}
  PROVE  /\ FromEither(projection, q, e)
         /\ IsFiniteSet(ranked) /\ Cardinality(ranked) \in 0..CandidateLimit
<1>V. PICK V : V = {<<q[i].key, q[i].space>> : i \in DOMAIN q}
                     \cup {<<e[i].gap, e[i].space>> : i \in DOMAIN e}
  OBVIOUS
<1>a. PICK a : a = [i \in DOMAIN q |-> <<q[i].key, q[i].space>>]
  OBVIOUS
<1>b. PICK b : b = [i \in DOMAIN e |-> <<e[i].gap, e[i].space>>]
  OBVIOUS
<1>m. PICK m \in 0..5 : m = Len(q) /\ DOMAIN q = 1..m
  BY DEF AtMostFive, RankLimit
<1>n. PICK n \in 0..5 : n = Len(e) /\ DOMAIN e = 1..n
  BY DEF AtMostFive, RankLimit
<1>0. m \in Nat /\ n \in Nat /\ m + n \in 0..10
  <2>1. m \in 0..5
    BY <1>m
  <2>2. n \in 0..5
    BY <1>n
  <2> QED
    BY <2>1, <2>2
<1>1. a \in [1..m -> V] /\ b \in [1..n -> V]
  <2>1. a \in [DOMAIN q -> V] /\ b \in [DOMAIN e -> V]
    BY <1>a, <1>b, <1>V
  <2> QED
    BY <1>m, <1>n, <2>1
<1>2. a \in Seq(V) /\ b \in Seq(V) /\ Len(a) = m /\ Len(b) = n
  BY <1>0, <1>1
<1>r. PICK r : r = a \o b
  OBVIOUS
<1>3. r \in Seq(V) /\ Len(r) = m + n /\ DOMAIN r = 1..(m + n)
  <2>1. r \in Seq(V) /\ Len(r) = m + n
    BY <1>2, <1>r, ConcatProperties
  <2> QED
    BY <2>1, LenProperties
<1>4. ASSUME NEW c \in CandidateGaps(projection) PROVE \E i \in DOMAIN r : c = r[i]
  <2>1. r = [i \in DOMAIN projection.recurrence.questions |->
                <<projection.recurrence.questions[i].key, projection.recurrence.questions[i].space>>]
             \o [i \in DOMAIN projection.eval.failures |->
                  <<projection.eval.failures[i].gap, projection.eval.failures[i].space>>]
    BY <1>a, <1>b, <1>r
  <2>2. CandidateGaps(projection)
          = {r[i] : i \in {j \in DOMAIN r : \A k \in 1..(j - 1) : r[k][1] # r[j][1]}}
    BY <2>1, Zenon DEF CandidateGaps
  <2> QED
    BY <2>2
<1>5. \A c \in CandidateGaps(projection) : c \in V
  BY <1>3, <1>4, ElementOfSeq
<1>g. PICK g : g = [i \in 1..(m + n) |-> r[i][1]]
  OBVIOUS
<1>I. PICK I : I = {g[i] : i \in 1..(m + n)}
  OBVIOUS
<1>6. IsFiniteSet(I) /\ Cardinality(I) \in 0..10
  <2>1. IsFiniteSet(1..(m + n)) /\ Cardinality(1..(m + n)) = m + n
    BY <1>0, FS_Interval
  <2>2. g \in Surjection(1..(m + n), I)
    BY <1>g, <1>I DEF Surjection
  <2>3. IsFiniteSet(I) /\ Cardinality(I) <= Cardinality(1..(m + n))
    BY <2>1, <2>2, FS_Surjection
  <2>4. Cardinality(I) \in Nat
    BY <2>3, FS_CardinalityType
  <2> QED
    BY <1>0, <2>1, <2>3, <2>4
<1>7. ranked \in SUBSET I
  BY <1>3, <1>4, <1>I, <1>g
<1>8. IsFiniteSet(ranked) /\ Cardinality(ranked) \in 0..CandidateLimit
  <2>1. IsFiniteSet(ranked) /\ Cardinality(ranked) <= Cardinality(I)
    BY <1>6, <1>7, FS_Subset
  <2>2. Cardinality(ranked) \in Nat
    BY <2>1, FS_CardinalityType
  <2> QED
    BY <1>6, <2>1, <2>2 DEF CandidateLimit
<1> QED
  BY <1>5, <1>8, <1>V DEF FromEither

AboutGaps(questions, failures, gaps, filter) ==
  /\ \A i \in DOMAIN questions : /\ questions[i].key \in SelectedGaps(gaps, filter)
                               /\ questions[i].space = gaps[questions[i].key].space
  /\ \A i \in DOMAIN failures : /\ failures[i].gap \in SelectedGaps(gaps, filter)
                              /\ failures[i].space = gaps[failures[i].gap].space

(* The records a projection selects are about the gaps of its space. *)
LEMMA GapsSelected ==
  ASSUME NEW sources, IsSources(sources), NEW filter,
         NEW q, q = Project(sources, filter).recurrence.questions,
         NEW e, e = Project(sources, filter).eval.failures
  PROVE  AtMostFive(q) /\ AtMostFive(e) /\ AboutGaps(q, e, sources.gaps, filter)
<1>gaps. PICK gaps : gaps = sources.gaps
  OBVIOUS
<1>1. /\ DOMAIN gaps \subseteq Nat /\ IsSequence(sources.recurrences) /\ IsSequence(sources.observations)
      /\ \A r \in Range(sources.recurrences) : r.occurrences \in Nat
      /\ \A o \in Range(sources.observations) :
           o.case \in Nat /\ o.at \in Int /\ (o.gap \in DOMAIN gaps => o.space = gaps[o.gap].space)
  BY <1>gaps DEF IsSources
<1>2. \A g \in SelectedGaps(gaps, filter) : g \in DOMAIN gaps
  BY DEF SelectedGaps
<1>r. PICK recurred : recurred = SelectedRecurrences(gaps, sources.recurrences, filter)
  OBVIOUS
<1>o. PICK observed : observed = SelectedObservations(gaps, sources.observations, filter)
  OBVIOUS
<1>3. /\ IsSequence(recurred)
      /\ \A r \in Range(recurred) : r.gap \in SelectedGaps(gaps, filter) /\ r.occurrences \in Nat
  <2>1. PICK S : S = {r \in ToSet(sources.recurrences) :
                       r.gap \in SelectedGaps(gaps, filter) /\ InWindow(r.created, filter)}
    OBVIOUS
  <2>2. recurred = Only(Listed(sources.recurrences), S)
    BY <1>r, <2>1 DEF SelectedRecurrences
  <2>3. /\ IsSequence(recurred)
        /\ \A r \in Range(recurred) : r \in Range(sources.recurrences) /\ r \in S
    BY <1>1, <2>2, ListedIsSequence
  <2> QED
    BY <1>1, <2>1, <2>3
<1>4. /\ IsSequence(observed)
      /\ \A o \in Range(observed) : /\ o.gap \in SelectedGaps(gaps, filter) /\ o.case \in Nat
                                    /\ o.at \in Int /\ o.space = gaps[o.gap].space
  <2>1. /\ IsSequence(observed)
        /\ \A o \in Range(observed) :
             o \in Range(sources.observations) /\ o.gap \in SelectedGaps(gaps, filter)
    BY <1>1, <1>o, ObservationsSelected
  <2> QED
    BY <1>1, <1>2, <2>1
<1>5. q = FailingQuestions(gaps, recurred)
  <2>1. Project(sources, filter).recurrence
          = Recurrence(gaps, sources.recurrences,
                       Verification(gaps, sources.attempts, filter).passed, filter)
    BY <1>gaps DEF Project
  <2>2. \A passed : Recurrence(gaps, sources.recurrences, passed, filter).questions
                      = FailingQuestions(gaps, recurred)
    BY <1>r DEF Recurrence
  <2> QED
    BY <2>1, <2>2
<1>6. e = PromotedFailures(observed)
  <2>1. Project(sources, filter).eval = PromotedEval(gaps, sources.observations, filter)
    BY <1>gaps DEF Project
  <2>2. PromotedEval(gaps, sources.observations, filter).failures = PromotedFailures(observed)
    BY <1>o DEF PromotedEval
  <2> QED
    BY <2>1, <2>2
<1>7. /\ Len(q) \in 0..RankLimit /\ DOMAIN q = 1..Len(q)
      /\ \A i \in DOMAIN q : /\ q[i].key \in {r.gap : r \in Range(recurred)}
                            /\ q[i].space = gaps[q[i].key].space
  <2>1. \A r \in Range(recurred) : r.gap \in DOMAIN gaps /\ r.occurrences \in Nat
    BY <1>2, <1>3
  <2> QED
    BY <1>1, <1>3, <1>5, <2>1, QuestionsRanked
<1>8. /\ Len(e) \in 0..RankLimit /\ DOMAIN e = 1..Len(e)
      /\ \A i \in DOMAIN e : /\ e[i].gap \in {o.gap : o \in Range(observed)}
                            /\ e[i].space = gaps[e[i].gap].space
  <2>1. \A o \in Range(observed) : o.case \in Nat /\ o.at \in Int /\ o.space = gaps[o.gap].space
    BY <1>4
  <2> QED
    BY <1>4, <1>6, <2>1, FailuresRanked
<1>9. \A i \in DOMAIN q : q[i].key \in SelectedGaps(gaps, filter)
  BY <1>3, <1>7
<1>10. \A i \in DOMAIN e : e[i].gap \in SelectedGaps(gaps, filter)
  BY <1>4, <1>8
<1> QED
  BY <1>7, <1>8, <1>9, <1>10, <1>gaps DEF AtMostFive, AboutGaps

(* The review of every gap the trends rank. *)
ReviewOfAll(from, to, ranked) ==
  [keyWellFormed |-> TRUE, rationaleFits |-> TRUE, rationale |-> TRUE, from |-> from, to |-> to,
   outcome |-> "repair_required", gaps |-> SetToSeq(ranked)]

LEMMA RankedAreEligible ==
  ASSUME NEW sources, IsSources(sources), NEW filter,
         NEW from, NEW to, FilterAccepted(from, to),
         NEW ranked, ranked = {c[1] : c \in CandidateGaps(Project(sources, filter))},
         NEW review, review = ReviewOfAll(from, to, ranked), ranked # {}
  PROVE  ValidRequest(review) /\ EligibleGaps(review.gaps, Project(sources, filter), sources.gaps)
<1>p. PICK p : p = Project(sources, filter)
  OBVIOUS
<1>gaps. PICK gaps : gaps = sources.gaps
  OBVIOUS
<1>q. PICK q : q = p.recurrence.questions
  OBVIOUS
<1>e. PICK e : e = p.eval.failures
  OBVIOUS
<1>0. AtMostFive(q) /\ AtMostFive(e) /\ AboutGaps(q, e, gaps, filter)
  <2>1. q = Project(sources, filter).recurrence.questions
    BY <1>p, <1>q, Zenon
  <2>2. e = Project(sources, filter).eval.failures
    BY <1>p, <1>e, Zenon
  <2>3. AtMostFive(q) /\ AtMostFive(e) /\ AboutGaps(q, e, sources.gaps, filter)
    BY <2>1, <2>2, GapsSelected
  <2> QED
    BY <1>gaps, <2>3, Zenon
<1>1. /\ Len(q) \in 0..RankLimit /\ DOMAIN q = 1..Len(q)
      /\ Len(e) \in 0..RankLimit /\ DOMAIN e = 1..Len(e)
      /\ \A i \in DOMAIN q : q[i].key \in SelectedGaps(gaps, filter) /\ q[i].space = gaps[q[i].key].space
      /\ \A i \in DOMAIN e : e[i].gap \in SelectedGaps(gaps, filter) /\ e[i].space = gaps[e[i].gap].space
  BY <1>0 DEF AtMostFive, AboutGaps
<1>2. /\ FromEither(p, q, e)
      /\ IsFiniteSet(ranked) /\ Cardinality(ranked) \in 0..CandidateLimit
  <2>1. ranked = {c[1] : c \in CandidateGaps(p)}
    BY <1>p, Zenon
  <2> QED
    BY <1>0, <1>e, <1>q, <2>1, CandidatesAreFew
<1>chosen. PICK chosen : chosen = SetToSeq(ranked)
  OBVIOUS
<1>n. PICK n : n = Cardinality(ranked)
  OBVIOUS
<1>3. n \in 0..10 /\ chosen \in [1..n -> ranked] /\ IsInjective(chosen)
  BY <1>2, <1>chosen, <1>n, SetInSequence DEF CandidateLimit
<1>4. n \in Nat
  BY <1>3
<1>5. Len(chosen) = n
  BY <1>3, <1>4
<1>6. chosen # << >>
  <2>1. n # 0
    BY <1>2, <1>n, FS_EmptySet
  <2> QED
    BY <1>3, <1>5, <2>1, <1>4
<1>7. review.gaps = chosen
  BY <1>chosen DEF ReviewOfAll
<1>8. ValidRequest(review)
  <2>1. Len(chosen) <= CandidateLimit
    BY <1>3, <1>5 DEF CandidateLimit
  <2> QED
    BY <1>3, <1>6, <1>7, <2>1 DEF ValidRequest, ReviewOfAll, ReviewOutcomes
<1>9. p.filter = filter
  BY <1>p DEF Project
<1>10. ASSUME NEW i \in DOMAIN chosen
       PROVE  \E candidate \in CandidateGaps(p) :
                /\ candidate[1] = chosen[i]
                /\ chosen[i] \in DOMAIN gaps /\ gaps[chosen[i]].space = candidate[2]
                /\ SpaceSelected(gaps[chosen[i]].space, p.filter)
  <2>1. chosen[i] \in ranked
    BY <1>3
  <2>2. PICK c \in CandidateGaps(p) : c[1] = chosen[i]
    BY <1>p, <2>1
  <2>3. c[1] \in SelectedGaps(gaps, filter) /\ c[2] = gaps[c[1]].space
    BY <1>1, <1>2, <2>2 DEF FromEither
  <2> QED
    BY <1>9, <2>2, <2>3 DEF SelectedGaps
<1> QED
  BY <1>7, <1>8, <1>10, <1>gaps, <1>p DEF EligibleGaps

(* What TrendsAddUp asks of the projection of a window. *)
AddsUp(filter, p, ranked, review, gaps) ==
  LET weeks == p.eval.buckets
  IN  /\ Len(weeks) \in 1..MaxBuckets
      /\ \A i \in DOMAIN weeks : weeks[i].startDate \in filter.start..(filter.end - 1)
      /\ \A x \in Statuses : InWeeks(weeks, x) = p.eval.count[x]
      /\ p.eval.rate.value # << >> => p.eval.rate.value[1] <= p.eval.rate.value[2]
      /\ ranked # {} => ValidRequest(review) /\ EligibleGaps(review.gaps, p, gaps)

LEMMA TrendsAnswer ==
  ASSUME IsTrends(input)
  PROVE  TrendsAddUp
<1> SUFFICES ASSUME algorithm = "trends", FilterAccepted(input.from, input.to)
             PROVE  TrendsAddUp
  BY DEF TrendsAddUp
<1>f. PICK f : f = ParseFilter(input.from, input.to, input.space, input.today, input.zone)
  OBVIOUS
<1>p. PICK p : p = Project(input.sources, f)
  OBVIOUS
<1>ranked. PICK ranked : ranked = {c[1] : c \in CandidateGaps(p)}
  OBVIOUS
<1>review. PICK review : review = ReviewOfAll(input.from, input.to, ranked)
  OBVIOUS
<1>1. IsWindow(f)
  <2>1. PICK from \in Nat \cup {NoDay}, to \in Nat \cup {NoDay}, today \in Nat,
               space \in {input.space}, zone \in {input.zone} :
          /\ from = input.from /\ to = input.to /\ today = input.today
          /\ space = input.space /\ zone = input.zone
    BY DEF IsTrends
  <2>2. FilterAccepted(from, to) /\ f = ParseFilter(from, to, space, today, zone)
    BY <1>f, <2>1, Zenon
  <2> QED
    BY <2>2, WindowsAreBounded
<1>2. IsSources(input.sources)
  BY DEF IsTrends
<1>o. PICK observed : observed = SelectedObservations(input.sources.gaps, input.sources.observations, f)
  OBVIOUS
<1>3. /\ p.eval.buckets = EvalBuckets(observed, f)
      /\ \A x \in Statuses :
           p.eval.count[x] = Cardinality({i \in DOMAIN observed : observed[i].status = x})
      /\ p.eval.rate = RateMetric(Cardinality({i \in DOMAIN observed : observed[i].status = "passed"}),
                                  Len(observed))
  <2>1. p.eval = PromotedEval(input.sources.gaps, input.sources.observations, f)
    BY <1>p DEF Project
  <2> QED
    BY <1>o, <2>1 DEF PromotedEval, Count
<1>4. IsSequence(observed) /\ \A o \in Range(observed) : o.at \in Int /\ InWindow(o.at, f)
  <2>1. PICK gaps, observations :
          gaps = input.sources.gaps /\ observations = input.sources.observations
    OBVIOUS
  <2>2. IsSequence(observations) /\ \A o \in Range(observations) : o.at \in Int
    BY <1>2, <2>1 DEF IsSources
  <2>3. observed = SelectedObservations(gaps, observations, f)
    BY <1>o, <2>1, Zenon
  <2>4. /\ IsSequence(observed)
        /\ \A o \in Range(observed) : o \in Range(observations) /\ InWindow(o.at, f)
    BY <2>2, <2>3, ObservationsSelected
  <2> QED
    BY <2>2, <2>4
<1>weeks. PICK weeks : weeks = p.eval.buckets
  OBVIOUS
<1>W. PICK W : W = Weeks(f.days)
  OBVIOUS
<1>5. W \in 1..MaxBuckets /\ W \in Nat
  <2>1. W \in 1..MaxBuckets
    BY <1>1, <1>W, WeeksOfWindow
  <2> QED
    BY <2>1 DEF MaxBuckets
<1>6. /\ DOMAIN weeks = 1..W /\ Len(weeks) = W
      /\ \A w \in 1..W : weeks[w].startDate = f.start + 7 * (w - 1)
  <2>1. weeks = EvalBuckets(observed, f)
    BY <1>3, <1>weeks
  <2>2. DOMAIN weeks = 1..W /\ \A w \in 1..W : weeks[w].startDate = f.start + 7 * (w - 1)
    BY <1>W, <2>1 DEF EvalBuckets
  <2>3. PICK start : start = [w \in 1..W |-> weeks[w]]
    OBVIOUS
  <2>4. weeks = start
    <3>1. weeks = [w \in 1..Weeks(f.days) |-> weeks[w]]
      BY <2>1 DEF EvalBuckets
    <3> QED
      BY <1>W, <2>3, <3>1, Zenon
  <2>5. Len(start) = W
    BY <1>5, <2>3
  <2> QED
    BY <2>2, <2>4, <2>5
<1>7. \A i \in DOMAIN weeks : weeks[i].startDate \in f.start..(f.end - 1)
  BY <1>1, <1>6, <1>W, WeeksOfWindow
<1>8. \A x \in Statuses : InWeeks(weeks, x) = p.eval.count[x]
  <2>1. weeks = EvalBuckets(observed, f)
    BY <1>3, <1>weeks
  <2> SUFFICES ASSUME NEW x \in Statuses
               PROVE  InWeeks(weeks, x) = p.eval.count[x]
    OBVIOUS
  <2>2. InWeeks(EvalBuckets(observed, f), x) = Cardinality({i \in DOMAIN observed : observed[i].status = x})
    BY <1>1, <1>4, WeeksAddUp
  <2> QED
    BY <1>3, <2>1, <2>2
<1>9. p.eval.rate.value # << >> => p.eval.rate.value[1] <= p.eval.rate.value[2]
  <2>1. PICK passed : passed = Cardinality({i \in DOMAIN observed : observed[i].status = "passed"})
    OBVIOUS
  <2>2. passed <= Len(observed)
    BY <1>4, <2>1, CountsAreNat
  <2>3. p.eval.rate.value = IF Len(observed) < MinSample THEN << >> ELSE <<passed, Len(observed)>>
    BY <1>3, <2>1 DEF RateMetric
  <2> QED
    BY <2>2, <2>3
<1>10. ranked # {} => ValidRequest(review) /\ EligibleGaps(review.gaps, p, input.sources.gaps)
  BY <1>2, <1>p, <1>ranked, <1>review, RankedAreEligible
<1>11. AddsUp(f, p, ranked, review, input.sources.gaps)
  BY <1>5, <1>6, <1>7, <1>8, <1>9, <1>10, <1>weeks DEF AddsUp
<1> QED
  BY <1>11, <1>f, <1>p, <1>ranked, <1>review DEF AddsUp, ReviewOfAll, TrendsAddUp

-----------------------------------------------------------------------------
(* The two promises                                                            *)

QuestionIsOne ==
  /\ algorithm = "trends" => IsTrends(input)
  /\ algorithm = "reviews" => IsHistory(input)

LEMMA OneQuestion == QualityQuestions => []QuestionIsOne
<1>1. Choosing({"trends", "reviews"}) => QuestionIsOne
  BY DEF Choosing, QuestionIsOne
<1>2. QuestionIsOne /\ [ProjectTrends \/ ListReviews]_called => QuestionIsOne'
  <2> SUFFICES ASSUME QuestionIsOne, [ProjectTrends \/ ListReviews]_called
               PROVE  QuestionIsOne'
    OBVIOUS
  <2>1. CASE ProjectTrends
    BY <2>1, QualityAssumption DEF ProjectTrends, Take, QuestionIsOne
  <2>2. CASE ListReviews
    <3>1. PICK x \in Histories, page \in Pages :
            Take("reviews", [records |-> x.records, space |-> x.space,
                             limit |-> page.limit, excluded |-> page.excluded])
      BY <2>2 DEF ListReviews
    <3>2. algorithm' = "reviews" /\ input'.records = x.records
      BY <3>1 DEF Take
    <3>3. IsHistory(x)
      BY QualityAssumption
    <3>4. IsHistory(input')
      BY <3>2, <3>3 DEF IsHistory
    <3> QED
      BY <3>2, <3>4 DEF QuestionIsOne
  <2>3. CASE UNCHANGED called
    BY <2>3 DEF called, QuestionIsOne
  <2> QED
    BY <2>1, <2>2, <2>3
<1> QED
  BY <1>1, <1>2, PTL DEF QualityQuestions

(* Whatever the gaps, the repairs and the observations on file and whatever window
   is asked for: each observation that is listed is in one week, and what the trends rank may be
   named in a review of that window (ParseQualityTrendFilter, Project,
   qualityTrendEvalBuckets, validateSelectedGaps). *)
THEOREM TrendsAlwaysAddUp == QualityQuestions => []TrendsAddUp
<1>1. QuestionIsOne => TrendsAddUp
  <2>1. CASE algorithm = "trends"
    BY <2>1, TrendsAnswer DEF QuestionIsOne
  <2>2. CASE algorithm # "trends"
    BY <2>2 DEF TrendsAddUp
  <2> QED
    BY <2>1, <2>2
<1> QED
  BY <1>1, OneQuestion, PTL

(* Whatever the reviews on file: the latest of a scope is compared exactly when
   an earlier window of its timezone and length was reviewed and every record
   decodes, and with the closest (List, selectQualityReviewPredecessor). *)
THEOREM ReviewsAreComparable == QualityQuestions => []ReviewsCompareLikeWithLike
<1>1. QuestionIsOne => ReviewsCompareLikeWithLike
  <2>1. CASE algorithm = "reviews"
    BY <2>1, ReviewsAnswer DEF QuestionIsOne
  <2>2. CASE algorithm # "reviews"
    BY <2>2 DEF ReviewsCompareLikeWithLike
  <2> QED
    BY <2>1, <2>2
<1> QED
  BY <1>1, OneQuestion, PTL

-----------------------------------------------------------------------------
(* Captions                                                                    *)

(* What is said aloud of a text of words W. *)
Aloud(text, W) == Only(text, W \ {Blank})

LEMMA SolidIsAloud ==
  ASSUME NEW W, NEW text \in Seq(W)
  PROVE  Solid(text) = Aloud(text, W)
<1>1. text \in Seq(Range(text)) /\ Range(text) \subseteq W
  BY SeqOfRange, RangeOfSeq
<1>2. \A x \in Range(text) : x \in Range(text) \ {Blank} <=> x \in W \ {Blank}
  BY <1>1
<1>3. Only(text, Range(text) \ {Blank}) = Only(text, W \ {Blank})
  BY <1>1, <1>2, OnlyAgrees
<1> QED
  BY <1>3 DEF Solid, Aloud

LEMMA TrimSays ==
  ASSUME NEW W, NEW text \in Seq(W)
  PROVE  TrimText(text) \in Seq(W) /\ Aloud(TrimText(text), W) = Aloud(text, W)
<1>N. PICK N : N = Len(text)
  OBVIOUS
<1>1. N \in Nat /\ DOMAIN text = 1..N /\ \A i \in 1..N : text[i] \in W
  BY <1>N, LenProperties, ElementOfSeq
<1>solid. PICK solid : solid = {i \in DOMAIN text : text[i] # Blank}
  OBVIOUS
<1>C. PICK C : C = W \ {Blank}
  OBVIOUS
<1>2. solid \in SUBSET (1..N) /\ solid \in SUBSET Int /\ solid \in SUBSET Nat
  BY <1>1, <1>solid
<1>3. CASE solid = {}
  <2>1. Range(text) \cap C = {}
    BY <1>1, <1>3, <1>C, <1>solid DEF Range
  <2>2. Only(text, C) = << >>
    BY <2>1, OnlyNone
  <2>3. << >> \in Seq(W) /\ Range(<< >>) \cap C = {}
    BY EmptySeq DEF Range
  <2>4. Only(<< >>, C) = << >>
    BY <2>3, OnlyNone
  <2>5. TrimText(text) = << >>
    BY <1>3, <1>solid DEF TrimText
  <2> QED
    BY <1>C, <2>2, <2>3, <2>4, <2>5 DEF Aloud
<1>4. CASE solid # {}
  <2>1. IsFiniteSet(solid)
    <3>1. IsFiniteSet(1..N)
      BY <1>1, FS_Interval
    <3> QED
      BY <1>2, <3>1, FS_Subset
  <2>a. PICK a : a = Min(solid)
    OBVIOUS
  <2>b. PICK b : b = Max(solid)
    OBVIOUS
  <2>2. a \in solid /\ \A x \in solid : a <= x
    BY <1>2, <1>4, <2>a, MinOf
  <2>3. b \in solid /\ \A x \in solid : x <= b
    BY <1>2, <1>4, <2>1, <2>b, MaxOf
  <2>4. a \in 1..N /\ b \in 1..N /\ a <= b
    BY <1>2, <2>2, <2>3
  <2>head. PICK head : head = SubSeq(text, 1, a - 1)
    OBVIOUS
  <2>body. PICK body : body = SubSeq(text, a, b)
    OBVIOUS
  <2>tail. PICK tail : tail = SubSeq(text, b + 1, N)
    OBVIOUS
  <2>5. head \in Seq(W) /\ Range(head) \cap C = {}
    <3>1. 1 \in Int /\ a - 1 \in Int /\ \A i \in 1..(a - 1) : i \in 1..N /\ text[i] \in W
      BY <1>1, <2>4
    <3>2. /\ head \in Seq(W) /\ Len(head) = IF 1 <= a - 1 THEN a - 1 - 1 + 1 ELSE 0
          /\ \A i \in 1..(a - 1 - 1 + 1) : head[i] = text[1 + i - 1]
      BY <2>head, <3>1, SubSeqProperties
    <3>3. Len(head) = a - 1 /\ DOMAIN head = 1..(a - 1)
      BY <2>4, <3>2, LenProperties
    <3>4. ASSUME NEW i \in 1..(a - 1) PROVE head[i] = Blank
      <4>1. i \in 1..N /\ ~(a <= i) /\ i \in 1..(a - 1 - 1 + 1) /\ 1 + i - 1 = i
        BY <1>1, <2>4
      <4>2. head[i] = text[1 + i - 1]
        BY <3>2, <4>1
      <4>3. head[i] = text[i]
        BY <4>1, <4>2
      <4> QED
        BY <1>1, <1>solid, <2>2, <4>1, <4>3
    <3> QED
      BY <1>C, <3>2, <3>3, <3>4 DEF Range
  <2>6. tail \in Seq(W) /\ Range(tail) \cap C = {}
    <3>1. b + 1 \in Int /\ N \in Int /\ \A i \in (b + 1)..N : i \in 1..N /\ text[i] \in W
      BY <1>1, <2>4
    <3>2. /\ tail \in Seq(W) /\ Len(tail) = IF b + 1 <= N THEN N - (b + 1) + 1 ELSE 0
          /\ \A i \in 1..(N - (b + 1) + 1) : tail[i] = text[(b + 1) + i - 1]
      BY <2>tail, <3>1, SubSeqProperties
    <3>3. Len(tail) = N - b /\ DOMAIN tail = 1..(N - b)
      BY <1>1, <2>4, <3>2, LenProperties
    <3>4. ASSUME NEW i \in 1..(N - b) PROVE tail[i] = Blank
      <4>1. /\ b + i \in 1..N /\ ~(b + i <= b)
            /\ i \in 1..(N - (b + 1) + 1) /\ (b + 1) + i - 1 = b + i
        BY <1>1, <2>4
      <4>2. tail[i] = text[(b + 1) + i - 1]
        BY <3>2, <4>1
      <4>3. tail[i] = text[b + i]
        BY <4>1, <4>2
      <4> QED
        BY <1>1, <1>solid, <2>3, <4>1, <4>3
    <3> QED
      BY <1>C, <3>2, <3>3, <3>4 DEF Range
  <2>7. body \in Seq(W)
    <3>1. a \in Int /\ b \in Int /\ \A i \in a..b : text[i] \in W
      BY <1>1, <2>4
    <3> QED
      BY <2>body, <3>1, SubSeqProperties
  <2>8. text = (head \o body) \o tail
    <3>1. /\ 1 \in 1..(Len(text) + 1) /\ a - 1 \in (1 - 1)..Len(text) /\ b \in (a - 1)..Len(text)
          /\ (a - 1) + 1 = a
      BY <1>1, <1>N, <2>4
    <3>2. SubSeq(text, 1, a - 1) \o SubSeq(text, (a - 1) + 1, b) = SubSeq(text, 1, b)
      BY <3>1, ConcatAdjacentSubSeq
    <3>3. b \in (1 - 1)..Len(text) /\ N \in b..Len(text)
      BY <1>1, <1>N, <2>4
    <3>4. SubSeq(text, 1, b) \o SubSeq(text, b + 1, N) = SubSeq(text, 1, N)
      BY <3>1, <3>3, ConcatAdjacentSubSeq
    <3>5. SubSeq(text, 1, N) = text
      BY <1>N, SubSeqFull
    <3> QED
      BY <2>head, <2>body, <2>tail, <3>1, <3>2, <3>4, <3>5, Zenon
  <2>9. Only(text, C) = Only(body, C)
    <3>1. Only(head, C) = << >> /\ Only(tail, C) = << >>
      BY <2>5, <2>6, OnlyNone
    <3>2. PICK front \in Seq(W) : front = head \o body
      BY <2>5, <2>7, ConcatProperties
    <3>3. KeepsParts(head, body, C)
      BY <2>5, <2>7, OnlyConcat
    <3>4. KeepsParts(front, tail, C)
      BY <2>6, OnlyConcat
    <3>5. PICK k \in Seq(W) : k = Only(body, C)
      BY <2>7, OnlyKeeps
    <3>6. << >> \o k = k /\ k \o << >> = k
      BY ConcatEmptySeq
    <3> QED
      BY <2>8, <3>1, <3>2, <3>3, <3>4, <3>5, <3>6, Zenon DEF KeepsParts
  <2>10. TrimText(text) = body
    BY <1>4, <1>solid, <2>a, <2>b, <2>body DEF TrimText
  <2> QED
    BY <1>C, <2>7, <2>9, <2>10 DEF Aloud
<1> QED
  BY <1>3, <1>4

(* The words of some captions, one caption after the other. *)
Says(segments, W, words) ==
  \E said \in [0..Len(segments) -> Seq(W)] :
    /\ said[0] = << >> /\ said[Len(segments)] = words
    /\ \A n \in 1..Len(segments) : said[n] = said[n - 1] \o Aloud(segments[n], W)

LEMMA AloudIsText ==
  ASSUME NEW W, NEW text \in Seq(W)
  PROVE  Aloud(text, W) \in Seq(W)
BY OnlyKeeps DEF Aloud

LEMMA SaysNothing ==
  ASSUME NEW W
  PROVE  Says(<< >>, W, << >>)
<1>1. PICK said : said = [n \in 0..0 |-> << >>]
  OBVIOUS
<1>2. Len(<< >>) = 0 /\ 1..0 = {} /\ << >> \in Seq(W)
  BY EmptySeq
<1>3. said \in [0..0 -> Seq(W)] /\ said[0] = << >>
  BY <1>1, <1>2
<1> QED
  BY <1>2, <1>3 DEF Says

LEMMA SaysMore ==
  ASSUME NEW W, NEW segments \in Seq(Seq(W)), NEW words \in Seq(W), Says(segments, W, words),
         NEW text \in Seq(W), NEW more, more = Append(segments, text),
         NEW spoken, spoken = words \o Aloud(text, W)
  PROVE  Says(more, W, spoken)
<1>N. PICK N : N = Len(segments)
  OBVIOUS
<1>1. /\ N \in Nat /\ Len(more) = N + 1
      /\ \A n \in 1..N : more[n] = segments[n]
      /\ more[N + 1] = text
  BY <1>N, LenProperties, AppendProperties
<1>2. PICK said \in [0..N -> Seq(W)] :
        /\ said[0] = << >> /\ said[N] = words
        /\ \A n \in 1..N : said[n] = said[n - 1] \o Aloud(segments[n], W)
  BY <1>N DEF Says
<1>3. spoken \in Seq(W)
  BY AloudIsText, ConcatProperties
<1>4. PICK all : all = [n \in 0..(N + 1) |-> IF n = N + 1 THEN spoken ELSE said[n]]
  OBVIOUS
<1>5. /\ all \in [0..(N + 1) -> Seq(W)]
      /\ all[N + 1] = spoken
      /\ \A n \in 0..N : all[n] = said[n]
  BY <1>1, <1>2, <1>3, <1>4
<1>6. all[0] = << >> /\ all[N] = words
  BY <1>1, <1>2, <1>5
<1>7. ASSUME NEW n \in 1..(N + 1) PROVE all[n] = all[n - 1] \o Aloud(more[n], W)
  <2>1. CASE n = N + 1
    <3>1. n - 1 = N
      BY <1>1, <2>1
    <3> QED
      BY <1>1, <1>5, <1>6, <2>1, <3>1, Zenon
  <2>2. CASE n # N + 1
    <3>1. n \in 1..N /\ n \in 0..N /\ n - 1 \in 0..N
      BY <1>1, <2>2
    <3>2. said[n] = said[n - 1] \o Aloud(segments[n], W)
      BY <1>2, <3>1
    <3> QED
      BY <1>1, <1>5, <3>1, <3>2, Zenon
  <2> QED
    BY <2>1, <2>2
<1>8. /\ all \in [0..Len(more) -> Seq(W)] /\ all[0] = << >> /\ all[Len(more)] = spoken
      /\ \A n \in 1..Len(more) : all[n] = all[n - 1] \o Aloud(more[n], W)
  BY <1>1, <1>5, <1>6, <1>7, Zenon
<1> QED
  BY <1>8, Zenon DEF Says

LEMMA WithSegmentSays ==
  ASSUME NEW W, NEW segments \in Seq(Seq(W)), NEW words \in Seq(W), Says(segments, W, words),
         NEW text \in Seq(W), NEW more, more = WithSegment(segments, text),
         NEW spoken, spoken = words \o Aloud(text, W)
  PROVE  more \in Seq(Seq(W)) /\ Says(more, W, spoken)
<1>t. PICK t : t = TrimText(text)
  OBVIOUS
<1>1. t \in Seq(W) /\ Aloud(t, W) = Aloud(text, W)
  BY <1>t, TrimSays
<1>2. CASE t = << >>
  <2>1. more = segments
    BY <1>2, <1>t DEF WithSegment
  <2>2. Aloud(t, W) = << >>
    <3>1. << >> \in Seq(W) /\ Range(<< >>) \cap (W \ {Blank}) = {}
      BY EmptySeq DEF Range
    <3>2. Only(<< >>, W \ {Blank}) = << >>
      BY <3>1, OnlyNone
    <3> QED
      BY <1>2, <3>2 DEF Aloud
  <2>3. words \o << >> = words
    BY ConcatEmptySeq
  <2>4. spoken = words
    BY <1>1, <2>2, <2>3, Zenon
  <2> QED
    BY <2>1, <2>4
<1>3. CASE t # << >>
  <2>1. more = Append(segments, t)
    BY <1>3, <1>t DEF WithSegment
  <2>2. spoken = words \o Aloud(t, W)
    BY <1>1, Zenon
  <2>3. Says(more, W, spoken)
    BY <1>1, <2>1, <2>2, SaysMore
  <2>4. more \in Seq(Seq(W))
    BY <1>1, <2>1, AppendProperties
  <2> QED
    BY <2>3, <2>4
<1> QED
  BY <1>2, <1>3

LEMMA WithSegmentIsList ==
  ASSUME NEW W, NEW segments \in Seq(Seq(W)), NEW text \in Seq(W)
  PROVE  WithSegment(segments, text) \in Seq(Seq(W))
<1>1. PICK t \in Seq(W) : t = TrimText(text)
  BY TrimSays
<1>2. Append(segments, t) \in Seq(Seq(W))
  BY AppendProperties
<1> QED
  BY <1>1, <1>2 DEF WithSegment

(* One word more of a text that is split. *)
SplitWord(before, word) ==
  IF word = Stop THEN [segments |-> WithSegment(before.segments, Append(before.rest, word)), rest |-> << >>]
  ELSE [segments |-> before.segments, rest |-> Append(before.rest, word)]

(* What is read of a text is in the captions or waits for the next one. *)
SplitTo(state, W, words) ==
  /\ state.segments \in Seq(Seq(W)) /\ state.rest \in Seq(W)
  /\ \E done \in Seq(W) : Says(state.segments, W, done) /\ words = done \o Aloud(state.rest, W)

LEMMA SplitWordSays ==
  ASSUME NEW W, NEW before, NEW words \in Seq(W), SplitTo(before, W, words), NEW word \in W,
         NEW state, state = SplitWord(before, word)
  PROVE  SplitTo(state, W, IF word # Blank THEN Append(words, word) ELSE words)
<1>1. before.segments \in Seq(Seq(W)) /\ before.rest \in Seq(W)
  BY DEF SplitTo
<1>2. PICK done \in Seq(W) : Says(before.segments, W, done) /\ words = done \o Aloud(before.rest, W)
  BY DEF SplitTo
<1>r. PICK rest : rest = Append(before.rest, word)
  OBVIOUS
<1>a. PICK a \in Seq(W) : a = Aloud(before.rest, W)
  BY <1>1, AloudIsText
<1>more. PICK more : more = IF word # Blank THEN Append(words, word) ELSE words
  OBVIOUS
<1>3. rest \in Seq(W)
  BY <1>1, <1>r, AppendProperties
<1>4. Aloud(rest, W) = IF word # Blank THEN Append(a, word) ELSE a
  <2>1. PICK s \in Seq(W) : s = before.rest
    BY <1>1
  <2>2. Only(Append(s, word), W \ {Blank})
          = IF word \in W \ {Blank} THEN Append(Only(s, W \ {Blank}), word) ELSE Only(s, W \ {Blank})
    BY OnlyAppends
  <2>3. a = Only(s, W \ {Blank})
    BY <1>a, <2>1 DEF Aloud
  <2>4. Aloud(rest, W) = Only(Append(s, word), W \ {Blank})
    BY <1>r, <2>1, Zenon DEF Aloud
  <2> QED
    BY <2>2, <2>3, <2>4
<1>5. more = done \o Aloud(rest, W)
  <2>1. Associates(done, a, word)
    BY AppendToConcat
  <2>2. CASE word # Blank
    <3>1. more = Append(done \o a, word)
      BY <1>2, <1>a, <1>more, <2>2, Zenon
    <3>2. Aloud(rest, W) = Append(a, word)
      BY <1>4, <2>2
    <3> QED
      BY <2>1, <3>1, <3>2, Zenon DEF Associates
  <2>3. CASE word = Blank
    BY <1>2, <1>4, <1>a, <1>more, <2>3, Zenon
  <2> QED
    BY <2>2, <2>3
<1>6. CASE word = Stop
  <2>1. PICK segments : segments = WithSegment(before.segments, rest)
    OBVIOUS
  <2>2. PICK earlier \in Seq(Seq(W)) : earlier = before.segments
    BY <1>1
  <2>3. Says(earlier, W, done) /\ segments = WithSegment(earlier, rest)
    BY <1>2, <2>1, <2>2, Zenon
  <2>4. segments \in Seq(Seq(W)) /\ Says(segments, W, more)
    BY <1>3, <1>5, <2>3, WithSegmentSays
  <2>5. state.segments = segments /\ state.rest = << >>
    BY <1>6, <1>r, <2>1 DEF SplitWord
  <2>6. Aloud(<< >>, W) = << >> /\ << >> \in Seq(W)
    <3>1. << >> \in Seq(W) /\ Range(<< >>) \cap (W \ {Blank}) = {}
      BY EmptySeq DEF Range
    <3> QED
      BY <3>1, OnlyNone DEF Aloud
  <2>7. more \in Seq(W)
    BY <1>more, AppendProperties
  <2>8. more = more \o << >>
    BY <2>7, ConcatEmptySeq
  <2>9. SplitTo(state, W, more)
    BY <2>4, <2>5, <2>6, <2>7, <2>8, Zenon DEF SplitTo
  <2> QED
    BY <1>more, <2>9, Zenon
<1>7. CASE word # Stop
  <2>1. state.segments = before.segments /\ state.rest = rest
    BY <1>7, <1>r DEF SplitWord
  <2>2. SplitTo(state, W, more)
    BY <1>1, <1>2, <1>3, <1>5, <2>1, Zenon DEF SplitTo
  <2> QED
    BY <1>more, <2>2, Zenon
<1> QED
  BY <1>6, <1>7

LEMMA SplitSays ==
  ASSUME NEW W, NEW text \in Seq(W)
  PROVE  /\ SplitSubtitleText(text) \in Seq(Seq(W))
         /\ Says(SplitSubtitleText(text), W, Aloud(text, W))
<1>t. PICK t : t = TrimText(text)
  OBVIOUS
<1>N. PICK N : N = Len(t)
  OBVIOUS
<1>1. t \in Seq(W) /\ Aloud(t, W) = Aloud(text, W)
  BY <1>t, TrimSays
<1>2. N \in Nat /\ \A n \in 1..N : t[n] \in W
  BY <1>1, <1>N, LenProperties, ElementOfSeq
<1>V. PICK V : V = [segments : Seq(Seq(W)), rest : Seq(W)]
  OBVIOUS
<1>base. PICK base : base = [segments |-> << >>, rest |-> << >>]
  OBVIOUS
<1> DEFINE step == [x \in V \X (1..N) |-> SplitWord(x[1], t[x[2]])]
<1>3. base \in V
  BY <1>V, <1>base, EmptySeq
<1>4. IsStep(step, N, V)
  <2>1. ASSUME NEW v \in V, NEW n \in 1..N PROVE SplitWord(v, t[n]) \in V
    <3>1. v.segments \in Seq(Seq(W)) /\ v.rest \in Seq(W) /\ t[n] \in W
      BY <1>2, <1>V
    <3>2. PICK rest \in Seq(W) : rest = Append(v.rest, t[n])
      BY <3>1, AppendProperties
    <3>3. WithSegment(v.segments, rest) \in Seq(Seq(W)) /\ << >> \in Seq(W)
      BY <3>1, WithSegmentIsList, EmptySeq
    <3>4. SplitWord(v, t[n]) = IF t[n] = Stop
            THEN [segments |-> WithSegment(v.segments, rest), rest |-> << >>]
            ELSE [segments |-> v.segments, rest |-> rest]
      BY <3>2, Zenon DEF SplitWord
    <3> QED
      BY <1>V, <3>1, <3>3, <3>4
  <2>2. \A x \in V \X (1..N) : x[1] \in V /\ x[2] \in 1..N
    OBVIOUS
  <2>3. \A x \in V \X (1..N) : SplitWord(x[1], t[x[2]]) \in V
    BY <2>1, <2>2
  <2> QED
    BY <2>3 DEF IsStep
<1>5. \A v \in V, n \in 1..N : step[<<v, n>>] = SplitWord(v, t[n])
  OBVIOUS
<1> HIDE DEF step
<1>6. PICK g : Stepped(g, base, step, N, V)
  BY <1>2, <1>3, <1>4, Recursion
<1>7. g \in [0..N -> V] /\ g[0] = base
  BY <1>6 DEF Stepped
<1>8. ASSUME NEW n \in 1..N PROVE g[n] = SplitWord(g[n - 1], t[n])
  <2>1. n - 1 \in 0..N /\ g[n - 1] \in V
    BY <1>2, <1>7
  <2>2. g[n] = step[<<g[n - 1], n>>]
    BY <1>6 DEF Stepped
  <2> QED
    BY <1>5, <2>1, <2>2
<1> DEFINE Is(f) == f = [n \in 0..Len(t) |->
             IF n = 0 THEN [segments |-> << >>, rest |-> << >>]
             ELSE LET before == f[n - 1]
                      rest   == Append(before.rest, t[n])
                  IN  IF t[n] = Stop THEN [segments |-> WithSegment(before.segments, rest), rest |-> << >>]
                      ELSE [segments |-> before.segments, rest |-> rest]]
<1>9. Is(g)
  <2>1. \A n \in 0..N : n = 0 \/ n \in 1..N
    BY <1>2
  <2>2. g = [n \in 0..N |-> g[n]]
    BY <1>7
  <2>3. \A n \in 0..N : g[n] = IF n = 0 THEN base ELSE SplitWord(g[n - 1], t[n])
    BY <1>2, <1>7, <1>8, <2>1
  <2>4. g = [n \in 0..N |-> IF n = 0 THEN base ELSE SplitWord(g[n - 1], t[n])]
    BY <2>2, <2>3
  <2> QED
    BY <1>N, <1>base, <2>4, Zenon DEF SplitWord
<1>10. PICK f : f = CHOOSE h : Is(h)
  OBVIOUS
<1>11. Is(f)
  BY <1>9, <1>10
<1>12. f[N] = g[N]
  <2>1. f[0] = base
    BY <1>2, <1>11, <1>N, <1>base
  <2>2. ASSUME NEW n \in 1..N PROVE f[n] = SplitWord(f[n - 1], t[n])
    <3>1. n \in 0..Len(t) /\ n # 0
      BY <1>2, <1>N
    <3> QED
      BY <1>11, <3>1, Zenon DEF SplitWord
  <2>3. Follows(f, g, N)
    BY <1>7, <1>8, <2>1, <2>2, Zenon DEF Follows
  <2>4. \A n \in 0..N : f[n] = g[n]
    BY <1>2, <2>3, SameSteps
  <2> QED
    BY <1>2, <2>4
<1>13. SplitSubtitleText(text) = WithSegment(g[N].segments, g[N].rest)
  <2>1. SplitSubtitleText(text) = WithSegment(f[Len(t)].segments, f[Len(t)].rest)
    BY <1>10, <1>t, Zenon DEF SplitSubtitleText
  <2> QED
    BY <1>12, <1>N, <2>1, Zenon
<1>14. PICK kept \in [0..N -> Seq(W)] : KeepsIn(kept, t, W \ {Blank}) /\ Only(t, W \ {Blank}) = kept[N]
  <2>1. \E kept \in [0..Len(t) -> Seq(W)] :
          KeepsIn(kept, t, W \ {Blank}) /\ Only(t, W \ {Blank}) = kept[Len(t)]
    <3>1. t \in Seq(W)
      BY <1>1
    <3> QED
      BY <3>1, OnlyReads
  <2> QED
    BY <1>N, <2>1, Zenon
<1> DEFINE T == {n \in 0..N : SplitTo(g[n], W, kept[n])}
<1>15. 0 \in T
  <2>1. kept[0] = << >> /\ g[0].segments = << >> /\ g[0].rest = << >>
    BY <1>7, <1>14, <1>base DEF KeepsIn
  <2>2. Aloud(<< >>, W) = << >> /\ << >> \in Seq(W)
    <3>1. << >> \in Seq(W) /\ Range(<< >>) \cap (W \ {Blank}) = {}
      BY EmptySeq DEF Range
    <3> QED
      BY <3>1, OnlyNone DEF Aloud
  <2>3. << >> = << >> \o << >>
    BY <2>2, ConcatEmptySeq
  <2>4. << >> \in Seq(Seq(W)) /\ Says(<< >>, W, << >>)
    BY EmptySeq, SaysNothing
  <2>5. SplitTo(g[0], W, kept[0])
    BY <2>1, <2>2, <2>3, <2>4, Zenon DEF SplitTo
  <2> QED
    BY <1>2, <2>5
<1>16. ASSUME NEW n \in 0..N, n < N, n \in T PROVE n + 1 \in T
  <2>1. n + 1 \in 1..N /\ (n + 1) - 1 = n /\ n + 1 \in 0..N
    BY <1>2, <1>16
  <2>2. PICK word \in W : word = t[n + 1]
    BY <1>2, <2>1
  <2>3. PICK words \in Seq(W) : words = kept[n]
    BY <1>14
  <2>4. g[n + 1] = SplitWord(g[n], word)
    BY <1>8, <2>1, <2>2
  <2>5. SplitTo(g[n], W, words)
    BY <1>16, <2>3
  <2>6. SplitTo(g[n + 1], W, IF word # Blank THEN Append(words, word) ELSE words)
    BY <2>4, <2>5, SplitWordSays
  <2>7. kept[n + 1] = IF word # Blank THEN Append(words, word) ELSE words
    <3>1. kept[n + 1] = IF word \in W \ {Blank} THEN Append(words, word) ELSE words
      BY <1>14, <1>N, <2>1, <2>2, <2>3 DEF KeepsIn
    <3> QED
      BY <3>1
  <2>8. SplitTo(g[n + 1], W, kept[n + 1])
    BY <2>6, <2>7, Zenon
  <2> QED
    BY <2>1, <2>8
<1> HIDE DEF T
<1>17. SplitTo(g[N], W, kept[N])
  <2>1. \A n \in 0..N : n \in T
    BY <1>2, <1>15, <1>16, Counting
  <2>2. N \in 0..N
    BY <1>2
  <2> QED
    BY <2>1, <2>2 DEF T
<1>18. kept[N] = Aloud(text, W)
  BY <1>1, <1>14 DEF Aloud
<1>19. PICK segments \in Seq(Seq(W)), rest \in Seq(W), done \in Seq(W) :
         /\ segments = g[N].segments /\ rest = g[N].rest
         /\ Says(segments, W, done) /\ Aloud(text, W) = done \o Aloud(rest, W)
  BY <1>17, <1>18 DEF SplitTo
<1>20. PICK all : all = SplitSubtitleText(text)
  OBVIOUS
<1>21. all = WithSegment(segments, rest)
  BY <1>13, <1>19, <1>20, Zenon
<1>22. all \in Seq(Seq(W)) /\ Says(all, W, Aloud(text, W))
  BY <1>19, <1>21, WithSegmentSays
<1> QED
  BY <1>20, <1>22, Zenon

LEMMA NothingSaid ==
  ASSUME NEW W, NEW text \in Seq(W), SplitSubtitleText(text) = << >>
  PROVE  Solid(text) = << >>
<1>1. Says(<< >>, W, Aloud(text, W))
  BY SplitSays
<1>2. Aloud(text, W) = << >>
  <2>1. PICK said : said[0] = << >> /\ said[Len(<< >>)] = Aloud(text, W)
    BY <1>1 DEF Says
  <2>2. Len(<< >>) = 0
    BY EmptySeq
  <2> QED
    BY <2>1, <2>2
<1> QED
  BY <1>2, SolidIsAloud

LEMMA NothingToSay ==
  ASSUME NEW W, NEW text \in Seq(W), Solid(text) = << >>
  PROVE  SplitSubtitleText(text) = << >>
<1>1. \A i \in DOMAIN text : text[i] = Blank
  <2>1. Only(text, W \ {Blank}) = << >>
    BY SolidIsAloud DEF Aloud
  <2>2. Range(text) \cap (W \ {Blank}) = {}
    <3>1. Range(Only(text, W \ {Blank})) = Range(text) \cap (W \ {Blank})
      BY OnlyKeeps
    <3>2. Range(<< >>) = {}
      BY EmptySeq, LenProperties DEF Range
    <3> QED
      BY <2>1, <3>1, <3>2
  <2>3. \A i \in DOMAIN text : text[i] \in W /\ text[i] \in Range(text)
    BY LenProperties, ElementOfSeq DEF Range
  <2> QED
    BY <2>2, <2>3
<1>2. TrimText(text) = << >>
  BY <1>1 DEF TrimText
<1>3. TrimText(<< >>) = << >>
  <2>1. {i \in DOMAIN << >> : << >>[i] # Blank} = {}
    BY EmptySeq, LenProperties
  <2> QED
    BY <2>1 DEF TrimText
<1>base. PICK base : base = [segments |-> << >>, rest |-> << >>]
  OBVIOUS
<1>t. PICK t : t = TrimText(text)
  OBVIOUS
<1>4. Len(t) = 0
  BY <1>2, <1>t, EmptySeq
<1> DEFINE Is(f) == f = [n \in 0..Len(t) |->
             IF n = 0 THEN [segments |-> << >>, rest |-> << >>]
             ELSE LET before == f[n - 1]
                      rest   == Append(before.rest, t[n])
                  IN  IF t[n] = Stop THEN [segments |-> WithSegment(before.segments, rest), rest |-> << >>]
                      ELSE [segments |-> before.segments, rest |-> rest]]
<1>g. PICK g : g = [n \in 0..0 |-> base]
  OBVIOUS
<1>5. Is(g)
  <2>1. \A n \in 0..Len(t) : n = 0
    BY <1>4
  <2>2. g = [n \in 0..Len(t) |-> base]
    BY <1>4, <1>g
  <2> QED
    BY <1>base, <2>1, <2>2, Zenon
<1>f. PICK f : f = CHOOSE h : Is(h)
  OBVIOUS
<1>6. Is(f)
  BY <1>5, <1>f
<1>7. f[0] = base
  <2>1. 0 \in 0..Len(t)
    BY <1>4
  <2> QED
    BY <1>6, <1>base, <2>1, Zenon
<1>8. SplitSubtitleText(text) = WithSegment(f[Len(t)].segments, f[Len(t)].rest)
  BY <1>f, <1>t, Zenon DEF SplitSubtitleText
<1>9. f[Len(t)].segments = << >> /\ f[Len(t)].rest = << >>
  BY <1>4, <1>7, <1>base
<1>10. SplitSubtitleText(text) = WithSegment(<< >>, << >>)
  BY <1>8, <1>9, Zenon
<1> QED
  BY <1>3, <1>10 DEF WithSegment

(* A list of captions says the words of its texts. *)
LEMMA SaidIsSays ==
  ASSUME NEW W, NEW segments \in Seq(Seq(W)), NEW words, Says(segments, W, words),
         NEW caption, Len(caption) = Len(segments),
         \A n \in 1..Len(segments) : caption[n].text = segments[n]
  PROVE  Said(caption) = words
<1>N. PICK N : N = Len(segments)
  OBVIOUS
<1>1. N \in Nat /\ Len(caption) = N /\ \A n \in 1..N : segments[n] \in Seq(W)
  BY <1>N, LenProperties, ElementOfSeq
<1>2. PICK said \in [0..N -> Seq(W)] :
        /\ said[0] = << >> /\ said[N] = words
        /\ \A n \in 1..N : said[n] = said[n - 1] \o Aloud(segments[n], W)
  BY <1>N DEF Says
<1>3. ASSUME NEW n \in 1..N PROVE Solid(caption[n].text) = Aloud(segments[n], W)
  <2>1. PICK s \in Seq(W) : s = segments[n]
    BY <1>1
  <2>2. Solid(s) = Aloud(s, W)
    BY SolidIsAloud
  <2>3. caption[n].text = s
    BY <1>N, <2>1
  <2> QED
    BY <2>1, <2>2, <2>3, Zenon
<1> DEFINE Is(f) == f = [n \in 0..Len(caption) |->
                           IF n = 0 THEN << >> ELSE f[n - 1] \o Solid(caption[n].text)]
<1>4. Is(said)
  <2>1. \A n \in 0..N : n = 0 \/ n \in 1..N
    BY <1>1
  <2>2. said = [n \in 0..N |-> said[n]]
    BY <1>2
  <2>3. \A n \in 0..N : said[n] = IF n = 0 THEN << >> ELSE said[n - 1] \o Solid(caption[n].text)
    BY <1>2, <1>3, <2>1, Zenon
  <2>4. said = [n \in 0..N |-> IF n = 0 THEN << >> ELSE said[n - 1] \o Solid(caption[n].text)]
    BY <2>2, <2>3, Zenon
  <2> QED
    BY <1>1, <2>4, Zenon
<1>5. PICK f : f = CHOOSE h : Is(h)
  OBVIOUS
<1>6. Is(f)
  BY <1>4, <1>5
<1>7. f[0] = << >>
  BY <1>1, <1>6
<1>8. ASSUME NEW n \in 1..N PROVE f[n] = f[n - 1] \o Solid(caption[n].text)
  <2>1. n \in 0..Len(caption) /\ n # 0
    BY <1>1
  <2> QED
    BY <1>6, <2>1, Zenon
<1>9. Follows(f, said, N)
  BY <1>2, <1>3, <1>7, <1>8, Zenon DEF Follows
<1>10. f[N] = said[N]
  <2>1. \A n \in 0..N : f[n] = said[n]
    BY <1>1, <1>9, SameSteps
  <2> QED
    BY <1>1, <2>1
<1>11. Said(caption) = f[Len(caption)]
  BY <1>5, Zenon DEF Said
<1> QED
  BY <1>1, <1>2, <1>10, <1>11

IsCaptioned(caption, text) ==
  /\ Said(caption) = Solid(text)
  /\ \A i \in 2..Len(caption) : caption[i].start = caption[i - 1].end

LEMMA TimelineSays ==
  ASSUME NEW W, NEW text \in Seq(W)
  PROVE  IsCaptioned(SpeechTimeline(text), text)
<1>segments. PICK segments \in Seq(Seq(W)) :
               segments = SplitSubtitleText(text) /\ Says(segments, W, Aloud(text, W))
  BY SplitSays
<1>N. PICK N : N = Len(segments)
  OBVIOUS
<1>1. N \in Nat /\ DOMAIN segments = 1..N
  BY <1>N, LenProperties
<1>caption. PICK caption : caption = SpeechTimeline(text)
  OBVIOUS
<1>2. PICK cursor : caption = [n \in 1..N |-> [text |-> segments[n], start |-> cursor[n - 1],
                                              end |-> cursor[n]]]
  <2>1. PICK cursor : cursor =
          CHOOSE f : f = [n \in 0..Len(segments) |->
                            IF n = 0 THEN 0 ELSE f[n - 1] + SpeechDuration(segments[n])]
    OBVIOUS
  <2>2. caption = [n \in DOMAIN segments |-> [text |-> segments[n], start |-> cursor[n - 1],
                                              end |-> cursor[n]]]
    BY <1>segments, <1>caption, <2>1, Zenon DEF SpeechTimeline
  <2> QED
    BY <1>1, <2>2, Zenon
<1>3. Len(caption) = N
  <2>1. DOMAIN caption = 1..N
    BY <1>2
  <2>2. Len([n \in 1..N |-> caption[n]]) = N
    BY <1>1
  <2>3. caption = [n \in 1..N |-> caption[n]]
    BY <1>2
  <2> QED
    BY <2>2, <2>3, Zenon
<1>4. \A n \in 1..N : /\ caption[n].text = segments[n]
                      /\ caption[n].start = cursor[n - 1] /\ caption[n].end = cursor[n]
  BY <1>2
<1>5. ASSUME NEW i \in 2..N PROVE caption[i].start = caption[i - 1].end
  <2>1. i \in 1..N /\ i - 1 \in 1..N
    BY <1>1
  <2> QED
    BY <1>4, <2>1
<1>6. Said(caption) = Aloud(text, W)
  BY <1>segments, <1>3, <1>4, <1>N, SaidIsSays
<1>7. Solid(text) = Aloud(text, W)
  BY SolidIsAloud
<1> QED
  BY <1>3, <1>5, <1>6, <1>7, <1>caption DEF IsCaptioned

-----------------------------------------------------------------------------
(* The events of a turn                                                        *)

QuietNames == {"request_started", "route_selected", "agent_selected", "assistant_delta"}

(* The first events start no ending, and what they say the agent has streamed. *)
Begins(events, q, turn) ==
  \A i \in 1..q : /\ events[i].name \in QuietNames
                  /\ events[i].name = "assistant_delta" =>
                       ~turn.replay /\ events[i].value \in Range(turn.run.deltas)

Closes(events, q, last, status) ==
  Len(events) = q + 2 /\ events[q + 1] = last /\ events[q + 2] = Event("done", status)

(* How a stream ends, by what the turn comes to. *)
EndsAs(events, q, turn, agents) ==
  LET ending == Outcome(turn, Finders(agents, RouteOf(turn)) # {})
      errs   == StreamErrs(turn, agents)
  IN  \/ Len(events) = q /\ ending = "hanging" /\ errs
      \/ Len(events) = q /\ ending = "panicked" /\ ~errs
      \/ Closes(events, q, Event("canceled", NoContent), "canceled") /\ ending = "canceled" /\ errs
      \/ Closes(events, q, Event("error", NoContent), "failed") /\ ending = "failed"
      \/ /\ Closes(events, q, Event("message_completed", turn.run.result), "completed") /\ ~errs
         /\ ending = IF Solid(turn.run.result) # << >> THEN "completed" ELSE "hanging"
         /\ ~turn.replay => /\ turn.run.outcome = "ok"
                            /\ Handle(turn, agents) = Handled(turn.run.result)

LEMMA StreamShape ==
  ASSUME NEW turn, NEW agents, IsRun(turn.run), turn.replay \in BOOLEAN,
         NEW events, events = StreamEvents(turn, agents)
  PROVE  \E q \in Nat : Begins(events, q, turn) /\ EndsAs(events, q, turn, agents)
<1>run. PICK run : run = turn.run
  OBVIOUS
<1>1. /\ IsSequence(run.deltas)
      /\ run.start \in {"refused", "not_begun", "begun"}
      /\ run.outcome \in {"ok", "canceled", "failed", "panicked"} /\ run.committed \in BOOLEAN
  BY <1>run DEF IsRun
<1>finders. PICK finders : finders = Finders(agents, RouteOf(turn))
  OBVIOUS
<1>a. PICK a : a = Event("request_started", NoContent)
  OBVIOUS
<1>b. PICK b : b = Event("route_selected", RouteOf(turn).name)
  OBVIOUS
<1>ending. PICK ending : ending = Outcome(turn, finders # {})
  OBVIOUS
<1>refused. CASE run.start = "refused"
  <2>1. events = << >>
    BY <1>refused, <1>run DEF StreamEvents
  <2>2. Len(events) = 0 /\ 1..0 = {}
    BY <2>1
  <2>3. ending = "hanging" /\ StreamErrs(turn, agents)
    BY <1>refused, <1>run, <1>ending DEF Outcome, StreamErrs
  <2>4. Begins(events, 0, turn)
    BY <2>2 DEF Begins
  <2>5. EndsAs(events, 0, turn, agents)
    BY <1>ending, <1>finders, <2>2, <2>3 DEF EndsAs
  <2> QED
    BY <2>4, <2>5
<1>unbegun. CASE run.start = "not_begun"
  <2>1. events = <<a>>
    BY <1>unbegun, <1>run, <1>a DEF StreamEvents
  <2>2. Len(events) = 1 /\ events[1] = a
    BY <2>1
  <2>3. ending = "hanging" /\ StreamErrs(turn, agents)
    BY <1>unbegun, <1>run, <1>ending DEF Outcome, StreamErrs
  <2>4. Begins(events, 1, turn)
    <3>1. \A i \in 1..1 : events[i].name = "request_started"
      BY <1>a, <2>2 DEF Event
    <3> QED
      BY <3>1 DEF Begins, QuietNames
  <2>5. EndsAs(events, 1, turn, agents)
    BY <1>ending, <1>finders, <2>2, <2>3 DEF EndsAs
  <2> QED
    BY <2>4, <2>5
<1>2. CASE run.start = "begun" /\ turn.replay
  <2>1. events = <<a>> \o <<Event("message_completed", run.result), Event("done", "completed")>>
    BY <1>2, <1>a, <1>run DEF StreamEvents
  <2>2. /\ Len(events) = 1 + 2 /\ events[1] = a
        /\ events[1 + 1] = Event("message_completed", run.result)
        /\ events[1 + 2] = Event("done", "completed")
    BY <2>1
  <2>3. Closes(events, 1, Event("message_completed", turn.run.result), "completed")
    BY <1>run, <2>2 DEF Closes
  <2>4. Begins(events, 1, turn)
    <3>1. \A i \in 1..1 : events[i].name = "request_started"
      BY <1>a, <2>2 DEF Event
    <3> QED
      BY <3>1 DEF Begins, QuietNames
  <2>5. /\ ending = IF Solid(run.result) # << >> THEN "completed" ELSE "hanging"
        /\ ~StreamErrs(turn, agents)
    BY <1>2, <1>run, <1>ending DEF Outcome, StreamErrs
  <2>6. EndsAs(events, 1, turn, agents)
    BY <1>2, <1>ending, <1>finders, <1>run, <2>3, <2>5 DEF EndsAs
  <2> QED
    BY <2>4, <2>6
<1>3. CASE run.start = "begun" /\ ~turn.replay /\ finders = {}
  <2>1. events = (<<a>> \o <<b>>) \o <<Event("error", NoContent), Event("done", "failed")>>
    BY <1>3, <1>a, <1>b, <1>finders, <1>run DEF StreamEvents
  <2>2. /\ Len(events) = 2 + 2 /\ events[1] = a /\ events[2] = b
        /\ events[2 + 1] = Event("error", NoContent)
        /\ events[2 + 2] = Event("done", "failed")
    BY <2>1
  <2>3. Closes(events, 2, Event("error", NoContent), "failed")
    BY <2>2 DEF Closes
  <2>4. Begins(events, 2, turn)
    <3>1. \A i \in 1..2 : events[i].name \in {"request_started", "route_selected"}
      BY <1>a, <1>b, <2>2 DEF Event
    <3> QED
      BY <3>1 DEF Begins, QuietNames
  <2>5. ending = "failed"
    BY <1>3, <1>run, <1>ending DEF Outcome
  <2>6. EndsAs(events, 2, turn, agents)
    BY <1>ending, <1>finders, <2>3, <2>5 DEF EndsAs
  <2> QED
    BY <2>4, <2>6
<1>4. CASE run.start = "begun" /\ ~turn.replay /\ finders # {}
  <2>agent. PICK agent : agent = agents[Min(finders)]
    OBVIOUS
  <2>c. PICK c : c = Event("agent_selected", agent.name)
    OBVIOUS
  <2>d. PICK deltas : deltas = Deltas(agent, run)
    OBVIOUS
  <2>e. PICK tail : tail = Ending(run)
    OBVIOUS
  <2>V. PICK V : V = {a, b, c} \cup {Event("assistant_delta", d) : d \in Range(run.deltas)}
                      \cup {Event("canceled", NoContent), Event("done", "canceled"),
                            Event("error", NoContent), Event("done", "failed"),
                            Event("message_completed", run.result), Event("done", "completed")}
    OBVIOUS
  <2>1. events = (((<<a>> \o <<b>>) \o <<c>>) \o deltas) \o tail
    BY <1>4, <1>a, <1>b, <1>finders, <1>run, <2>agent, <2>c, <2>d, <2>e DEF StreamEvents
  <2>2. PICK first \in Seq(V) : /\ first = (<<a>> \o <<b>>) \o <<c>>
                                /\ Len(first) = 3 /\ first[1] = a /\ first[2] = b /\ first[3] = c
    <3>1. a \in V /\ b \in V /\ c \in V
      BY <2>V
    <3>2. PICK routed \in Seq(V) :
            routed = <<a>> \o <<b>> /\ Len(routed) = 2 /\ routed[1] = a /\ routed[2] = b
      <4>1. PICK x \in Seq(V) : x = <<a>> /\ Len(x) = 1 /\ x[1] = a
        <5>1. <<a>> \in Seq(V)
          BY <3>1
        <5> QED
          BY <5>1
      <4>2. PICK y \in Seq(V) : y = <<b>> /\ Len(y) = 1 /\ y[1] = b
        <5>1. <<b>> \in Seq(V)
          BY <3>1
        <5> QED
          BY <5>1
      <4>3. PICK routed : routed = x \o y
        OBVIOUS
      <4>4. /\ routed \in Seq(V) /\ Len(routed) = Len(x) + Len(y)
            /\ \A i \in 1..(Len(x) + Len(y)) :
                  routed[i] = IF i <= Len(x) THEN x[i] ELSE y[i - Len(x)]
        BY <4>3, ConcatProperties
      <4>5. Len(routed) = 2 /\ routed[1] = a /\ routed[2] = b
        <5>1. 1 \in 1..2 /\ 2 \in 1..2 /\ 1 <= 1 /\ ~(2 <= 1) /\ 2 - 1 = 1
          OBVIOUS
        <5> QED
          BY <4>1, <4>2, <4>4, <5>1
      <4> QED
        BY <4>1, <4>2, <4>3, <4>4, <4>5
    <3>3. PICK found \in Seq(V) : found = <<c>> /\ Len(found) = 1 /\ found[1] = c
      <4>1. <<c>> \in Seq(V)
        BY <3>1
      <4> QED
        BY <4>1
    <3>4. PICK first : first = routed \o found
      OBVIOUS
    <3>5. /\ first \in Seq(V) /\ Len(first) = Len(routed) + Len(found)
          /\ \A i \in 1..(Len(routed) + Len(found)) :
               first[i] = IF i <= Len(routed) THEN routed[i] ELSE found[i - Len(routed)]
      BY <3>4, ConcatProperties
    <3>6. Len(first) = 3 /\ first[1] = a /\ first[2] = b /\ first[3] = c
      BY <3>2, <3>3, <3>5
    <3> QED
      BY <3>2, <3>3, <3>4, <3>5, <3>6, Zenon
  <2>3. /\ deltas \in Seq(V)
        /\ \A i \in 1..Len(deltas) : /\ deltas[i].name = "assistant_delta"
                                     /\ deltas[i].value \in Range(run.deltas)
    <3>1. CASE agent.streams
      <4>1. deltas = [i \in DOMAIN run.deltas |-> Event("assistant_delta", run.deltas[i])]
        BY <2>d, <3>1 DEF Deltas
      <4>2. PICK m \in Nat : m = Len(run.deltas) /\ DOMAIN run.deltas = 1..m
        BY <1>1, SequencesAreFinite
      <4>3. \A i \in 1..m : run.deltas[i] \in Range(run.deltas)
        BY <4>2 DEF Range
      <4>4. deltas \in [1..m -> V]
        BY <2>V, <4>1, <4>2, <4>3
      <4>5. deltas \in Seq(V) /\ Len(deltas) = m
        BY <4>4
      <4> QED
        BY <4>1, <4>2, <4>3, <4>5 DEF Event
    <3>2. CASE ~agent.streams
      <4>1. deltas = << >>
        BY <2>d, <3>2 DEF Deltas
      <4> QED
        BY <4>1, EmptySeq
    <3> QED
      BY <3>1, <3>2
  <2>q. PICK q : q = Len(first) + Len(deltas)
    OBVIOUS
  <2>4. q \in Nat /\ q = 3 + Len(deltas) /\ Len(deltas) \in Nat
    BY <2>2, <2>3, <2>q, LenProperties
  <2>5. PICK begin \in Seq(V) : /\ begin = first \o deltas /\ Len(begin) = q
                                /\ \A i \in 1..q : begin[i] = IF i <= 3 THEN first[i] ELSE deltas[i - 3]
    <3>1. PICK begin : begin = first \o deltas
      OBVIOUS
    <3>2. /\ begin \in Seq(V) /\ Len(begin) = Len(first) + Len(deltas)
          /\ \A i \in 1..(Len(first) + Len(deltas)) :
               begin[i] = IF i <= Len(first) THEN first[i] ELSE deltas[i - Len(first)]
      BY <2>3, <3>1, ConcatProperties
    <3>3. Len(begin) = q
      BY <2>q, <3>2
    <3>4. \A i \in 1..q : begin[i] = IF i <= 3 THEN first[i] ELSE deltas[i - 3]
      BY <2>2, <2>q, <3>2, Zenon
    <3> QED
      BY <3>1, <3>2, <3>3, <3>4, Zenon
  <2>6. ASSUME NEW i \in 1..q
        PROVE  /\ begin[i].name \in QuietNames
               /\ begin[i].name = "assistant_delta" => begin[i].value \in Range(run.deltas)
    <3>1. CASE i <= 3
      <4>1. i \in {1, 2, 3}
        BY <2>4, <3>1
      <4>2. begin[i] \in {a, b, c}
        BY <2>2, <2>5, <3>1, <4>1
      <4> QED
        BY <1>a, <1>b, <2>c, <4>2 DEF QuietNames, Event
    <3>2. CASE ~(i <= 3)
      <4>1. i - 3 \in 1..Len(deltas)
        BY <2>4, <3>2
      <4>2. begin[i] = deltas[i - 3]
        BY <2>5, <3>2
      <4> QED
        BY <2>3, <4>1, <4>2 DEF QuietNames
    <3> QED
      BY <3>1, <3>2
  <2>7. ASSUME tail \in Seq(V)
        PROVE  /\ Begins(events, q, turn) /\ Len(events) = q + Len(tail)
               /\ \A i \in 1..Len(tail) : events[q + i] = tail[i]
    <3>1. events = begin \o tail
      BY <2>1, <2>2, <2>5, Zenon
    <3>2. Len(events) = q + Len(tail) /\ Len(tail) \in Nat
      BY <2>5, <2>7, <3>1, ConcatProperties, LenProperties
    <3>3. \A i \in 1..(q + Len(tail)) : events[i] = IF i <= q THEN begin[i] ELSE tail[i - q]
      BY <2>5, <2>7, <3>1, ConcatProperties
    <3>4. \A i \in 1..q : events[i] = begin[i]
      BY <2>4, <3>2, <3>3
    <3>5. \A i \in 1..Len(tail) : events[q + i] = tail[i]
      <4>1. \A i \in 1..Len(tail) : q + i \in 1..(q + Len(tail)) /\ ~(q + i <= q) /\ (q + i) - q = i
        BY <2>4, <3>2
      <4> QED
        BY <3>3, <4>1
    <3>6. Begins(events, q, turn)
      BY <1>4, <1>run, <2>6, <3>4 DEF Begins
    <3> QED
      BY <3>2, <3>5, <3>6
  <2>8. ASSUME NEW last, NEW status, tail = <<last, Event("done", status)>>,
               last \in V, Event("done", status) \in V
        PROVE  Begins(events, q, turn) /\ Closes(events, q, last, status)
    <3>1. tail \in Seq(V) /\ Len(tail) = 2 /\ tail[1] = last /\ tail[2] = Event("done", status)
      BY <2>8
    <3> QED
      BY <2>7, <3>1 DEF Closes
  <2>10. CASE run.outcome = "canceled"
    <3>1. tail = <<Event("canceled", NoContent), Event("done", "canceled")>>
      BY <2>10, <2>e DEF Ending
    <3>2. Begins(events, q, turn) /\ Closes(events, q, Event("canceled", NoContent), "canceled")
      BY <2>8, <2>V, <3>1
    <3>3. ending = "canceled" /\ StreamErrs(turn, agents)
      BY <1>4, <1>ending, <1>finders, <1>run, <2>10 DEF Outcome, StreamErrs
    <3>4. EndsAs(events, q, turn, agents)
      BY <1>ending, <1>finders, <3>2, <3>3 DEF EndsAs
    <3> QED
      BY <2>4, <3>2, <3>4
  <2>11. CASE run.outcome = "failed"
    <3>1. tail = <<Event("error", NoContent), Event("done", "failed")>>
      BY <2>11, <2>e DEF Ending
    <3>2. Begins(events, q, turn) /\ Closes(events, q, Event("error", NoContent), "failed")
      BY <2>8, <2>V, <3>1
    <3>3. ending = "failed"
      BY <1>4, <1>ending, <1>run, <2>11 DEF Outcome
    <3>4. EndsAs(events, q, turn, agents)
      BY <1>ending, <1>finders, <3>2, <3>3 DEF EndsAs
    <3> QED
      BY <2>4, <3>2, <3>4
  <2>12. CASE run.outcome = "ok" /\ run.committed
    <3>1. tail = <<Event("message_completed", run.result), Event("done", "completed")>>
      BY <2>12, <2>e DEF Ending
    <3>2. /\ Begins(events, q, turn)
          /\ Closes(events, q, Event("message_completed", turn.run.result), "completed")
      BY <1>run, <2>8, <2>V, <3>1
    <3>3. /\ ending = IF Solid(run.result) # << >> THEN "completed" ELSE "hanging"
          /\ ~StreamErrs(turn, agents)
      BY <1>4, <1>ending, <1>finders, <1>run, <2>12 DEF Outcome, StreamErrs
    <3>4. Handle(turn, agents) = Handled(turn.run.result)
      BY <1>4, <1>finders, <1>run, <2>12 DEF Handle
    <3>5. EndsAs(events, q, turn, agents)
      BY <1>ending, <1>finders, <1>run, <2>12, <3>2, <3>3, <3>4 DEF EndsAs
    <3> QED
      BY <2>4, <3>2, <3>5
  <2>13. CASE (run.outcome = "ok" /\ ~run.committed) \/ run.outcome = "panicked"
    <3>1. tail = << >>
      BY <2>13, <2>e DEF Ending
    <3>2. tail \in Seq(V) /\ Len(tail) = 0
      BY <3>1, EmptySeq
    <3>3. Begins(events, q, turn) /\ Len(events) = q
      BY <2>4, <2>7, <3>2
    <3>4. \/ ending = "hanging" /\ StreamErrs(turn, agents)
          \/ ending = "panicked" /\ ~StreamErrs(turn, agents)
      BY <1>4, <1>ending, <1>finders, <1>run, <2>13 DEF Outcome, StreamErrs
    <3>5. EndsAs(events, q, turn, agents)
      BY <1>ending, <1>finders, <3>3, <3>4 DEF EndsAs
    <3> QED
      BY <2>4, <3>3, <3>5
  <2> QED
    BY <1>1, <2>10, <2>11, <2>12, <2>13
<1> QED
  BY <1>1, <1>refused, <1>unbegun, <1>2, <1>3, <1>4

-----------------------------------------------------------------------------
(* What is shown of an event                                                   *)

Numbered(out) == IsSequence(out) /\ \A i \in DOMAIN out : out[i].sequence = i

Fields(state) ==
  state = [out |-> state.out, text |-> state.text, spoke |-> state.spoke, broken |-> state.broken]

Grown(out, more, name, value) ==
  /\ Numbered(more) /\ Len(out) \in Nat /\ Len(more) = Len(out) + 1
  /\ DOMAIN out = 1..Len(out) /\ DOMAIN more = 1..Len(more)
  /\ \A i \in 1..Len(out) : more[i] = out[i]
  /\ more[Len(out) + 1].name = name /\ more[Len(out) + 1].value = value

LEMMA ShowGrows ==
  ASSUME NEW state, Fields(state), Numbered(state.out), NEW name, NEW value,
         NEW after, after = Show(state, name, value)
  PROVE  /\ Fields(after) /\ after.text = state.text /\ after.spoke = state.spoke
         /\ after.broken = state.broken
         /\ Grown(state.out, after.out, name, value)
<1>out. PICK out : out = state.out
  OBVIOUS
<1>e. PICK e : e = [name |-> name, value |-> value, sequence |-> Len(out) + 1]
  OBVIOUS
<1>more. PICK more : more = Append(out, e)
  OBVIOUS
<1>1. /\ after.out = more /\ after.text = state.text /\ after.spoke = state.spoke
      /\ after.broken = state.broken
      /\ after = [out |-> more, text |-> state.text, spoke |-> state.spoke, broken |-> state.broken]
  BY <1>out, <1>e, <1>more DEF Fields, Show
<1>2. IsSequence(out) /\ \A i \in DOMAIN out : out[i].sequence = i
  BY <1>out DEF Numbered
<1>3. PICK n \in Nat : n = Len(out) /\ DOMAIN out = 1..n
  BY <1>2, SequencesAreFinite
<1>V. PICK V : V = Range(out) \cup {e}
  OBVIOUS
<1>4. out \in Seq(V) /\ e \in V
  <2>1. out \in Seq(Range(out)) /\ Range(out) \subseteq V
    BY <1>2, <1>V DEF IsSequence
  <2> QED
    BY <1>V, <2>1, SeqMonotonic
<1>5. /\ more \in Seq(V) /\ Len(more) = n + 1
      /\ \A i \in 1..n : more[i] = out[i]
      /\ more[n + 1] = e
  BY <1>3, <1>4, <1>more, AppendProperties
<1>6. DOMAIN more = 1..(n + 1)
  BY <1>5, LenProperties
<1>7. IsSequence(more)
  BY <1>5, SeqOfRange DEF IsSequence
<1>8. ASSUME NEW i \in DOMAIN more PROVE more[i].sequence = i
  <2>1. i \in 1..n \/ i = n + 1
    BY <1>6
  <2>2. e.sequence = n + 1
    BY <1>e, <1>3
  <2> QED
    BY <1>2, <1>3, <1>5, <2>1, <2>2
<1>9. Numbered(more)
  BY <1>7, <1>8 DEF Numbered
<1>10. e.name = name /\ e.value = value
  BY <1>e
<1>11. Grown(out, more, name, value)
  BY <1>3, <1>5, <1>6, <1>9, <1>10 DEF Grown
<1> QED
  BY <1>1, <1>11, <1>out DEF Fields

Quiet(state) ==
  /\ Fields(state) /\ state.broken = FALSE /\ Numbered(state.out)
  /\ \A i \in DOMAIN state.out : state.out[i].name # "done"

LEMMA ShowIsQuiet ==
  ASSUME NEW state, Quiet(state), NEW name, name # "done", NEW value,
         NEW after, after = Show(state, name, value)
  PROVE  Quiet(after) /\ after.text = state.text
<1>1. /\ Fields(after) /\ after.text = state.text /\ after.broken = FALSE
      /\ Grown(state.out, after.out, name, value)
  BY ShowGrows DEF Quiet
<1>out. PICK out : out = state.out
  OBVIOUS
<1>more. PICK more : more = after.out
  OBVIOUS
<1>2. Grown(out, more, name, value)
  BY <1>1, <1>out, <1>more
<1>3. ASSUME NEW i \in DOMAIN more PROVE more[i].name # "done"
  <2>1. i \in 1..Len(out) \/ i = Len(out) + 1
    BY <1>2 DEF Grown
  <2>2. \A j \in 1..Len(out) : out[j].name # "done"
    BY <1>2, <1>out DEF Grown, Quiet
  <2> QED
    BY <1>2, <2>1, <2>2 DEF Grown
<1>4. Numbered(more)
  BY <1>2 DEF Grown
<1> QED
  BY <1>1, <1>3, <1>4, <1>more DEF Quiet

LEMMA PoseIsQuiet ==
  ASSUME NEW state, Quiet(state), NEW face, NEW signal,
         NEW after, after = Pose(state, face, signal)
  PROVE  Quiet(after) /\ after.text = state.text
<1>1. after = Show(state, "avatar_state", NextPose(face.machine, signal))
  BY DEF Pose
<1> QED
  BY <1>1, ShowIsQuiet

(* The face of a turn that has not ended thinks or speaks. *)
WakingPoses(face) ==
  {NextPose(face.machine, "runtime_thinking"), NextPose(face.machine, "assistant_speaking")}

Awake(out, face) ==
  \A i \in DOMAIN out : out[i].name = "avatar_state" => out[i].value \in WakingPoses(face)

LEMMA ShowIsAwake ==
  ASSUME NEW state, Quiet(state), NEW face, Awake(state.out, face), NEW name, NEW value,
         name = "avatar_state" => value \in WakingPoses(face),
         NEW after, after = Show(state, name, value)
  PROVE  Awake(after.out, face)
<1>out. PICK out : out = state.out
  OBVIOUS
<1>more. PICK more : more = after.out
  OBVIOUS
<1>poses. PICK poses : poses = WakingPoses(face)
  OBVIOUS
<1>1. Grown(out, more, name, value)
  BY <1>out, <1>more, ShowGrows DEF Quiet
<1>2. \A j \in DOMAIN out : out[j].name = "avatar_state" => out[j].value \in poses
  BY <1>out, <1>poses DEF Awake
<1>3. ASSUME NEW i \in DOMAIN more, more[i].name = "avatar_state"
      PROVE  more[i].value \in poses
  <2>1. i \in 1..Len(out) \/ i = Len(out) + 1
    BY <1>1 DEF Grown
  <2>2. CASE i \in 1..Len(out)
    <3>1. more[i] = out[i] /\ i \in DOMAIN out
      BY <1>1, <2>2 DEF Grown
    <3> QED
      BY <1>2, <1>3, <3>1
  <2>3. CASE i = Len(out) + 1
    <3>1. more[i].name = name /\ more[i].value = value
      BY <1>1, <2>3 DEF Grown
    <3> QED
      BY <1>3, <1>poses, <3>1
  <2> QED
    BY <2>1, <2>2, <2>3
<1> QED
  BY <1>3, <1>more, <1>poses DEF Awake

LEMMA PoseIsAwake ==
  ASSUME NEW state, Quiet(state), NEW face, Awake(state.out, face),
         NEW signal \in {"runtime_thinking", "assistant_speaking"},
         NEW after, after = Pose(state, face, signal)
  PROVE  Awake(after.out, face)
<1>1. after = Show(state, "avatar_state", NextPose(face.machine, signal))
  BY DEF Pose
<1>2. NextPose(face.machine, signal) \in WakingPoses(face)
  BY DEF WakingPoses
<1> QED
  BY <1>1, <1>2, ShowIsAwake

(* The text and the pose are no part of what is out. *)
LEMMA QuietExcept ==
  ASSUME NEW state, Quiet(state), NEW text
  PROVE  /\ Quiet([state EXCEPT !.text = text]) /\ [state EXCEPT !.text = text].text = text
         /\ [state EXCEPT !.text = text].out = state.out
         /\ Quiet([state EXCEPT !.spoke = TRUE])
         /\ [state EXCEPT !.spoke = TRUE].text = state.text
         /\ [state EXCEPT !.spoke = TRUE].out = state.out
<1>s. PICK s : s = [state EXCEPT !.text = text]
  OBVIOUS
<1>t. PICK t : t = [state EXCEPT !.spoke = TRUE]
  OBVIOUS
<1>1. /\ s = [out |-> state.out, text |-> text, spoke |-> state.spoke, broken |-> state.broken]
      /\ t = [out |-> state.out, text |-> state.text, spoke |-> TRUE, broken |-> state.broken]
  BY <1>s, <1>t DEF Quiet, Fields
<1>2. /\ s.out = state.out /\ s.text = text /\ s.broken = FALSE /\ Fields(s)
      /\ t.out = state.out /\ t.text = state.text /\ t.broken = FALSE /\ Fields(t)
  BY <1>1 DEF Quiet, Fields
<1>3. Quiet(s) /\ Quiet(t)
  BY <1>2 DEF Quiet
<1> QED
  BY <1>2, <1>3, <1>s, <1>t, Zenon

(* No event before the ending ends the stream or the face's waking, and one that
   streams nothing leaves the text as it is. *)
LEMMA QuietStays ==
  ASSUME NEW state, Quiet(state), NEW event, event.name \in QuietNames,
         NEW face, Awake(state.out, face),
         NEW after, after = Present(state, event, face)
  PROVE  /\ Quiet(after) /\ Awake(after.out, face)
         /\ state.text = << >> /\ (event.name = "assistant_delta" => event.value = << >>) =>
              after.text = << >>
<1>1. state.broken = FALSE
  BY DEF Quiet
<1>2. CASE event.name = "request_started"
  <2>1. PICK shown : shown = Show(state, "conversation_started", NoContent)
    OBVIOUS
  <2>2. Quiet(shown) /\ shown.text = state.text /\ Awake(shown.out, face)
    BY <2>1, ShowIsQuiet, ShowIsAwake
  <2>3. after = Pose(shown, face, "runtime_thinking")
    BY <1>1, <1>2, <2>1 DEF Present
  <2>4. Quiet(after) /\ after.text = shown.text /\ Awake(after.out, face)
    BY <2>2, <2>3, PoseIsQuiet, PoseIsAwake
  <2> QED
    BY <1>2, <2>2, <2>4
<1>3. CASE event.name \in {"route_selected", "agent_selected"}
  <2>1. after = state
    BY <1>1, <1>3 DEF Present
  <2> QED
    BY <2>1
<1>4. CASE event.name = "assistant_delta"
  <2>text. PICK text : text = event.value
    OBVIOUS
  <2>1. PICK first : first = Show(state, "assistant_text_delta", text)
    OBVIOUS
  <2>2. Quiet(first) /\ first.text = state.text /\ Awake(first.out, face)
    BY <2>1, ShowIsQuiet, ShowIsAwake
  <2>3. PICK shown : shown = [first EXCEPT !.text = first.text \o text]
    OBVIOUS
  <2>4. Quiet(shown) /\ shown.text = state.text \o text /\ shown.out = first.out
    <3>1. PICK more : more = first.text \o text
      OBVIOUS
    <3>2. shown = [first EXCEPT !.text = more]
      BY <2>3, <3>1, Zenon
    <3>3. Quiet(shown) /\ shown.text = more /\ shown.out = first.out
      BY <2>2, <3>2, QuietExcept
    <3> QED
      BY <2>2, <3>1, <3>3, Zenon
  <2>awake. Awake(shown.out, face)
    BY <2>2, <2>4, Zenon
  <2>5. PICK posed : posed = Pose(shown, face, "assistant_speaking")
    OBVIOUS
  <2>6. Quiet(posed) /\ posed.text = shown.text /\ Awake(posed.out, face)
    BY <2>4, <2>5, <2>awake, PoseIsQuiet, PoseIsAwake
  <2>7. PICK spoken : spoken = [posed EXCEPT !.spoke = TRUE]
    OBVIOUS
  <2>8. Quiet(spoken) /\ spoken.text = posed.text /\ spoken.out = posed.out
    BY <2>6, <2>7, QuietExcept
  <2>9. Awake(spoken.out, face)
    BY <2>6, <2>8, Zenon
  <2>10. after = ShowDelta(state, face, text)
    BY <1>1, <1>4, <2>text DEF Present
  <2>11. after = IF state.spoke THEN shown ELSE spoken
    BY <2>1, <2>3, <2>5, <2>7, <2>10 DEF ShowDelta
  <2>12. state.text = << >> /\ text = << >> => state.text \o text = << >>
    <3>1. << >> \o << >> = << >>
      BY EmptySeq, ConcatEmptySeq
    <3> QED
      BY <3>1
  <2> QED
    BY <1>4, <2>text, <2>4, <2>6, <2>8, <2>9, <2>11, <2>12, <2>awake
<1> QED
  BY <1>2, <1>3, <1>4 DEF QuietNames

-----------------------------------------------------------------------------
(* How a stream ends                                                           *)

(* One done, near the end, and a last pose. *)
EndsWith(out, status, pose) ==
  \E d \in 1..Len(out), f \in 1..Len(out) :
    /\ out[d].name = "done" /\ out[d].value = status
    /\ \A i \in 1..Len(out) : out[i].name = "done" => i = d
    /\ d >= Len(out) - 1 /\ out[f].name = "avatar_state" /\ out[f].value = pose
    /\ \A i \in 1..Len(out) : out[i].name = "avatar_state" => i <= f

Captions(out, caption) ==
  \E c \in 1..Len(out) :
    /\ out[c].name = "subtitle" /\ out[c].value = caption
    /\ \A i \in 1..Len(out) : out[i].name = "subtitle" => i <= c

(* A stream that is not quiet to its end. *)
LEMMA StoppedEnds ==
  ASSUME NEW state, Quiet(state), NEW face,
         NEW name, NEW status, NEW signal,
         \/ name = "canceled" /\ status = "canceled" /\ signal = "interrupted"
         \/ name = "error" /\ status = "failed" /\ signal = "runtime_error",
         NEW stopped, stopped = Present(state, Event(name, NoContent), face),
         NEW last, last = Present(stopped, Event("done", status), face)
  PROVE  /\ last.broken = FALSE /\ Numbered(last.out)
         /\ EndsWith(last.out, status, NextPose(face.machine, signal))
<1>1. state.broken = FALSE
  BY DEF Quiet
<1>kind. PICK kind : kind = IF name = "canceled" THEN "interrupted" ELSE "error"
  OBVIOUS
<1>shown. PICK shown : shown = Show(state, kind, NoContent)
  OBVIOUS
<1>2. kind # "done" /\ kind # "avatar_state"
  BY <1>kind
<1>3. Quiet(shown)
  BY <1>2, <1>shown, ShowIsQuiet
<1>pose. PICK pose : pose = NextPose(face.machine, signal)
  OBVIOUS
<1>4. stopped = Pose(shown, face, signal)
  BY <1>1, <1>kind, <1>shown DEF Present, Event
<1>5. stopped = Show(shown, "avatar_state", pose)
  BY <1>4, <1>pose DEF Pose
<1>6. Quiet(stopped)
  BY <1>3, <1>4, PoseIsQuiet
<1>7. last = Show(stopped, "done", status)
  <2>1. stopped.broken = FALSE /\ status # "completed"
    BY <1>6 DEF Quiet
  <2> QED
    BY <2>1 DEF Present, Event, ShowDone
<1>a. PICK a : a = shown.out
  OBVIOUS
<1>b. PICK b : b = stopped.out
  OBVIOUS
<1>c. PICK c : c = last.out
  OBVIOUS
<1>8. Grown(a, b, "avatar_state", pose)
  BY <1>3, <1>5, <1>a, <1>b, ShowGrows DEF Quiet
<1>9. Grown(b, c, "done", status) /\ last.broken = FALSE
  BY <1>6, <1>7, <1>b, <1>c, ShowGrows DEF Quiet
<1>n. PICK n : n = Len(a)
  OBVIOUS
<1>10. /\ n \in Nat /\ Len(b) = n + 1 /\ Len(c) = n + 2
       /\ b[n + 1].name = "avatar_state" /\ b[n + 1].value = pose
       /\ \A i \in 1..(n + 1) : c[i] = b[i]
       /\ c[n + 2].name = "done" /\ c[n + 2].value = status
  BY <1>8, <1>9, <1>n DEF Grown
<1>11. \A i \in 1..(n + 1) : c[i].name # "done"
  <2>1. \A i \in 1..(n + 1) : b[i].name # "done"
    BY <1>6, <1>8, <1>10, <1>b DEF Quiet, Grown
  <2> QED
    BY <1>10, <2>1
<1>12. /\ n + 1 \in 1..Len(c) /\ n + 2 \in 1..Len(c) /\ n + 2 >= Len(c) - 1
       /\ c[n + 1].name = "avatar_state" /\ c[n + 1].value = pose
  BY <1>10
<1>13. \A i \in 1..Len(c) : i \in 1..(n + 1) \/ i = n + 2
  BY <1>10
<1>14. \A i \in 1..Len(c) : c[i].name = "done" => i = n + 2
  BY <1>11, <1>13
<1>15. \A i \in 1..Len(c) : c[i].name = "avatar_state" => i <= n + 1
  BY <1>10, <1>13
<1>16. EndsWith(c, status, pose)
  BY <1>10, <1>12, <1>14, <1>15 DEF EndsWith
<1> QED
  BY <1>9, <1>16, <1>c, <1>pose DEF Grown

SaysAll(last, state, text, face) ==
  \/ SplitSubtitleText(text) = << >> /\ last.broken = TRUE /\ last.out = state.out
  \/ /\ SplitSubtitleText(text) # << >>
     /\ last.broken = FALSE /\ Numbered(last.out)
     /\ EndsWith(last.out, "completed", NextPose(face.machine, "done"))
     /\ Captions(last.out, SpeechTimeline(text))

LEMMA CompletedEnds ==
  ASSUME NEW state, Quiet(state), NEW face, NEW content,
         NEW text, text = SpokenText(state, content),
         NEW said, said = Present(state, Event("message_completed", content), face),
         NEW last, last = Present(said, Event("done", "completed"), face)
  PROVE  SaysAll(last, state, text, face)
<1>1. state.broken = FALSE
  BY DEF Quiet
<1>2. said = ShowCompletion(state, face, content)
  BY <1>1 DEF Present, Event
<1>caption. PICK caption : caption = SpeechTimeline(text)
  OBVIOUS
<1>subtitled. PICK subtitled : subtitled = Show(state, "subtitle", caption)
  OBVIOUS
<1>3. CASE SplitSubtitleText(text) = << >>
  <2>1. said = [state EXCEPT !.broken = TRUE]
    BY <1>2, <1>3 DEF ShowCompletion
  <2>2. said.broken = TRUE /\ said.out = state.out
    BY <2>1 DEF Quiet, Fields
  <2>3. last = said
    BY <2>2 DEF Present
  <2> QED
    BY <1>3, <2>2, <2>3 DEF SaysAll
<1>4. CASE SplitSubtitleText(text) # << >>
  <2>1. Quiet(subtitled)
    BY <1>subtitled, ShowIsQuiet
  <2>2. PICK kind, value :
          /\ kind \in {"error", "audio_chunk", "none"}
          /\ said = IF kind = "none" THEN subtitled ELSE Show(subtitled, kind, value)
    BY <1>2, <1>4, <1>caption, <1>subtitled DEF ShowCompletion
  <2>name. kind # "subtitle" /\ kind # "done"
    BY <2>2
  <2>a. PICK a : a = state.out
    OBVIOUS
  <2>b. PICK b : b = subtitled.out
    OBVIOUS
  <2>c. PICK c : c = said.out
    OBVIOUS
  <2>3. Grown(a, b, "subtitle", caption)
    BY <1>subtitled, <2>a, <2>b, ShowGrows DEF Quiet
  <2>4. Quiet(said) /\ (kind = "none" => c = b) /\ (kind # "none" => Grown(b, c, kind, value))
    <3>1. CASE kind = "none"
      BY <2>1, <2>2, <2>b, <2>c, <3>1
    <3>2. CASE kind # "none"
      <4>1. said = Show(subtitled, kind, value)
        BY <2>2, <3>2
      <4>2. Quiet(said)
        BY <2>1, <2>name, <4>1, ShowIsQuiet
      <4>3. Grown(b, c, kind, value)
        BY <2>1, <2>b, <2>c, <4>1, ShowGrows DEF Quiet
      <4> QED
        BY <3>2, <4>2, <4>3
    <3> QED
      BY <3>1, <3>2
  <2>k. PICK k : k = Len(a) + 1
    OBVIOUS
  <2>n. PICK n : n = Len(c)
    OBVIOUS
  <2>5. /\ k \in 1..n /\ n \in Nat /\ c[k].name = "subtitle" /\ c[k].value = caption
        /\ \A i \in 1..n : c[i].name = "subtitle" => i <= k
    <3>1. Len(b) = k /\ k \in Nat /\ k >= 1 /\ b[k].name = "subtitle" /\ b[k].value = caption
      BY <2>3, <2>k DEF Grown
    <3>2. CASE kind = "none"
      BY <2>4, <2>n, <3>1, <3>2
    <3>3. CASE kind # "none"
      <4>1. n = k + 1 /\ c[k + 1].name = kind /\ \A i \in 1..k : c[i] = b[i]
        BY <2>4, <2>n, <3>1, <3>3 DEF Grown
      <4>2. \A i \in 1..n : i <= k \/ i = k + 1
        BY <3>1, <4>1
      <4>3. k \in 1..k /\ k \in 1..n
        BY <3>1, <4>1
      <4> QED
        BY <2>name, <3>1, <3>3, <4>1, <4>2, <4>3
    <3> QED
      BY <3>2, <3>3
  <2>6. PICK done : done = Show(said, "done", "completed")
    OBVIOUS
  <2>pose. PICK pose : pose = NextPose(face.machine, "done")
    OBVIOUS
  <2>7. last = Show(done, "avatar_state", pose)
    <3>1. said.broken = FALSE
      BY <2>4 DEF Quiet
    <3> QED
      BY <2>6, <2>pose, <3>1 DEF Present, Event, ShowDone, Pose
  <2>d. PICK d : d = done.out
    OBVIOUS
  <2>e. PICK e : e = last.out
    OBVIOUS
  <2>8. Fields(done) /\ done.broken = FALSE /\ Grown(c, d, "done", "completed")
    BY <2>4, <2>6, <2>c, <2>d, ShowGrows DEF Quiet
  <2>9. Numbered(done.out)
    BY <2>8, <2>d DEF Grown
  <2>10. last.broken = FALSE /\ Grown(d, e, "avatar_state", pose)
    BY <2>7, <2>8, <2>9, <2>d, <2>e, ShowGrows
  <2>11. /\ Len(d) = n + 1 /\ Len(e) = n + 2
         /\ \A i \in 1..n : e[i] = c[i]
         /\ e[n + 1].name = "done" /\ e[n + 1].value = "completed"
         /\ e[n + 2].name = "avatar_state" /\ e[n + 2].value = pose
    <3>1. Len(d) = n + 1 /\ Len(e) = n + 2
      BY <2>5, <2>8, <2>10, <2>n DEF Grown
    <3>2. \A i \in 1..n : d[i] = c[i]
      BY <2>8, <2>n DEF Grown
    <3>3. \A i \in 1..(n + 1) : e[i] = d[i]
      BY <2>10, <3>1 DEF Grown
    <3>4. \A i \in 1..n : i \in 1..(n + 1)
      BY <2>5
    <3>5. d[n + 1].name = "done" /\ d[n + 1].value = "completed"
      BY <2>8, <2>n DEF Grown
    <3>6. n + 1 \in 1..(n + 1) /\ (n + 1) + 1 = n + 2
      BY <2>5
    <3>7. e[(n + 1) + 1].name = "avatar_state" /\ e[(n + 1) + 1].value = pose
      BY <2>10, <3>1 DEF Grown
    <3> QED
      BY <3>1, <3>2, <3>3, <3>4, <3>5, <3>6, <3>7
  <2>12. \A i \in 1..n : c[i].name # "done"
    BY <2>4, <2>8, <2>c, <2>n DEF Quiet, Grown
  <2>13. \A i \in 1..Len(e) : i \in 1..n \/ i = n + 1 \/ i = n + 2
    BY <2>5, <2>11
  <2>14. EndsWith(e, "completed", pose)
    <3>1. n + 1 \in 1..Len(e) /\ n + 2 \in 1..Len(e) /\ n + 1 >= Len(e) - 1
      BY <2>5, <2>11
    <3>2. \A i \in 1..Len(e) : e[i].name = "done" => i = n + 1
      BY <2>11, <2>12, <2>13
    <3>3. \A i \in 1..Len(e) : e[i].name = "avatar_state" => i <= n + 2
      BY <2>5, <2>11
    <3> QED
      BY <2>11, <3>1, <3>2, <3>3 DEF EndsWith
  <2>15. Captions(e, caption)
    <3>1. k \in 1..Len(e) /\ e[k] = c[k]
      BY <2>5, <2>11
    <3>2. \A i \in 1..Len(e) : e[i].name = "subtitle" => i <= k
      BY <2>5, <2>11, <2>13
    <3> QED
      BY <2>5, <3>1, <3>2 DEF Captions
  <2>16. Numbered(e)
    BY <2>10 DEF Grown
  <2> QED
    BY <1>4, <1>caption, <2>10, <2>14, <2>15, <2>16, <2>e, <2>pose DEF SaysAll
<1> QED
  BY <1>3, <1>4

-----------------------------------------------------------------------------
(* A turn is shown event by event                                              *)

Presents(f, events, face) ==
  f = [n \in 0..Len(events) |-> IF n = 0 THEN Silence ELSE Present(f[n - 1], events[n], face)]

LEMMA PresentationExists ==
  ASSUME NEW events, Len(events) \in Nat, NEW face
  PROVE  \E f : Presents(f, events, face)
<1>N. PICK N \in Nat : N = Len(events)
  OBVIOUS
<1> DEFINE T == {m \in 0..N : \E g : g = [n \in 0..m |-> IF n = 0 THEN Silence
                                                         ELSE Present(g[n - 1], events[n], face)]}
<1>1. 0 \in T
  <2>1. PICK g : g = [n \in 0..0 |-> Silence]
    OBVIOUS
  <2>2. \A n \in 0..0 : n = 0
    OBVIOUS
  <2>3. g = [n \in 0..0 |-> IF n = 0 THEN Silence ELSE Present(g[n - 1], events[n], face)]
    BY <2>1, <2>2, Zenon
  <2>4. 0 \in 0..N
    BY <1>N
  <2> QED
    BY <2>3, <2>4, Zenon
<1>2. ASSUME NEW m \in 0..N, m < N, m \in T PROVE m + 1 \in T
  <2>1. PICK g : g = [n \in 0..m |-> IF n = 0 THEN Silence ELSE Present(g[n - 1], events[n], face)]
    BY <1>2
  <2>2. PICK v : v = Present(g[m], events[m + 1], face)
    OBVIOUS
  <2>3. PICK h : h = [n \in 0..(m + 1) |-> IF n = m + 1 THEN v ELSE g[n]]
    OBVIOUS
  <2>4. ASSUME NEW n \in 0..(m + 1)
        PROVE  h[n] = IF n = 0 THEN Silence ELSE Present(h[n - 1], events[n], face)
    <3>1. CASE n = 0
      <4>1. n # m + 1 /\ n \in 0..m
        BY <1>N, <3>1
      <4>2. h[n] = g[n]
        BY <2>3, <4>1
      <4>3. g[n] = Silence
        BY <2>1, <3>1, <4>1, Zenon
      <4> QED
        BY <3>1, <4>2, <4>3, Zenon
    <3>2. CASE n = m + 1
      <4>1. n - 1 = m /\ m \in 0..(m + 1) /\ m # m + 1 /\ n # 0
        BY <1>N, <3>2
      <4>2. h[m] = g[m] /\ h[n] = v
        BY <2>3, <3>2, <4>1
      <4> QED
        BY <2>2, <3>2, <4>1, <4>2, Zenon
    <3>3. CASE n # 0 /\ n # m + 1
      <4>1. n \in 0..m /\ n - 1 \in 0..(m + 1) /\ n - 1 # m + 1
        BY <1>N, <3>3
      <4>2. h[n] = g[n] /\ h[n - 1] = g[n - 1]
        BY <2>3, <3>3, <4>1
      <4>3. g[n] = Present(g[n - 1], events[n], face)
        BY <2>1, <3>3, <4>1, Zenon
      <4> QED
        BY <3>3, <4>2, <4>3, Zenon
    <3> QED
      BY <3>1, <3>2, <3>3
  <2>5. h = [n \in 0..(m + 1) |-> h[n]]
    BY <2>3
  <2>6. h = [n \in 0..(m + 1) |-> IF n = 0 THEN Silence ELSE Present(h[n - 1], events[n], face)]
    BY <2>4, <2>5, Zenon
  <2>7. m + 1 \in 0..N
    BY <1>2, <1>N
  <2> QED
    BY <2>6, <2>7, Zenon
<1> HIDE DEF T
<1>3. N \in T
  <2>1. \A i \in 0..N : i \in T
    BY <1>1, <1>2, <1>N, Counting
  <2> QED
    BY <1>N, <2>1
<1> QED
  BY <1>3, <1>N, Zenon DEF T, Presents

Undone(out) == \A i \in DOMAIN out : out[i].name # "done"

(* What the handler adds to a stream that errs. *)
Raw(name, value) == [name |-> name, value |-> value, sequence |-> 0]

RawEnd == <<Raw("error", NoContent), Raw("done", "failed")>>

(* The response to a turn, by what it comes to; out is what the stream has shown. *)
Sent(response, out, ending, turn, agents, face) ==
  /\ Numbered(out)
  /\ \/ /\ ending = "hanging" /\ response = out \o RawEnd
        /\ Undone(out) /\ Awake(out, face)
     \/ /\ ending = "panicked" /\ response = out
        /\ Undone(out) /\ Awake(out, face)
     \/ /\ ending = "canceled" /\ response = out \o RawEnd
        /\ EndsWith(out, "canceled", NextPose(face.machine, "interrupted"))
     \/ /\ ending = "failed" /\ response \in {out, out \o RawEnd}
        /\ EndsWith(out, "failed", NextPose(face.machine, "runtime_error"))
     \/ /\ ending = "completed" /\ response = out
        /\ EndsWith(out, "completed", NextPose(face.machine, "done"))
        /\ Captions(out, SpeechTimeline(turn.run.result))
        /\ SplitSubtitleText(turn.run.result) # << >>
        /\ ~turn.replay => Handle(turn, agents) = Handled(turn.run.result)

LEMMA SilenceIsQuiet ==
  Quiet(Silence) /\ Silence.text = << >> /\ \A face : Awake(Silence.out, face)
<1>1. Silence = [out |-> << >>, text |-> << >>, spoke |-> FALSE, broken |-> FALSE]
  BY DEF Silence
<1>2. Silence.out = << >> /\ Silence.text = << >> /\ Silence.broken = FALSE /\ Fields(Silence)
  BY <1>1 DEF Fields
<1>3. IsSequence(<< >>) /\ DOMAIN << >> = {}
  <2>1. << >> \in Seq(Range(<< >>))
    BY EmptySeq
  <2>2. DOMAIN << >> = {}
    BY EmptySeq, LenProperties
  <2> QED
    BY <2>1, <2>2 DEF IsSequence
<1>4. Quiet(Silence)
  BY <1>2, <1>3 DEF Quiet, Numbered
<1>5. \A face : Awake(Silence.out, face)
  BY <1>2, <1>3 DEF Awake
<1> QED
  BY <1>2, <1>4, <1>5

LEMMA TurnIsShown ==
  ASSUME NEW turn, NEW agents, NEW face, IsRun(turn.run), turn.replay \in BOOLEAN,
         NEW ending, ending = Outcome(turn, Finders(agents, RouteOf(turn)) # {})
  PROVE  \E out : Sent(Response(turn, agents, face), out, ending, turn, agents, face)
<1>events. PICK events : events = StreamEvents(turn, agents)
  OBVIOUS
<1>result. PICK result : result = turn.run.result
  OBVIOUS
<1>errs. PICK errs : errs = StreamErrs(turn, agents)
  OBVIOUS
<1>response. PICK response : response = Response(turn, agents, face)
  OBVIOUS
<1>W. PICK W : result \in Seq(W)
  BY <1>result DEF IsRun, IsSequence
<1>1. PICK q \in Nat : Begins(events, q, turn) /\ EndsAs(events, q, turn, agents)
  BY <1>events, StreamShape
<1>end. \/ Len(events) = q /\ ending = "hanging" /\ errs
        \/ Len(events) = q /\ ending = "panicked" /\ ~errs
        \/ Closes(events, q, Event("canceled", NoContent), "canceled") /\ ending = "canceled" /\ errs
        \/ Closes(events, q, Event("error", NoContent), "failed") /\ ending = "failed"
        \/ /\ Closes(events, q, Event("message_completed", result), "completed") /\ ~errs
           /\ ending = IF Solid(result) # << >> THEN "completed" ELSE "hanging"
           /\ ~turn.replay => turn.run.outcome = "ok" /\ Handle(turn, agents) = Handled(result)
  BY <1>1, <1>errs, <1>result, Zenon DEF EndsAs
<1>2. Len(events) \in Nat /\ Len(events) \in {q, q + 2}
  BY <1>1, <1>end DEF Closes
<1>f. PICK f : f = CHOOSE g : Presents(g, events, face)
  OBVIOUS
<1>3. Presents(f, events, face)
  BY <1>2, <1>f, PresentationExists
<1>4. f[0] = Silence
  <2>1. 0 \in 0..Len(events)
    BY <1>2
  <2> QED
    BY <1>3, <2>1, Zenon DEF Presents
<1>5. ASSUME NEW n \in 1..Len(events) PROVE f[n] = Present(f[n - 1], events[n], face)
  <2>1. n \in 0..Len(events) /\ n # 0
    BY <1>2
  <2> QED
    BY <1>3, <2>1, Zenon DEF Presents
<1>shown. PICK shown : shown = f[Len(events)]
  OBVIOUS
<1>6. response = IF shown.broken \/ errs THEN shown.out \o RawEnd ELSE shown.out
  <2>1. f = CHOOSE g : g = [n \in 0..Len(StreamEvents(turn, agents)) |->
             IF n = 0 THEN Silence ELSE Present(g[n - 1], StreamEvents(turn, agents)[n], face)]
    BY <1>events, <1>f, Zenon DEF Presents
  <2>2. shown = f[Len(StreamEvents(turn, agents))]
    BY <1>events, <1>shown, Zenon
  <2> QED
    BY <1>errs, <1>response, <2>1, <2>2 DEF Response, Raw, RawEnd
<1> DEFINE Unsaid(state) ==
             result = << >> /\ (~turn.replay => turn.run.outcome = "ok") => state.text = << >>
           T == {n \in 0..q : Quiet(f[n]) /\ Awake(f[n].out, face) /\ Unsaid(f[n])}
<1>7. 0 \in T
  BY <1>4, SilenceIsQuiet
<1>8. ASSUME NEW n \in 0..q, n < q, n \in T PROVE n + 1 \in T
  <2>1. n + 1 \in 1..Len(events) /\ n + 1 \in 1..q /\ (n + 1) - 1 = n /\ n + 1 \in 0..q
    BY <1>2, <1>8
  <2>e. PICK e : e = events[n + 1]
    OBVIOUS
  <2>s. PICK s : s = f[n]
    OBVIOUS
  <2>2. f[n + 1] = Present(s, e, face)
    BY <1>5, <2>1, <2>e, <2>s
  <2>3. /\ e.name \in QuietNames
        /\ e.name = "assistant_delta" => ~turn.replay /\ e.value \in Range(turn.run.deltas)
    BY <1>1, <2>1, <2>e DEF Begins
  <2>4. Quiet(s) /\ Awake(s.out, face) /\ Unsaid(s)
    BY <1>8, <2>s
  <2>5. /\ Quiet(f[n + 1]) /\ Awake(f[n + 1].out, face)
        /\ s.text = << >> /\ (e.name = "assistant_delta" => e.value = << >>) => f[n + 1].text = << >>
    BY <2>2, <2>3, <2>4, QuietStays
  <2>6. result = << >> /\ turn.run.outcome = "ok" => Range(turn.run.deltas) \subseteq {<< >>}
    BY <1>result DEF IsRun
  <2>7. Unsaid(f[n + 1])
    BY <2>3, <2>4, <2>5, <2>6
  <2> QED
    BY <2>1, <2>5, <2>7
<1> HIDE DEF T
<1>9. Quiet(f[q]) /\ Awake(f[q].out, face) /\ Unsaid(f[q])
  <2>1. \A n \in 0..q : n \in T
    BY <1>7, <1>8, Counting
  <2>2. q \in 0..q
    OBVIOUS
  <2> QED
    BY <2>1, <2>2 DEF T
<1>state. PICK state : state = f[q]
  OBVIOUS
<1>10. Quiet(state) /\ Awake(state.out, face) /\ Unsaid(state)
  BY <1>9, <1>state, Zenon
<1>quiet. Numbered(state.out) /\ Undone(state.out) /\ state.broken = FALSE
  BY <1>10 DEF Quiet, Undone
<1> SUFFICES Sent(response, shown.out, ending, turn, agents, face)
  BY <1>response, Zenon
<1>11. CASE Len(events) = q /\ ending = "hanging" /\ errs
  <2>1. shown = state
    BY <1>11, <1>shown, <1>state
  <2>2. response = shown.out \o RawEnd
    BY <1>6, <1>11
  <2> QED
    BY <1>10, <1>11, <1>quiet, <2>1, <2>2, Zenon DEF Sent
<1>12. CASE Len(events) = q /\ ending = "panicked" /\ ~errs
  <2>1. shown = state
    BY <1>12, <1>shown, <1>state
  <2>2. response = shown.out
    BY <1>6, <1>12, <1>quiet, <2>1
  <2> QED
    BY <1>10, <1>12, <1>quiet, <2>1, <2>2, Zenon DEF Sent
<1>13. ASSUME NEW last, NEW status, Closes(events, q, last, status)
       PROVE  shown = Present(Present(state, last, face), Event("done", status), face)
  <2>1. /\ Len(events) = q + 2 /\ events[q + 1] = last /\ events[q + 2] = Event("done", status)
        /\ q + 1 \in 1..Len(events) /\ q + 2 \in 1..Len(events)
        /\ (q + 1) - 1 = q /\ (q + 2) - 1 = q + 1
    BY <1>13 DEF Closes
  <2>2. f[q + 1] = Present(state, last, face)
    BY <1>5, <1>state, <2>1
  <2>3. f[q + 2] = Present(f[q + 1], Event("done", status), face)
    BY <1>5, <2>1
  <2> QED
    BY <1>shown, <2>1, <2>2, <2>3
<1>14. CASE /\ Closes(events, q, Event("canceled", NoContent), "canceled")
            /\ ending = "canceled" /\ errs
  <2>1. PICK stopped : stopped = Present(state, Event("canceled", NoContent), face)
    OBVIOUS
  <2>2. shown = Present(stopped, Event("done", "canceled"), face)
    BY <1>13, <1>14, <2>1
  <2>3. Numbered(shown.out) /\ EndsWith(shown.out, "canceled", NextPose(face.machine, "interrupted"))
    BY <1>10, <2>1, <2>2, StoppedEnds
  <2>4. response = shown.out \o RawEnd
    BY <1>6, <1>14
  <2> QED
    BY <1>14, <2>3, <2>4, Zenon DEF Sent
<1>15. CASE Closes(events, q, Event("error", NoContent), "failed") /\ ending = "failed"
  <2>1. PICK stopped : stopped = Present(state, Event("error", NoContent), face)
    OBVIOUS
  <2>2. shown = Present(stopped, Event("done", "failed"), face)
    BY <1>13, <1>15, <2>1
  <2>3. Numbered(shown.out) /\ EndsWith(shown.out, "failed", NextPose(face.machine, "runtime_error"))
    BY <1>10, <2>1, <2>2, StoppedEnds
  <2>4. response \in {shown.out, shown.out \o RawEnd}
    BY <1>6
  <2> QED
    BY <1>15, <2>3, <2>4, Zenon DEF Sent
<1>16. CASE /\ Closes(events, q, Event("message_completed", result), "completed") /\ ~errs
            /\ ending = IF Solid(result) # << >> THEN "completed" ELSE "hanging"
            /\ ~turn.replay => turn.run.outcome = "ok" /\ Handle(turn, agents) = Handled(result)
  <2>1. PICK said : said = Present(state, Event("message_completed", result), face)
    OBVIOUS
  <2>2. shown = Present(said, Event("done", "completed"), face)
    BY <1>13, <1>16, <2>1
  <2>text. PICK text : text = SpokenText(state, result)
    OBVIOUS
  <2>3. text = result
    BY <1>10, <1>16, <2>text DEF SpokenText
  <2>4. \/ SplitSubtitleText(text) = << >> /\ shown.broken = TRUE /\ shown.out = state.out
        \/ /\ SplitSubtitleText(text) # << >>
           /\ shown.broken = FALSE /\ Numbered(shown.out)
           /\ EndsWith(shown.out, "completed", NextPose(face.machine, "done"))
           /\ Captions(shown.out, SpeechTimeline(text))
    <3>1. Quiet(state)
      BY <1>10
    <3>2. SaysAll(shown, state, text, face)
      BY <2>1, <2>2, <2>text, <3>1, CompletedEnds
    <3> QED
      BY <3>2, Zenon DEF SaysAll
  <2>5. CASE SplitSubtitleText(result) = << >>
    <3>1. shown.broken = TRUE /\ shown.out = state.out
      BY <2>3, <2>4, <2>5, Zenon
    <3>2. response = shown.out \o RawEnd
      BY <1>6, <3>1
    <3>3. ending = "hanging"
      <4>1. Solid(result) = << >>
        BY <1>W, <2>5, NothingSaid
      <4> QED
        BY <1>16, <4>1
    <3> QED
      BY <1>10, <1>quiet, <3>1, <3>2, <3>3, Zenon DEF Sent
  <2>6. CASE SplitSubtitleText(result) # << >>
    <3>1. /\ shown.broken = FALSE /\ Numbered(shown.out)
          /\ EndsWith(shown.out, "completed", NextPose(face.machine, "done"))
          /\ Captions(shown.out, SpeechTimeline(result))
      BY <2>3, <2>4, <2>6, Zenon
    <3>2. response = shown.out
      BY <1>6, <1>16, <3>1
    <3>3. ending = "completed"
      <4>1. Solid(result) # << >>
        BY <1>W, <2>6, NothingToSay
      <4> QED
        BY <1>16, <4>1
    <3> QED
      BY <1>16, <1>result, <2>6, <3>1, <3>2, <3>3, Zenon DEF Sent
  <2> QED
    BY <2>5, <2>6
<1> QED
  BY <1>end, <1>11, <1>12, <1>14, <1>15, <1>16

LEMMA GreatestIsMax ==
  ASSUME NEW S \in SUBSET Int, NEW i \in S, \A j \in S : j <= i
  PROVE  Max(S) = i
<1>1. PICK c : c = CHOOSE x \in S : \A y \in S : x >= y
  OBVIOUS
<1>2. c \in S /\ \A y \in S : c >= y
  BY <1>1
<1>3. c >= i /\ i >= c /\ c \in Int /\ i \in Int
  BY <1>2
<1> QED
  BY <1>1, <1>3 DEF Max

-----------------------------------------------------------------------------
(* Routing                                                                     *)

LEMMA RuledIsIntent ==
  ASSUME NEW topics
  PROVE  RuleRoute(topics).name \in Intents
<1>hits. PICK hits : hits = {i \in DOMAIN Rules : Rules[i].topic \in topics}
  OBVIOUS
<1>1. /\ DOMAIN Rules = 1..5
      /\ Rules[1].intent = "knowledge_query" /\ Rules[2].intent = "memory_recall"
      /\ Rules[3].intent = "task_execution" /\ Rules[4].intent = "tool_call"
      /\ Rules[5].intent = "safety_check"
  BY DEF Rules
<1>2. \A i \in DOMAIN Rules : Rules[i].intent \in Intents
  BY <1>1 DEF Intents
<1>3. CASE hits = {}
  BY <1>3, <1>hits DEF RuleRoute, Intent, Intents
<1>4. CASE hits # {}
  <2>1. hits \in SUBSET Nat
    BY <1>1, <1>hits
  <2>2. Min(hits) \in hits
    BY <1>4, <2>1, MinOf
  <2>3. RuleRoute(topics).name = Rules[Min(hits)].intent
    BY <1>4, <1>hits DEF RuleRoute, Intent
  <2> QED
    BY <1>2, <1>hits, <2>2, <2>3
<1> QED
  BY <1>3, <1>4

LEMMA RoutedIsIntent ==
  ASSUME NEW turn
  PROVE  RouteOf(turn).name \in Intents
<1>ruled. PICK ruled : ruled = RuleRoute(turn.topics)
  OBVIOUS
<1>modelled. PICK modelled : modelled = LLMRoute(turn.reply)
  OBVIOUS
<1>hybrid. PICK hybrid : hybrid = HybridRoute(turn.topics, turn.reply)
  OBVIOUS
<1>1. ruled.name \in Intents
  BY <1>ruled, RuledIsIntent
<1>2. FallbackIntent.name \in Intents /\ "persona_chat" \in Intents
  BY DEF FallbackIntent, Intent, Intents
<1>3. modelled.name \in Intents
  <2>1. PICK reply : reply = turn.reply
    OBVIOUS
  <2>2. modelled = LLMRoute(reply)
    BY <1>modelled, <2>1
  <2>3. CASE reply.kind # "intent"
    <3>1. modelled = FallbackIntent
      BY <2>2, <2>3 DEF LLMRoute
    <3> QED
      BY <1>2, <3>1
  <2>4. CASE reply.kind = "intent" /\ reply.confidence \notin 5..10
    <3>1. modelled = Intent("persona_chat", reply.confidence)
      BY <2>2, <2>4 DEF LLMRoute
    <3> QED
      BY <1>2, <3>1 DEF Intent
  <2>5. CASE reply.kind = "intent" /\ reply.confidence \in 5..10
    <3>1. modelled = IF reply.name \in Intents THEN Intent(reply.name, reply.confidence)
                     ELSE FallbackIntent
      BY <2>2, <2>5 DEF LLMRoute
    <3> QED
      BY <1>2, <3>1 DEF Intent
  <2> QED
    BY <2>3, <2>4, <2>5
<1>4. hybrid \in {ruled, modelled}
  <2>1. PICK sure : sure = (ruled.confidence >= 5 /\ ruled.name # "persona_chat")
    OBVIOUS
  <2>2. PICK known : known = (modelled.confidence >= 5 /\ modelled.name # "persona_chat")
    OBVIOUS
  <2>3. hybrid = CASE sure -> ruled
                   [] ~sure /\ turn.reply.kind # "no_router" /\ known -> modelled
                   [] OTHER -> ruled
    BY <1>ruled, <1>modelled, <1>hybrid, <2>1, <2>2, Zenon DEF HybridRoute
  <2> QED
    BY <2>1, <2>2, <2>3
<1>5. RouteOf(turn) = IF hybrid.confidence \in 0..4 THEN FallbackIntent ELSE hybrid
  BY <1>hybrid DEF RouteOf
<1> QED
  BY <1>1, <1>2, <1>3, <1>4, <1>5

LEMMA SomeoneAnswers ==
  ASSUME NEW turn, NEW agents,
         \A intent \in Intents : \E i \in DOMAIN agents : agents[i].handles = intent
  PROVE  Finders(agents, RouteOf(turn)) # {}
<1>1. PICK name \in Intents : name = RouteOf(turn).name
  BY RoutedIsIntent
<1>2. PICK i \in DOMAIN agents : agents[i].handles = name
  BY <1>1
<1> QED
  BY <1>1, <1>2 DEF Finders

-----------------------------------------------------------------------------
(* A turn ends settled                                                         *)

LEMMA LastIs ==
  ASSUME NEW response, NEW m \in Nat, DOMAIN response = 1..m, NEW name, NEW i \in 1..m,
         response[i].name = name, \A j \in 1..m : response[j].name = name => j <= i
  PROVE  /\ Places(response, name) # {} /\ Max(Places(response, name)) = i
         /\ LastOf(response, name) = response[i].value
<1>S. PICK S : S = Places(response, name)
  OBVIOUS
<1>1. S \in SUBSET Int /\ i \in S /\ \A j \in S : j <= i
  BY <1>S DEF Places
<1>2. Max(S) = i
  BY <1>1, GreatestIsMax
<1> QED
  BY <1>1, <1>2, <1>S DEF LastOf

(* The response to a stream that erred has two events more. *)
Erred(response, out) ==
  \E n \in Nat :
    /\ Len(out) = n /\ DOMAIN out = 1..n
    /\ Len(response) = n + 2 /\ DOMAIN response = 1..(n + 2)
    /\ \A i \in 1..n : response[i] = out[i]
    /\ response[n + 1].name = "error"
    /\ response[n + 2].name = "done" /\ response[n + 2].value = "failed"

LEMMA RawEndErrs ==
  ASSUME NEW out, Numbered(out), NEW response, response = out \o RawEnd
  PROVE  Erred(response, out)
<1>1. IsSequence(out)
  BY DEF Numbered
<1>2. PICK n \in Nat : n = Len(out) /\ DOMAIN out = 1..n
  BY <1>1, SequencesAreFinite
<1>a. PICK a : a = Raw("error", NoContent)
  OBVIOUS
<1>b. PICK b : b = Raw("done", "failed")
  OBVIOUS
<1>V. PICK V : V = Range(out) \cup {a, b}
  OBVIOUS
<1>3. out \in Seq(V)
  <2>1. out \in Seq(Range(out)) /\ Range(out) \subseteq V
    BY <1>1, <1>V DEF IsSequence
  <2> QED
    BY <2>1, SeqMonotonic
<1>4. PICK tail \in Seq(V) : tail = RawEnd /\ Len(tail) = 2 /\ tail[1] = a /\ tail[2] = b
  <2>1. a \in V /\ b \in V
    BY <1>V
  <2>2. <<a, b>> \in Seq(V) /\ RawEnd = <<a, b>>
    BY <1>a, <1>b, <2>1 DEF RawEnd
  <2> QED
    BY <2>2
<1>5. response = out \o tail
  BY <1>4
<1>6. /\ response \in Seq(V) /\ Len(response) = n + 2
      /\ \A i \in 1..(n + 2) : response[i] = IF i <= n THEN out[i] ELSE tail[i - n]
  <2>1. tail \in Seq(V) /\ Len(tail) = 2
    BY <1>4
  <2>2. PICK x : x = out \o tail
    OBVIOUS
  <2>3. /\ x \in Seq(V) /\ Len(x) = Len(out) + Len(tail)
        /\ \A i \in 1..(Len(out) + Len(tail)) :
              x[i] = IF i <= Len(out) THEN out[i] ELSE tail[i - Len(out)]
    BY <1>3, <2>1, <2>2, ConcatProperties
  <2>4. /\ x \in Seq(V) /\ Len(x) = n + 2
        /\ \A i \in 1..(n + 2) : x[i] = IF i <= n THEN out[i] ELSE tail[i - n]
    BY <1>2, <2>1, <2>3
  <2> QED
    BY <1>5, <2>2, <2>4, Zenon
<1>7. DOMAIN response = 1..(n + 2)
  BY <1>6, LenProperties
<1>8. \A i \in 1..n : response[i] = out[i]
  BY <1>6
<1>9. response[n + 1] = a /\ response[n + 2] = b
  <2>1. n + 1 \in 1..(n + 2) /\ ~(n + 1 <= n) /\ (n + 1) - n = 1
    OBVIOUS
  <2>2. n + 2 \in 1..(n + 2) /\ ~(n + 2 <= n) /\ (n + 2) - n = 2
    OBVIOUS
  <2> QED
    BY <1>4, <1>6, <2>1, <2>2
<1>10. a.name = "error" /\ b.name = "done" /\ b.value = "failed"
  BY <1>a, <1>b DEF Raw
<1> QED
  BY <1>2, <1>6, <1>7, <1>8, <1>9, <1>10 DEF Erred

(* The done and the pose of a stream that ends without an error, and of the
   response to one that errs. *)
LEMMA EndingShows ==
  ASSUME NEW out, Numbered(out), NEW ending \in {"completed", "failed"}, NEW pose,
         EndsWith(out, ending, pose)
  PROVE  EndsWithDone(out, ending) /\ LastOf(out, "avatar_state") = pose
<1>1. PICK n \in Nat : n = Len(out) /\ DOMAIN out = 1..n
  BY SequencesAreFinite DEF Numbered
<1>2. PICK d \in 1..n, f \in 1..n :
        /\ out[d].name = "done" /\ out[d].value = ending
        /\ \A i \in 1..n : out[i].name = "done" => i = d
        /\ d >= n - 1 /\ out[f].name = "avatar_state" /\ out[f].value = pose
        /\ \A i \in 1..n : out[i].name = "avatar_state" => i <= f
  BY <1>1 DEF EndsWith
<1>3. \A i \in 1..n : out[i].name = "done" => i <= d
  BY <1>2
<1>4. /\ Places(out, "done") # {} /\ Max(Places(out, "done")) = d
      /\ LastOf(out, "done") = ending
  BY <1>1, <1>2, <1>3, LastIs
<1>5. LastOf(out, "avatar_state") = pose
  BY <1>1, <1>2, LastIs
<1> QED
  BY <1>1, <1>2, <1>4, <1>5 DEF EndsWithDone

LEMMA ErredSaysFailed ==
  ASSUME NEW out, NEW response, Erred(response, out),
         NEW ending \in {"hanging", "canceled", "failed"}
  PROVE  EndsWithDone(response, ending)
<1>1. PICK n \in Nat : /\ Len(response) = n + 2 /\ DOMAIN response = 1..(n + 2)
                       /\ response[n + 2].name = "done" /\ response[n + 2].value = "failed"
  BY DEF Erred
<1>m. PICK m \in Nat : m = n + 2
  OBVIOUS
<1>2. /\ Len(response) = m /\ DOMAIN response = 1..m /\ m \in 1..m
      /\ response[m].name = "done" /\ response[m].value = "failed"
      /\ \A j \in 1..m : response[j].name = "done" => j <= m
  BY <1>1, <1>m
<1>3. /\ Places(response, "done") # {} /\ Max(Places(response, "done")) = m
      /\ LastOf(response, "done") = "failed"
  BY <1>2, LastIs
<1> QED
  BY <1>2, <1>3 DEF EndsWithDone

LEMMA ErredKeepsPose ==
  ASSUME NEW out, NEW response, Erred(response, out),
         NEW status, NEW pose, EndsWith(out, status, pose)
  PROVE  LastOf(response, "avatar_state") = pose
<1>1. PICK n \in Nat :
        /\ Len(out) = n /\ DOMAIN response = 1..(n + 2)
        /\ \A i \in 1..n : response[i] = out[i]
        /\ response[n + 1].name = "error" /\ response[n + 2].name = "done"
  BY DEF Erred
<1>m. PICK m \in Nat : m = n + 2
  OBVIOUS
<1>2. PICK f \in 1..n : /\ out[f].name = "avatar_state" /\ out[f].value = pose
                        /\ \A i \in 1..n : out[i].name = "avatar_state" => i <= f
  BY <1>1 DEF EndsWith
<1>3. /\ DOMAIN response = 1..m /\ f \in 1..m
      /\ response[f].name = "avatar_state" /\ response[f].value = pose
  BY <1>1, <1>2, <1>m
<1>4. ASSUME NEW j \in 1..m, response[j].name = "avatar_state" PROVE j <= f
  <2>1. j \in 1..n \/ j = n + 1 \/ j = n + 2
    BY <1>m
  <2> QED
    BY <1>1, <1>2, <1>4, <2>1
<1> QED
  BY <1>3, <1>4, LastIs

LEMMA ErredStaysAwake ==
  ASSUME NEW out, NEW response, Erred(response, out), NEW face, Awake(out, face)
  PROVE  Awake(response, face)
<1>1. PICK n \in Nat :
        /\ DOMAIN out = 1..n /\ DOMAIN response = 1..(n + 2)
        /\ \A i \in 1..n : response[i] = out[i]
        /\ response[n + 1].name = "error" /\ response[n + 2].name = "done"
  BY DEF Erred
<1>poses. PICK poses : poses = WakingPoses(face)
  OBVIOUS
<1>2. ASSUME NEW i \in DOMAIN response, response[i].name = "avatar_state"
      PROVE  response[i].value \in poses
  <2>1. i \in 1..n \/ i = n + 1 \/ i = n + 2
    BY <1>1
  <2>2. i \in 1..n
    BY <1>1, <1>2, <2>1
  <2> QED
    BY <1>1, <1>2, <1>poses, <2>2 DEF Awake
<1> QED
  BY <1>2, <1>poses DEF Awake

LEMMA LastCaption ==
  ASSUME NEW out, Numbered(out), NEW caption, Captions(out, caption)
  PROVE  LastOf(out, "subtitle") = caption
<1>1. PICK n \in Nat : n = Len(out) /\ DOMAIN out = 1..n
  BY SequencesAreFinite DEF Numbered
<1>2. PICK c \in 1..n :
        /\ out[c].name = "subtitle" /\ out[c].value = caption
        /\ \A i \in 1..n : out[i].name = "subtitle" => i <= c
  BY <1>1 DEF Captions
<1> QED
  BY <1>1, <1>2, LastIs

SaysOnce(spoken, caption) ==
  {e.value : e \in {x \in ToSet(spoken) : x.name = "subtitle"}} = {caption}

(* The spoken path shows one caption. *)
LEMMA SpokenOnce ==
  ASSUME NEW result, SplitSubtitleText(result) # << >>, NEW face
  PROVE  SaysOnce(Adapt(result, face), SpeechTimeline(result))
<1>caption. PICK caption : caption = SpeechTimeline(result)
  OBVIOUS
<1>voiced. PICK voiced : voiced = CASE face.voice = "none" -> << >>
                                    [] face.voice = "ok"   -> <<Event("audio_chunk", result)>>
                                    [] OTHER               -> <<Event("error", NoContent)>>
  OBVIOUS
<1>a. PICK a : a = Event("conversation_started", NoContent)
  OBVIOUS
<1>b. PICK b : b = Event("assistant_text_delta", result)
  OBVIOUS
<1>c. PICK c : c = Event("subtitle", caption)
  OBVIOUS
<1>d. PICK d : d = Event("avatar_state", NextPose(face.machine, "assistant_speaking"))
  OBVIOUS
<1>e. PICK e : e = Event("done", "ok")
  OBVIOUS
<1>p. PICK p : p = Event("audio_chunk", result)
  OBVIOUS
<1>q. PICK q : q = Event("error", NoContent)
  OBVIOUS
<1>V. PICK V : V = {a, b, c, d, e, p, q}
  OBVIOUS
<1>1. voiced \in Seq(V) /\ Range(voiced) \subseteq {p, q}
  <2>1. voiced \in {<< >>, <<p>>, <<q>>}
    BY <1>voiced, <1>p, <1>q
  <2>2. CASE voiced = << >>
    BY <2>2, EmptySeq DEF Range
  <2>3. CASE voiced = <<p>>
    BY <1>V, <2>3 DEF Range
  <2>4. CASE voiced = <<q>>
    BY <1>V, <2>4 DEF Range
  <2> QED
    BY <2>1, <2>2, <2>3, <2>4
<1>head. PICK head : head = <<a, b, c>>
  OBVIOUS
<1>tail. PICK tail : tail = <<d, e>>
  OBVIOUS
<1>2. head \in Seq(V) /\ Range(head) = {a, b, c}
  <2>1. a \in V /\ b \in V /\ c \in V
    BY <1>V
  <2>2. head \in Seq(V) /\ Len(head) = 3 /\ head[1] = a /\ head[2] = b /\ head[3] = c
    BY <1>head, <2>1
  <2>3. DOMAIN head = {1, 2, 3}
    BY <2>2, LenProperties
  <2> QED
    BY <2>2, <2>3 DEF Range
<1>3. tail \in Seq(V) /\ Range(tail) = {d, e}
  <2>1. d \in V /\ e \in V
    BY <1>V
  <2>2. tail \in Seq(V) /\ Len(tail) = 2 /\ tail[1] = d /\ tail[2] = e
    BY <1>tail, <2>1
  <2>3. DOMAIN tail = {1, 2}
    BY <2>2, LenProperties
  <2> QED
    BY <2>2, <2>3 DEF Range
<1>spoken. PICK spoken : spoken = Adapt(result, face)
  OBVIOUS
<1>4. spoken = (head \o voiced) \o tail
  BY <1>a, <1>b, <1>c, <1>caption, <1>d, <1>e, <1>head, <1>spoken, <1>tail, <1>voiced DEF Adapt
<1>5. Range(spoken) = {a, b, c} \cup Range(voiced) \cup {d, e}
  <2>1. PICK front \in Seq(V) : front = head \o voiced
    BY <1>1, <1>2, ConcatProperties
  <2>2. Range(head \o voiced) = Range(head) \cup Range(voiced)
    BY <1>1, <1>2, RangeConcatenation
  <2>3. Range(front \o tail) = Range(front) \cup Range(tail)
    BY <1>3, RangeConcatenation
  <2> QED
    BY <1>2, <1>3, <1>4, <2>1, <2>2, <2>3, Zenon
<1>6. /\ a.name # "subtitle" /\ b.name # "subtitle" /\ d.name # "subtitle" /\ e.name # "subtitle"
      /\ p.name # "subtitle" /\ q.name # "subtitle"
      /\ c.name = "subtitle" /\ c.value = caption
  BY <1>a, <1>b, <1>c, <1>d, <1>e, <1>p, <1>q DEF Event
<1>7. \A x \in Range(spoken) : x.name = "subtitle" <=> x = c
  BY <1>1, <1>5, <1>6
<1>8. c \in Range(spoken)
  BY <1>5
<1>9. ToSet(spoken) = Range(spoken)
  BY DEF ToSet, Range
<1>10. {x \in ToSet(spoken) : x.name = "subtitle"} = {c}
  BY <1>7, <1>8, <1>9
<1>11. {x.value : x \in {y \in ToSet(spoken) : y.name = "subtitle"}} = {caption}
  BY <1>6, <1>10
<1> QED
  BY <1>11, <1>caption, <1>spoken DEF SaysOnce

(* The pose a face rests in after an ending, and those it has before. *)
LEMMA RestIsPose ==
  ASSUME NEW machine, NEW face, face.machine = machine
  PROVE  /\ Shows(machine, Rest["completed"]) = NextPose(machine, "done")
         /\ Shows(machine, Rest["failed"]) = NextPose(machine, "runtime_error")
         /\ Shows(machine, Rest["canceled"]) = NextPose(machine, "interrupted")
         /\ WakingPoses(face) = {Shows(machine, "thinking"), Shows(machine, "speaking")}
         /\ DOMAIN Rest = {"completed", "canceled", "failed"}
<1>1. /\ PoseFor["done"] = "idle" /\ PoseFor["runtime_error"] = "error"
      /\ PoseFor["interrupted"] = "interrupted" /\ PoseFor["runtime_thinking"] = "thinking"
      /\ PoseFor["assistant_speaking"] = "speaking"
  BY DEF PoseFor
<1>2. /\ Rest["completed"] = "idle" /\ Rest["failed"] = "error" /\ Rest["canceled"] = "interrupted"
      /\ DOMAIN Rest = {"completed", "canceled", "failed"}
  BY DEF Rest
<1> QED
  BY <1>1, <1>2 DEF Shows, NextPose, WakingPoses

LEMMA AwakeFaceRests ==
  ASSUME NEW response, NEW face, Awake(response, face), NEW ending \in {"hanging", "panicked"}
  PROVE  FaceRests(response, ending, face.machine)
<1>1. ending \notin DOMAIN Rest
  BY RestIsPose
<1>2. \A i \in Places(response, "avatar_state") : response[i].value \in WakingPoses(face)
  BY DEF Places, Awake
<1>3. {response[i].value : i \in Places(response, "avatar_state")} \subseteq WakingPoses(face)
  BY <1>2
<1>4. WakingPoses(face) = {Shows(face.machine, "thinking"), Shows(face.machine, "speaking")}
  BY RestIsPose
<1> QED
  BY <1>1, <1>3, <1>4 DEF FaceRests

LEMMA PosedFaceRests ==
  ASSUME NEW response, NEW machine,
         NEW ending, NEW signal,
         \/ ending = "completed" /\ signal = "done"
         \/ ending = "failed" /\ signal = "runtime_error"
         \/ ending = "canceled" /\ signal = "interrupted",
         LastOf(response, "avatar_state") = NextPose(machine, signal)
  PROVE  FaceRests(response, ending, machine)
<1>face. PICK face : face = [machine |-> machine]
  OBVIOUS
<1>1. face.machine = machine
  BY <1>face
<1>2. ending \in DOMAIN Rest /\ Shows(machine, Rest[ending]) = NextPose(machine, signal)
  BY <1>1, RestIsPose
<1> QED
  BY <1>2 DEF FaceRests

LEMMA SentIsSettled ==
  ASSUME NEW turn, NEW agents, NEW face, IsRun(turn.run), turn.replay \in BOOLEAN,
         NEW response, NEW out, NEW ending, Sent(response, out, ending, turn, agents, face),
         NEW spoken, spoken = Speak(turn, agents, face)
  PROVE  Settled(turn, agents, face.machine, ending, response, spoken)
<1>machine. PICK machine : machine = face.machine
  OBVIOUS
<1>result. PICK result : result = turn.run.result
  OBVIOUS
<1>W. PICK W : result \in Seq(W)
  BY <1>result DEF IsRun, IsSequence
<1>numbered. Numbered(out)
  BY DEF Sent
<1>errs. response = out \o RawEnd => Erred(response, out)
  BY <1>numbered, RawEndErrs
<1>1. (\A intent \in Intents : \E i \in DOMAIN agents : agents[i].handles = intent) =>
        Finders(agents, RouteOf(turn)) # {}
  BY SomeoneAnswers
<1> SUFFICES /\ EndsWithDone(response, ending) /\ FaceRests(response, ending, machine)
             /\ ending = "completed" => Captioned(response, turn, spoken)
  BY <1>1, <1>machine, Zenon DEF Settled
<1>2. CASE /\ ending = "hanging" /\ response = out \o RawEnd
           /\ Undone(out) /\ Awake(out, face)
  <2>1. EndsWithDone(response, ending)
    BY <1>2, <1>errs, ErredSaysFailed
  <2>2. FaceRests(response, ending, machine)
    <3>1. Awake(response, face)
      BY <1>2, <1>errs, ErredStaysAwake
    <3> QED
      BY <1>2, <1>machine, <3>1, AwakeFaceRests
  <2> QED
    BY <1>2, <2>1, <2>2
<1>3. CASE ending = "panicked" /\ response = out /\ Undone(out) /\ Awake(out, face)
  <2>1. EndsWithDone(response, ending)
    BY <1>3 DEF Undone, EndsWithDone, Places
  <2>2. FaceRests(response, ending, machine)
    BY <1>3, <1>machine, AwakeFaceRests
  <2> QED
    BY <1>3, <2>1, <2>2
<1>4. CASE /\ ending = "canceled" /\ response = out \o RawEnd
           /\ EndsWith(out, "canceled", NextPose(face.machine, "interrupted"))
  <2>1. EndsWithDone(response, ending)
    BY <1>4, <1>errs, ErredSaysFailed
  <2>2. LastOf(response, "avatar_state") = NextPose(machine, "interrupted")
    BY <1>4, <1>errs, <1>machine, ErredKeepsPose
  <2>3. FaceRests(response, ending, machine)
    BY <1>4, <2>2, PosedFaceRests
  <2> QED
    BY <1>4, <2>1, <2>3
<1>5. CASE /\ ending = "failed" /\ response \in {out, out \o RawEnd}
           /\ EndsWith(out, "failed", NextPose(face.machine, "runtime_error"))
  <2>1. EndsWithDone(response, ending) /\ LastOf(response, "avatar_state") = NextPose(machine, "runtime_error")
    <3>1. CASE response = out
      BY <1>5, <1>machine, <1>numbered, <3>1, EndingShows
    <3>2. CASE response = out \o RawEnd
      BY <1>5, <1>errs, <1>machine, <3>2, ErredSaysFailed, ErredKeepsPose
    <3> QED
      BY <1>5, <3>1, <3>2
  <2>2. FaceRests(response, ending, machine)
    BY <1>5, <2>1, PosedFaceRests
  <2> QED
    BY <1>5, <2>1, <2>2
<1>6. CASE /\ ending = "completed" /\ response = out
           /\ EndsWith(out, "completed", NextPose(face.machine, "done"))
           /\ Captions(out, SpeechTimeline(turn.run.result))
           /\ SplitSubtitleText(turn.run.result) # << >>
           /\ ~turn.replay => Handle(turn, agents) = Handled(turn.run.result)
  <2>1. EndsWithDone(response, ending) /\ LastOf(response, "avatar_state") = NextPose(machine, "done")
    BY <1>6, <1>machine, <1>numbered, EndingShows
  <2>2. FaceRests(response, ending, machine)
    BY <1>6, <2>1, PosedFaceRests
  <2>caption. PICK caption : caption = LastOf(response, "subtitle")
    OBVIOUS
  <2>3. caption = SpeechTimeline(result)
    BY <1>6, <1>numbered, <1>result, <2>caption, LastCaption
  <2>4. IsCaptioned(caption, result)
    BY <1>W, <2>3, TimelineSays
  <2>5. ASSUME ~turn.replay PROVE SaysOnce(spoken, caption)
    <3>1. Handle(turn, agents) = Handled(result)
      BY <1>6, <1>result, <2>5
    <3>2. spoken = Adapt(result, face)
      BY <3>1 DEF Speak, Handled
    <3>3. SplitSubtitleText(result) # << >>
      BY <1>6, <1>result
    <3>4. SaysOnce(Adapt(result, face), SpeechTimeline(result))
      BY <3>3, SpokenOnce
    <3> QED
      BY <2>3, <3>2, <3>4, Zenon
  <2>6. Captioned(response, turn, spoken)
    BY <1>result, <2>4, <2>5, <2>caption DEF IsCaptioned, SaysOnce, Captioned
  <2> QED
    BY <2>1, <2>2, <2>6
<1> QED
  BY <1>2, <1>3, <1>4, <1>5, <1>6 DEF Sent

(* A turn is that of a run. *)
TurnIsOne ==
  algorithm = "turn" => IsRun(input.turn.run) /\ input.turn.replay \in BOOLEAN

LEMMA OneTurn == TurnQuestions => []TurnIsOne
<1>1. Choosing({"window", "turn"}) => TurnIsOne
  BY DEF Choosing, TurnIsOne
<1>2. TurnIsOne /\ [TakeTranscript \/ AddMessage \/ ShowTurn]_called => TurnIsOne'
  <2> SUFFICES ASSUME TurnIsOne, [TakeTranscript \/ AddMessage \/ ShowTurn]_called
               PROVE  TurnIsOne'
    OBVIOUS
  <2>1. CASE TakeTranscript
    BY <2>1 DEF TakeTranscript, Take, TurnIsOne
  <2>2. CASE AddMessage
    BY <2>2 DEF AddMessage, TurnIsOne
  <2>3. CASE ShowTurn
    <3>1. PICK replay \in BOOLEAN, topics \in SUBSET Topics, reply \in Replies,
               roster \in Rosters, run \in Runs, face \in Faces :
            Take("turn", [turn |-> [replay |-> replay, topics |-> topics, reply |-> reply, run |-> run],
                          agents |-> roster, face |-> face])
      BY <2>3 DEF ShowTurn
    <3>2. input'.turn.run = run /\ input'.turn.replay = replay
      BY <3>1 DEF Take
    <3>3. IsRun(run)
      BY RunsAssumption
    <3> QED
      BY <3>2, <3>3 DEF TurnIsOne
  <2>4. CASE UNCHANGED called
    BY <2>4 DEF called, TurnIsOne
  <2> QED
    BY <2>1, <2>2, <2>3, <2>4
<1> QED
  BY <1>1, <1>2, PTL DEF TurnQuestions

(* Whatever a turn asks, however it is routed, starts and ends, and whatever the
   face and the voice, the whole response to it says how: unless the agent panics
   it ends with a done, completed exactly for an answer that is committed and has
   something to say, and then captioned word for word and captioned alike when
   spoken; the face rests in the pose of the ending, and goes on thinking or
   speaking when the turn is left hanging (HybridRouter.Route, AgentRegistry.Find,
   Stream, AdapterStreamSink.Emit, handleExperienceStream, Handle, Adapt). *)
THEOREM TurnsSettle == TurnQuestions => []TurnsEndSettled
<1>1. TurnIsOne => TurnsEndSettled
  <2> SUFFICES ASSUME TurnIsOne, algorithm = "turn"
               PROVE  TurnsEndSettled
    BY DEF TurnsEndSettled
  <2>turn. PICK turn : turn = input.turn
    OBVIOUS
  <2>agents. PICK agents : agents = input.agents
    OBVIOUS
  <2>face. PICK face : face = input.face
    OBVIOUS
  <2>ending. PICK ending : ending = Outcome(turn, Finders(agents, RouteOf(turn)) # {})
    OBVIOUS
  <2>1. IsRun(turn.run) /\ turn.replay \in BOOLEAN
    BY <2>turn DEF TurnIsOne
  <2>2. PICK out : Sent(Response(turn, agents, face), out, ending, turn, agents, face)
    BY <2>1, <2>ending, TurnIsShown
  <2>3. Settled(turn, agents, face.machine, ending, Response(turn, agents, face),
                Speak(turn, agents, face))
    BY <2>1, <2>2, SentIsSettled
  <2> QED
    BY <2>turn, <2>agents, <2>face, <2>ending, <2>3, Zenon DEF TurnsEndSettled
<1> QED
  BY <1>1, OneTurn, PTL
=============================================================================
