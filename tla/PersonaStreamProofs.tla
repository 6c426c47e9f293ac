------------------------- MODULE PersonaStreamProofs -------------------------
(***************************************************************************)
(* Proofs about PersonaStream for every provider, every set of claims and     *)
(* all limits: what is committed is what the user saw, no text is lost, and    *)
(* no forbidden claim gets through.                                           *)
(*                                                                          *)
(* First what holds of texts: induction over their characters, what squeezing  *)
(* and leaving out blanks make of one more character, and when one text holds  *)
(* whatever another holds.  Then the stream guard and the agent.               *)
(***************************************************************************)
EXTENDS PersonaStream, FiniteSetTheorems, SequenceTheorems, WellFoundedInduction, TLAPS

Text == Seq(Characters)

Guard == [pending : Text, complete : Text, fullBuffer : BOOLEAN, visible : BOOLEAN]

TypeOK ==
    /\ guard \in Guard
    /\ lowConfidence \in BOOLEAN /\ failClosed \in BOOLEAN /\ sawContent \in BOOLEAN
    /\ accepted \in Text /\ shown \in Text
    /\ result \in {"none", "generated", "fallback", "error"}

(* While the answer is streamed, the guard knows whether the user saw anything:
   what is kept is what was shown, and none of it is blank. *)
Tracked(g, kept, seen) ==
    /\ kept = seen
    /\ g.visible <=> ~Blank(seen)
    /\ Blank(seen) => seen = <<>>

ShownInv ==
    /\ result = "none" => Tracked(guard, accepted, shown)
    /\ CommittedIsShown

-----------------------------------------------------------------------------
(* A nonempty set of positions of a text has a last one. *)
LEMMA LastExists ==
    ASSUME NEW n \in Nat, NEW S, S \subseteq 0..n, S # {}
    PROVE  \E i \in S : \A j \in S : j <= i
<1> DEFINE Intervals == {0..(n - i) : i \in S}
           R == StrictSubsetOrdering(Nat)
<1>1. Intervals \subseteq FiniteSubsetsOf(Nat) /\ Intervals # {}
  <2>1. \A i \in S : n - i \in Nat
    OBVIOUS
  <2>2. \A i \in S : 0..(n - i) \subseteq Nat /\ IsFiniteSet(0..(n - i))
    BY <2>1, FS_Interval, SMT
  <2> QED
    BY <2>2 DEF FiniteSubsetsOf
<1>2. IsWellFoundedOn(R, FiniteSubsetsOf(Nat))
  BY FS_StrictSubsetOrderingWellFounded
<1> HIDE DEF R
<1>3. PICK U \in Intervals : \A V \in Intervals : <<V, U>> \notin R
  <2> HIDE DEF Intervals
  <2> QED
    BY <1>1, <1>2, WFMin
<1>4. PICK i \in S : U = 0..(n - i)
  OBVIOUS
<1>5. ASSUME NEW j \in S PROVE j <= i
  <2> SUFFICES ASSUME i < j PROVE FALSE
    BY SMT
  <2>1. 0..(n - j) \in Intervals
    OBVIOUS
  <2>2. /\ 0..(n - j) \subseteq 0..(n - i) /\ 0..(n - j) # 0..(n - i)
        /\ 0..(n - j) \subseteq Nat /\ 0..(n - i) \subseteq Nat
    BY SMT
  <2>3. <<0..(n - j), 0..(n - i)>> \in R
    BY <2>2 DEF R, StrictSubsetOrdering
  <2> QED
    BY <1>3, <1>4, <2>1, <2>3
<1> QED
  BY <1>5

(* Induction.  What is to be shown of numbers or of texts is a set of them.     *)

LEMMA Counting ==
    ASSUME NEW n \in Nat, NEW S, 0 \in S, \A i \in 0..n : i < n /\ i \in S => i + 1 \in S
    PROVE  \A i \in 0..n : i \in S
<1> DEFINE Reached == {m \in 0..n : \A i \in 0..m : i \in S}
<1>1. PICK m \in Reached : \A j \in Reached : j <= m
  <2>1. Reached \subseteq 0..n /\ 0 \in Reached
    OBVIOUS
  <2> HIDE DEF Reached
  <2> QED
    BY <2>1, LastExists
<1>2. m = n
  <2> SUFFICES ASSUME m < n PROVE FALSE
    OBVIOUS
  <2>1. m + 1 \in S /\ m + 1 \in 0..n
    OBVIOUS
  <2>2. \A i \in 0..(m + 1) : i \in 0..m \/ i = m + 1
    OBVIOUS
  <2>3. m + 1 \in Reached
    BY <2>1, <2>2
  <2>4. ~(m + 1 <= m)
    OBVIOUS
  <2> QED
    BY <1>1, <2>3, <2>4
<1> QED
  BY <1>2

LEMMA TextInduction ==
    ASSUME NEW S, <<>> \in S, \A a \in Text, c \in Characters : a \in S => Append(a, c) \in S,
           NEW text \in Text
    PROVE  text \in S
<1>n. PICK n \in Nat : n = Len(text)
  BY LenProperties DEF Text
<1>up. PICK up : up = [i \in 0..n |-> SubSeq(text, 1, i)]
  OBVIOUS
<1> DEFINE T == {i \in 0..n : up[i] \in S}
<1>1. \A i \in 0..n : up[i] \in Text /\ Len(up[i]) = i /\ \A j \in 1..i : up[i][j] = text[j]
  <2> TAKE i \in 0..n
  <2>1. \A j \in 1..i : text[j] \in Characters
    BY <1>n, ElementOfSeq DEF Text
  <2>x. PICK x : x = SubSeq(text, 1, i)
    OBVIOUS
  <2>2. /\ x \in Seq(Characters) /\ Len(x) = (IF 1 <= i THEN i - 1 + 1 ELSE 0)
        /\ \A j \in 1..(i - 1 + 1) : x[j] = text[1 + j - 1]
    BY <2>1, <2>x, SubSeqProperties
  <2>3. Len(x) = i /\ i - 1 + 1 = i /\ \A j \in 1..i : 1 + j - 1 = j
    BY <2>2
  <2>4. up[i] = x
    BY <1>up, <2>x
  <2> QED
    BY <2>2, <2>3, <2>4 DEF Text
<1>2. 0 \in T
  <2>1. up[0] = <<>>
    BY <1>1, EmptySeq DEF Text
  <2> QED
    BY <2>1
<1>3. ASSUME NEW i \in 0..n, i < n, i \in T PROVE i + 1 \in T
  <2>1. i + 1 \in 0..n /\ i + 1 \in 1..n
    BY <1>3
  <2>2. text[i + 1] \in Characters
    BY <1>n, <2>1, ElementOfSeq DEF Text
  <2>a. PICK a \in Text : a = up[i]
    BY <1>1
  <2>b. PICK b \in Text : b = up[i + 1]
    BY <1>1, <2>1
  <2>3. Len(a) = i /\ Len(b) = i + 1 /\ \A j \in 1..i : a[j] = text[j] /\ b[j] = text[j]
    BY <1>1, <2>1, <2>a, <2>b
  <2>4. b[i + 1] = text[i + 1]
    BY <1>1, <2>1, <2>b
  <2>5. /\ Append(a, text[i + 1]) \in Text /\ Len(Append(a, text[i + 1])) = i + 1
        /\ \A j \in 1..i : Append(a, text[i + 1])[j] = a[j]
        /\ Append(a, text[i + 1])[i + 1] = text[i + 1]
    BY <2>2, <2>3, AppendProperties DEF Text
  <2>6. \A j \in 1..Len(b) : b[j] = Append(a, text[i + 1])[j]
    BY <2>3, <2>4, <2>5
  <2>7. b = Append(a, text[i + 1])
    BY <2>3, <2>5, <2>6, SeqEqual DEF Text
  <2> QED
    BY <1>3, <2>1, <2>2, <2>7, <2>a, <2>b
<1>4. n \in T
  <2> HIDE DEF T
  <2>1. \A i \in 0..n : i \in T
    BY <1>2, <1>3, Counting
  <2> QED
    BY <2>1
<1>5. up[n] = text
  <2>1. up[n] \in Text /\ Len(up[n]) = Len(text) /\ \A j \in 1..Len(up[n]) : up[n][j] = text[j]
    BY <1>1, <1>n
  <2> QED
    BY <2>1, SeqEqual DEF Text
<1> QED
  BY <1>4, <1>5

(* The states a step goes through, one character of a text after the other. *)
IsRun(f, text, first, step) ==
    /\ f \in [0..Len(text) -> Text]
    /\ f[0] = first
    /\ \A i \in 1..Len(text) : f[i] = step[<<f[i - 1], text[i]>>]

LEMMA RunExists ==
    ASSUME NEW text \in Text, NEW first \in Text, NEW step \in [Text \X Characters -> Text]
    PROVE  \E f : IsRun(f, text, first, step)
<1>n. PICK n \in Nat : n = Len(text)
  BY LenProperties DEF Text
<1> DEFINE Upto(f, m) == /\ f \in [0..m -> Text] /\ f[0] = first
                         /\ \A i \in 1..m : f[i] = step[<<f[i - 1], text[i]>>]
           T == {m \in 0..n : \E f : Upto(f, m)}
<1>1. 0 \in T
  <2> DEFINE f == [i \in 0..0 |-> first]
  <2>1. Upto(f, 0)
    OBVIOUS
  <2> HIDE DEF Upto, f
  <2>2. 0 \in 0..n
    OBVIOUS
  <2> QED
    BY <2>1, <2>2
<1>2. ASSUME NEW m \in 0..n, m < n, m \in T PROVE m + 1 \in T
  <2>1. PICK f : Upto(f, m)
    BY <1>2
  <2>2. text[m + 1] \in Characters
    <3>1. m + 1 \in 1..n
      <4> HIDE DEF T
      <4> QED
        BY <1>2
    <3> QED
      BY <1>n, <3>1, ElementOfSeq DEF Text
  <2>3. f[m] \in Text
    BY <2>1
  <2>e. PICK e \in Text : e = step[<<f[m], text[m + 1]>>]
    BY <2>2, <2>3
  <2>g. PICK g : g = [i \in 0..(m + 1) |-> IF i <= m THEN f[i] ELSE e]
    OBVIOUS
  <2>4. g \in [0..(m + 1) -> Text] /\ g[0] = first
    <3>1. \A i \in 0..(m + 1) : i <= m => i \in 0..m
      OBVIOUS
    <3>2. 0 \in 0..(m + 1) /\ 0 <= m
      OBVIOUS
    <3> QED
      BY <2>1, <2>g, <3>1, <3>2
  <2>5. ASSUME NEW i \in 1..(m + 1) PROVE g[i] = step[<<g[i - 1], text[i]>>]
    <3>1. i \in 0..(m + 1) /\ i - 1 \in 0..(m + 1) /\ i - 1 <= m
      OBVIOUS
    <3>2. g[i - 1] = f[i - 1]
      BY <2>g, <3>1
    <3>3. CASE i <= m
      <4>1. i \in 1..m
        BY <3>3
      <4>2. g[i] = f[i]
        BY <2>g, <3>1, <3>3
      <4> QED
        BY <2>1, <3>2, <4>1, <4>2
    <3>4. CASE i = m + 1
      <4>1. g[i] = e /\ i - 1 = m
        BY <2>g, <3>1, <3>4
      <4> QED
        BY <2>e, <3>2, <3>4, <4>1
    <3> QED
      BY <3>3, <3>4
  <2>6. Upto(g, m + 1)
    BY <2>4, <2>5
  <2>7. m + 1 \in 0..n
    <3> HIDE DEF T
    <3> QED
      BY <1>2
  <2> HIDE DEF Upto
  <2> QED
    BY <2>6, <2>7
<1>3. n \in T
  <2> HIDE DEF T
  <2>1. \A i \in 0..n : i \in T
    BY <1>1, <1>2, Counting
  <2> QED
    BY <2>1
<1> QED
  BY <1>3, <1>n DEF IsRun

(* A run over a text begins as one over less of it. *)
OneMore(b, a, c) ==
    /\ Len(b) = Len(a) + 1 /\ b[Len(a) + 1] = c
    /\ \A i \in 1..Len(a) : b[i] = a[i]

LEMMA AppendIsMore ==
    ASSUME NEW a \in Text, NEW c \in Characters
    PROVE  OneMore(Append(a, c), a, c)
<1>1. a \in Seq(Characters)
  BY DEF Text
<1> QED
  BY <1>1, AppendProperties DEF OneMore

LEMMA RunGoesOn ==
    ASSUME NEW a \in Text, NEW c, NEW b, OneMore(b, a, c), NEW first, NEW step,
           NEW f, IsRun(f, a, first, step), NEW g, IsRun(g, b, first, step)
    PROVE  g[Len(b)] = step[<<f[Len(a)], c>>]
<1>n. PICK n \in Nat : n = Len(a)
  BY LenProperties DEF Text
<1>1. Len(b) = n + 1 /\ b[n + 1] = c /\ \A i \in 1..n : b[i] = a[i]
  BY <1>n DEF OneMore
<1> DEFINE Same == {i \in 0..n : g[i] = f[i]}
<1>2. 0 \in Same
  BY DEF IsRun
<1>3. ASSUME NEW i \in 0..n, i < n, i \in Same PROVE i + 1 \in Same
  <2>1. i + 1 \in 1..n /\ i + 1 \in 1..(n + 1) /\ (i + 1) - 1 = i
    BY <1>3
  <2>2. f[i + 1] = step[<<f[i], a[i + 1]>>] /\ g[i + 1] = step[<<g[i], b[i + 1]>>]
    BY <1>n, <1>1, <2>1 DEF IsRun
  <2> QED
    BY <1>1, <1>3, <2>1, <2>2
<1>4. g[n] = f[n]
  <2> HIDE DEF Same
  <2>1. \A i \in 0..n : i \in Same
    BY <1>2, <1>3, Counting
  <2> QED
    BY <2>1 DEF Same
<1>5. n + 1 \in 1..(n + 1) /\ (n + 1) - 1 = n
  OBVIOUS
<1>6. g[n + 1] = step[<<g[n], b[n + 1]>>]
  BY <1>1, <1>5 DEF IsRun
<1> QED
  BY <1>n, <1>1, <1>4, <1>6

-----------------------------------------------------------------------------
(* What squeezing and Ink make of a text with one more character *)

SqueezeStep == [p \in Text \X Characters |-> Squeeze(p[1], p[2])]

LEMMA SqueezeIsText ==
    ASSUME NEW a \in Text, NEW c \in Characters
    PROVE  Squeeze(a, c) \in Text
<1>1. Append(a, c) \in Text /\ Append(a, " ") \in Text
  <2>1. " " \in Characters
    BY PersonaAssumption
  <2> QED
    BY <2>1, AppendProperties DEF Text
<1> QED
  BY <1>1 DEF Squeeze


(* A recursive function whose values stay texts is a run. *)
LEMMA RecursionRuns ==
    ASSUME NEW text \in Text, NEW first \in Text, NEW step \in [Text \X Characters -> Text],
           NEW g, DOMAIN g = 0..Len(text), g = [i \in DOMAIN g |-> g[i]], g[0] = first,
           \A i \in 1..Len(text) : g[i - 1] \in Text => g[i] = step[<<g[i - 1], text[i]>>]
    PROVE  IsRun(g, text, first, step)
<1>0. Len(text) \in Nat
  BY LenProperties DEF Text
<1>1. \A i \in 1..Len(text) : text[i] \in Characters
  BY ElementOfSeq DEF Text
<1> DEFINE T == {i \in 0..Len(text) : g[i] \in Text}
<1>2. 0 \in T
  BY <1>0
<1>3. ASSUME NEW i \in 0..Len(text), i < Len(text), i \in T PROVE i + 1 \in T
  <2>1. i + 1 \in 1..Len(text) /\ i + 1 \in 0..Len(text) /\ (i + 1) - 1 = i
    BY <1>0, <1>3
  <2>2. g[i + 1] = step[<<g[i], text[i + 1]>>]
    BY <1>3, <2>1
  <2> QED
    BY <1>1, <1>3, <2>1, <2>2
<1>4. \A i \in 0..Len(text) : g[i] \in Text
  <2> HIDE DEF T
  <2>1. \A i \in 0..Len(text) : i \in T
    BY <1>0, <1>2, <1>3, Counting
  <2> QED
    BY <2>1 DEF T
<1>5. \A i \in 1..Len(text) : i - 1 \in 0..Len(text)
  BY <1>0
<1> QED
  BY <1>4, <1>5 DEF IsRun

LEMMA SqueezedRuns ==
    ASSUME NEW text \in Text
    PROVE  \E f : IsRun(f, text, <<>>, SqueezeStep) /\ Squeezed(text) = f[Len(text)]
<1>0. Len(text) \in Nat /\ <<>> \in Text
  BY LenProperties, EmptySeq DEF Text
<1>1. SqueezeStep \in [Text \X Characters -> Text]
  BY SqueezeIsText DEF SqueezeStep
<1>2. \A a \in Text, c \in Characters : SqueezeStep[<<a, c>>] = Squeeze(a, c)
  BY DEF SqueezeStep
<1>3. \A i \in 1..Len(text) : i - 1 \in 0..Len(text) /\ text[i] \in Characters
  BY <1>0, ElementOfSeq DEF Text
<1> DEFINE Def(f) == [i \in 0..Len(text) |-> IF i = 0 THEN <<>> ELSE Squeeze(f[i - 1], text[i])]
<1>f. PICK f : IsRun(f, text, <<>>, SqueezeStep)
  BY <1>0, <1>1, RunExists
<1>4. f = Def(f)
  <2>1. \A i \in 1..Len(text) : f[i] = Squeeze(f[i - 1], text[i])
    BY <1>2, <1>3, <1>f DEF IsRun
  <2>2. \A i \in 0..Len(text) : i = 0 \/ i \in 1..Len(text)
    BY <1>0
  <2> QED
    BY <1>f, <2>1, <2>2 DEF IsRun
<1>g. PICK g : g = CHOOSE h : h = Def(h)
  OBVIOUS
<1>5. g = Def(g)
  BY <1>4, <1>g
<1>6. Squeezed(text) = g[Len(text)]
  BY <1>g DEF Squeezed
<1>7. g[0] = <<>> /\ \A i \in 1..Len(text) : g[i] = Squeeze(g[i - 1], text[i])
  BY <1>0, <1>5
<1>8. DOMAIN g = 0..Len(text) /\ g = [i \in DOMAIN g |-> g[i]]
  BY <1>5
<1> HIDE DEF Def
<1>9. IsRun(g, text, <<>>, SqueezeStep)
  BY <1>0, <1>1, <1>2, <1>3, <1>7, <1>8, RecursionRuns
<1> QED
  BY <1>6, <1>9

(* What a function of texts makes of one more character, when it is found by runs. *)
FoundByRuns(h, first, step) ==
    \A t \in Text : \E f : IsRun(f, t, first, step) /\ h[t] = f[Len(t)]

LEMMA RunsAreSteps ==
    ASSUME NEW first, NEW step, NEW h, FoundByRuns(h, first, step)
    PROVE  /\ h[<<>>] = first
           /\ \A t \in Text : h[t] \in Text
           /\ \A a \in Text, c \in Characters : h[Append(a, c)] = step[<<h[a], c>>]
<1>1. h[<<>>] = first
  <2>1. <<>> \in Text /\ Len(<<>>) = 0
    BY EmptySeq DEF Text
  <2> QED
    BY <2>1 DEF IsRun, FoundByRuns
<1>2. ASSUME NEW t \in Text PROVE h[t] \in Text
  <2>1. Len(t) \in 0..Len(t)
    BY LenProperties DEF Text
  <2> QED
    BY <2>1 DEF IsRun, FoundByRuns
<1>3. ASSUME NEW a \in Text, NEW c \in Characters PROVE h[Append(a, c)] = step[<<h[a], c>>]
  <2>b. PICK b \in Text : b = Append(a, c)
    BY AppendProperties DEF Text
  <2>f. PICK f : IsRun(f, a, first, step) /\ h[a] = f[Len(a)]
    BY DEF FoundByRuns
  <2>g. PICK g : IsRun(g, b, first, step) /\ h[b] = g[Len(b)]
    BY DEF FoundByRuns
  <2>1. IsRun(f, a, first, step) /\ IsRun(g, b, first, step) /\ OneMore(b, a, c)
    BY <2>b, <2>f, <2>g, AppendIsMore
  <2>2. g[Len(b)] = step[<<f[Len(a)], c>>]
    BY <2>1, RunGoesOn, SMT
  <2> QED
    BY <2>b, <2>f, <2>g, <2>2
<1> QED
  BY <1>1, <1>2, <1>3

LEMMA SqueezedMore ==
    /\ Squeezed(<<>>) = <<>>
    /\ \A a \in Text : Squeezed(a) \in Text
    /\ \A a \in Text, c \in Characters : Squeezed(Append(a, c)) = Squeeze(Squeezed(a), c)
<1>h. PICK h : h = [t \in Text |-> Squeezed(t)]
  OBVIOUS
<1>0. PICK first, step : first = <<>> /\ step = SqueezeStep
  OBVIOUS
<1>1. FoundByRuns(h, first, step)
  BY <1>h, <1>0, SqueezedRuns DEF FoundByRuns
<1>2. /\ h[<<>>] = first
      /\ \A t \in Text : h[t] \in Text
      /\ \A a \in Text, c \in Characters : h[Append(a, c)] = step[<<h[a], c>>]
  BY <1>1, RunsAreSteps
<1>3. <<>> \in Text /\ \A a \in Text, c \in Characters : Append(a, c) \in Text
  BY EmptySeq, AppendProperties DEF Text
<1> QED
  BY <1>h, <1>0, <1>2, <1>3 DEF SqueezeStep

InkStep == [p \in Text \X Characters |-> KeepInk(p[1], p[2])]

LEMMA KeepInkIsText ==
    ASSUME NEW a \in Text, NEW c \in Characters
    PROVE  KeepInk(a, c) \in Text
BY AppendProperties DEF KeepInk, Text

LEMMA InkRuns ==
    ASSUME NEW text \in Text
    PROVE  \E f : IsRun(f, text, <<>>, InkStep) /\ Ink(text) = f[Len(text)]
<1>0. Len(text) \in Nat /\ <<>> \in Text
  BY LenProperties, EmptySeq DEF Text
<1>1. InkStep \in [Text \X Characters -> Text]
  BY KeepInkIsText DEF InkStep
<1>2. \A a \in Text, c \in Characters : InkStep[<<a, c>>] = KeepInk(a, c)
  BY DEF InkStep
<1>3. \A i \in 1..Len(text) : i - 1 \in 0..Len(text) /\ text[i] \in Characters
  BY <1>0, ElementOfSeq DEF Text
<1> DEFINE Def(f) == [i \in 0..Len(text) |-> IF i = 0 THEN <<>> ELSE KeepInk(f[i - 1], text[i])]
<1>f. PICK f : IsRun(f, text, <<>>, InkStep)
  BY <1>0, <1>1, RunExists
<1>4. f = Def(f)
  <2>1. \A i \in 1..Len(text) : f[i] = KeepInk(f[i - 1], text[i])
    BY <1>2, <1>3, <1>f DEF IsRun
  <2>2. \A i \in 0..Len(text) : i = 0 \/ i \in 1..Len(text)
    BY <1>0
  <2> QED
    BY <1>f, <2>1, <2>2 DEF IsRun
<1>g. PICK g : g = CHOOSE h : h = Def(h)
  OBVIOUS
<1>5. g = Def(g)
  BY <1>4, <1>g
<1>6. Ink(text) = g[Len(text)]
  BY <1>g DEF Ink
<1>7. g[0] = <<>> /\ \A i \in 1..Len(text) : g[i] = KeepInk(g[i - 1], text[i])
  BY <1>0, <1>5
<1>8. DOMAIN g = 0..Len(text) /\ g = [i \in DOMAIN g |-> g[i]]
  BY <1>5
<1> HIDE DEF Def
<1>9. IsRun(g, text, <<>>, InkStep)
  BY <1>0, <1>1, <1>2, <1>3, <1>7, <1>8, RecursionRuns
<1> QED
  BY <1>6, <1>9

LEMMA InkMore ==
    /\ Ink(<<>>) = <<>>
    /\ \A a \in Text : Ink(a) \in Text
    /\ \A a \in Text, c \in Characters : Ink(Append(a, c)) = KeepInk(Ink(a), c)
<1>h. PICK h : h = [t \in Text |-> Ink(t)]
  OBVIOUS
<1>0. PICK first, step : first = <<>> /\ step = InkStep
  OBVIOUS
<1>1. FoundByRuns(h, first, step)
  BY <1>h, <1>0, InkRuns DEF FoundByRuns
<1>2. /\ h[<<>>] = first
      /\ \A t \in Text : h[t] \in Text
      /\ \A a \in Text, c \in Characters : h[Append(a, c)] = step[<<h[a], c>>]
  BY <1>1, RunsAreSteps
<1>3. <<>> \in Text /\ \A a \in Text, c \in Characters : Append(a, c) \in Text
  BY EmptySeq, AppendProperties DEF Text
<1> QED
  BY <1>h, <1>0, <1>2, <1>3 DEF InkStep

-----------------------------------------------------------------------------
(* What a text ends in and what it holds, character by character *)

(* The text ends in the first k characters of the other. *)
EndsIn(text, part, k) ==
    k <= Len(text) /\ \A j \in 1..k : text[Len(text) - k + j] = part[j]

LEMMA EndsInMore ==
    ASSUME NEW a \in Text, NEW c \in Characters, NEW p \in Text, NEW k \in Nat
    PROVE  EndsIn(Append(a, c), p, k + 1) <=> EndsIn(a, p, k) /\ p[k + 1] = c
<1>n. PICK n \in Nat : n = Len(a)
  BY LenProperties DEF Text
<1>b. PICK b : b = Append(a, c)
  OBVIOUS
<1>1. Len(b) = n + 1 /\ b[n + 1] = c /\ \A i \in 1..n : b[i] = a[i]
  <2>1. OneMore(b, a, c)
    BY <1>b, AppendIsMore
  <2> QED
    BY <1>n, <2>1 DEF OneMore
<1>2. EndsIn(b, p, k + 1) <=> k <= n /\ \A j \in 1..(k + 1) : b[n - k + j] = p[j]
  <2>1. \A j \in 1..(k + 1) : (n + 1) - (k + 1) + j = n - k + j
    OBVIOUS
  <2> QED
    BY <1>1, <2>1 DEF EndsIn
<1>3. EndsIn(a, p, k) <=> k <= n /\ \A j \in 1..k : a[n - k + j] = p[j]
  BY <1>n DEF EndsIn
<1>4. ASSUME k <= n
      PROVE  /\ \A j \in 1..k : b[n - k + j] = a[n - k + j]
             /\ n - k + (k + 1) = n + 1 /\ k + 1 \in 1..(k + 1)
             /\ \A j \in 1..(k + 1) : j \in 1..k \/ j = k + 1
  <2>1. \A j \in 1..k : n - k + j \in 1..n
    BY <1>4
  <2> QED
    BY <1>1, <2>1
<1>5. CASE k <= n
  <2>1. (\A j \in 1..(k + 1) : b[n - k + j] = p[j])
          <=> (\A j \in 1..k : a[n - k + j] = p[j]) /\ c = p[k + 1]
    BY <1>1, <1>4, <1>5
  <2> QED
    BY <1>b, <1>2, <1>3, <1>5, <2>1
<1>6. CASE ~(k <= n)
  BY <1>b, <1>2, <1>3, <1>6
<1> QED
  BY <1>5, <1>6

LEMMA EndsInNothing ==
    ASSUME NEW p, NEW k \in Nat
    PROVE  /\ \A a \in Text : EndsIn(a, p, 0)
           /\ EndsIn(<<>>, p, k) => k = 0
<1>1. \A a \in Text : Len(a) \in Nat
  BY LenProperties DEF Text
<1>2. Len(<<>>) = 0
  BY EmptySeq
<1> QED
  BY <1>1, <1>2 DEF EndsIn

LEMMA HoldsAt ==
    ASSUME NEW t \in Text, NEW p \in Text
    PROVE  Holds(t, p) <=> \E i \in 0..(Len(t) - Len(p)) : \A j \in 1..Len(p) : t[i + j] = p[j]
<1>n. PICK n \in Nat : n = Len(t)
  BY LenProperties DEF Text
<1>k. PICK k \in Nat : k = Len(p)
  BY LenProperties DEF Text
<1>1. ASSUME NEW i \in 0..(n - k)
      PROVE  SubSeq(t, i + 1, i + k) = p <=> \A j \in 1..k : t[i + j] = p[j]
  <2>m. PICK m, l \in Int : m = i + 1 /\ l = i + k
    OBVIOUS
  <2>s. PICK s : s = SubSeq(t, m, l)
    OBVIOUS
  <2>1. \A j \in m..l : t[j] \in Characters
    <3>1. \A j \in m..l : j \in 1..n
      BY <2>m
    <3> QED
      BY <1>n, <3>1, ElementOfSeq DEF Text
  <2>2. /\ s \in Seq(Characters) /\ Len(s) = (IF m <= l THEN l - m + 1 ELSE 0)
        /\ \A j \in 1..(l - m + 1) : s[j] = t[m + j - 1]
    BY <2>1, <2>s, SubSeqProperties
  <2>3. Len(s) = k /\ \A j \in 1..k : j \in 1..(l - m + 1) /\ m + j - 1 = i + j
    BY <2>2, <2>m
  <2>4. \A j \in 1..k : s[j] = t[i + j]
    BY <2>2, <2>3
  <2>5. s = p <=> \A j \in 1..k : s[j] = p[j]
    BY <1>k, <2>2, <2>3, SeqEqual DEF Text
  <2> QED
    BY <2>m, <2>s, <2>4, <2>5
<1> QED
  BY <1>n, <1>k, <1>1 DEF Holds

LEMMA HoldsMore ==
    ASSUME NEW a \in Text, NEW c \in Characters, NEW p \in Text
    PROVE  Holds(Append(a, c), p) <=> Holds(a, p) \/ EndsIn(Append(a, c), p, Len(p))
<1>n. PICK n \in Nat : n = Len(a)
  BY LenProperties DEF Text
<1>k. PICK k \in Nat : k = Len(p)
  BY LenProperties DEF Text
<1>b. PICK b \in Text : b = Append(a, c)
  BY AppendProperties DEF Text
<1>1. Len(b) = n + 1 /\ \A i \in 1..n : b[i] = a[i]
  <2>1. OneMore(b, a, c)
    BY <1>b, AppendIsMore
  <2> QED
    BY <1>n, <2>1 DEF OneMore
<1>2. Holds(b, p) <=> \E i \in 0..(n + 1 - k) : \A j \in 1..k : b[i + j] = p[j]
  <2>1. Holds(b, p) <=> \E i \in 0..(Len(b) - Len(p)) : \A j \in 1..Len(p) : b[i + j] = p[j]
    BY HoldsAt
  <2> QED
    BY <1>k, <1>1, <2>1
<1>3. Holds(a, p) <=> \E i \in 0..(n - k) : \A j \in 1..k : a[i + j] = p[j]
  BY <1>n, <1>k, HoldsAt
<1>4. EndsIn(b, p, k) <=> k <= n + 1 /\ \A j \in 1..k : b[n + 1 - k + j] = p[j]
  BY <1>1 DEF EndsIn
<1>5. \A i \in 0..(n - k) : i \in 0..(n + 1 - k) /\ \A j \in 1..k : b[i + j] = a[i + j]
  <2>1. \A i \in 0..(n - k) : i \in 0..(n + 1 - k) /\ \A j \in 1..k : i + j \in 1..n
    OBVIOUS
  <2> QED
    BY <1>1, <2>1
<1>6. \A i \in 0..(n + 1 - k) : i \in 0..(n - k) \/ (i = n + 1 - k /\ k <= n + 1)
  OBVIOUS
<1>7. k <= n + 1 => n + 1 - k \in 0..(n + 1 - k)
  OBVIOUS
<1>8. Holds(b, p) <=> Holds(a, p) \/ EndsIn(b, p, k)
  BY <1>2, <1>3, <1>4, <1>5, <1>6, <1>7
<1> QED
  BY <1>b, <1>k, <1>8

LEMMA HoldsNothing ==
    ASSUME NEW p \in Text, p # <<>>
    PROVE  ~Holds(<<>>, p)
<1>1. Len(<<>>) = 0 /\ Len(p) \in Nat \ {0}
  BY EmptySeq DEF Text
<1> QED
  BY <1>1 DEF Holds

-----------------------------------------------------------------------------
(* Texts put together. *)

LEMMA Lengths ==
    ASSUME NEW t \in Text
    PROVE  /\ Len(t) \in Nat /\ DOMAIN t = 1..Len(t) /\ Len(t) \in 0..Len(t)
           /\ t # <<>> => Len(t) # 0
<1>1. Len(t) \in Nat /\ DOMAIN t = 1..Len(t)
  BY LenProperties DEF Text
<1>2. t # <<>> => Len(t) # 0
  BY EmptySeq DEF Text
<1> QED
  BY <1>1, <1>2

LEMMA SomeOfIt ==
    ASSUME NEW p \in Text, NEW k \in 0..Len(p), k # 0
    PROVE  k \in 1..Len(p) /\ k \in DOMAIN p
<1>1. Len(p) \in Nat /\ DOMAIN p = 1..Len(p)
  BY Lengths
<1> QED
  BY <1>1

LEMMA JoinedMore ==
    ASSUME NEW a \in Text
    PROVE  /\ <<>> \in Text /\ a \o <<>> = a /\ <<>> \o a = a
           /\ \A b \in Text, c \in Characters :
                /\ Append(b, c) \in Text /\ a \o b \in Text
                /\ a \o Append(b, c) = Append(a \o b, c)
<1>1. a \in Seq(Characters)
  BY DEF Text
<1>2. ASSUME NEW b \in Text, NEW c \in Characters
      PROVE  /\ Append(b, c) \in Text /\ a \o b \in Text
             /\ a \o Append(b, c) = Append(a \o b, c)
  <2>1. /\ b \in Seq(Characters) /\ <<c>> \in Seq(Characters) /\ a \o b \in Seq(Characters)
    BY <1>1, ConcatProperties DEF Text
  <2>2. Append(b, c) = b \o <<c>> /\ Append(a \o b, c) = (a \o b) \o <<c>>
    BY <2>1, AppendIsConcat
  <2>3. (a \o b) \o <<c>> = a \o (b \o <<c>>)
    BY <1>1, <2>1, ConcatAssociative
  <2>4. Append(b, c) \in Seq(Characters)
    BY <2>1, AppendProperties
  <2> QED
    BY <2>1, <2>2, <2>3, <2>4 DEF Text
<1> QED
  BY <1>1, <1>2, EmptySeq, ConcatEmptySeq DEF Text

Associates(a, b, c) == (a \o b) \o c = a \o (b \o c)

LEMMA TextsAssociate ==
    ASSUME NEW a \in Text, NEW b \in Text, NEW c \in Text
    PROVE  Associates(a, b, c)
BY ConcatAssociative DEF Text, Associates

(* One text, put together in two ways. *)
Regrouped(a, b, c, d) == a \o b = c \o d

LEMMA RegroupedAfter ==
    ASSUME NEW r \in Text, NEW a \in Text, NEW b \in Text, NEW c \in Text, NEW d \in Text,
           Regrouped(a, b, c, d)
    PROVE  Regrouped(r \o a, b, r \o c, d)
<1>1. Associates(r, a, b) /\ Associates(r, c, d)
  BY TextsAssociate
<1> QED
  BY <1>1 DEF Regrouped, Associates

LEMMA JoinedOne ==
    ASSUME NEW a \in Text, NEW b \in Text, NEW c \in Characters
    PROVE  a \o Append(b, c) = Append(a \o b, c) /\ a \o b \in Text /\ Append(b, c) \in Text
BY JoinedMore

(* The text that was read last. *)
LEMMA Ending ==
    ASSUME NEW x \in Text, NEW p \in Text, NEW k \in 1..Len(p), EndsIn(x, p, k)
    PROVE  x # <<>> /\ Last(x) = p[k]
<1>1. Len(x) \in Nat /\ Len(p) \in Nat
  BY LenProperties DEF Text
<1>2. Len(x) >= 1 /\ k \in 1..k /\ Len(x) - k + k = Len(x)
  BY <1>1 DEF EndsIn
<1>3. x[Len(x)] = p[k]
  BY <1>2 DEF EndsIn
<1>4. x # <<>>
  BY <1>2, EmptySeq
<1> QED
  BY <1>3, <1>4 DEF Last

LEMMA LastOfMore ==
    ASSUME NEW a \in Text, NEW c \in Characters
    PROVE  Append(a, c) # <<>> /\ Last(Append(a, c)) = c
<1>1. a \in Seq(Characters) /\ Append(a, c) \in Seq(Characters) /\ Len(a) \in Nat
  BY LenProperties, AppendProperties DEF Text
<1>2. Len(Append(a, c)) = Len(a) + 1 /\ Append(a, c)[Len(a) + 1] = c
  BY <1>1, AppendProperties
<1>3. Append(a, c) # <<>>
  BY <1>1, <1>2, EmptySeq
<1> QED
  BY <1>2, <1>3 DEF Last

(* A text is empty, or it is another one and a last character. *)
LEMMA LastAndFront ==
    ASSUME NEW t \in Text, t # <<>>
    PROVE  Front(t) \in Text /\ Last(t) \in Characters /\ t = Append(Front(t), Last(t))
<1>1. PICK n \in Nat : n + 1 = Len(t)
  <2>1. Len(t) \in Nat /\ Len(t) # 0
    BY LenProperties, EmptySeq DEF Text
  <2>2. Len(t) - 1 \in Nat /\ Len(t) - 1 + 1 = Len(t)
    BY <2>1
  <2> QED
    BY <2>2
<1>2. \A i \in 1..(n + 1) : t[i] \in Characters
  BY <1>1, ElementOfSeq DEF Text
<1>f. PICK f : f = SubSeq(t, 1, n)
  OBVIOUS
<1>3. Front(t) = f
  <2>1. Len(t) - 1 = n
    BY <1>1
  <2> QED
    BY <1>f, <2>1 DEF Front
<1>4. f \in Seq(Characters) /\ Len(f) = n /\ \A i \in 1..n : f[i] = t[i]
  <2>1. \A i \in 1..n : t[i] \in Characters
    BY <1>2
  <2>2. /\ f \in Seq(Characters) /\ Len(f) = (IF 1 <= n THEN n - 1 + 1 ELSE 0)
        /\ \A i \in 1..(n - 1 + 1) : f[i] = t[1 + i - 1]
    BY <1>f, <2>1, SubSeqProperties
  <2>3. Len(f) = n /\ n - 1 + 1 = n /\ \A i \in 1..n : 1 + i - 1 = i
    BY <2>2
  <2> QED
    BY <2>2, <2>3
<1>c. PICK c \in Characters : c = t[n + 1]
  BY <1>2
<1>g. PICK g : g = Append(f, c)
  OBVIOUS
<1>5. /\ g \in Seq(Characters) /\ Len(g) = n + 1
      /\ \A i \in 1..n : g[i] = f[i]
      /\ g[n + 1] = c
  BY <1>4, <1>g, AppendProperties
<1>6. \A i \in 1..Len(t) : g[i] = t[i]
  <2>1. \A i \in 1..Len(t) : i \in 1..n \/ i = n + 1
    BY <1>1
  <2> QED
    BY <1>4, <1>5, <1>c, <2>1
<1>7. g = t
  BY <1>1, <1>5, <1>6, SeqEqual DEF Text
<1>8. Last(t) = c
  BY <1>1, <1>c DEF Last
<1> QED
  BY <1>3, <1>4, <1>7, <1>8, <1>g DEF Text

LEMMA LastOfJoined ==
    ASSUME NEW a \in Text, NEW b \in Text, b # <<>>
    PROVE  a \o b # <<>> /\ Last(a \o b) = Last(b)
<1>1. PICK f \in Text, c \in Characters : b = Append(f, c) /\ c = Last(b)
  BY LastAndFront
<1>2. a \o b = Append(a \o f, c) /\ a \o f \in Text
  BY <1>1, JoinedOne
<1> QED
  BY <1>1, <1>2, LastOfMore

-----------------------------------------------------------------------------
(* One text follows another: of the part it holds, or ends in, whatever the other does. *)

Follows(x, y, p) ==
    /\ Holds(x, p) => Holds(y, p)
    /\ \A k \in 0..Len(p) : EndsIn(x, p, k) => EndsIn(y, p, k)

LEMMA FollowsMore ==
    ASSUME NEW x \in Text, NEW y \in Text, NEW p \in Text, p # <<>>, Follows(x, y, p),
           NEW c \in Characters
    PROVE  Follows(Append(x, c), Append(y, c), p)
<1>1. Len(p) \in Nat /\ Append(x, c) \in Text /\ Append(y, c) \in Text
  BY LenProperties, AppendProperties DEF Text
<1>2. ASSUME NEW k \in 0..Len(p), EndsIn(Append(x, c), p, k) PROVE EndsIn(Append(y, c), p, k)
  <2>1. CASE k = 0
    BY <1>1, <2>1, EndsInNothing
  <2>2. CASE k # 0
    <3>1. PICK l \in Nat : k = l + 1 /\ l \in 0..Len(p)
      <4>1. k - 1 \in Nat /\ k = (k - 1) + 1 /\ k - 1 \in 0..Len(p)
        BY <1>1, <2>2
      <4> QED
        BY <4>1
    <3>2. EndsIn(x, p, l) /\ p[l + 1] = c
      BY <1>2, <3>1, EndsInMore
    <3>3. EndsIn(y, p, l)
      BY <3>1, <3>2 DEF Follows
    <3> QED
      BY <3>1, <3>2, <3>3, EndsInMore
  <2> QED
    BY <2>1, <2>2
<1>3. Len(p) \in 0..Len(p)
  BY <1>1
<1>4. Holds(Append(x, c), p) => Holds(Append(y, c), p)
  BY <1>2, <1>3, HoldsMore DEF Follows
<1> QED
  BY <1>2, <1>4 DEF Follows

LEMMA FollowsOn ==
    ASSUME NEW x \in Text, NEW y \in Text, NEW p \in Text, p # <<>>, Follows(x, y, p),
           NEW text \in Text
    PROVE  Follows(x \o text, y \o text, p)
<1> DEFINE S == {t \in Text : Follows(x \o t, y \o t, p)}
<1>1. <<>> \in S
  BY JoinedMore
<1>2. ASSUME NEW a \in Text, NEW c \in Characters, a \in S PROVE Append(a, c) \in S
  <2>1. Follows(Append(x \o a, c), Append(y \o a, c), p)
    BY <1>2, JoinedMore, FollowsMore
  <2>2. x \o Append(a, c) = Append(x \o a, c)
    BY JoinedMore
  <2>3. y \o Append(a, c) = Append(y \o a, c) /\ Append(a, c) \in Text
    BY JoinedMore
  <2> QED
    BY <2>1, <2>2, <2>3
<1>3. text \in S
  <2> HIDE DEF S
  <2> QED
    BY <1>1, <1>2, TextInduction
<1> QED
  BY <1>3

(* What a text holds, a longer one holds. *)
LEMMA PartsHold ==
    ASSUME NEW a \in Text, NEW b \in Text, NEW p \in Text, p # <<>>, Holds(a, p) \/ Holds(b, p)
    PROVE  Holds(a \o b, p)
<1>1. CASE Holds(a, p)
  <2> DEFINE S == {t \in Text : Holds(a \o t, p)}
  <2>1. <<>> \in S
    BY <1>1, JoinedMore
  <2>2. ASSUME NEW t \in Text, NEW c \in Characters, t \in S PROVE Append(t, c) \in S
    <3>1. Holds(Append(a \o t, c), p)
      BY <2>2, JoinedMore, HoldsMore
    <3>2. a \o Append(t, c) = Append(a \o t, c) /\ Append(t, c) \in Text
      BY JoinedMore
    <3> QED
      BY <3>1, <3>2
  <2>3. b \in S
    <3> HIDE DEF S
    <3> QED
      BY <2>1, <2>2, TextInduction
  <2> QED
    BY <2>3
<1>2. CASE Holds(b, p)
  <2>1. Follows(<<>>, a, p)
    BY HoldsNothing, EndsInNothing DEF Follows
  <2>2. Follows(<<>> \o b, a \o b, p)
    BY <2>1, JoinedMore, FollowsOn
  <2> QED
    BY <1>2, <2>2, JoinedMore DEF Follows
<1> QED
  BY <1>1, <1>2

(* The end of a sentence or of a line cuts a part that goes on without one. *)
Closed(text) == text = <<>> \/ Last(text) \in {".", "\n"}

LEMMA NothingStraddles ==
    ASSUME NEW a \in Text, NEW b \in Text, NEW p \in Text, Unbroken(p), Closed(a),
           Holds(a \o b, p)
    PROVE  Holds(a, p) \/ Holds(b, p)
<1> SUFFICES ASSUME ~Holds(a, p) PROVE Holds(b, p)
  OBVIOUS
<1>0. p # <<>> /\ \A i \in 1..Len(p) : p[i] \notin {" ", ".", "\n"}
  BY LenProperties DEF Unbroken, Text
<1>1. Follows(a, <<>>, p)
  <2>1. ASSUME NEW k \in 0..Len(p), EndsIn(a, p, k) PROVE k = 0
    <3> SUFFICES ASSUME k # 0 PROVE FALSE
      OBVIOUS
    <3>1. k \in 1..Len(p)
      BY LenProperties DEF Text
    <3> QED
      BY <1>0, <2>1, <3>1, Ending DEF Closed
  <2> QED
    BY <2>1, EndsInNothing, JoinedMore DEF Follows
<1>2. Follows(a \o b, <<>> \o b, p)
  BY <1>0, <1>1, JoinedMore, FollowsOn
<1> QED
  BY <1>2, JoinedMore DEF Follows

-----------------------------------------------------------------------------
(* Squeezed texts.  A part that is looked for begins and ends with ink.          *)

Worded(p) == p # <<>> /\ IsInk(p[1]) /\ IsInk(p[Len(p)])

(* What ends in a character the part does not have ends in nothing of the part. *)
LEMMA EndsInNoPart ==
    ASSUME NEW t \in Text, NEW p \in Text, t = <<>> \/ \A i \in 1..Len(p) : p[i] # Last(t),
           NEW k \in 0..Len(p), EndsIn(t, p, k)
    PROVE  k = 0
<1> SUFFICES ASSUME k # 0 PROVE FALSE
  OBVIOUS
<1>1. k \in 1..Len(p)
  BY LenProperties DEF Text
<1> QED
  BY <1>1, Ending

(* A blank the one text has and the other has not. *)
LEMMA BlankFollows ==
    ASSUME NEW x \in Text, NEW y \in Text, NEW p \in Text, Worded(p), Follows(x, y, p),
           NEW c \in Characters, IsBlank(c),
           x = <<>> \/ Last(x) = " " \/ (Last(x) = "." /\ OneSentence(p))
    PROVE  Follows(x, Squeeze(y, c), p)
<1>1. CASE y = <<>> \/ Last(y) = " "
  BY <1>1 DEF Squeeze, IsInk
<1>2. CASE ~(y = <<>> \/ Last(y) = " ")
  <2>1. Squeeze(y, c) = Append(y, " ") /\ " " \in Characters
    BY <1>2, PersonaAssumption DEF Squeeze, IsInk
  <2>2. ASSUME NEW k \in 0..Len(p), EndsIn(x, p, k) PROVE k = 0
    <3> SUFFICES ASSUME k # 0 PROVE FALSE
      OBVIOUS
    <3>1. k \in 1..Len(p) /\ k \in DOMAIN p
      BY SomeOfIt
    <3>2. EndsIn(y, p, k)
      BY <2>2 DEF Follows
    <3>3. x # <<>> /\ Last(x) = p[k]
      BY <2>2, <3>1, Ending
    <3>4. Last(y) = p[k]
      BY <3>1, <3>2, Ending
    <3> QED
      BY <1>2, <3>1, <3>3, <3>4 DEF OneSentence
  <2>3. Append(y, " ") \in Text
    BY <2>1, JoinedMore
  <2>4. \A k \in 0..Len(p) : EndsIn(x, p, k) => EndsIn(Append(y, " "), p, k)
    BY <2>2, <2>3, EndsInNothing
  <2>5. Holds(x, p) => Holds(Append(y, " "), p)
    BY <2>1, HoldsMore DEF Follows
  <2> QED
    BY <2>1, <2>4, <2>5 DEF Follows
<1> QED
  BY <1>1, <1>2

LEMMA SqueezeFollows ==
    ASSUME NEW x \in Text, NEW y \in Text, NEW p \in Text, Worded(p), Follows(x, y, p),
           NEW c \in Characters
    PROVE  Follows(Squeeze(x, c), Squeeze(y, c), p)
<1>blank. PICK blank \in Characters : blank = " "
  BY PersonaAssumption
<1>0. p # <<>> /\ Len(p) \in Nat \ {0}
  BY Lengths DEF Worded
<1>1. CASE IsInk(c)
  <2>1. Squeeze(x, c) = Append(x, c) /\ Squeeze(y, c) = Append(y, c)
    BY <1>1 DEF Squeeze
  <2> QED
    BY <1>0, <2>1, FollowsMore
<1>2. CASE ~IsInk(c) /\ (x = <<>> \/ Last(x) = " ")
  <2>1. Squeeze(x, c) = x
    BY <1>2 DEF Squeeze
  <2>2. Follows(x, Squeeze(y, c), p)
    BY <1>2, BlankFollows DEF IsInk
  <2> QED
    BY <2>1, <2>2
<1>3. CASE ~IsInk(c) /\ ~(x = <<>> \/ Last(x) = " ")
  <2>1. Squeeze(x, c) = Append(x, blank)
    BY <1>3, <1>blank DEF Squeeze
  <2>2. CASE ~(y = <<>> \/ Last(y) = " ")
    <3>1. Squeeze(y, c) = Append(y, blank)
      BY <1>3, <1>blank, <2>2 DEF Squeeze
    <3>2. Follows(Append(x, blank), Append(y, blank), p)
      BY <1>0, FollowsMore
    <3> QED
      BY <2>1, <3>1, <3>2
  <2>3. CASE y = <<>> \/ Last(y) = " "
    <3>1. Squeeze(y, c) = y
      BY <1>3, <2>3 DEF Squeeze
    <3>2. ASSUME NEW k \in 0..Len(p), EndsIn(Append(x, blank), p, k) PROVE k = 0
      <4> SUFFICES ASSUME k # 0 PROVE FALSE
        OBVIOUS
      <4>1. PICK l \in Nat : k = l + 1 /\ l \in 0..Len(p)
        <5>1. k - 1 \in Nat /\ k = (k - 1) + 1 /\ k - 1 \in 0..Len(p)
          OBVIOUS
        <5> QED
          BY <5>1
      <4>2. EndsIn(x, p, l) /\ p[l + 1] = blank
        BY <3>2, <4>1, EndsInMore
      <4>3. l # 0
        <5>1. l = 0 => p[1] = blank
          BY <4>2
        <5> QED
          BY <1>blank, <5>1 DEF Worded, IsInk, IsBlank
      <4>4. l \in 1..Len(p) /\ EndsIn(y, p, l)
        BY <1>0, <4>1, <4>2, <4>3 DEF Follows
      <4>5. Last(x) = p[l]
        BY <4>2, <4>4, Ending
      <4>6. y # <<>> /\ Last(y) = p[l]
        BY <4>4, Ending
      <4> QED
        BY <1>3, <2>3, <4>5, <4>6
    <3>3. Len(p) # 0 /\ Len(p) \in 0..Len(p)
      BY <1>0
    <3>4. Holds(Append(x, blank), p) => Holds(y, p)
      BY <1>0, <3>2, <3>3, HoldsMore DEF Follows
    <3>5. \A k \in 0..Len(p) : EndsIn(Append(x, blank), p, k) => EndsIn(y, p, k)
      BY <3>2, EndsInNothing
    <3> QED
      BY <2>1, <3>1, <3>4, <3>5 DEF Follows
  <2> QED
    BY <2>2, <2>3
<1> QED
  BY <1>1, <1>2, <1>3

(* Taking the blanks off the ends of a text takes no part from it. *)
LEMMA NormalHolds ==
    ASSUME NEW t \in Text, NEW p \in Text, Worded(p)
    PROVE  /\ Normalize(t) \in Text
           /\ Holds(Normalize(t), p) <=> Holds(Squeezed(t), p)
<1>x. PICK x \in Text : x = Squeezed(t)
  BY SqueezedMore
<1>1. CASE ~(x # <<>> /\ Last(x) = " ")
  BY <1>x, <1>1 DEF Normalize
<1>2. CASE x # <<>> /\ Last(x) = " "
  <2>1. Normalize(t) = Front(x)
    BY <1>x, <1>2 DEF Normalize
  <2>2. Front(x) \in Text /\ x = Append(Front(x), " ") /\ " " \in Characters
    BY <1>2, LastAndFront
  <2>3. ~EndsIn(x, p, Len(p))
    <3>1. Len(p) \in 1..Len(p)
      BY LenProperties, EmptySeq DEF Text, Worded
    <3> QED
      BY <1>2, <3>1, Ending DEF Worded, IsInk, IsBlank
  <2>4. Holds(x, p) <=> Holds(Front(x), p)
    BY <2>2, <2>3, HoldsMore
  <2> QED
    BY <1>x, <2>1, <2>2, <2>4
<1> QED
  BY <1>1, <1>2

(* For a part without blanks nothing depends on them. *)
LEMMA UnbrokenFollows ==
    ASSUME NEW p \in Text, Unbroken(p), NEW text \in Text
    PROVE  Follows(text, Squeezed(text), p) /\ Follows(Squeezed(text), text, p)
<1>0. /\ p # <<>> /\ Len(p) # 0 /\ Len(p) \in 0..Len(p) /\ " " \in Characters
      /\ \A i \in 1..Len(p) : p[i] \notin {" ", "\n"}
  BY Lengths, PersonaAssumption DEF Unbroken
<1> DEFINE S == {t \in Text : Follows(t, Squeezed(t), p) /\ Follows(Squeezed(t), t, p)}
<1>1. <<>> \in S
  BY SqueezedMore, JoinedMore DEF Follows
<1>2. ASSUME NEW a \in Text, NEW c \in Characters, a \in S PROVE Append(a, c) \in S
  <2>x. PICK x \in Text : x = Squeezed(a)
    BY SqueezedMore
  <2>1. Squeezed(Append(a, c)) = Squeeze(x, c) /\ Append(a, c) \in Text
    BY <2>x, SqueezedMore, JoinedMore
  <2>2. Follows(a, x, p) /\ Follows(x, a, p)
    BY <1>2, <2>x
  <2>3. CASE IsInk(c)
    <3>1. Squeeze(x, c) = Append(x, c)
      BY <2>3 DEF Squeeze
    <3>2. Follows(Append(a, c), Append(x, c), p) /\ Follows(Append(x, c), Append(a, c), p)
      BY <1>0, <2>2, FollowsMore
    <3> QED
      BY <2>1, <3>1, <3>2
  <2>4. CASE IsBlank(c)
    <3>1. ASSUME NEW k \in 0..Len(p), EndsIn(Append(a, c), p, k) PROVE k = 0
      <4>1. \A i \in 1..Len(p) : p[i] # Last(Append(a, c))
        BY <1>0, <2>4, LastOfMore DEF IsBlank
      <4> QED
        BY <2>1, <3>1, <4>1, EndsInNoPart
    <3>y. PICK y \in Text : y = Squeeze(x, c)
      BY <2>1, SqueezedMore
    <3>2. /\ y = <<>> \/ Last(y) = " "
          /\ y = x \/ y = Append(x, " ")
      BY <1>0, <2>4, <3>y, LastOfMore DEF Squeeze, IsInk
    <3>3. ASSUME NEW k \in 0..Len(p), EndsIn(y, p, k) PROVE k = 0
      BY <1>0, <3>2, <3>3, EndsInNoPart
    <3>4. Holds(Append(a, c), p) <=> Holds(a, p)
      BY <1>0, <3>1, HoldsMore
    <3>5. Holds(y, p) <=> Holds(x, p)
      BY <1>0, <3>2, <3>3, HoldsMore
    <3>6. Holds(a, p) <=> Holds(x, p)
      BY <2>2 DEF Follows
    <3>7. Follows(Append(a, c), y, p) /\ Follows(y, Append(a, c), p)
      BY <2>1, <3>1, <3>3, <3>4, <3>5, <3>6, EndsInNothing DEF Follows
    <3> QED
      BY <2>1, <3>y, <3>7
  <2> QED
    BY <2>3, <2>4 DEF IsInk
<1>3. text \in S
  <2> HIDE DEF S
  <2> QED
    BY <1>1, <1>2, TextInduction
<1> QED
  BY <1>3

-----------------------------------------------------------------------------
(* Blank text, and what is left without it *)

LEMMA BlankMore ==
    ASSUME NEW a \in Text, NEW c \in Characters
    PROVE  Blank(Append(a, c)) <=> Blank(a) /\ IsBlank(c)
<1>n. PICK n \in Nat : n = Len(a)
  BY Lengths
<1>b. PICK b \in Text : b = Append(a, c)
  BY JoinedMore
<1>1. /\ DOMAIN a = 1..n /\ DOMAIN b = 1..(n + 1)
      /\ b[n + 1] = c /\ \A i \in 1..n : b[i] = a[i]
  BY <1>n, <1>b, AppendIsMore, Lengths DEF OneMore
<1>2. n + 1 \in 1..(n + 1) /\ \A i \in 1..(n + 1) : i \in 1..n \/ i = n + 1
  OBVIOUS
<1>3. \A i \in 1..n : i \in 1..(n + 1)
  OBVIOUS
<1> QED
  BY <1>b, <1>1, <1>2, <1>3 DEF Blank

LEMMA InkOfJoined ==
    ASSUME NEW a \in Text, NEW b \in Text
    PROVE  Ink(a \o b) = Ink(a) \o Ink(b)
<1>a. PICK x \in Text : x = Ink(a)
  BY InkMore
<1> DEFINE S == {t \in Text : Ink(a \o t) = x \o Ink(t)}
<1>1. <<>> \in S
  BY <1>a, InkMore, JoinedMore
<1>2. ASSUME NEW t \in Text, NEW c \in Characters, t \in S PROVE Append(t, c) \in S
  <2>1. /\ Append(t, c) \in Text /\ a \o t \in Text
        /\ a \o Append(t, c) = Append(a \o t, c)
    BY JoinedMore
  <2>2. Ink(a \o Append(t, c)) = KeepInk(x \o Ink(t), c)
    BY <1>2, <2>1, InkMore
  <2>3. Ink(Append(t, c)) = KeepInk(Ink(t), c) /\ Ink(t) \in Text
    BY InkMore
  <2>4. x \o KeepInk(Ink(t), c) = KeepInk(x \o Ink(t), c)
    BY <2>3, JoinedMore DEF KeepInk
  <2> QED
    BY <2>1, <2>2, <2>3, <2>4
<1>3. b \in S
  <2> HIDE DEF S
  <2> QED
    BY <1>1, <1>2, TextInduction
<1> QED
  BY <1>a, <1>3

LEMMA InkOfBlank ==
    ASSUME NEW text \in Text, Blank(text)
    PROVE  Ink(text) = <<>>
<1> DEFINE S == {t \in Text : Blank(t) => Ink(t) = <<>>}
<1>1. <<>> \in S
  BY InkMore, JoinedMore
<1>2. ASSUME NEW a \in Text, NEW c \in Characters, a \in S PROVE Append(a, c) \in S
  <2>1. Append(a, c) \in Text
    BY JoinedMore
  <2>2. Ink(Append(a, c)) = KeepInk(Ink(a), c)
    BY InkMore
  <2>3. Blank(Append(a, c)) => Blank(a) /\ IsBlank(c)
    BY BlankMore
  <2> QED
    BY <1>2, <2>1, <2>2, <2>3 DEF KeepInk, IsInk
<1>3. text \in S
  <2> HIDE DEF S
  <2> QED
    BY <1>1, <1>2, TextInduction
<1> QED
  BY <1>3

LEMMA UncertaintyMore ==
    ASSUME NEW a \in Text, NEW c \in Characters
    PROVE  ContainsUncertainty(Append(a, c)) <=> ContainsUncertainty(a) \/ c = "may"
<1>n. PICK n \in Nat : n = Len(a)
  BY Lengths
<1>b. PICK b \in Text : b = Append(a, c)
  BY JoinedMore
<1>1. Len(b) = n + 1 /\ b[n + 1] = c /\ \A i \in 1..n : b[i] = a[i]
  BY <1>n, <1>b, AppendIsMore DEF OneMore
<1>2. n + 1 \in 1..(n + 1) /\ \A i \in 1..(n + 1) : i \in 1..n \/ i = n + 1
  OBVIOUS
<1>3. \A i \in 1..n : i \in 1..(n + 1)
  OBVIOUS
<1> QED
  BY <1>n, <1>b, <1>1, <1>2, <1>3 DEF ContainsUncertainty, Contains

(* No marker of uncertainty is blank. *)
LEMMA InkKeepsUncertainty ==
    ASSUME NEW text \in Text
    PROVE  ContainsUncertainty(text) <=> ContainsUncertainty(Ink(text))
<1> DEFINE S == {t \in Text : ContainsUncertainty(t) <=> ContainsUncertainty(Ink(t))}
<1>1. <<>> \in S
  BY InkMore, JoinedMore
<1>2. ASSUME NEW a \in Text, NEW c \in Characters, a \in S PROVE Append(a, c) \in S
  <2>1. Append(a, c) \in Text /\ Ink(a) \in Text
    BY InkMore, JoinedMore
  <2>2. Ink(Append(a, c)) = KeepInk(Ink(a), c)
    BY InkMore
  <2>3. c = "may" => IsInk(c)
    BY DEF IsInk, IsBlank
  <2>4. ContainsUncertainty(Append(a, c)) <=> ContainsUncertainty(a) \/ c = "may"
    BY UncertaintyMore
  <2>5. ContainsUncertainty(KeepInk(Ink(a), c)) <=> ContainsUncertainty(Ink(a)) \/ c = "may"
    BY <2>1, <2>3, UncertaintyMore DEF KeepInk
  <2> QED
    BY <1>2, <2>1, <2>2, <2>4, <2>5
<1>3. text \in S
  <2> HIDE DEF S
  <2> QED
    BY <1>1, <1>2, TextInduction
<1> QED
  BY <1>3

-----------------------------------------------------------------------------
(* Text *)

LEMMA EmptyIsBlank == <<>> \in Text /\ Blank(<<>>)
<1>1. DOMAIN <<>> = {}
  OBVIOUS
<1> QED
  BY <1>1, EmptySeq DEF Text, Blank

LEMMA BlankTogether ==
    ASSUME NEW a \in Text, NEW b \in Text
    PROVE  a \o b \in Text /\ (Blank(a \o b) <=> Blank(a) /\ Blank(b))
<1> DEFINE S == {t \in Text : a \o t \in Text /\ (Blank(a \o t) <=> Blank(a) /\ Blank(t))}
<1>1. <<>> \in S
  BY EmptyIsBlank, JoinedMore
<1>2. ASSUME NEW t \in Text, NEW c \in Characters, t \in S PROVE Append(t, c) \in S
  <2>1. /\ Append(t, c) \in Text /\ a \o t \in Text
        /\ a \o Append(t, c) = Append(a \o t, c) /\ Append(a \o t, c) \in Text
    BY JoinedMore
  <2>2. Blank(Append(a \o t, c)) <=> Blank(a \o t) /\ IsBlank(c)
    BY <2>1, BlankMore
  <2>3. Blank(Append(t, c)) <=> Blank(t) /\ IsBlank(c)
    BY BlankMore
  <2> QED
    BY <1>2, <2>1, <2>2, <2>3
<1>3. b \in S
  <2> HIDE DEF S
  <2> QED
    BY <1>1, <1>2, TextInduction
<1> QED
  BY <1>3

LEMMA BoundaryIsInText ==
    ASSUME NEW text \in Text
    PROVE  /\ LastSentenceBoundary(text) \in 0..Len(text)
           /\ \/ LastSentenceBoundary(text) = 0
              \/ text[LastSentenceBoundary(text)] \in {".", "\n"}
<1> PICK n \in Nat : n = Len(text)
  BY LenProperties DEF Text
<1> DEFINE Ends == {i \in 0..n : i = 0 \/ text[i] \in {".", "\n"}}
<1>1. 0 \in Ends
  OBVIOUS
<1>2. PICK i \in Ends : \A j \in Ends : j <= i
  <2> HIDE DEF Ends
  <2>1. Ends \subseteq 0..n
    BY DEF Ends
  <2> QED
    BY <1>1, <2>1, LastExists
<1>3. \A j \in (i + 1)..n : j \in 0..n /\ ~(j <= i)
  OBVIOUS
<1>4. /\ i \in 0..Len(text)
      /\ i = 0 \/ text[i] \in {".", "\n"}
      /\ \A j \in (i + 1)..Len(text) : text[j] \notin {".", "\n"}
  BY <1>2, <1>3
<1> QED
  BY <1>4 DEF LastSentenceBoundary

(* The two parts of a text that is cut at a place. *)
CutAt(text, end, a, b) == a = SubSeq(text, 1, end) /\ b = SubSeq(text, end + 1, Len(text))

LEMMA CutInTwo ==
    ASSUME NEW text \in Text, NEW end \in 0..Len(text), NEW a, NEW b, CutAt(text, end, a, b)
    PROVE  /\ a \in Text /\ b \in Text /\ text = a \o b
           /\ end = 0 => a = <<>>
           /\ end > 0 => Last(a) = text[end]
           /\ end = Len(text) => a = text
<1>1. text \in Seq(Characters)
  BY DEF Text
<1>ab. a = SubSeq(text, 1, end) /\ b = SubSeq(text, end + 1, Len(text))
  BY DEF CutAt
<1>n. PICK n \in Nat : n = Len(text)
  BY Lengths
<1>2. \A i \in 1..n : text[i] \in Characters
  BY <1>1, <1>n, ElementOfSeq
<1>3. /\ a \in Seq(Characters) /\ Len(a) = (IF 1 <= end THEN end - 1 + 1 ELSE 0)
      /\ \A i \in 1..(end - 1 + 1) : a[i] = text[1 + i - 1]
  <2>1. \A i \in 1..end : text[i] \in Characters
    BY <1>n, <1>2
  <2> QED
    BY <1>n, <1>ab, <2>1, SubSeqProperties
<1>4. b \in Seq(Characters)
  <2>1. \A i \in (end + 1)..n : text[i] \in Characters
    BY <1>n, <1>2
  <2>2. end + 1 \in Int /\ n \in Int
    BY <1>n
  <2> QED
    BY <1>n, <1>ab, <2>1, <2>2, SubSeqProperties
<1>5. text = a \o b
  <2>1. 1 \in 1..(Len(text) + 1) /\ end \in (1 - 1)..Len(text) /\ Len(text) \in end..Len(text)
    BY <1>n
  <2>2. a \o b = SubSeq(text, 1, Len(text))
    BY <1>1, <1>ab, <2>1, ConcatAdjacentSubSeq
  <2> QED
    BY <1>1, <2>2, SubSeqFull
<1>6. end = 0 => a = <<>>
  BY <1>ab, SubSeqEmpty
<1>7. end > 0 => Last(a) = text[end]
  <2> SUFFICES ASSUME end > 0 PROVE Last(a) = text[end]
    OBVIOUS
  <2>1. Len(a) = end /\ end \in 1..(end - 1 + 1) /\ 1 + end - 1 = end
    BY <1>3, <1>n
  <2>2. a[end] = text[end]
    BY <1>3, <2>1
  <2> QED
    BY <2>1, <2>2 DEF Last
<1>8. end = Len(text) => a = text
  BY <1>1, <1>ab, SubSeqFull
<1> QED
  BY <1>3, <1>4, <1>5, <1>6, <1>7, <1>8 DEF Text

-----------------------------------------------------------------------------
(* The stream guard *)

(* What a verdict may do to the guard: the user has seen something afterwards
   exactly if he had before or the released segment is not blank. *)
Decided(g, v) ==
    /\ v.guard \in Guard /\ v.segment \in Text /\ v.allowed \in BOOLEAN
    /\ v.guard.visible <=> g.visible \/ ~Blank(v.segment)

LEMMA ReleaseDecides ==
    ASSUME NEW g \in Guard, NEW end \in 0..Len(g.pending), NEW v, v = ReleaseText(g, end)
    PROVE  Decided(g, v)
<1>1. g.pending \in Seq(Characters) /\ Len(g.pending) \in Nat /\ g.visible \in BOOLEAN
  BY LenProperties DEF Guard, Text
<1>segment. PICK segment : segment = SubSeq(g.pending, 1, end)
  OBVIOUS
<1>rest. PICK rest : rest = SubSeq(g.pending, end + 1, Len(g.pending))
  OBVIOUS
<1>seen. PICK seen : seen = (g.visible \/ ~Blank(segment))
  OBVIOUS
<1>2. segment \in Text /\ rest \in Text
  <2>1. \A i \in 1..Len(g.pending) : g.pending[i] \in Characters
    BY <1>1, ElementOfSeq
  <2>2. segment \in Seq(Characters)
    BY <1>1, <1>segment, <2>1, SubSeqProperties
  <2>3. rest \in Seq(Characters)
    BY <1>1, <1>rest, <2>1, SubSeqProperties
  <2> QED
    BY <2>2, <2>3 DEF Text
<1>3. seen \in BOOLEAN
  BY <1>seen DEF Blank
<1>4. v = [guard |-> [g EXCEPT !.pending = rest, !.visible = seen], segment |-> segment, allowed |-> TRUE]
  BY <1>segment, <1>rest, <1>seen DEF ReleaseText, Verdict, Guard
<1>5. v.guard = [g EXCEPT !.pending = rest, !.visible = seen] /\ v.segment = segment /\ v.allowed = TRUE
  BY <1>4
<1>6. v.guard \in Guard /\ v.guard.visible = seen
  BY <1>2, <1>3, <1>5 DEF Guard
<1> QED
  BY <1>2, <1>5, <1>6, <1>seen DEF Decided

(* Taking a chunk in, or refusing the text, shows nothing. *)
LEMMA KeepDecides ==
    ASSUME NEW g \in Guard, NEW h \in Guard, h.visible = g.visible, NEW allowed \in BOOLEAN,
           NEW v, v = Verdict(h, <<>>, allowed)
    PROVE  Decided(g, v)
<1>1. v.guard = h /\ v.segment = <<>> /\ v.allowed = allowed
  BY DEF Verdict
<1> QED
  BY <1>1, EmptyIsBlank DEF Decided

LEMMA AddDecides ==
    ASSUME NEW g \in Guard, NEW chunk \in Text, NEW v, v = Add(g, chunk)
    PROVE  Decided(g, v)
<1>taken. PICK taken : taken = [g EXCEPT !.pending = @ \o chunk, !.complete = @ \o chunk]
  OBVIOUS
<1>1. g.pending \in Text /\ g.complete \in Text
  BY DEF Guard
<1>2. g.pending \o chunk \in Text /\ g.complete \o chunk \in Text
  BY <1>1, BlankTogether
<1>3. taken \in Guard /\ taken.visible = g.visible
  BY <1>2, <1>taken DEF Guard
<1>full. PICK full : full = [taken EXCEPT !.fullBuffer = TRUE]
  OBVIOUS
<1>4. full \in Guard /\ full.visible = g.visible
  BY <1>3, <1>full DEF Guard
<1>5. \/ v = Verdict(g, <<>>, TRUE) \/ v = Verdict(taken, <<>>, FALSE)
      \/ v = Verdict(taken, <<>>, TRUE) \/ v = Verdict(full, <<>>, TRUE)
      \/ v = ReleaseText(taken, LastSentenceBoundary(taken.pending))
  BY <1>taken, <1>full DEF Add
<1>6. CASE v = ReleaseText(taken, LastSentenceBoundary(taken.pending))
  <2>1. LastSentenceBoundary(taken.pending) \in 0..Len(taken.pending)
    BY <1>3, BoundaryIsInText DEF Guard
  <2>2. Decided(taken, v)
    BY <1>3, <1>6, <2>1, ReleaseDecides
  <2> QED
    BY <1>3, <2>2 DEF Decided
<1> QED
  BY <1>3, <1>4, <1>5, <1>6, KeepDecides

LEMMA FinalizeDecides ==
    ASSUME NEW g \in Guard, NEW low, NEW v, v = Finalize(g, low)
    PROVE  Decided(g, v) /\ (~v.allowed => v.guard = g)
<1>1. CASE v = ReleaseText(g, Len(g.pending))
  <2>1. Len(g.pending) \in 0..Len(g.pending)
    BY LenProperties DEF Guard, Text
  <2>2. v.allowed = TRUE
    BY <1>1 DEF ReleaseText, Verdict
  <2> QED
    BY <1>1, <2>1, <2>2, ReleaseDecides
<1>2. CASE v = Verdict(g, <<>>, FALSE)
  <2>1. v.guard = g
    BY <1>2 DEF Verdict
  <2> QED
    BY <1>2, <2>1, KeepDecides
<1> QED
  BY <1>1, <1>2 DEF Finalize

-----------------------------------------------------------------------------
(* The agent *)

(* Showing a segment keeps track of it. *)
LEMMA ShowTracks ==
    ASSUME TypeOK, Tracked(guard, accepted, shown), NEW v, Decided(guard, v), Show(v.segment)
    PROVE  /\ accepted' \in Text /\ shown' \in Text
           /\ Tracked(v.guard, accepted', shown')
<1>1. accepted = shown /\ shown \in Text /\ v.segment \in Text
  BY DEF TypeOK, Tracked, Decided
<1>2. CASE Blank(v.segment)
  BY <1>1, <1>2 DEF Show, Tracked, Decided
<1>3. CASE ~Blank(v.segment)
  <2>1. accepted' = shown \o v.segment /\ shown' = shown \o v.segment
    BY <1>1, <1>3 DEF Show
  <2>2. shown' \in Text /\ ~Blank(shown')
    BY <1>1, <1>3, <2>1, BlankTogether
  <2> QED
    BY <1>3, <2>1, <2>2 DEF Tracked, Decided
<1> QED
  BY <1>2, <1>3

(* A fallback after a failure means that nothing was shown, also when the sink
   refused the segment: then the guard has noted it as visible. *)
LEMMA FailuresShowNothing ==
    ASSUME TypeOK, Tracked(guard, accepted, shown), NEW v, Decided(guard, v),
           Failed(v.guard) = "fallback" \/ ~v.guard.visible
    PROVE  ~ShowFails(v.segment) /\ shown = <<>>
<1>1. ~v.guard.visible
  BY DEF Failed
<1>2. Blank(v.segment) /\ ~guard.visible
  BY <1>1 DEF Decided
<1> QED
  BY <1>2 DEF ShowFails, Tracked

LEMMA ReceiveKeeps ==
    ASSUME TypeOK, ShownInv, NEW chunk \in Chunks, Receive(chunk)
    PROVE  TypeOK' /\ ShownInv'
<1>v. PICK v : v = Add(guard, chunk)
  OBVIOUS
<1>1. Decided(guard, v)
  BY <1>v, AddDecides, PersonaAssumption DEF TypeOK, Text
<1>2. result = "none" /\ Tracked(guard, accepted, shown) /\ guard' = v.guard
  BY <1>v DEF Receive, ShownInv
<1>3. UNCHANGED <<lowConfidence, failClosed>> /\ sawContent' \in BOOLEAN
  BY DEF Receive, TypeOK, Blank
<1>4. CASE v.allowed /\ Show(v.segment) /\ UNCHANGED result
  <2>1. /\ accepted' \in Text /\ shown' \in Text
        /\ Tracked(v.guard, accepted', shown')
    BY <1>1, <1>2, <1>4, ShowTracks
  <2>2. TypeOK'
    BY <1>1, <1>2, <1>3, <1>4, <2>1 DEF TypeOK, Decided
  <2>3. Tracked(guard', accepted', shown')
    BY <1>2, <2>1
  <2>4. result' = "none"
    BY <1>2, <1>4
  <2> QED
    BY <2>2, <2>3, <2>4 DEF ShownInv, CommittedIsShown, Tracked
<1>5. CASE result' = Failed(v.guard) /\ accepted' = accepted
           /\ (shown' = shown \/ ShowFails(v.segment))
  <2>1. result' \in {"fallback", "error"}
    BY <1>5 DEF Failed
  <2>2. shown' \in Text
    <3>1. shown \o v.segment \in Text
      BY <1>1, BlankTogether DEF TypeOK, Decided
    <3> QED
      BY <1>5, <3>1 DEF TypeOK, ShowFails
  <2>3. TypeOK'
    BY <1>1, <1>2, <1>3, <1>5, <2>1, <2>2 DEF TypeOK, Decided
  <2>4. result' = "fallback" => shown' = <<>>
    BY <1>1, <1>2, <1>5, FailuresShowNothing
  <2> QED
    BY <2>1, <2>3, <2>4 DEF ShownInv, CommittedIsShown
<1> QED
  BY <1>v, <1>4, <1>5 DEF Receive, ShowFails

LEMMA FinishKeeps ==
    ASSUME TypeOK, ShownInv, Finish
    PROVE  TypeOK' /\ ShownInv'
<1>v. PICK v : v = Finalize(guard, lowConfidence)
  OBVIOUS
<1>1. Decided(guard, v) /\ (~v.allowed => v.guard = guard)
  BY <1>v, FinalizeDecides DEF TypeOK
<1>2. result = "none" /\ Tracked(guard, accepted, shown) /\ guard' = v.guard
  BY <1>v DEF Finish, ShownInv
<1>3. UNCHANGED <<lowConfidence, failClosed, sawContent>>
  BY DEF Finish
<1>4. CASE v.allowed /\ Show(v.segment)
           /\ result' = IF Blank(accepted') THEN "fallback" ELSE "generated"
  <2>1. /\ accepted' \in Text /\ shown' \in Text
        /\ Tracked(v.guard, accepted', shown')
    BY <1>1, <1>2, <1>4, ShowTracks
  <2>2. TypeOK'
    BY <1>1, <1>2, <1>3, <1>4, <2>1 DEF TypeOK, Decided
  <2>3. accepted' = shown' /\ (Blank(shown') => shown' = <<>>)
    BY <2>1 DEF Tracked
  <2>4. /\ result' = "generated" => accepted' = shown' /\ ~Blank(shown')
        /\ result' = "fallback" => shown' = <<>>
        /\ result' # "none"
    BY <1>4, <2>3
  <2> QED
    BY <2>2, <2>4 DEF ShownInv, CommittedIsShown, Blank
<1>5. CASE ~v.allowed /\ UNCHANGED <<accepted, shown>>
           /\ result' = IF guard.visible THEN "error" ELSE "fallback"
  <2>1. TypeOK'
    BY <1>1, <1>2, <1>3, <1>5 DEF TypeOK, Decided
  <2>2. result' = "fallback" => shown' = <<>>
    BY <1>2, <1>5 DEF Tracked
  <2> QED
    BY <1>5, <2>1, <2>2 DEF ShownInv, CommittedIsShown
<1>6. CASE ShowFails(v.segment) /\ result' = "error"
  <2>1. shown' \in Text
    <3>1. shown \o v.segment \in Text
      BY <1>1, BlankTogether DEF TypeOK, Decided
    <3> QED
      BY <1>6, <3>1 DEF TypeOK, ShowFails
  <2>2. TypeOK'
    BY <1>1, <1>2, <1>3, <1>6, <2>1 DEF TypeOK, Decided, ShowFails
  <2> QED
    BY <1>6, <2>2 DEF ShownInv, CommittedIsShown
<1> QED
  BY <1>v, <1>4, <1>5, <1>6 DEF Finish

LEMMA StepKeeps == TypeOK /\ ShownInv /\ [Next]_vars => TypeOK' /\ ShownInv'
<1> SUFFICES ASSUME TypeOK, ShownInv, [Next]_vars PROVE TypeOK' /\ ShownInv'
  OBVIOUS
<1>1. ASSUME NEW chunk \in Chunks, Receive(chunk) PROVE TypeOK' /\ ShownInv'
  BY <1>1, ReceiveKeeps
<1>2. CASE Finish
  BY <1>2, FinishKeeps
<1>3. CASE BreakOff
  <2>1. result = "none" /\ result' \in {"fallback", "error"}
    BY <1>3 DEF BreakOff, Failed
  <2>2. TypeOK'
    BY <1>3, <2>1 DEF BreakOff, TypeOK
  <2>3. result' = "fallback" => shown' = <<>>
    BY <1>3 DEF BreakOff, Failed, ShownInv, Tracked
  <2> QED
    BY <2>1, <2>2, <2>3 DEF ShownInv, CommittedIsShown
<1>4. CASE Cancel
  BY <1>4 DEF Cancel, TypeOK, ShownInv, CommittedIsShown
<1>5. CASE UNCHANGED vars
  BY <1>5 DEF vars, TypeOK, ShownInv, CommittedIsShown, Tracked, Blank
<1> QED
  BY <1>1, <1>2, <1>3, <1>4, <1>5 DEF Next

LEMMA ShownInvariant == Spec => [](TypeOK /\ ShownInv)
<1>1. Init => TypeOK /\ ShownInv
  <2> SUFFICES ASSUME Init PROVE TypeOK /\ ShownInv
    OBVIOUS
  <2>1. guard \in Guard /\ guard.visible = FALSE
    BY EmptyIsBlank DEF Init, NewGuard, Guard
  <2> QED
    BY <2>1, EmptyIsBlank DEF Init, TypeOK, ShownInv, CommittedIsShown, Tracked
<1>2. TypeOK /\ ShownInv /\ [Next]_vars => (TypeOK /\ ShownInv)'
  BY StepKeeps
<1> QED
  BY <1>1, <1>2, PTL DEF Spec

(* Every variable keeps its type, the segments released among them: the sentence
   boundary the guard cuts at always lies within the pending text
   (lastSentenceBoundary, internal/persona). *)
THEOREM TypeCorrect == Spec => []TypeOK
BY ShownInvariant, PTL

(* A generated answer is exactly what the user saw, and a fallback is only ever
   returned when nothing was shown, for every way the provider cuts its text,
   every failure of the sink and every end of the stream (PersonaAgent.Stream,
   HasVisibleOutput): while the text streams, the guard's flag says exactly
   whether the user saw anything. *)
THEOREM CommitsAreShown == Spec => []CommittedIsShown
<1>1. ShownInv => CommittedIsShown
  BY DEF ShownInv
<1> QED
  BY <1>1, ShownInvariant, PTL

-----------------------------------------------------------------------------
(* What was released, and what of it was shown.  All but the blank segments are. *)

Released(r, seen) ==
    /\ Ink(seen) = Ink(r)
    /\ \A claim \in Claims : claim # <<>> /\ OneSentence(claim) =>
            Follows(Squeezed(seen), Squeezed(r), claim)

Linked(g, seen) ==
    /\ \E r \in Text : g.complete = r \o g.pending /\ Released(r, seen)
    /\ Closed(seen)

NoWordShown(seen) == \A claim \in Claims : Unbroken(claim) => ~Holds(seen, claim)

CleanOf(seen) == \A claim \in Claims : OneSentence(claim) => ~Holds(Normalize(seen), claim)

TextInv ==
    /\ result = "none" => Linked(guard, shown)
    /\ NoWordShown(shown)
    /\ result = "generated" => /\ Ink(guard.complete) = Ink(shown)
                               /\ CleanOf(shown)
                               /\ lowConfidence => ContainsUncertainty(shown)

LEMMA ClaimsAreWorded ==
    ASSUME NEW claim \in Claims
    PROVE  claim \in Text /\ (claim # <<>> => Worded(claim))
<1>1. claim \in Text
  BY PersonaAssumption DEF Text
<1>2. claim # <<>> => {Head(claim), Last(claim)} \cap {" ", "\n"} = {}
  BY ClaimsAssumption
<1>3. claim # <<>> => Head(claim) = claim[1] /\ Last(claim) = claim[Len(claim)]
  BY <1>1 DEF Text, Last
<1>4. claim # <<>> => claim[1] \notin {" ", "\n"} /\ claim[Len(claim)] \notin {" ", "\n"}
  BY <1>2, <1>3
<1> QED
  BY <1>1, <1>4 DEF Worded, IsInk, IsBlank

LEMMA NormalIsText ==
    ASSUME NEW t \in Text
    PROVE  Normalize(t) \in Text
<1>x. PICK x \in Text : x = Squeezed(t)
  BY SqueezedMore
<1>1. CASE ~(x # <<>> /\ Last(x) = " ")
  BY <1>x, <1>1 DEF Normalize
<1>2. CASE x # <<>> /\ Last(x) = " "
  <2>1. Normalize(t) = Front(x)
    BY <1>x, <1>2 DEF Normalize
  <2> QED
    BY <1>2, <2>1, LastAndFront
<1> QED
  BY <1>1, <1>2

(* A text that is not forbidden holds no claim, and the claims say something. *)
LEMMA NotForbidden ==
    ASSUME NEW t \in Text, ~Forbidden(t), NEW claim \in Claims
    PROVE  claim \in Text /\ Worded(claim) /\ ~Holds(Squeezed(t), claim)
<1>1. claim \in Text /\ ~Holds(Normalize(t), claim)
  BY ClaimsAreWorded DEF Forbidden
<1>2. claim # <<>>
  <2> SUFFICES ASSUME claim = <<>> PROVE FALSE
    OBVIOUS
  <2>x. PICK x \in Text : x = Normalize(t)
    BY NormalIsText
  <2>1. Len(x) \in Nat /\ Len(claim) = 0
    BY Lengths, EmptySeq
  <2>2. 0 \in 0..(Len(x) - Len(claim)) /\ 1..Len(claim) = {}
    BY <2>1
  <2>3. Holds(x, claim)
    BY <1>1, <2>2, HoldsAt
  <2> QED
    BY <1>1, <2>x, <2>3
<1> QED
  BY <1>1, <1>2, ClaimsAreWorded, NormalHolds

LEMMA NoWordInAllowed ==
    ASSUME NEW t \in Text, ~Forbidden(t)
    PROVE  NoWordShown(t)
<1> SUFFICES ASSUME NEW claim \in Claims, Unbroken(claim), Holds(t, claim) PROVE FALSE
  BY DEF NoWordShown
<1>1. claim \in Text /\ ~Holds(Squeezed(t), claim)
  BY NotForbidden
<1>2. Follows(t, Squeezed(t), claim)
  BY <1>1, UnbrokenFollows
<1> QED
  BY <1>1, <1>2 DEF Follows

LEMMA NoWordInParts ==
    ASSUME NEW a \in Text, NEW b \in Text, NoWordShown(a \o b)
    PROVE  NoWordShown(a) /\ NoWordShown(b)
<1>1. ASSUME NEW claim \in Claims, Unbroken(claim) PROVE ~Holds(a, claim) /\ ~Holds(b, claim)
  <2>1. claim \in Text /\ claim # <<>>
    BY <1>1, ClaimsAreWorded DEF Unbroken
  <2> QED
    BY <1>1, <2>1, PartsHold DEF NoWordShown
<1> QED
  BY <1>1 DEF NoWordShown

LEMMA NoWordTogether ==
    ASSUME NEW a \in Text, NEW b \in Text, Closed(a), NoWordShown(a), NoWordShown(b)
    PROVE  NoWordShown(a \o b)
<1>1. ASSUME NEW claim \in Claims, Unbroken(claim) PROVE ~Holds(a \o b, claim)
  <2>1. claim \in Text
    BY ClaimsAreWorded
  <2> QED
    BY <1>1, <2>1, NothingStraddles DEF NoWordShown
<1> QED
  BY <1>1 DEF NoWordShown

LEMMA NoWordInNothing == NoWordShown(<<>>)
<1>1. ASSUME NEW claim \in Claims, Unbroken(claim) PROVE ~Holds(<<>>, claim)
  <2>1. claim \in Text /\ claim # <<>>
    BY <1>1, ClaimsAreWorded DEF Unbroken
  <2> QED
    BY <2>1, HoldsNothing
<1> QED
  BY <1>1 DEF NoWordShown

(* Both take the same text. *)
LEMMA SqueezedFollowsOn ==
    ASSUME NEW a \in Text, NEW b \in Text, NEW p \in Text, Worded(p),
           Follows(Squeezed(a), Squeezed(b), p), NEW text \in Text
    PROVE  Follows(Squeezed(a \o text), Squeezed(b \o text), p)
<1> DEFINE S == {t \in Text : Follows(Squeezed(a \o t), Squeezed(b \o t), p)}
<1>1. <<>> \in S
  <2>1. a \o <<>> = a /\ <<>> \in Text
    BY JoinedMore
  <2>2. b \o <<>> = b
    BY JoinedMore
  <2> QED
    BY <2>1, <2>2
<1>2. ASSUME NEW t \in Text, NEW c \in Characters, t \in S PROVE Append(t, c) \in S
  <2>1. a \o Append(t, c) = Append(a \o t, c) /\ a \o t \in Text /\ Append(t, c) \in Text
    BY JoinedMore
  <2>2. b \o Append(t, c) = Append(b \o t, c) /\ b \o t \in Text
    BY JoinedMore
  <2>x. PICK x \in Text : x = Squeezed(a \o t)
    BY <2>1, SqueezedMore
  <2>y. PICK y \in Text : y = Squeezed(b \o t)
    BY <2>2, SqueezedMore
  <2>3. Follows(Squeeze(x, c), Squeeze(y, c), p)
    BY <1>2, <2>x, <2>y, SqueezeFollows
  <2>4. Squeezed(a \o Append(t, c)) = Squeeze(x, c)
    BY <2>1, <2>x, SqueezedMore
  <2>5. Squeezed(b \o Append(t, c)) = Squeeze(y, c)
    BY <2>2, <2>y, SqueezedMore
  <2> QED
    BY <2>1, <2>3, <2>4, <2>5
<1>3. text \in S
  <2> HIDE DEF S
  <2> QED
    BY <1>1, <1>2, TextInduction
<1> QED
  BY <1>3

(* What ends with a sentence or a line ends so, or in a blank, when it is squeezed. *)
LEMMA ClosedSqueezed ==
    ASSUME NEW a \in Text, Closed(a), NEW x, x = Squeezed(a)
    PROVE  x = <<>> \/ Last(x) = " " \/ Last(x) = "."
<1>1. CASE a = <<>>
  BY <1>1, SqueezedMore
<1>2. CASE a # <<>>
  <2>f. PICK f \in Text, c \in Characters : a = Append(f, c) /\ c = Last(a)
    BY <1>2, LastAndFront
  <2>1. c \in {".", "\n"}
    BY <1>2, <2>f DEF Closed
  <2>y. PICK y \in Text : y = Squeezed(f)
    BY SqueezedMore
  <2>2. x = Squeeze(y, c)
    BY <2>f, <2>y, SqueezedMore
  <2>blank. PICK blank \in Characters : blank = " "
    BY PersonaAssumption
  <2>3. Last(Append(y, c)) = c /\ Last(Append(y, blank)) = blank
    BY LastOfMore
  <2> QED
    BY <2>1, <2>2, <2>3, <2>blank DEF Squeeze, IsInk, IsBlank
<1> QED
  BY <1>1, <1>2

(* Only one of them takes a blank text. *)
LEMMA SqueezedBlankFollows ==
    ASSUME NEW x \in Text, NEW b \in Text, NEW p \in Text, Worded(p), OneSentence(p),
           x = <<>> \/ Last(x) = " " \/ Last(x) = ".",
           Follows(x, Squeezed(b), p), NEW text \in Text, Blank(text)
    PROVE  Follows(x, Squeezed(b \o text), p)
<1> DEFINE S == {t \in Text : Blank(t) => Follows(x, Squeezed(b \o t), p)}
<1>1. <<>> \in S
  BY JoinedMore
<1>2. ASSUME NEW t \in Text, NEW c \in Characters, t \in S PROVE Append(t, c) \in S
  <2>1. b \o Append(t, c) = Append(b \o t, c) /\ b \o t \in Text /\ Append(t, c) \in Text
    BY JoinedOne, Zenon
  <2>y. PICK y \in Text : y = Squeezed(b \o t)
    BY <2>1, SqueezedMore
  <2>2. Blank(Append(t, c)) => Blank(t) /\ IsBlank(c)
    BY BlankMore
  <2>3. ASSUME Blank(Append(t, c)) PROVE Follows(x, Squeeze(y, c), p)
    <3>1. Follows(x, y, p) /\ IsBlank(c)
      BY <1>2, <2>2, <2>3, <2>y
    <3> QED
      BY <3>1, BlankFollows
  <2>4. Squeezed(b \o Append(t, c)) = Squeeze(y, c)
    BY <2>1, <2>y, SqueezedMore
  <2> QED
    BY <2>1, <2>3, <2>4
<1>3. text \in S
  <2> HIDE DEF S
  <2> QED
    BY <1>1, <1>2, TextInduction
<1> QED
  BY <1>3

LEMMA ReleasedOn ==
    ASSUME NEW r \in Text, NEW seen \in Text, Released(r, seen), NEW segment \in Text
    PROVE  Released(r \o segment, seen \o segment)
<1>1. Ink(seen \o segment) = Ink(r \o segment)
  <2>1. Ink(seen \o segment) = Ink(seen) \o Ink(segment)
    BY InkOfJoined
  <2>2. Ink(r \o segment) = Ink(r) \o Ink(segment)
    BY InkOfJoined
  <2> QED
    BY <2>1, <2>2 DEF Released
<1>2. ASSUME NEW claim \in Claims, claim # <<>>, OneSentence(claim)
      PROVE  Follows(Squeezed(seen \o segment), Squeezed(r \o segment), claim)
  <2>1. claim \in Text /\ Worded(claim)
    BY <1>2, ClaimsAreWorded
  <2>2. Follows(Squeezed(seen), Squeezed(r), claim)
    BY <1>2 DEF Released
  <2> QED
    BY <2>1, <2>2, SqueezedFollowsOn
<1> QED
  BY <1>1, <1>2 DEF Released

LEMMA ReleasedUnseen ==
    ASSUME NEW r \in Text, NEW seen \in Text, Released(r, seen), Closed(seen),
           NEW segment \in Text, Blank(segment)
    PROVE  Released(r \o segment, seen)
<1>1. Ink(r \o segment) = Ink(r)
  <2>i. PICK i \in Text : i = Ink(r)
    BY InkMore
  <2>1. Ink(segment) = <<>>
    BY InkOfBlank
  <2>2. Ink(r \o segment) = Ink(r) \o Ink(segment)
    BY InkOfJoined
  <2>3. Ink(r \o segment) = i \o <<>>
    BY <2>i, <2>1, <2>2
  <2> QED
    BY <2>i, <2>3, JoinedMore
<1>2. ASSUME NEW claim \in Claims, claim # <<>>, OneSentence(claim)
      PROVE  Follows(Squeezed(seen), Squeezed(r \o segment), claim)
  <2>1. claim \in Text /\ Worded(claim)
    BY <1>2, ClaimsAreWorded
  <2>x. PICK x \in Text : x = Squeezed(seen)
    BY SqueezedMore
  <2>2. Follows(x, Squeezed(r), claim)
    BY <1>2, <2>x DEF Released
  <2>3. x = <<>> \/ Last(x) = " " \/ Last(x) = "."
    BY <2>x, ClosedSqueezed
  <2>4. Follows(x, Squeezed(r \o segment), claim)
    BY <1>2, <2>1, <2>2, <2>3, SqueezedBlankFollows
  <2> QED
    BY <2>x, <2>4
<1> QED
  BY <1>1, <1>2 DEF Released

(* A text that shows all of an allowed one is clean. *)
LEMMA ReleasedIsClean ==
    ASSUME NEW r \in Text, NEW seen \in Text, Released(r, seen), NEW low, Allowed(r, low)
    PROVE  CleanOf(seen) /\ (low => ContainsUncertainty(seen))
<1>1. ASSUME NEW claim \in Claims, OneSentence(claim) PROVE ~Holds(Normalize(seen), claim)
  <2>1. claim \in Text /\ Worded(claim) /\ ~Holds(Squeezed(r), claim)
    BY NotForbidden DEF Allowed
  <2>2. Follows(Squeezed(seen), Squeezed(r), claim)
    BY <1>1, <2>1 DEF Released, Worded
  <2> QED
    BY <2>1, <2>2, NormalHolds DEF Follows
<1>2. ContainsUncertainty(seen) <=> ContainsUncertainty(r)
  BY InkKeepsUncertainty DEF Released
<1> QED
  BY <1>1, <1>2 DEF CleanOf, Allowed

-----------------------------------------------------------------------------
(* The steps, and the text *)

(* A verdict cuts the text that came in: what it releases, and what stays pending. *)
Cuts(g, chunk, v) ==
    /\ v.guard.complete = g.complete \o chunk
    /\ g.pending \o chunk = v.segment \o v.guard.pending

CutsAt(g, end, v) ==
    /\ v.guard.complete = g.complete
    /\ g.pending = v.segment \o v.guard.pending
    /\ end = 0 => v.segment = <<>>
    /\ end > 0 => Last(v.segment) = g.pending[end]
    /\ end = Len(g.pending) => v.segment = g.pending

LEMMA ReleaseCuts ==
    ASSUME NEW g \in Guard, NEW end \in 0..Len(g.pending), NEW v, v = ReleaseText(g, end)
    PROVE  CutsAt(g, end, v)
<1>text. PICK text \in Text : text = g.pending
  BY DEF Guard
<1>segment. PICK segment : segment = SubSeq(g.pending, 1, end)
  OBVIOUS
<1>rest. PICK rest : rest = SubSeq(g.pending, end + 1, Len(g.pending))
  OBVIOUS
<1>seen. PICK seen : seen = (g.visible \/ ~Blank(segment))
  OBVIOUS
<1>2. v = [guard |-> [g EXCEPT !.pending = rest, !.visible = seen], segment |-> segment, allowed |-> TRUE]
  BY <1>segment, <1>rest, <1>seen DEF ReleaseText, Verdict, Guard
<1>3. v.guard = [g EXCEPT !.pending = rest, !.visible = seen] /\ v.segment = segment
  BY <1>2
<1>4. v.guard.complete = g.complete /\ v.guard.pending = rest
  BY <1>3 DEF Guard
<1>5. end \in 0..Len(text) /\ CutAt(text, end, segment, rest)
  BY <1>text, <1>segment, <1>rest DEF CutAt
<1>6. /\ text = segment \o rest
      /\ end = 0 => segment = <<>>
      /\ end > 0 => Last(segment) = text[end]
      /\ end = Len(text) => segment = text
  BY <1>5, CutInTwo
<1> QED
  BY <1>text, <1>3, <1>4, <1>6 DEF CutsAt

LEMMA AddCuts ==
    ASSUME NEW g \in Guard, NEW chunk \in Text, NEW v, v = Add(g, chunk)
    PROVE  Cuts(g, chunk, v) /\ Closed(v.segment) /\ NoWordShown(v.segment)
<1>taken. PICK taken : taken = [g EXCEPT !.pending = @ \o chunk, !.complete = @ \o chunk]
  OBVIOUS
<1>1. g.pending \in Text /\ g.complete \in Text
  BY DEF Guard
<1>2. g.pending \o chunk \in Text /\ g.complete \o chunk \in Text
  BY <1>1, BlankTogether
<1>3. taken \in Guard /\ taken.pending = g.pending \o chunk /\ taken.complete = g.complete \o chunk
  BY <1>2, <1>taken DEF Guard
<1>full. PICK full : full = [taken EXCEPT !.fullBuffer = TRUE]
  OBVIOUS
<1>4. full.pending = taken.pending /\ full.complete = taken.complete
  BY <1>3, <1>full DEF Guard
<1>5. \/ chunk = <<>> /\ v = Verdict(g, <<>>, TRUE)
      \/ v = Verdict(taken, <<>>, FALSE) \/ v = Verdict(taken, <<>>, TRUE) \/ v = Verdict(full, <<>>, TRUE)
      \/ Allowed(taken.pending, FALSE) /\ v = ReleaseText(taken, LastSentenceBoundary(taken.pending))
  BY <1>taken, <1>full DEF Add
<1>6. ASSUME NEW h, h.pending = g.pending \o chunk, h.complete = g.complete \o chunk,
             v.guard = h, v.segment = <<>>
      PROVE  Cuts(g, chunk, v) /\ Closed(v.segment) /\ NoWordShown(v.segment)
  <2>1. <<>> \o (g.pending \o chunk) = g.pending \o chunk
    BY <1>2, JoinedMore
  <2> QED
    BY <1>6, <2>1, NoWordInNothing DEF Cuts, Closed
<1>7. CASE chunk = <<>> /\ v = Verdict(g, <<>>, TRUE)
  <2>1. v.guard = g /\ v.segment = <<>>
    BY <1>7 DEF Verdict
  <2>2. g.pending = g.pending \o chunk
    BY <1>1, <1>7, JoinedMore
  <2>3. g.complete = g.complete \o chunk
    BY <1>1, <1>7, JoinedMore
  <2> QED
    BY <1>6, <2>1, <2>2, <2>3
<1>8. CASE v = Verdict(taken, <<>>, FALSE) \/ v = Verdict(taken, <<>>, TRUE)
  <2>1. v.guard = taken /\ v.segment = <<>>
    BY <1>8 DEF Verdict
  <2> QED
    BY <1>3, <1>6, <2>1
<1>9. CASE v = Verdict(full, <<>>, TRUE)
  <2>1. v.guard = full /\ v.segment = <<>>
    BY <1>9 DEF Verdict
  <2> QED
    BY <1>3, <1>4, <1>6, <2>1
<1>10. CASE Allowed(taken.pending, FALSE) /\ v = ReleaseText(taken, LastSentenceBoundary(taken.pending))
  <2>e. PICK end : end = LastSentenceBoundary(taken.pending)
    OBVIOUS
  <2>1. end \in 0..Len(taken.pending) /\ (end = 0 \/ taken.pending[end] \in {".", "\n"})
    BY <1>2, <1>3, <2>e, BoundaryIsInText
  <2>2. /\ v.guard.complete = taken.complete
        /\ taken.pending = v.segment \o v.guard.pending
        /\ end = 0 => v.segment = <<>>
        /\ end > 0 => Last(v.segment) = taken.pending[end]
    <3>1. v = ReleaseText(taken, end) /\ taken \in Guard /\ end \in 0..Len(taken.pending)
      BY <1>3, <1>10, <2>e, <2>1
    <3>2. CutsAt(taken, end, v)
      BY <3>1, ReleaseCuts
    <3> QED
      BY <3>2 DEF CutsAt
  <2>3. Decided(taken, v)
    BY <1>3, <1>10, <2>e, <2>1, ReleaseDecides
  <2>4. end = 0 \/ end > 0
    BY <1>2, <1>3, <2>1, Lengths
  <2>5. Closed(v.segment)
    BY <2>1, <2>2, <2>4 DEF Closed
  <2>6. NoWordShown(taken.pending)
    BY <1>2, <1>3, <1>10, NoWordInAllowed DEF Allowed
  <2>7. v.segment \in Text /\ v.guard.pending \in Text
    BY <2>3 DEF Decided, Guard
  <2>8. NoWordShown(v.segment)
    BY <2>2, <2>6, <2>7, NoWordInParts
  <2> QED
    BY <1>3, <2>2, <2>5, <2>8 DEF Cuts
<1> QED
  BY <1>5, <1>7, <1>8, <1>9, <1>10

LEMMA FinalizeReleases ==
    ASSUME NEW g \in Guard, NEW low, NEW v, v = Finalize(g, low), v.allowed
    PROVE  /\ v.guard.complete = g.complete /\ v.segment = g.pending
           /\ Allowed(g.complete, low)
<1>1. Allowed(g.complete, low)
  <2> SUFFICES ASSUME ~Allowed(g.complete, low) PROVE FALSE
    OBVIOUS
  <2>1. v = Verdict(g, <<>>, FALSE)
    BY DEF Finalize
  <2>2. v.allowed = FALSE
    BY <2>1 DEF Verdict
  <2> QED
    BY <2>2
<1>end. PICK end : end = Len(g.pending)
  OBVIOUS
<1>2. v = ReleaseText(g, end)
  BY <1>1, <1>end DEF Finalize
<1>3. end \in 0..Len(g.pending)
  BY <1>end, Lengths DEF Guard
<1>4. CutsAt(g, end, v)
  BY <1>2, <1>3, ReleaseCuts
<1> QED
  BY <1>1, <1>end, <1>4 DEF CutsAt

(* Nothing that is shown or left out after a clean verdict brings a word claim in. *)
LEMMA ShowingKeepsWordsOut ==
    ASSUME TypeOK, Closed(shown), NoWordShown(shown), NEW segment \in Text, NoWordShown(segment)
    PROVE  /\ Show(segment) => NoWordShown(shown')
           /\ ShowFails(segment) => NoWordShown(shown')
<1>1. NoWordShown(shown \o segment)
  BY NoWordTogether DEF TypeOK
<1> QED
  BY <1>1 DEF Show, ShowFails

LEMMA ShowLinks ==
    ASSUME TypeOK, Linked(guard, shown), NEW chunk \in Text, NEW v, Decided(guard, v),
           Cuts(guard, chunk, v), Closed(v.segment), Show(v.segment)
    PROVE  Linked(v.guard, shown')
<1>1. /\ shown \in Text /\ v.segment \in Text /\ Closed(shown)
      /\ guard.pending \in Text /\ guard.complete \in Text /\ v.guard.pending \in Text
  BY DEF TypeOK, Decided, Linked, Guard
<1>r. PICK r \in Text : guard.complete = r \o guard.pending /\ Released(r, shown)
  BY DEF Linked
<1>s. PICK s : s = r \o v.segment
  OBVIOUS
<1>2. s \in Text
  BY <1>1, <1>s, BlankTogether
<1>3. v.guard.complete = s \o v.guard.pending
  <2>p. PICK p \in Text, q \in Text : p = guard.pending /\ q = v.guard.pending
    BY <1>1
  <2>c. PICK c \in Text : c = v.segment
    BY <1>1
  <2>1. Regrouped(p, chunk, c, q)
    BY <2>p, <2>c DEF Cuts, Regrouped
  <2>2. Regrouped(r \o p, chunk, r \o c, q)
    BY <2>1, RegroupedAfter
  <2> QED
    BY <1>r, <1>s, <2>p, <2>c, <2>2 DEF Cuts, Regrouped
<1>4. CASE Blank(v.segment)
  <2>1. shown' = shown
    BY <1>4 DEF Show
  <2>2. Released(s, shown)
    BY <1>1, <1>4, <1>r, <1>s, ReleasedUnseen
  <2> QED
    BY <1>1, <1>2, <1>3, <2>1, <2>2 DEF Linked
<1>5. CASE ~Blank(v.segment)
  <2>1. shown' = shown \o v.segment
    BY <1>5 DEF Show
  <2>2. Released(s, shown \o v.segment)
    BY <1>1, <1>r, <1>s, ReleasedOn
  <2>3. Closed(shown \o v.segment)
    BY <1>1, <1>5, EmptyIsBlank, LastOfJoined DEF Closed
  <2> QED
    BY <1>2, <1>3, <2>1, <2>2, <2>3 DEF Linked
<1> QED
  BY <1>4, <1>5

LEMMA ReceiveKeepsText ==
    ASSUME TypeOK, TextInv, NEW chunk \in Chunks, Receive(chunk)
    PROVE  TextInv'
<1>v. PICK v : v = Add(guard, chunk)
  OBVIOUS
<1>0. chunk \in Text /\ guard \in Guard /\ shown \in Text
  BY PersonaAssumption DEF TypeOK, Text
<1>1. Decided(guard, v) /\ Cuts(guard, chunk, v) /\ Closed(v.segment) /\ NoWordShown(v.segment)
  BY <1>0, <1>v, AddDecides, AddCuts
<1>2. Linked(guard, shown) /\ NoWordShown(shown) /\ guard' = v.guard /\ result = "none"
  BY <1>v DEF Receive, TextInv
<1>3. v.segment \in Text /\ Closed(shown)
  BY <1>1, <1>2 DEF Decided, Linked
<1>4. CASE Show(v.segment) /\ UNCHANGED result
  <2>1. Linked(v.guard, shown')
    BY <1>0, <1>1, <1>2, <1>4, ShowLinks
  <2>2. NoWordShown(shown')
    BY <1>1, <1>2, <1>3, <1>4, ShowingKeepsWordsOut
  <2>3. result' = "none"
    BY <1>2, <1>4
  <2>4. Linked(guard', shown')
    BY <1>2, <2>1
  <2> QED
    BY <2>2, <2>3, <2>4 DEF TextInv
<1>5. CASE result' = Failed(v.guard) /\ (shown' = shown \/ ShowFails(v.segment))
  <2>1. result' \in {"fallback", "error"}
    BY <1>5 DEF Failed
  <2>2. NoWordShown(shown')
    BY <1>1, <1>2, <1>3, <1>5, ShowingKeepsWordsOut
  <2> QED
    BY <2>1, <2>2 DEF TextInv
<1> QED
  BY <1>v, <1>4, <1>5 DEF Receive

LEMMA FinishKeepsText ==
    ASSUME TypeOK, TextInv, Finish
    PROVE  TextInv'
<1>v. PICK v : v = Finalize(guard, lowConfidence)
  OBVIOUS
<1>1. Linked(guard, shown) /\ NoWordShown(shown) /\ guard' = v.guard /\ lowConfidence' = lowConfidence
  BY <1>v DEF Finish, TextInv
<1>2. /\ shown \in Text /\ guard \in Guard /\ Closed(shown)
      /\ guard.pending \in Text /\ guard.complete \in Text
  BY <1>1 DEF TypeOK, Linked, Guard
<1>3. CASE ~v.allowed /\ UNCHANGED <<accepted, shown>>
           /\ result' = IF guard.visible THEN "error" ELSE "fallback"
  <2>1. shown' = shown /\ result' # "none" /\ result' # "generated"
    BY <1>3
  <2> QED
    BY <1>1, <2>1 DEF TextInv
<1>4. CASE v.allowed
  <2>1. /\ v.guard.complete = guard.complete /\ v.segment = guard.pending
        /\ Allowed(guard.complete, lowConfidence)
    BY <1>2, <1>4, <1>v, FinalizeReleases
  <2>r. PICK r \in Text : guard.complete = r \o guard.pending /\ Released(r, shown)
    BY <1>1 DEF Linked
  <2>2. NoWordShown(guard.pending)
    <3>1. NoWordShown(guard.complete)
      BY <1>2, <2>1, NoWordInAllowed DEF Allowed
    <3> QED
      BY <1>2, <2>r, <3>1, NoWordInParts
  <2>3. CASE ShowFails(v.segment) /\ result' = "error"
    <3>1. NoWordShown(shown')
      BY <1>1, <1>2, <2>1, <2>2, <2>3, ShowingKeepsWordsOut
    <3> QED
      BY <2>3, <3>1 DEF TextInv
  <2>4. CASE Show(v.segment) /\ result' = IF Blank(accepted') THEN "fallback" ELSE "generated"
    <3>1. NoWordShown(shown')
      BY <1>1, <1>2, <2>1, <2>2, <2>4, ShowingKeepsWordsOut
    <3>2. shown' \in Text /\ Released(guard.complete, shown')
      <4>1. CASE Blank(v.segment)
        <5>1. shown' = shown
          BY <2>4, <4>1 DEF Show
        <5>2. Released(r \o guard.pending, shown)
          BY <1>2, <2>1, <2>r, <4>1, ReleasedUnseen
        <5> QED
          BY <1>2, <2>r, <5>1, <5>2
      <4>2. CASE ~Blank(v.segment)
        <5>1. shown' = shown \o guard.pending
          BY <2>1, <2>4, <4>2 DEF Show
        <5>2. Released(r \o guard.pending, shown \o guard.pending)
          BY <1>2, <2>r, ReleasedOn
        <5>3. shown \o guard.pending \in Text
          BY <1>2, BlankTogether
        <5> QED
          BY <2>r, <5>1, <5>2, <5>3
      <4> QED
        BY <4>1, <4>2
    <3>3. CleanOf(shown') /\ (lowConfidence => ContainsUncertainty(shown'))
      BY <1>2, <2>1, <3>2, ReleasedIsClean
    <3>4. Ink(guard'.complete) = Ink(shown')
      BY <1>1, <2>1, <3>2 DEF Released
    <3>5. result' # "none"
      BY <2>4
    <3> QED
      BY <1>1, <3>1, <3>3, <3>4, <3>5 DEF TextInv
  <2> QED
    BY <1>4, <1>v, <2>3, <2>4 DEF Finish
<1> QED
  BY <1>v, <1>3, <1>4 DEF Finish

LEMMA StepKeepsText == TypeOK /\ TextInv /\ [Next]_vars => TextInv'
<1> SUFFICES ASSUME TypeOK, TextInv, [Next]_vars PROVE TextInv'
  OBVIOUS
<1>1. ASSUME NEW chunk \in Chunks, Receive(chunk) PROVE TextInv'
  BY <1>1, ReceiveKeepsText
<1>2. CASE Finish
  BY <1>2, FinishKeepsText
<1>3. CASE BreakOff \/ Cancel
  <2>1. result' \in {"fallback", "error"} /\ shown' = shown
    BY <1>3 DEF BreakOff, Cancel, Failed
  <2> QED
    BY <2>1 DEF TextInv
<1>4. CASE UNCHANGED vars
  <2>1. UNCHANGED <<guard, shown, result, lowConfidence>>
    BY <1>4 DEF vars
  <2>2. TextInv' <=> TextInv
    BY <2>1 DEF TextInv
  <2> QED
    BY <2>2
<1> QED
  BY <1>1, <1>2, <1>3, <1>4 DEF Next

LEMMA TextInvariant == Spec => [](TypeOK /\ TextInv)
<1>1. Init => TextInv
  <2> SUFFICES ASSUME Init PROVE TextInv
    OBVIOUS
  <2>1. guard.complete = <<>> /\ guard.pending = <<>> /\ shown = <<>> /\ result = "none"
    BY DEF Init, NewGuard
  <2>2. Released(<<>>, <<>>)
    BY DEF Released, Follows
  <2>3. <<>> = <<>> \o <<>> /\ <<>> \in Text
    BY JoinedMore, EmptyIsBlank
  <2>4. Linked(guard, shown)
    BY <2>1, <2>2, <2>3 DEF Linked, Closed
  <2> QED
    BY <2>1, <2>4, NoWordInNothing DEF TextInv
<1>2. TypeOK /\ TextInv /\ [Next]_vars => TextInv'
  BY StepKeepsText
<1> QED
  BY <1>1, <1>2, ShownInvariant, PTL DEF Spec

(* No text is lost and none is shown twice: what the provider wrote is what was shown
   and what is still pending, blank segments aside, at every moment of the stream
   and for every limit, and a generated answer is all of it (StreamGuard.Add,
   Finalize, emitAssistantDelta). *)
THEOREM NoTextIsLost == Spec => []NoTextLost
<1>1. TypeOK /\ TextInv => NoTextLost
  <2> SUFFICES ASSUME TypeOK, TextInv PROVE NoTextLost
    OBVIOUS
  <2>1. ASSUME result = "none" PROVE Ink(guard.complete) = Ink(shown) \o Ink(guard.pending)
    <3>r. PICK r \in Text : guard.complete = r \o guard.pending /\ Released(r, shown)
      BY <2>1 DEF TextInv, Linked
    <3>1. guard.pending \in Text
      BY DEF TypeOK, Guard
    <3>2. Ink(r \o guard.pending) = Ink(r) \o Ink(guard.pending)
      BY <3>1, InkOfJoined
    <3> QED
      BY <3>r, <3>2 DEF Released
  <2> QED
    BY <2>1 DEF TextInv, NoTextLost
<1> QED
  BY <1>1, TextInvariant, PTL

(* A forbidden claim of one word never reaches the user, whatever chunks it comes in
   and however the stream ends (StreamGuard.Add): what is released ends a sentence
   or a line, and such a claim goes on over neither. *)
THEOREM WordClaimsStayHidden == Spec => []WordClaimsNeverShown
<1>1. TypeOK /\ TextInv => WordClaimsNeverShown
  <2> SUFFICES ASSUME TypeOK, TextInv, NEW claim \in Claims, Unbroken(claim),
                      Holds(Normalize(shown), claim)
               PROVE  FALSE
    BY DEF WordClaimsNeverShown
  <2>1. claim \in Text /\ Worded(claim) /\ shown \in Text
    BY ClaimsAreWorded DEF Unbroken, TypeOK
  <2>2. Holds(Squeezed(shown), claim)
    BY <2>1, NormalHolds
  <2>3. Holds(shown, claim)
    BY <2>1, <2>2, UnbrokenFollows DEF Follows
  <2> QED
    BY <2>3 DEF TextInv, NoWordShown
<1> QED
  BY <1>1, TextInvariant, PTL

(* A generated answer holds no claim of one sentence, also none that was cut at a line
   end and shown in parts, and one of low confidence says that it is uncertain
   (Finalize checks the complete text, and what was shown of it holds no more). *)
THEOREM GeneratedAnswersAreClean == Spec => []GeneratedIsClean
<1>1. TextInv => GeneratedIsClean
  BY DEF TextInv, CleanOf, GeneratedIsClean
<1> QED
  BY <1>1, TextInvariant, PTL
=============================================================================
