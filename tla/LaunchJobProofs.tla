-------------------------- MODULE LaunchJobProofs --------------------------
(***************************************************************************)
(* Proofs about LaunchJob, for all jobs, models, targets and builds, with  *)
(* children that are cut in mid row and outlive their server: the corpus   *)
(* and the results a report reads have one row per task, top-ups are given *)
(* up only after two of them or over broken lines, and no task of a        *)
(* selection that was not overwritten is lost in silence.  And about       *)
(* CorpusMath, which launches select with, for all inputs: what is         *)
(* allocated, planned, sharded and selected adds up.                       *)
(***************************************************************************)
EXTENDS LaunchJob, JsonlLogProofs, FiniteSetTheorems, WellFoundedInduction, TLAPS

-----------------------------------------------------------------------------
(* Natural numbers, and functions defined along them.                      *)

LEMMA LeastNumber ==
    ASSUME NEW S, S \subseteq Nat, S # {}
    PROVE  \E x \in S : \A y \in S : x <= y
<1> DEFINE Less == {ss \in Nat \X Nat : ss[1] < ss[2]}
<1>1. IsWellFoundedOn(Less, Nat)
    BY NatLessThanWellFounded DEF OpToRel
<1> HIDE DEF Less
<1>2. PICK x \in S : \A y \in S : ~ (<<y, x>> \in Less)
    BY <1>1, WFMin
<1>3. ASSUME NEW y \in S PROVE x <= y
  <2>1. x \in Nat /\ y \in Nat
      BY <1>2
  <2>2. <<y, x>> \notin Less
      BY <1>2
  <2>3. y < x => <<y, x>> \in Less
      BY <2>1 DEF Less
  <2> QED BY <2>1, <2>2, <2>3
<1> QED BY <1>3

LEMMA Climb ==
    ASSUME NEW P, 0 \in P, \A n \in Nat : n \in P => n + 1 \in P
    PROVE  Nat \subseteq P
<1> SUFFICES ASSUME Nat \ P # {} PROVE FALSE
    OBVIOUS
<1>1. PICK x \in Nat \ P : \A y \in Nat \ P : x <= y
    BY LeastNumber
<1>2. x # 0 /\ x \in Nat
    OBVIOUS
<1>3. x - 1 \in Nat /\ ~(x <= x - 1) /\ (x - 1) + 1 = x
    BY <1>2
<1>4. x - 1 \in P
    BY <1>1, <1>3
<1> QED BY <1>1, <1>3, <1>4

\* The function of 0..N that starts with `a` and steps by `g`.
IsIteration(f, T, a, g, N) ==
    /\ f \in [0..N -> T]
    /\ f = [n \in 0..N |-> IF n = 0 THEN a ELSE g[<<n, f[n - 1]>>]]

LEMMA Iterates ==
    ASSUME NEW T, NEW a \in T, NEW g \in [Nat \X T -> T], NEW N \in Nat
    PROVE  \E f : IsIteration(f, T, a, g, N)
<1> DEFINE Climbs(f, k) == f[0] = a /\ \A n \in 1..k : f[n] = g[<<n, f[n - 1]>>]
           P == {k \in Nat : \E f \in [0..k -> T] : Climbs(f, k)}
<1>1. 0 \in P
  <2>1. [n \in 0..0 |-> a] \in [0..0 -> T] /\ [n \in 0..0 |-> a][0] = a
      OBVIOUS
  <2>2. Climbs([n \in 0..0 |-> a], 0)
      BY <2>1
  <2> QED BY <2>1, <2>2
<1>2. ASSUME NEW k \in Nat, k \in P PROVE k + 1 \in P
  <2>1. PICK f \in [0..k -> T] : Climbs(f, k)
      BY <1>2
  <2> DEFINE h == [n \in 0..k + 1 |-> IF n = k + 1 THEN g[<<k + 1, f[k]>>] ELSE f[n]]
  <2>2. f[k] \in T /\ g[<<k + 1, f[k]>>] \in T
      OBVIOUS
  <2>3. h \in [0..k + 1 -> T]
    <3>1. \A n \in 0..k + 1 : n = k + 1 \/ n \in 0..k
        OBVIOUS
    <3> QED BY <2>2, <3>1
  <2>4. h[0] = a
      BY <2>1
  <2>5. ASSUME NEW n \in 1..k + 1 PROVE h[n] = g[<<n, h[n - 1]>>]
    <3>1. n \in 0..k + 1 /\ n - 1 \in 0..k + 1 /\ n - 1 # k + 1
        OBVIOUS
    <3>2. h[n - 1] = f[n - 1]
        BY <3>1
    <3>3. CASE n = k + 1
        BY <3>1, <3>2, <3>3
    <3>4. CASE n # k + 1
      <4>1. n \in 1..k
          BY <3>4
      <4> QED BY <2>1, <3>1, <3>2, <3>4, <4>1
    <3> QED BY <3>3, <3>4
  <2> HIDE DEF h
  <2>6. Climbs(h, k + 1)
      BY <2>4, <2>5
  <2> QED BY <2>3, <2>6
<1>3. N \in P
    BY <1>1, <1>2, Climb
<1>4. PICK f \in [0..N -> T] : Climbs(f, N)
    BY <1>3
<1>5. f = [n \in 0..N |-> IF n = 0 THEN a ELSE g[<<n, f[n - 1]>>]]
  <2>1. \A n \in 0..N : f[n] = IF n = 0 THEN a ELSE g[<<n, f[n - 1]>>]
    <3>1. \A n \in 0..N : n = 0 \/ n \in 1..N
        OBVIOUS
    <3> QED BY <1>4, <3>1
  <2> QED BY <2>1
<1> QED BY <1>5 DEF IsIteration
-----------------------------------------------------------------------------
(* Ranges, repetitions and lengths of sequences.                           *)

LEMMA RangeOf ==
    ASSUME NEW T, NEW s \in Seq(T)
    PROVE  /\ Len(s) \in Nat /\ DOMAIN s = 1..Len(s)
           /\ \A r : r \in Range(s) <=> \E a \in 1..Len(s) : r = s[a]
           /\ Range(s) \subseteq T
<1>1. Len(s) \in Nat /\ DOMAIN s = 1..Len(s) /\ \A a \in 1..Len(s) : s[a] \in T
    BY LenProperties, ElementOfSeq
<1>2. \A r : r \in Range(s) <=> \E a \in 1..Len(s) : r = s[a]
    BY <1>1, ZenonT(30) DEF Range
<1> QED BY <1>1, <1>2

LEMMA Nobody ==
    ASSUME NEW T
    PROVE  <<>> \in Seq(T) /\ Len(<<>>) = 0 /\ Range(<<>>) = {} /\ NoRepeats(<<>>)
<1>1. <<>> \in Seq(T) /\ Len(<<>>) = 0
    BY EmptySeq
<1>2. \A r : r \in Range(<<>>) <=> \E a \in 1..Len(<<>>) : r = <<>>[a]
    BY <1>1, RangeOf
<1> QED BY <1>1, <1>2 DEF NoRepeats

LEMMA Concatenation ==
    ASSUME NEW T, NEW s \in Seq(T), NEW t \in Seq(T)
    PROVE  /\ s \o t \in Seq(T) /\ Len(s \o t) = Len(s) + Len(t)
           /\ Range(s \o t) = Range(s) \cup Range(t)
           /\ NoRepeats(s) /\ NoRepeats(t) /\ Range(s) \cap Range(t) = {} => NoRepeats(s \o t)
<1> DEFINE c == s \o t
           m == Len(s)
           n == Len(t)
<1>1. /\ c \in Seq(T) /\ Len(c) = m + n
      /\ \A i \in 1..m + n : c[i] = IF i <= m THEN s[i] ELSE t[i - m]
    BY ConcatProperties
<1>2. m \in Nat /\ n \in Nat
    BY LenProperties
<1> HIDE DEF c, m, n
<1>3. \A i \in 1..m + n : \/ i \in 1..m /\ c[i] = s[i]
                          \/ i - m \in 1..n /\ c[i] = t[i - m]
    BY <1>1, <1>2
<1>4. /\ \A i \in 1..m : i \in 1..m + n /\ c[i] = s[i]
      /\ \A i \in 1..n : i + m \in 1..m + n /\ c[i + m] = t[i]
  <2>1. \A i \in 1..n : i + m \in 1..m + n /\ ~(i + m <= m) /\ (i + m) - m = i
      BY <1>2
  <2> QED BY <1>1, <1>2, <2>1
<1>5. /\ \A r : r \in Range(s) <=> \E a \in 1..m : r = s[a]
      /\ \A r : r \in Range(t) <=> \E a \in 1..n : r = t[a]
    BY RangeOf DEF m, n
<1>6. \A r : r \in Range(c) <=> \E a \in 1..m + n : r = c[a]
    BY <1>1, RangeOf
<1>7. Range(c) = Range(s) \cup Range(t)
  <2>1. \A r \in Range(c) : r \in Range(s) \cup Range(t)
      BY <1>3, <1>5, <1>6
  <2>2. \A r \in Range(s) \cup Range(t) : r \in Range(c)
      BY <1>4, <1>5, <1>6
  <2> QED BY <2>1, <2>2
<1>8. ASSUME NoRepeats(s), NoRepeats(t), Range(s) \cap Range(t) = {},
             NEW i \in 1..m + n, NEW j \in 1..m + n, c[i] = c[j]
      PROVE  i = j
  <2>1. CASE i \in 1..m /\ c[i] = s[i] /\ j \in 1..m /\ c[j] = s[j]
      BY <1>8, <2>1 DEF NoRepeats, m
  <2>2. CASE i - m \in 1..n /\ c[i] = t[i - m] /\ j - m \in 1..n /\ c[j] = t[j - m]
    <3>1. i - m = j - m
        BY <1>8, <2>2 DEF NoRepeats, n
    <3> QED BY <1>2, <3>1
  <2>3. CASE i \in 1..m /\ c[i] = s[i] /\ j - m \in 1..n /\ c[j] = t[j - m]
      BY <1>5, <1>8, <2>3
  <2>4. CASE i - m \in 1..n /\ c[i] = t[i - m] /\ j \in 1..m /\ c[j] = s[j]
      BY <1>5, <1>8, <2>4
  <2> QED BY <1>3, <2>1, <2>2, <2>3, <2>4
<1>9. NoRepeats(s) /\ NoRepeats(t) /\ Range(s) \cap Range(t) = {} => NoRepeats(c)
    BY <1>1, <1>8 DEF NoRepeats
<1> QED BY <1>1, <1>7, <1>9 DEF c, m, n

\* The first elements of a sequence.
LEMMA Cut ==
    ASSUME NEW T, NEW s \in Seq(T), NEW n \in Nat
    PROVE  /\ UpTo(s, n) \in Seq(T) /\ Range(UpTo(s, n)) \subseteq Range(s)
           /\ Len(UpTo(s, n)) = IF n < Len(s) THEN n ELSE Len(s)
           /\ NoRepeats(s) => NoRepeats(UpTo(s, n))
<1> DEFINE m == IF n < Len(s) THEN n ELSE Len(s)
           c == UpTo(s, n)
<1>1. Len(s) \in Nat /\ m \in 0..Len(s)
    BY LenProperties
<1>2. c = SubSeq(s, 1, m)
    BY DEF UpTo
<1> HIDE DEF m, c
<1>3. /\ c \in Seq(T) /\ Len(c) = m /\ \A i \in 1..m : c[i] = s[i]
    BY <1>1, <1>2, FirstRows
<1>4. \A i \in 1..m : i \in 1..Len(s)
    BY <1>1
<1>5. Range(c) \subseteq Range(s)
  <2>1. \A r : r \in Range(c) <=> \E a \in 1..m : r = c[a]
      BY <1>3, RangeOf
  <2>2. \A r : r \in Range(s) <=> \E a \in 1..Len(s) : r = s[a]
      BY RangeOf
  <2> QED BY <1>3, <1>4, <2>1, <2>2
<1>6. NoRepeats(s) => NoRepeats(c)
    BY <1>3, <1>4 DEF NoRepeats
<1> QED BY <1>3, <1>5, <1>6 DEF c, m

\* A sequence without repetitions is no longer than one that has its elements.
LEMMA NoLonger ==
    ASSUME NEW T, NEW s \in Seq(T), NEW t \in Seq(T), NoRepeats(s), Range(s) \subseteq Range(t)
    PROVE  Len(s) <= Len(t)
<1> DEFINE m == Len(s)
           n == Len(t)
           f == [i \in 1..m |-> CHOOSE k \in 1..n : t[k] = s[i]]
<1>1. m \in Nat /\ n \in Nat
    BY LenProperties
<1>2. ASSUME NEW i \in 1..m PROVE \E k \in 1..n : t[k] = s[i]
  <2>1. s[i] \in Range(t)
      BY RangeOf
  <2> QED BY <2>1, RangeOf
<1>3. f \in [1..m -> 1..n] /\ \A i \in 1..m : t[f[i]] = s[i]
    BY <1>2
<1> HIDE DEF f
<1>4. ASSUME NEW k \in Nat PROVE IsFiniteSet(1..k) /\ Cardinality(1..k) = k
  <2>1. IsFiniteSet(1..k) /\ Cardinality(1..k) = IF 1 > k THEN 0 ELSE k - 1 + 1
      BY FS_Interval
  <2> QED BY <2>1
<1> SUFFICES ASSUME n < m PROVE FALSE
    BY <1>1
<1>5. PICK x \in 1..m, y \in 1..m : x # y /\ f[x] = f[y]
  <2> DEFINE A == 1..m
             B == 1..n
  <2>1. IsFiniteSet(A) /\ IsFiniteSet(B) /\ Cardinality(B) < Cardinality(A) /\ f \in [A -> B]
      BY <1>1, <1>3, <1>4
  <2> HIDE DEF A, B
  <2>2. \E x, y \in A : x # y /\ f[x] = f[y]
      BY <2>1, FS_PigeonHole
  <2> QED BY <2>2 DEF A
<1>6. s[x] = s[y]
    BY <1>3, <1>5
<1> QED BY <1>5, <1>6 DEF NoRepeats

-----------------------------------------------------------------------------
(* Filter.                                                                 *)

\* The list after `n` elements were looked at.
FilterStep(seq, S, n, before) == IF seq[n] \in S THEN Append(before, seq[n]) ELSE before

LEMMA FilterSteps ==
    ASSUME NEW T, NEW seq \in Seq(T), NEW S
    PROVE  \E k : /\ Filter(seq, S) = k[Len(seq)] /\ k[0] = <<>>
                  /\ \A n \in 1..Len(seq) : k[n] = FilterStep(seq, S, n, k[n - 1])
<1> DEFINE N == Len(seq)
           g == [p \in Nat \X Seq(T) |-> IF p[1] \in 1..N THEN FilterStep(seq, S, p[1], p[2]) ELSE <<>>]
           Is(f) == f = [n \in 0..N |-> IF n = 0 THEN <<>>
                                        ELSE IF seq[n] \in S THEN Append(f[n - 1], seq[n]) ELSE f[n - 1]]
           kept == CHOOSE f : Is(f)
<1>1. N \in Nat /\ <<>> \in Seq(T)
    BY LenProperties, EmptySeq
<1>2. g \in [Nat \X Seq(T) -> Seq(T)]
  <2> SUFFICES ASSUME NEW n \in Nat, NEW s \in Seq(T), n \in 1..N PROVE FilterStep(seq, S, n, s) \in Seq(T)
      BY <1>1
  <2>1. seq[n] \in T
      BY ElementOfSeq
  <2>2. Append(s, seq[n]) \in Seq(T)
      BY <2>1, AppendProperties
  <2> QED BY <2>2 DEF FilterStep
<1>3. \A n \in 1..N, s \in Seq(T) : g[<<n, s>>] = FilterStep(seq, S, n, s)
    BY <1>1
<1> HIDE DEF g
<1>4. PICK f : IsIteration(f, Seq(T), <<>>, g, N)
  <2> HIDE DEF N
  <2> QED BY <1>1, <1>2, Iterates
<1>5. Is(f)
  <2>1. \A n \in 0..N : n = 0 \/ n \in 1..N
      BY <1>1
  <2>2. \A n \in 0..N : (IF n = 0 THEN <<>> ELSE g[<<n, f[n - 1]>>])
                        = IF n = 0 THEN <<>>
                          ELSE IF seq[n] \in S THEN Append(f[n - 1], seq[n]) ELSE f[n - 1]
    <3>1. \A n \in 1..N : f[n - 1] \in Seq(T) /\ n # 0
      <4>1. f \in [0..N -> Seq(T)] /\ \A n \in 1..N : n - 1 \in 0..N /\ n # 0
          BY <1>1, <1>4 DEF IsIteration
      <4> HIDE DEF N
      <4> QED BY <4>1
    <3> QED BY <1>3, <2>1, <3>1 DEF FilterStep
  <2> QED BY <1>4, <2>2 DEF IsIteration
<1>6. Is(kept)
    BY <1>5
<1>7. Filter(seq, S) = kept[N]
    BY DEF Filter
<1> HIDE DEF kept
<1>8. kept[0] = <<>>
    BY <1>1, <1>6
<1>9. ASSUME NEW n \in 1..N PROVE kept[n] = FilterStep(seq, S, n, kept[n - 1])
  <2>1. n \in 0..N /\ n # 0
      BY <1>1
  <2> QED BY <1>6, <2>1 DEF FilterStep
<1> QED BY <1>7, <1>8, <1>9
\* No element of `S` is in the first `n` places of `seq` twice.
Once(seq, n, S) == \A a, b \in 1..n : seq[a] = seq[b] /\ seq[a] \in S => a = b

\* `out` is what the first `n` elements of `seq` have in `S`.
Sifted(seq, S, n, out) ==
    /\ Len(out) <= n
    /\ \A i \in 1..Len(out) : out[i] \in S /\ \E a \in 1..n : out[i] = seq[a]
    /\ \A a \in 1..n : seq[a] \in S => \E i \in 1..Len(out) : out[i] = seq[a]
    /\ Once(seq, n, S) => NoRepeats(out)

LEMMA SiftedStep ==
    ASSUME NEW T, NEW seq \in Seq(T), NEW S, NEW n \in 1..Len(seq), NEW out \in Seq(T),
           Sifted(seq, S, n - 1, out)
    PROVE  /\ FilterStep(seq, S, n, out) \in Seq(T)
           /\ Sifted(seq, S, n, FilterStep(seq, S, n, out))
<1> DEFINE m   == Len(out)
           new == FilterStep(seq, S, n, out)
<1>1. /\ m \in Nat /\ Len(seq) \in Nat /\ seq[n] \in T
      /\ n \in Nat /\ n \in 1..n /\ \A a \in 1..n : a = n \/ a \in 1..n - 1
      /\ \A a \in 1..n - 1 : a \in 1..n /\ a # n
    BY LenProperties, ElementOfSeq
<1>2. Once(seq, n, S) => Once(seq, n - 1, S)
    BY <1>1 DEF Once
<1>3. CASE seq[n] \notin S
  <2>1. new = out
      BY <1>3 DEF FilterStep
  <2>3. m <= n
      BY <1>1 DEF Sifted
  <2>4. Sifted(seq, S, n, out)
      BY <1>1, <1>2, <1>3, <2>3 DEF Sifted
  <2> QED BY <2>1, <2>4
<1>4. CASE seq[n] \in S
  <2>1. /\ new \in Seq(T) /\ Len(new) = m + 1
        /\ \A i \in 1..m : new[i] = out[i]
        /\ new[m + 1] = seq[n]
      BY <1>1, <1>4, AppendProperties DEF FilterStep
  <2> HIDE DEF new
  <2>2. \A i \in 1..m + 1 : i = m + 1 \/ i \in 1..m
      BY <1>1
  <2>3. m + 1 \in 1..m + 1 /\ \A i \in 1..m : i \in 1..m + 1 /\ i # m + 1
      BY <1>1
  <2>4. m + 1 <= n
      BY <1>1 DEF Sifted
  <2>5. \A i \in 1..m + 1 : new[i] \in S /\ \E a \in 1..n : new[i] = seq[a]
    <3>1. ASSUME NEW i \in 1..m PROVE new[i] \in S /\ \E a \in 1..n : new[i] = seq[a]
      <4>1. new[i] = out[i] /\ out[i] \in S
          BY <2>1 DEF Sifted
      <4>2. PICK a \in 1..n - 1 : out[i] = seq[a]
          BY DEF Sifted
      <4> QED BY <1>1, <4>1, <4>2
    <3> QED BY <1>1, <1>4, <2>1, <2>2, <3>1
  <2>6. \A a \in 1..n : seq[a] \in S => \E i \in 1..m + 1 : new[i] = seq[a]
      BY <1>1, <2>1, <2>3 DEF Sifted
  <2>7. Once(seq, n, S) => NoRepeats(new)
    <3> SUFFICES ASSUME Once(seq, n, S), NEW i \in 1..m + 1, NEW j \in 1..m + 1, new[i] = new[j]
                 PROVE  i = j
        BY <2>1 DEF NoRepeats
    <3>1. NoRepeats(out)
        BY <1>2 DEF Sifted
    <3>2. ASSUME NEW h \in 1..m PROVE out[h] # seq[n]
      <4>1. PICK a \in 1..n - 1 : out[h] = seq[a]
          BY DEF Sifted
      <4> QED BY <1>1, <1>4, <4>1 DEF Once
    <3> QED BY <2>1, <2>2, <3>1, <3>2 DEF NoRepeats
  <2> QED BY <2>1, <2>4, <2>5, <2>6, <2>7 DEF Sifted, new
<1> QED BY <1>3, <1>4

LEMMA FilterIsSifted ==
    ASSUME NEW T, NEW seq \in Seq(T), NEW S
    PROVE  Filter(seq, S) \in Seq(T) /\ Sifted(seq, S, Len(seq), Filter(seq, S))
<1> DEFINE N == Len(seq)
<1>1. PICK k : /\ Filter(seq, S) = k[N] /\ k[0] = <<>>
               /\ \A n \in 1..N : k[n] = FilterStep(seq, S, n, k[n - 1])
    BY FilterSteps
<1> DEFINE P == {n \in Nat : n <= N => k[n] \in Seq(T) /\ Sifted(seq, S, n, k[n])}
<1>2. N \in Nat /\ <<>> \in Seq(T) /\ Len(<<>>) = 0
    BY LenProperties, EmptySeq
<1>3. 0 \in P
  <2>1. Sifted(seq, S, 0, <<>>)
      BY <1>2 DEF Sifted, NoRepeats
  <2> QED BY <1>1, <1>2, <2>1
<1>4. ASSUME NEW n \in Nat, n \in P PROVE n + 1 \in P
  <2> SUFFICES ASSUME n + 1 <= N
               PROVE  k[n + 1] \in Seq(T) /\ Sifted(seq, S, n + 1, k[n + 1])
      OBVIOUS
  <2>1. n + 1 \in 1..N /\ n <= N /\ (n + 1) - 1 = n
      BY <1>2
  <2>2. k[n] \in Seq(T) /\ Sifted(seq, S, n, k[n])
      BY <1>4, <2>1
  <2>3. k[n + 1] = FilterStep(seq, S, n + 1, k[n])
      BY <1>1, <2>1
  <2> QED BY <2>1, <2>2, <2>3, SiftedStep
<1>5. N \in P
    BY <1>2, <1>3, <1>4, Climb
<1> QED BY <1>1, <1>2, <1>5

\* What Filter returns.
LEMMA FilterProperties ==
    ASSUME NEW T, NEW seq \in Seq(T), NEW S
    PROVE  LET out == Filter(seq, S)
           IN  /\ out \in Seq(T) /\ Range(out) = Range(seq) \cap S
               /\ Once(seq, Len(seq), S) => NoRepeats(out)
<1> DEFINE out == Filter(seq, S)
<1>1. out \in Seq(T) /\ Sifted(seq, S, Len(seq), out)
    BY FilterIsSifted
<1> HIDE DEF out
<1>3. Range(out) = Range(seq) \cap S
  <2>1. /\ \A r : r \in Range(seq) <=> \E a \in 1..Len(seq) : r = seq[a]
        /\ \A r : r \in Range(out) <=> \E i \in 1..Len(out) : r = out[i]
      BY <1>1, RangeOf
  <2>2. ASSUME NEW r \in Range(out) PROVE r \in Range(seq) \cap S
      BY <1>1, <2>1, <2>2 DEF Sifted
  <2>3. ASSUME NEW r \in Range(seq) \cap S PROVE r \in Range(out)
    <3>1. PICK a \in 1..Len(seq) : r = seq[a]
        BY <2>1, <2>3
    <3>2. PICK i \in 1..Len(out) : out[i] = seq[a]
        BY <1>1, <2>3, <3>1 DEF Sifted
    <3> QED BY <2>1, <3>1, <3>2
  <2> QED BY <2>2, <2>3
<1> QED BY <1>1, <1>3 DEF Sifted, out
\* FirstOfEach loses only repetitions.
LEMMA FirstOccurrences ==
    ASSUME NEW T, NEW rows \in Seq(T)
    PROVE  LET out == FirstOfEach(rows)
           IN  /\ out \in Seq(T) /\ NoRepeats(out) /\ Range(out) = Range(rows)
               /\ NoRepeats(rows) => Len(out) = Len(rows)
<1> DEFINE N     == Len(rows)
           ident == [i \in 1..N |-> i]
           first == {i \in 1..N : \A h \in 1..i - 1 : rows[h] # rows[i]}
           kept  == Filter(ident, first)
           out   == [i \in 1..Len(kept) |-> rows[kept[i]]]
<1>1. N \in Nat /\ \A i \in 1..N : rows[i] \in T
    BY LenProperties, ElementOfSeq
<1>2. ident \in Seq(1..N) /\ Len(ident) = N
  <2>1. ident \in [1..N -> 1..N]
      OBVIOUS
  <2>2. ident \in Seq(1..N)
    <3> HIDE DEF ident
    <3> QED BY <1>1, <2>1, SeqDef
  <2>3. DOMAIN ident = 1..N /\ DOMAIN ident = 1..Len(ident) /\ Len(ident) \in Nat
      BY <2>2, LenProperties
  <2> HIDE DEF ident, N
  <2> QED BY <1>1, <2>2, <2>3
<1>3. Once(ident, N, first)
    BY DEF Once
<1>4. Range(ident) = 1..N
    BY DEF Range
<1> HIDE DEF ident
<1>5. kept \in Seq(1..N) /\ NoRepeats(kept) /\ Range(kept) = first
  <2> HIDE DEF first, N
  <2>1. /\ kept \in Seq(1..N) /\ Range(kept) = Range(ident) \cap first
        /\ Once(ident, Len(ident), first) => NoRepeats(kept)
      BY <1>2, FilterProperties
  <2>2. first \subseteq 1..N
      BY DEF first
  <2> QED BY <1>2, <1>3, <1>4, <2>1, <2>2
<1>6. FirstOfEach(rows) = out
    BY DEF FirstOfEach, ident
<1> HIDE DEF kept
<1>7. /\ Len(kept) \in Nat /\ \A i \in 1..Len(kept) : kept[i] \in first /\ kept[i] \in 1..N
      /\ \A a \in first : \E i \in 1..Len(kept) : a = kept[i]
  <2> HIDE DEF first, N
  <2>1. /\ Len(kept) \in Nat /\ \A a : a \in Range(kept) <=> \E i \in 1..Len(kept) : a = kept[i]
      BY <1>5, RangeOf
  <2>2. \A i \in 1..Len(kept) : kept[i] \in 1..N
      BY <1>5, ElementOfSeq
  <2> QED BY <1>5, <2>1, <2>2
<1>8. out \in Seq(T) /\ Len(out) = Len(kept) /\ \A i \in 1..Len(kept) : out[i] = rows[kept[i]]
  <2> DEFINE K == Len(kept)
  <2>1. out \in [1..K -> T]
      BY <1>1, <1>7
  <2>2. \A i \in 1..K : out[i] = rows[kept[i]]
      OBVIOUS
  <2> HIDE DEF out, K
  <2>3. out \in Seq(T)
      BY <1>7, <2>1, SeqDef, SMTT(30) DEF K
  <2>4. DOMAIN out = 1..K /\ DOMAIN out = 1..Len(out) /\ Len(out) \in Nat
      BY <2>1, <2>3, LenProperties
  <2> QED BY <1>7, <2>2, <2>3, <2>4 DEF K
<1> HIDE DEF out, first, N
<1>9. \A i \in first : i \in 1..N /\ \A h \in 1..i - 1 : rows[h] # rows[i]
    BY DEF first
<1>10. NoRepeats(out)
  <2> SUFFICES ASSUME NEW i \in 1..Len(kept), NEW j \in 1..Len(kept), out[i] = out[j]
               PROVE  i = j
      BY <1>8 DEF NoRepeats
  <2>1. /\ kept[i] \in 1..N /\ kept[j] \in 1..N /\ rows[kept[i]] = rows[kept[j]]
        /\ \A h \in 1..kept[i] - 1 : rows[h] # rows[kept[i]]
        /\ \A h \in 1..kept[j] - 1 : rows[h] # rows[kept[j]]
      BY <1>7, <1>8, <1>9
  <2>2. ~(kept[i] \in 1..kept[j] - 1) /\ ~(kept[j] \in 1..kept[i] - 1)
      BY <2>1
  <2>3. kept[i] = kept[j]
      BY <1>1, <2>1, <2>2
  <2> QED BY <1>5, <2>3 DEF NoRepeats
<1>11. Range(out) = Range(rows)
  <2>1. /\ \A r : r \in Range(rows) <=> \E a \in 1..N : r = rows[a]
        /\ \A r : r \in Range(out) <=> \E i \in 1..Len(kept) : r = out[i]
      BY <1>8, RangeOf DEF N
  <2>2. \A r \in Range(out) : r \in Range(rows)
      BY <1>7, <1>8, <2>1
  <2>3. ASSUME NEW r \in Range(rows) PROVE r \in Range(out)
    <3> DEFINE At == {a \in 1..N : rows[a] = r}
    <3>1. At \subseteq Nat /\ At # {}
        BY <1>1, <2>1, <2>3
    <3>2. PICK a \in At : \A b \in At : a <= b
        BY <3>1, LeastNumber
    <3>3. \A h \in 1..a - 1 : h \in 1..N /\ ~(a <= h)
        BY <1>1
    <3>4. \A h \in 1..a - 1 : rows[h] # rows[a]
        BY <3>2, <3>3
    <3>5. a \in first /\ rows[a] = r
        BY <3>4 DEF first
    <3> QED BY <1>7, <1>8, <2>1, <3>5
  <2> QED BY <2>2, <2>3
<1>12. NoRepeats(rows) => Len(out) = Len(rows)
  <2> SUFFICES ASSUME NoRepeats(rows) PROVE Len(out) = Len(rows)
      OBVIOUS
  <2>1. Len(out) <= Len(rows) /\ Len(rows) <= Len(out)
      BY <1>8, <1>10, <1>11, NoLonger
  <2>2. Len(out) \in Nat /\ Len(rows) \in Nat
      BY <1>8, LenProperties
  <2> QED BY <2>1, <2>2
<1> QED BY <1>6, <1>8, <1>10, <1>11, <1>12

-----------------------------------------------------------------------------
(* Selecting by depth.                                                     *)

\* While the numbers wanted do not reach the target, the depth that gets the next one
\* has less than its exact share.
LEMMA MostLackingLacks ==
    ASSUME NEW target \in Nat, NEW f \in [1..3 -> Nat], f[1] + f[2] + f[3] < target
    PROVE  /\ MostLacking(target, f) \in 1..3
           /\ 10 * f[MostLacking(target, f)] < target * Tenths[MostLacking(target, f)]
<1> DEFINE x    == target * 2
           y    == target * 3
           z    == target * 5
           m    == MostLacking(target, f)
           Share(d) == target * Tenths[d]
           Most(d) == /\ \A e \in 1..3 : Share(e) + 10 * f[d] <= Share(d) + 10 * f[e]
                      /\ \A e \in 1..d - 1 : Share(e) + 10 * f[d] # Share(d) + 10 * f[e]
<1>1. /\ f[1] \in Nat /\ f[2] \in Nat /\ f[3] \in Nat
      /\ x \in Nat /\ y \in Nat /\ z \in Nat /\ x + y + z = 10 * target
      /\ Share(1) = x /\ Share(2) = y /\ Share(3) = z
    BY DEF Tenths
<1>2. \A d \in 1..3 : d = 1 \/ d = 2 \/ d = 3
    OBVIOUS
<1> HIDE DEF x, y, z, Share
<1>3. \E d \in 1..3 : Most(d)
  <2>1. CASE y + 10 * f[1] <= x + 10 * f[2] /\ z + 10 * f[1] <= x + 10 * f[3]
    <3>1. Most(1)
        BY <1>1, <1>2, <2>1
    <3> QED BY <3>1
  <2>2. CASE x + 10 * f[2] < y + 10 * f[1] /\ z + 10 * f[2] <= y + 10 * f[3]
    <3>1. \A e \in 1..2 - 1 : e = 1
        OBVIOUS
    <3>2. Most(2)
        BY <1>1, <1>2, <2>2, <3>1
    <3> QED BY <3>2
  <2>3. CASE x + 10 * f[3] < z + 10 * f[1] /\ y + 10 * f[3] < z + 10 * f[2]
    <3>1. \A e \in 1..3 - 1 : e = 1 \/ e = 2
        OBVIOUS
    <3>2. Most(3)
        BY <1>1, <1>2, <2>3, <3>1
    <3> QED BY <3>2
  <2> QED BY <1>1, <2>1, <2>2, <2>3
<1>4. m = CHOOSE d \in 1..3 : Most(d)
    BY DEF MostLacking, Share
<1>5. m \in 1..3 /\ Most(m)
  <2> HIDE DEF Most, m
  <2> QED BY <1>3, <1>4
<1>6. \A e \in 1..3 : Share(e) + 10 * f[m] <= Share(m) + 10 * f[e]
    BY <1>5
<1> HIDE DEF m, Most
<1>7. 10 * f[m] < Share(m)
  <2>1. m = 1 \/ m = 2 \/ m = 3
      BY <1>2, <1>5
  <2>2. /\ x + 10 * f[m] <= Share(m) + 10 * f[1]
        /\ y + 10 * f[m] <= Share(m) + 10 * f[2]
        /\ z + 10 * f[m] <= Share(m) + 10 * f[3]
      BY <1>1, <1>6
  <2>3. Share(m) \in Nat /\ f[m] \in Nat
      BY <1>1, <2>1
  <2> QED BY <1>1, <2>2, <2>3
<1> QED BY <1>5, <1>7 DEF m, Share

\* The numbers of rows wanted of each depth add up to the target, and each is less than
\* one away from its exact share.
EvenlyFilled(target, f) ==
    \A d \in 1..3 : 10 * f[d] < target * Tenths[d] + 10 /\ target * Tenths[d] < 10 * f[d] + 10

LEMMA DesiredCounts ==
    ASSUME NEW target \in Nat
    PROVE  /\ Desired(target) \in [1..3 -> Nat]
           /\ Desired(target)[1] + Desired(target)[2] + Desired(target)[3] = target
           /\ EvenlyFilled(target, Desired(target))
<1> DEFINE T       == [1..3 -> Nat]
           floors  == [d \in 1..3 |-> (target * Tenths[d]) \div 10]
           missing == target - (floors[1] + floors[2] + floors[3])
           More(f) == [f EXCEPT ![MostLacking(target, f)] = @ + 1]
           g       == [p \in Nat \X T |-> More(p[2])]
           Is(f)   == f = [n \in 0..missing |->
                             IF n = 0 THEN floors
                             ELSE LET d == MostLacking(target, f[n - 1])
                                  IN  [f[n - 1] EXCEPT ![d] = @ + 1]]
           filled  == CHOOSE f : Is(f)
<1>1. \A d \in 1..3 : Tenths[d] \in Nat
    BY DEF Tenths
<1>2. floors \in T /\ missing \in Nat
  <2>1. /\ floors[1] = (target * 2) \div 10 /\ floors[2] = (target * 3) \div 10
        /\ floors[3] = (target * 5) \div 10
      BY DEF Tenths
  <2>2. /\ (target * 2) \div 10 \in Nat /\ (target * 3) \div 10 \in Nat /\ (target * 5) \div 10 \in Nat
        /\ (target * 2) \div 10 + (target * 3) \div 10 + (target * 5) \div 10 <= target
      OBVIOUS
  <2>3. \A d \in 1..3 : d = 1 \/ d = 2 \/ d = 3
      OBVIOUS
  <2>4. floors \in T
    <3>1. \A d \in 1..3 : floors[d] \in Nat
        BY <2>1, <2>2, <2>3
    <3> QED BY <3>1
  <2> HIDE DEF floors
  <2> QED BY <2>1, <2>2, <2>4
<1>3. \A f \in T : More(f) \in T
  <2> TAKE f \in T
  <2> DEFINE d == MostLacking(target, f)
  <2>1. d \in 1..3 => f[d] + 1 \in Nat
      OBVIOUS
  <2> HIDE DEF d
  <2>2. [f EXCEPT ![d] = @ + 1] \in T
      BY <2>1
  <2> QED BY <2>2 DEF d
<1>4. g \in [Nat \X T -> T]
    BY <1>3
<1>5. \A n \in Nat, f \in T : g[<<n, f>>] = More(f)
    OBVIOUS
<1>16. floors[1] + floors[2] + floors[3] + missing = target
    BY <1>2
<1>17. EvenlyFilled(target, floors)
  <2>1. /\ floors[1] = (target * 2) \div 10 /\ floors[2] = (target * 3) \div 10
        /\ floors[3] = (target * 5) \div 10
      BY DEF Tenths
  <2>2. /\ Tenths[1] = 2 /\ Tenths[2] = 3 /\ Tenths[3] = 5
        /\ \A d \in 1..3 : d = 1 \/ d = 2 \/ d = 3
      BY DEF Tenths
  <2> HIDE DEF floors
  <2>3. /\ 10 * floors[1] <= target * 2 /\ target * 2 < 10 * floors[1] + 10
        /\ 10 * floors[2] <= target * 3 /\ target * 3 < 10 * floors[2] + 10
        /\ 10 * floors[3] <= target * 5 /\ target * 5 < 10 * floors[3] + 10
        /\ floors[1] \in Nat /\ floors[2] \in Nat /\ floors[3] \in Nat
      BY <2>1
  <2> QED BY <2>2, <2>3 DEF EvenlyFilled
<1>18. ASSUME NEW f \in T, f[1] + f[2] + f[3] < target, EvenlyFilled(target, f)
       PROVE  /\ More(f)[1] + More(f)[2] + More(f)[3] = f[1] + f[2] + f[3] + 1
              /\ EvenlyFilled(target, More(f))
  <2> DEFINE m == MostLacking(target, f)
             h == [f EXCEPT ![m] = @ + 1]
  <2>1. m \in 1..3 /\ 10 * f[m] < target * Tenths[m]
      BY <1>18, MostLackingLacks
  <2>2. f \in [1..3 -> Nat] /\ h = More(f)
      OBVIOUS
  <2> HIDE DEF m
  <2>3. h[m] = f[m] + 1 /\ \A d \in 1..3 \ {m} : h[d] = f[d]
      BY <2>1, <2>2
  <2>4. \A d \in 1..3 : f[d] \in Nat /\ target * Tenths[d] \in Nat
      BY <1>1, <2>2
  <2> HIDE DEF h
  <2>5. h[1] + h[2] + h[3] = f[1] + f[2] + f[3] + 1
    <3>1. m = 1 \/ m = 2 \/ m = 3
        BY <2>1
    <3>2. f[1] \in Nat /\ f[2] \in Nat /\ f[3] \in Nat
        BY <2>4
    <3>3. CASE m = 1
      <4>1. h[1] = f[1] + 1 /\ h[2] = f[2] /\ h[3] = f[3]
          BY <2>3, <3>3
      <4> QED BY <3>2, <4>1
    <3>4. CASE m = 2
      <4>1. h[1] = f[1] /\ h[2] = f[2] + 1 /\ h[3] = f[3]
          BY <2>3, <3>4
      <4> QED BY <3>2, <4>1
    <3>5. CASE m = 3
      <4>1. h[1] = f[1] /\ h[2] = f[2] /\ h[3] = f[3] + 1
          BY <2>3, <3>5
      <4> QED BY <3>2, <4>1
    <3> QED BY <3>1, <3>3, <3>4, <3>5
  <2>6. EvenlyFilled(target, h)
    <3> SUFFICES ASSUME NEW d \in 1..3
                 PROVE  10 * h[d] < target * Tenths[d] + 10 /\ target * Tenths[d] < 10 * h[d] + 10
        BY DEF EvenlyFilled
    <3>1. 10 * f[d] < target * Tenths[d] + 10 /\ target * Tenths[d] < 10 * f[d] + 10
        BY <1>18 DEF EvenlyFilled
    <3> DEFINE a == target * Tenths[d]
    <3>2. a \in Nat /\ f[d] \in Nat /\ 10 * f[d] < a + 10 /\ a < 10 * f[d] + 10 /\ (d = m => 10 * f[d] < a)
        BY <2>1, <2>4, <3>1
    <3>3. h[d] = IF d = m THEN f[d] + 1 ELSE f[d]
        BY <2>3
    <3> HIDE DEF a
    <3>4. 10 * h[d] < a + 10 /\ a < 10 * h[d] + 10
        BY <3>2, <3>3
    <3> QED BY <3>4 DEF a
  <2> QED BY <2>2, <2>5, <2>6
<1> DEFINE base == floors[1] + floors[2] + floors[3]
<1>19. base \in Nat /\ base + missing = target
  <2>1. floors[1] \in Nat /\ floors[2] \in Nat /\ floors[3] \in Nat
      BY <1>2
  <2> QED BY <1>2, <1>16, <2>1
<1> HIDE DEF g, floors, missing, T
<1>6. PICK f : IsIteration(f, T, floors, g, missing)
    BY <1>2, <1>4, Iterates
<1>7. f \in [0..missing -> T]
    BY <1>6 DEF IsIteration
<1>8. \A n \in 0..missing : n # 0 => n \in Nat /\ f[n - 1] \in T
  <2>1. \A n \in 0..missing : n # 0 => n \in Nat /\ n - 1 \in 0..missing
      BY <1>2
  <2> QED BY <1>7, <2>1
<1>9. Is(f)
  <2>1. \A n \in 0..missing : (IF n = 0 THEN floors ELSE g[<<n, f[n - 1]>>])
                              = IF n = 0 THEN floors ELSE More(f[n - 1])
      BY <1>5, <1>8
  <2> QED BY <1>6, <2>1 DEF IsIteration
<1>10. Is(filled)
    BY <1>9
<1>11. Desired(target) = filled[missing]
    BY DEF Desired, missing, floors
<1> HIDE DEF filled
<1>12. \A n \in 0..missing : filled[n] = IF n = 0 THEN floors ELSE More(filled[n - 1])
    BY <1>10
<1> DEFINE Good(v, n) == v \in T /\ v[1] + v[2] + v[3] = base + n /\ EvenlyFilled(target, v)
           P == {n \in Nat : n <= missing => Good(filled[n], n)}
<1>13. 0 \in P
  <2>1. 0 \in 0..missing
      BY <1>2
  <2>2. filled[0] = floors
      BY <1>12, <2>1
  <2>3. floors[1] + floors[2] + floors[3] = base + 0
      BY <1>19
  <2>4. Good(filled[0], 0)
      BY <1>2, <1>17, <2>2, <2>3
  <2> QED BY <2>4
<1> HIDE DEF base
<1>14. ASSUME NEW n \in Nat, n \in P PROVE n + 1 \in P
  <2> SUFFICES ASSUME n + 1 <= missing PROVE Good(filled[n + 1], n + 1)
      OBVIOUS
  <2>1. n + 1 \in 0..missing /\ n + 1 # 0 /\ (n + 1) - 1 = n /\ n <= missing
      BY <1>2
  <2>2. Good(filled[n], n)
      BY <1>14, <2>1
  <2>3. filled[n + 1] = More(filled[n])
      BY <1>12, <2>1
  <2> DEFINE now == filled[n]
  <2>4. now \in T /\ now[1] + now[2] + now[3] = base + n /\ EvenlyFilled(target, now)
      BY <2>2
  <2> HIDE DEF now
  <2>5. base + n < target /\ base + (n + 1) = base + n + 1
      BY <1>2, <1>19, <2>1
  <2>6. /\ More(now)[1] + More(now)[2] + More(now)[3] = now[1] + now[2] + now[3] + 1
        /\ EvenlyFilled(target, More(now)) /\ More(now) \in T
    <3> HIDE DEF More
    <3> QED BY <1>3, <1>18, <2>4, <2>5
  <2> HIDE DEF More
  <2>7. Good(More(now), n + 1)
      BY <2>4, <2>5, <2>6
  <2> QED BY <2>3, <2>7 DEF now
<1>15. missing \in P
  <2> HIDE DEF P
  <2> QED BY <1>2, <1>13, <1>14, Climb
<1>20. Good(filled[missing], missing)
    BY <1>2, <1>15
<1> QED BY <1>11, <1>19, <1>20 DEF T

\* A selection takes as many rows as there are, up to the target, none twice.
LEMMA Selection ==
    ASSUME NEW T, NEW rows \in Seq(T), NoRepeats(rows), NEW target \in Nat, NEW depthOf
    PROVE  LET out == SelectByDepth(rows, target, depthOf)
           IN  /\ out \in Seq(T) /\ Range(out) \subseteq Range(rows) /\ NoRepeats(out)
               /\ Len(out) = IF target < Len(rows) THEN target ELSE Len(rows)
<1> DEFINE desired  == Desired(target)
           Deep(d)  == {r \in Range(rows) : depthOf[r] = Depths[d]}
           Group(d) == UpTo(Filter(rows, Deep(d)), desired[d])
           grouped  == Group(1) \o Group(2) \o Group(3)
           others   == Filter(rows, Range(rows) \ Range(grouped))
           all      == grouped \o others
           out      == SelectByDepth(rows, target, depthOf)
<1>1. Len(rows) \in Nat
    BY LenProperties
<1>2. CASE Len(rows) <= target
  <2>1. out = rows
      BY <1>2 DEF SelectByDepth
  <2>2. ~(target < Len(rows))
      BY <1>1, <1>2
  <2> QED BY <2>1, <2>2
<1>3. CASE ~(Len(rows) <= target)
  <2>1. out = UpTo(all, target)
      BY <1>3 DEF SelectByDepth
  <2>2. \A d \in 1..3 : desired[d] \in Nat
      BY DesiredCounts
  <2>3. ASSUME NEW S PROVE /\ Filter(rows, S) \in Seq(T) /\ NoRepeats(Filter(rows, S))
                           /\ Range(Filter(rows, S)) = Range(rows) \cap S
    <3>1. Once(rows, Len(rows), S)
        BY DEF Once, NoRepeats
    <3> QED BY <3>1, FilterProperties
  <2> HIDE DEF desired, Deep, out
  <2>4. ASSUME NEW d \in 1..3
        PROVE  Group(d) \in Seq(T) /\ NoRepeats(Group(d)) /\ Range(Group(d)) \subseteq Deep(d)
    <3>1. desired[d] \in Nat
        BY <2>2
    <3> DEFINE F == Filter(rows, Deep(d))
    <3>2. F \in Seq(T) /\ NoRepeats(F) /\ Range(F) \subseteq Deep(d)
        BY <2>3
    <3> HIDE DEF F
    <3>3. /\ UpTo(F, desired[d]) \in Seq(T) /\ NoRepeats(UpTo(F, desired[d]))
          /\ Range(UpTo(F, desired[d])) \subseteq Range(F)
        BY <3>1, <3>2, Cut
    <3> QED BY <3>2, <3>3 DEF F
  <2> DEFINE a == Group(1)
             b == Group(2)
             c == Group(3)
  <2>5. /\ a \in Seq(T) /\ NoRepeats(a) /\ Range(a) \subseteq Deep(1)
        /\ b \in Seq(T) /\ NoRepeats(b) /\ Range(b) \subseteq Deep(2)
        /\ c \in Seq(T) /\ NoRepeats(c) /\ Range(c) \subseteq Deep(3)
    <3>1. 1 \in 1..3 /\ 2 \in 1..3 /\ 3 \in 1..3
        OBVIOUS
    <3> HIDE DEF Group
    <3> QED BY <2>4, <3>1
  <2>6. /\ Deep(1) \cap Deep(2) = {} /\ Deep(1) \cap Deep(3) = {} /\ Deep(2) \cap Deep(3) = {}
        /\ Deep(1) \cup Deep(2) \cup Deep(3) \subseteq Range(rows)
      BY DEF Deep, Depths
  <2>7. grouped = (a \o b) \o c
      OBVIOUS
  <2> HIDE DEF a, b, c, grouped
  <2>8. grouped \in Seq(T) /\ NoRepeats(grouped) /\ Range(grouped) \subseteq Range(rows)
    <3>1. a \o b \in Seq(T) /\ NoRepeats(a \o b) /\ Range(a \o b) = Range(a) \cup Range(b)
      <4>1. Range(a) \cap Range(b) = {}
          BY <2>5, <2>6
      <4> QED BY <2>5, <4>1, Concatenation
    <3> DEFINE ab == a \o b
    <3>2. ab \in Seq(T) /\ NoRepeats(ab) /\ Range(ab) = Range(a) \cup Range(b)
        BY <3>1
    <3> HIDE DEF ab
    <3>3. Range(ab) \cap Range(c) = {}
        BY <2>5, <2>6, <3>2
    <3>4. /\ ab \o c \in Seq(T) /\ NoRepeats(ab \o c)
          /\ Range(ab \o c) = Range(ab) \cup Range(c)
        BY <2>5, <3>2, <3>3, Concatenation
    <3>5. grouped = ab \o c
        BY <2>7 DEF ab
    <3> QED BY <2>5, <2>6, <3>2, <3>4, <3>5
  <2>9. /\ others \in Seq(T) /\ NoRepeats(others)
        /\ Range(others) = Range(rows) \cap (Range(rows) \ Range(grouped))
      BY <2>3
  <2> HIDE DEF others
  <2>10. all \in Seq(T) /\ NoRepeats(all) /\ Range(all) = Range(rows)
    <3>1. Range(grouped) \cap Range(others) = {}
        BY <2>9
    <3>2. all \in Seq(T) /\ NoRepeats(all) /\ Range(all) = Range(grouped) \cup Range(others)
        BY <2>8, <2>9, <3>1, Concatenation
    <3> QED BY <2>8, <2>9, <3>2
  <2> HIDE DEF all
  <2>11. Len(rows) <= Len(all) /\ Len(all) \in Nat
      BY <2>10, NoLonger, LenProperties
  <2>12. target < Len(rows) /\ target < Len(all)
      BY <1>1, <1>3, <2>11
  <2>13. /\ UpTo(all, target) \in Seq(T) /\ NoRepeats(UpTo(all, target))
         /\ Range(UpTo(all, target)) \subseteq Range(all)
         /\ Len(UpTo(all, target)) = IF target < Len(all) THEN target ELSE Len(all)
      BY <2>10, Cut
  <2> QED BY <2>1, <2>10, <2>12, <2>13 DEF out
<1> QED BY <1>2, <1>3

\* A sequence without repetitions has as many elements as places.
LEMMA DifferentElements ==
    ASSUME NEW T, NEW s \in Seq(T), NoRepeats(s)
    PROVE  IsFiniteSet(Range(s)) /\ Cardinality(Range(s)) = Len(s)
<1> DEFINE n == Len(s)
<1>1. n \in Nat /\ DOMAIN s = 1..n /\ \A r : r \in Range(s) <=> \E a \in 1..n : r = s[a]
    BY RangeOf
<1>2. s = [i \in 1..n |-> s[i]]
    BY <1>1
<1>3. s \in Surjection(1..n, Range(s)) /\ s \in Injection(1..n, Range(s))
  <2>1. s \in [1..n -> Range(s)]
      BY <1>1, <1>2
  <2>2. \A i, j \in 1..n : s[i] = s[j] => i = j
      BY DEF NoRepeats
  <2>3. \A r \in Range(s) : \E i \in 1..n : s[i] = r
      BY <1>1
  <2> HIDE DEF n
  <2>4. s \in Surjection(1..n, Range(s))
      BY <2>1, <2>3 DEF Surjection
  <2>5. s \in Injection(1..n, Range(s))
    <3>1. DOMAIN s = 1..n
        BY <2>1
    <3> QED BY <2>1, <2>2, <3>1 DEF Injection, IsInjective
  <2> QED BY <2>4, <2>5
<1>4. IsFiniteSet(1..n) /\ Cardinality(1..n) = n
  <2>1. IsFiniteSet(1..n) /\ Cardinality(1..n) = IF 1 > n THEN 0 ELSE n - 1 + 1
      BY <1>1, FS_Interval
  <2> QED BY <1>1, <2>1
<1> HIDE DEF n
<1> QED BY <1>3, <1>4, FS_Surjection DEF n

\* Cutting behind a first part leaves that part whole.
LEMMA CutBehind ==
    ASSUME NEW T, NEW s \in Seq(T), NEW t \in Seq(T), NEW n \in Nat, Len(s) <= n
    PROVE  Range(s) \subseteq Range(UpTo(s \o t, n))
<1> DEFINE all == s \o t
           m   == IF n < Len(all) THEN n ELSE Len(all)
           out == UpTo(all, n)
<1>1. all \in Seq(T) /\ Len(all) = Len(s) + Len(t) /\ Len(s) \in Nat /\ Len(t) \in Nat
    BY Concatenation, LenProperties
<1>2. \A i \in 1..Len(s) : all[i] = s[i]
    BY ConcatProperties
<1> HIDE DEF all
<1>3. m \in 0..Len(all) /\ out = SubSeq(all, 1, m)
    BY <1>1 DEF UpTo
<1>4. Len(s) <= m
    BY <1>1
<1> HIDE DEF m, out
<1>5. out \in Seq(T) /\ Len(out) = m /\ \A i \in 1..m : out[i] = all[i]
    BY <1>1, <1>3, FirstRows
<1>6. ASSUME NEW r \in Range(s) PROVE r \in Range(out)
  <2>1. PICK i \in 1..Len(s) : r = s[i]
      BY RangeOf
  <2>2. i \in 1..m /\ r = out[i]
      BY <1>1, <1>2, <1>3, <1>4, <1>5, <2>1
  <2> QED BY <1>5, <2>2, RangeOf
<1> QED BY <1>6 DEF all, out

\* Of each depth a selection that leaves rows out holds as many as are wanted of it, or
\* all there are, and the numbers wanted add up to the target and are less than one away
\* from a fifth, three tenths and a half of it (v2_launch.py _select_by_depth).
THEOREM DepthsGetTheirShare ==
    ASSUME NEW T, NEW rows \in Seq(T), NoRepeats(rows), NEW target \in Nat, target < Len(rows), NEW depthOf
    PROVE  LET desired     == Desired(target)
               Deep(S, d)  == {r \in S : depthOf[r] = Depths[d]}
               chosen      == Range(SelectByDepth(rows, target, depthOf))
               HeldAt(d)     == Cardinality(Deep(chosen, d))
               There(d)    == Cardinality(Deep(Range(rows), d))
           IN  /\ desired[1] + desired[2] + desired[3] = target
               /\ \A d \in 1..3 : 10 * desired[d] < target * Tenths[d] + 10 /\ target * Tenths[d] < 10 * desired[d] + 10
               /\ \A d \in 1..3 : HeldAt(d) >= desired[d] \/ HeldAt(d) = There(d)
<1> DEFINE desired    == Desired(target)
           Deep(S, d) == {r \in S : depthOf[r] = Depths[d]}
           F(d)       == Filter(rows, Deep(Range(rows), d))
           Group(d)   == UpTo(F(d), desired[d])
           grouped    == Group(1) \o Group(2) \o Group(3)
           others     == Filter(rows, Range(rows) \ Range(grouped))
           out        == SelectByDepth(rows, target, depthOf)
<1>1. /\ desired \in [1..3 -> Nat] /\ desired[1] + desired[2] + desired[3] = target
      /\ EvenlyFilled(target, desired)
    BY DesiredCounts
<1>2. Len(rows) \in Nat /\ out = UpTo(grouped \o others, target)
  <2>1. Len(rows) \in Nat /\ ~(Len(rows) <= target)
      BY LenProperties
  <2> QED BY <2>1 DEF SelectByDepth
<1>3. out \in Seq(T) /\ Range(out) \subseteq Range(rows) /\ NoRepeats(out)
    BY Selection
<1> HIDE DEF desired, out
<1>4. ASSUME NEW S PROVE /\ Filter(rows, S) \in Seq(T) /\ NoRepeats(Filter(rows, S))
                         /\ Range(Filter(rows, S)) = Range(rows) \cap S
  <2>1. Once(rows, Len(rows), S)
      BY DEF Once, NoRepeats
  <2> QED BY <2>1, FilterProperties
<1>5. ASSUME NEW d \in 1..3
      PROVE  /\ F(d) \in Seq(T) /\ NoRepeats(F(d)) /\ Range(F(d)) = Deep(Range(rows), d)
             /\ Group(d) \in Seq(T) /\ NoRepeats(Group(d)) /\ Range(Group(d)) \subseteq Range(F(d))
             /\ Len(Group(d)) = (IF desired[d] < Len(F(d)) THEN desired[d] ELSE Len(F(d)))
             /\ Len(F(d)) \in Nat /\ desired[d] \in Nat
  <2>1. F(d) \in Seq(T) /\ NoRepeats(F(d)) /\ Range(F(d)) = Range(rows) \cap Deep(Range(rows), d)
      BY <1>4
  <2>2. Range(rows) \cap Deep(Range(rows), d) = Deep(Range(rows), d)
      OBVIOUS
  <2>3. desired[d] \in Nat
      BY <1>1
  <2> HIDE DEF F, Deep
  <2> QED BY <2>1, <2>2, <2>3, Cut, LenProperties
<1>6. others \in Seq(T)
    BY <1>4
<1> HIDE DEF others
<1> DEFINE a == Group(1)
           b == Group(2)
           c == Group(3)
<1>7. /\ a \in Seq(T) /\ Len(a) <= desired[1] /\ Len(a) \in Nat
      /\ b \in Seq(T) /\ Len(b) <= desired[2] /\ Len(b) \in Nat
      /\ c \in Seq(T) /\ Len(c) <= desired[3] /\ Len(c) \in Nat
      /\ desired[1] \in Nat /\ desired[2] \in Nat /\ desired[3] \in Nat
  <2>1. 1 \in 1..3 /\ 2 \in 1..3 /\ 3 \in 1..3
      OBVIOUS
  <2>2. \A d \in 1..3 : Group(d) \in Seq(T) /\ Len(Group(d)) <= desired[d] /\ Len(Group(d)) \in Nat /\ desired[d] \in Nat
    <3> TAKE d \in 1..3
    <3> DEFINE g == Len(Group(d))
               f == Len(F(d))
               w == desired[d]
    <3>1. Group(d) \in Seq(T) /\ g = (IF w < f THEN w ELSE f) /\ f \in Nat /\ w \in Nat
        BY <1>5
    <3> HIDE DEF g, f, w, Group, F
    <3>2. g <= w /\ g \in Nat
        BY <3>1
    <3> QED BY <3>1, <3>2 DEF g, w
  <2> HIDE DEF Group
  <2> QED BY <2>1, <2>2
<1>8. grouped = (a \o b) \o c
    OBVIOUS
<1>9. \A d \in 1..3 : Group(d) = a \/ Group(d) = b \/ Group(d) = c
  <2>1. \A d \in 1..3 : d = 1 \/ d = 2 \/ d = 3
      OBVIOUS
  <2> HIDE DEF Group
  <2> QED BY <2>1
<1> HIDE DEF a, b, c, grouped
<1>10. /\ grouped \in Seq(T) /\ Len(grouped) <= target
       /\ Range(grouped) = Range(a) \cup Range(b) \cup Range(c)
  <2> DEFINE ab == a \o b
  <2>1. ab \in Seq(T) /\ Len(ab) = Len(a) + Len(b) /\ Range(ab) = Range(a) \cup Range(b)
      BY <1>7, Concatenation
  <2> HIDE DEF ab
  <2>2. /\ ab \o c \in Seq(T) /\ Len(ab \o c) = Len(ab) + Len(c)
        /\ Range(ab \o c) = Range(ab) \cup Range(c)
    <3>1. ab \in Seq(T) /\ c \in Seq(T)
        BY <1>7, <2>1
    <3> QED BY <3>1, Concatenation
  <2>3. grouped = ab \o c
      BY <1>8 DEF ab
  <2>4. Len(grouped) = Len(a) + Len(b) + Len(c)
      BY <2>1, <2>2, <2>3
  <2>5. Len(grouped) <= target
      BY <1>1, <1>7, <2>4
  <2> QED BY <2>1, <2>2, <2>3, <2>5
<1>11. Range(grouped) \subseteq Range(out)
    BY <1>2, <1>6, <1>10, CutBehind
<1>12. ASSUME NEW d \in 1..3
       PROVE  \/ Cardinality(Deep(Range(out), d)) >= desired[d]
              \/ Cardinality(Deep(Range(out), d)) = Cardinality(Deep(Range(rows), d))
  <2> DEFINE G     == Range(Group(d))
             Here  == Deep(Range(out), d)
             There == Deep(Range(rows), d)
  <2>1. /\ IsFiniteSet(G) /\ Cardinality(G) = Len(Group(d))
        /\ IsFiniteSet(There) /\ Cardinality(There) = Len(F(d))
        /\ G \subseteq There
    <3> HIDE DEF Group, F, Deep
    <3> QED BY <1>5, DifferentElements
  <2>2. G \subseteq Range(out)
    <3> HIDE DEF Group
    <3> QED BY <1>9, <1>10, <1>11
  <2>3. G \in SUBSET Here /\ Here \in SUBSET There
    <3>1. \A r \in There : r \in Range(rows) /\ depthOf[r] = Depths[d]
        OBVIOUS
    <3>2. Here = {r \in Range(out) : depthOf[r] = Depths[d]} /\ There = {r \in Range(rows) : depthOf[r] = Depths[d]}
        OBVIOUS
    <3> HIDE DEF G, Here, There
    <3> QED BY <1>3, <2>1, <2>2, <3>1, <3>2
  <2>4. /\ Len(Group(d)) = (IF desired[d] < Len(F(d)) THEN desired[d] ELSE Len(F(d)))
        /\ Len(F(d)) \in Nat /\ desired[d] \in Nat
      BY <1>5
  <2> DEFINE g == Len(Group(d))
             f == Len(F(d))
  <2>5. g = (IF desired[d] < f THEN desired[d] ELSE f) /\ f \in Nat /\ desired[d] \in Nat
      BY <2>4
  <2>6. Cardinality(G) = g /\ Cardinality(There) = f
      BY <2>1
  <2> HIDE DEF G, Here, There, g, f
  <2>7. IsFiniteSet(Here) /\ Cardinality(Here) <= f /\ g <= Cardinality(Here) /\ Cardinality(Here) \in Nat
    <3>1. IsFiniteSet(Here) /\ Cardinality(Here) <= Cardinality(There)
        BY <2>1, <2>3, FS_Subset
    <3>2. Cardinality(G) <= Cardinality(Here) /\ Cardinality(Here) \in Nat
        BY <2>3, <3>1, FS_Subset, FS_CardinalityType
    <3> QED BY <2>6, <3>1, <3>2
  <2>8. Cardinality(Here) >= desired[d] \/ Cardinality(Here) = Cardinality(There)
      BY <2>5, <2>6, <2>7
  <2> QED BY <2>8 DEF Here, There
<1> QED BY <1>1, <1>12 DEF EvenlyFilled, desired, out

-----------------------------------------------------------------------------
(* Finite sets, and sums over them.                                        *)

\* What holds of the empty set, and of a set with one more element, holds of
\* every subset of a finite set.
LEMMA AddOneByOne ==
    ASSUME NEW S, IsFiniteSet(S), NEW P, {} \in P,
           \A T \in SUBSET S, x \in S : T \in P /\ x \notin T => T \cup {x} \in P
    PROVE  SUBSET S \subseteq P
<1> DEFINE Q == {n \in Nat : \A T \in SUBSET S : Cardinality(T) = n => T \in P}
<1>1. \A T \in SUBSET S : IsFiniteSet(T) /\ Cardinality(T) \in Nat
    BY FS_Subset, FS_CardinalityType
<1>2. 0 \in Q
    BY <1>1, FS_EmptySet
<1>3. ASSUME NEW n \in Nat, n \in Q PROVE n + 1 \in Q
  <2> SUFFICES ASSUME NEW T \in SUBSET S, Cardinality(T) = n + 1 PROVE T \in P
      OBVIOUS
  <2>1. PICK x \in T : TRUE
      BY <1>1, FS_EmptySet
  <2>2. Cardinality(T \ {x}) = n
    <3>1. Cardinality(T \ {x}) = Cardinality(T) - 1
        BY <1>1, <2>1, FS_RemoveElement
    <3> QED BY <3>1
  <2>3. T \ {x} \in P
      BY <1>3, <2>2
  <2>4. (T \ {x}) \cup {x} = T /\ x \in S /\ T \ {x} \in SUBSET S /\ x \notin T \ {x}
      BY <2>1
  <2>5. (T \ {x}) \cup {x} \in P
      BY <2>3, <2>4
  <2> QED BY <2>4, <2>5
<1>4. Nat \subseteq Q
    BY <1>2, <1>3, Climb
<1> QED BY <1>1, <1>4

\* The sum of w over the subsets of S, as the fold takes it.
Picks(s) == CHOOSE x \in s : TRUE
IsSum(f, w, S) == f = [s \in SUBSET S |-> IF s = {} THEN 0 ELSE w[Picks(s)] + f[s \ {Picks(s)}]]

LEMMA SumExists ==
    ASSUME NEW S, IsFiniteSet(S), NEW w, \A x \in S : w[x] \in Nat
    PROVE  \E f \in [SUBSET S -> Nat] : IsSum(f, w, S)
<1> DEFINE Sums(f, n) == \A s \in SUBSET S : Cardinality(s) <= n =>
                            f[s] = IF s = {} THEN 0 ELSE w[Picks(s)] + f[s \ {Picks(s)}]
           Q == {n \in Nat : \E f \in [SUBSET S -> Nat] : Sums(f, n)}
<1>1. \A s \in SUBSET S : IsFiniteSet(s) /\ Cardinality(s) \in Nat /\ (Cardinality(s) = 0 <=> s = {})
    BY FS_Subset, FS_CardinalityType, FS_EmptySet
<1>2. \A s \in SUBSET S : s # {} => /\ Picks(s) \in s /\ Picks(s) \in S /\ s \ {Picks(s)} \in SUBSET S
                                    /\ Cardinality(s \ {Picks(s)}) = Cardinality(s) - 1
  <2> TAKE s \in SUBSET S
  <2> HAVE s # {}
  <2>1. Picks(s) \in s
      BY DEF Picks
  <2>2. Cardinality(s \ {Picks(s)}) = Cardinality(s) - 1
      BY <1>1, <2>1, FS_RemoveElement
  <2> QED BY <2>1, <2>2
<1>3. 0 \in Q
  <2> DEFINE f == [s \in SUBSET S |-> 0]
  <2>1. f \in [SUBSET S -> Nat] /\ Sums(f, 0)
      BY <1>1
  <2> QED BY <2>1
<1>4. ASSUME NEW n \in Nat, n \in Q PROVE n + 1 \in Q
  <2>1. PICK f \in [SUBSET S -> Nat] : Sums(f, n)
      BY <1>4
  <2> DEFINE h == [s \in SUBSET S |-> IF Cardinality(s) = n + 1 THEN w[Picks(s)] + f[s \ {Picks(s)}] ELSE f[s]]
  <2>2. \A s \in SUBSET S : Cardinality(s) = n + 1 => s # {} /\ w[Picks(s)] + f[s \ {Picks(s)}] \in Nat
    <3> TAKE s \in SUBSET S
    <3> HAVE Cardinality(s) = n + 1
    <3>1. s # {}
        BY <1>1
    <3>2. w[Picks(s)] \in Nat /\ f[s \ {Picks(s)}] \in Nat
        BY <1>2, <3>1
    <3> QED BY <3>1, <3>2
  <2>3. h \in [SUBSET S -> Nat]
      BY <2>2
  <2>4. ASSUME NEW s \in SUBSET S, Cardinality(s) <= n + 1
        PROVE  h[s] = IF s = {} THEN 0 ELSE w[Picks(s)] + h[s \ {Picks(s)}]
    <3>1. s # {} => h[s \ {Picks(s)}] = f[s \ {Picks(s)}]
      <4>1. s # {} => Cardinality(s \ {Picks(s)}) # n + 1 /\ s \ {Picks(s)} \in SUBSET S
          BY <1>1, <1>2, <2>4
      <4> QED BY <4>1
    <3>2. CASE Cardinality(s) = n + 1
      <4>1. h[s] = w[Picks(s)] + f[s \ {Picks(s)}]
          BY <3>2
      <4> HIDE DEF h
      <4> QED BY <2>2, <3>1, <3>2, <4>1
    <3>3. CASE Cardinality(s) # n + 1
      <4>1. Cardinality(s) <= n
          BY <1>1, <2>4, <3>3
      <4>2. h[s] = f[s]
          BY <3>3
      <4> HIDE DEF h
      <4> QED BY <2>1, <3>1, <4>1, <4>2
    <3> QED BY <3>2, <3>3
  <2> HIDE DEF h
  <2>5. Sums(h, n + 1)
      BY <2>4
  <2> HIDE DEF Sums
  <2>6. \E e \in [SUBSET S -> Nat] : Sums(e, n + 1)
      BY <2>3, <2>5
  <2> QED BY <2>6
<1>5. Nat \subseteq Q
  <2> HIDE DEF Q
  <2> QED BY <1>3, <1>4, Climb
<1>6. Cardinality(S) \in Nat
    BY <1>1
<1>7. PICK f \in [SUBSET S -> Nat] : Sums(f, Cardinality(S))
    BY <1>5, <1>6
<1>8. \A s \in SUBSET S : Cardinality(s) <= Cardinality(S)
    BY FS_Subset
<1>9. IsSum(f, w, S)
    BY <1>7, <1>8 DEF IsSum
<1> QED BY <1>9

\* Two such functions agree where they speak of the same values.
LEMMA SumsAgree ==
    ASSUME NEW S, IsFiniteSet(S), NEW T \in SUBSET S, NEW w, NEW v,
           \A x \in T : v[x] = w[x], NEW f, NEW g, IsSum(f, w, S), IsSum(g, v, T)
    PROVE  \A s \in SUBSET T : f[s] = g[s]
<1> DEFINE Q == {n \in Nat : \A s \in SUBSET T : Cardinality(s) = n => f[s] = g[s]}
<1>1. \A s \in SUBSET T : IsFiniteSet(s) /\ Cardinality(s) \in Nat /\ (Cardinality(s) = 0 <=> s = {})
    BY FS_Subset, FS_CardinalityType, FS_EmptySet
<1>2. 0 \in Q
    BY <1>1 DEF IsSum
<1>3. ASSUME NEW n \in Nat, n \in Q PROVE n + 1 \in Q
  <2> SUFFICES ASSUME NEW s \in SUBSET T, Cardinality(s) = n + 1 PROVE f[s] = g[s]
      OBVIOUS
  <2>1. s # {}
      BY <1>1
  <2>2. Picks(s) \in s
      BY <2>1 DEF Picks
  <2>3. Cardinality(s \ {Picks(s)}) = n
    <3>1. Cardinality(s \ {Picks(s)}) = Cardinality(s) - 1
        BY <1>1, <2>2, FS_RemoveElement
    <3> QED BY <3>1
  <2>4. f[s \ {Picks(s)}] = g[s \ {Picks(s)}] /\ w[Picks(s)] = v[Picks(s)]
      BY <1>3, <2>2, <2>3
  <2>5. f[s] = w[Picks(s)] + f[s \ {Picks(s)}]
      BY <2>1 DEF IsSum
  <2>6. g[s] = v[Picks(s)] + g[s \ {Picks(s)}]
      BY <2>1 DEF IsSum
  <2> QED BY <2>4, <2>5, <2>6
<1>4. Nat \subseteq Q
  <2> HIDE DEF Q
  <2> QED BY <1>2, <1>3, Climb
<1> QED BY <1>1, <1>4

\* The sum of a set and those of its subsets.
LEMMA SumSteps ==
    ASSUME NEW S, IsFiniteSet(S), NEW w, \A x \in S : w[x] \in Nat
    PROVE  \E f \in [SUBSET S -> Nat] :
              /\ \A T \in SUBSET S : SumFunctionOnSet(w, T) = f[T]
              /\ IsSum(f, w, S)
<1>1. ASSUME NEW T \in SUBSET S
      PROVE  \E g : SumFunctionOnSet(w, T) = g[T] /\ IsSum(g, w, T)
  <2> DEFINE g == CHOOSE g : IsSum(g, w, T)
  <2>1. IsFiniteSet(T)
      BY FS_Subset
  <2>2. IsSum(g, w, T)
      BY <2>1, SumExists
  <2>3. SumFunctionOnSet(w, T) = g[T]
      BY DEF SumFunctionOnSet, FoldFunctionOnSet, MapThenFoldSet, IsSum, Picks
  <2> QED BY <2>2, <2>3
<1>2. PICK f \in [SUBSET S -> Nat] : IsSum(f, w, S)
    BY SumExists
<1>3. ASSUME NEW T \in SUBSET S PROVE SumFunctionOnSet(w, T) = f[T]
  <2>1. PICK g : SumFunctionOnSet(w, T) = g[T] /\ IsSum(g, w, T)
      BY <1>1
  <2>2. \A s \in SUBSET T : f[s] = g[s]
      BY <1>2, <2>1, SumsAgree
  <2> QED BY <2>1, <2>2
<1> QED BY <1>2, <1>3

LEMMA SumProperties ==
    ASSUME NEW S, IsFiniteSet(S), NEW w, \A x \in S : w[x] \in Nat
    PROVE  /\ SumFunctionOnSet(w, S) \in Nat
           /\ SumFunctionOnSet(w, {}) = 0
           /\ \A x \in S : SumFunctionOnSet(w, S) = w[x] + SumFunctionOnSet(w, S \ {x})
<1>1. PICK f \in [SUBSET S -> Nat] : /\ \A T \in SUBSET S : SumFunctionOnSet(w, T) = f[T]
                                     /\ IsSum(f, w, S)
    BY SumSteps
<1>2. f[{}] = 0
    BY <1>1 DEF IsSum
<1> DEFINE Q == {n \in Nat : \A s \in SUBSET S, x \in S :
                    x \in s /\ Cardinality(s) = n => f[s] = w[x] + f[s \ {x}]}
<1>3. \A s \in SUBSET S : IsFiniteSet(s) /\ Cardinality(s) \in Nat /\ (Cardinality(s) = 0 <=> s = {})
    BY FS_Subset, FS_CardinalityType, FS_EmptySet
<1>4. 0 \in Q
    BY <1>3
<1>5. ASSUME NEW n \in Nat, n \in Q PROVE n + 1 \in Q
  <2> SUFFICES ASSUME NEW s \in SUBSET S, NEW x \in S, x \in s, Cardinality(s) = n + 1
               PROVE  f[s] = w[x] + f[s \ {x}]
      OBVIOUS
  <2> DEFINE y == Picks(s)
  <2>1. y \in s /\ y \in S
      BY DEF Picks
  <2>2. f[s] = w[y] + f[s \ {y}]
      BY <2>1, <1>1 DEF IsSum
  <2> HIDE DEF y
  <2>3. CASE y = x
      BY <2>2, <2>3, Zenon
  <2>4. CASE y # x
    <3>1. \A z \in s : Cardinality(s \ {z}) = n
      <4> TAKE z \in s
      <4>1. Cardinality(s \ {z}) = Cardinality(s) - 1
          BY <1>3, FS_RemoveElement
      <4> QED BY <4>1
    <3>2. f[s \ {y}] = w[x] + f[(s \ {y}) \ {x}]
      <4>1. s \ {y} \in SUBSET S /\ x \in s \ {y} /\ Cardinality(s \ {y}) = n
          BY <2>1, <2>4, <3>1
      <4> QED BY <1>5, <4>1
    <3>3. f[s \ {x}] = w[y] + f[(s \ {x}) \ {y}]
      <4>1. s \ {x} \in SUBSET S /\ y \in s \ {x} /\ Cardinality(s \ {x}) = n
          BY <2>1, <2>4, <3>1
      <4> QED BY <1>5, <2>1, <4>1
    <3>4. (s \ {y}) \ {x} = (s \ {x}) \ {y} /\ (s \ {x}) \ {y} \in SUBSET S
        OBVIOUS
    <3>5. w[x] \in Nat /\ w[y] \in Nat /\ f[(s \ {x}) \ {y}] \in Nat
        BY <2>1, <3>4
    <3> DEFINE a == f[s \ {y}]
               b == f[s \ {x}]
               c == f[(s \ {x}) \ {y}]
    <3>6. a = w[x] + c /\ b = w[y] + c /\ c \in Nat
        BY <3>2, <3>3, <3>4, <3>5
    <3> HIDE DEF a, b, c
    <3>7. w[y] + a = w[x] + b
        BY <3>5, <3>6
    <3> QED BY <2>2, <3>7 DEF a, b
  <2> QED BY <2>3, <2>4
<1>6. Nat \subseteq Q
  <2> HIDE DEF Q
  <2> QED BY <1>4, <1>5, Climb
<1>7. \A x \in S : f[S] = w[x] + f[S \ {x}]
    BY <1>3, <1>6
<1>8. S \in SUBSET S /\ {} \in SUBSET S /\ \A x \in S : S \ {x} \in SUBSET S
    OBVIOUS
<1> QED BY <1>1, <1>2, <1>7, <1>8

\* With one element more.
LEMMA SumGrows ==
    ASSUME NEW S, IsFiniteSet(S), NEW w, \A x \in S : w[x] \in Nat,
           NEW T \in SUBSET S, NEW x \in S, x \notin T
    PROVE  /\ SumFunctionOnSet(w, T) \in Nat
           /\ SumFunctionOnSet(w, T \cup {x}) = w[x] + SumFunctionOnSet(w, T)
<1>1. IsFiniteSet(T \cup {x}) /\ IsFiniteSet(T)
    BY FS_Subset
<1>2. \A y \in T \cup {x} : w[y] \in Nat
    OBVIOUS
<1>3. SumFunctionOnSet(w, T \cup {x}) = w[x] + SumFunctionOnSet(w, (T \cup {x}) \ {x})
    BY <1>1, <1>2, SumProperties
<1>4. (T \cup {x}) \ {x} = T
    OBVIOUS
<1>5. SumFunctionOnSet(w, T) \in Nat
    BY <1>1, SumProperties
<1> QED BY <1>3, <1>4, <1>5

\* The same values give the same sum.
LEMMA SameSum ==
    ASSUME NEW S, IsFiniteSet(S), NEW w, \A x \in S : w[x] \in Nat, NEW v, \A x \in S : v[x] = w[x]
    PROVE  SumFunctionOnSet(v, S) = SumFunctionOnSet(w, S)
<1> DEFINE P == {T \in SUBSET S : SumFunctionOnSet(v, T) = SumFunctionOnSet(w, T)}
<1>1. {} \in P
    BY SumProperties
<1>2. ASSUME NEW T \in SUBSET S, NEW x \in S, T \in P, x \notin T PROVE T \cup {x} \in P
    BY <1>2, SumGrows
<1>3. SUBSET S \subseteq P
  <2> HIDE DEF P
  <2> QED BY <1>1, <1>2, AddOneByOne
<1> QED BY <1>3

\* Elements that count nothing can be left out.
LEMMA SumOfRest ==
    ASSUME NEW S, IsFiniteSet(S), NEW w, \A x \in S : w[x] \in Nat,
           NEW R \in SUBSET S, \A x \in S \ R : w[x] = 0
    PROVE  SumFunctionOnSet(w, R) = SumFunctionOnSet(w, S)
<1> DEFINE P == {T \in SUBSET S : SumFunctionOnSet(w, T \cap R) = SumFunctionOnSet(w, T)}
<1>1. {} \in P
    OBVIOUS
<1>2. ASSUME NEW T \in SUBSET S, NEW x \in S, T \in P, x \notin T PROVE T \cup {x} \in P
  <2>1. SumFunctionOnSet(w, T \cup {x}) = w[x] + SumFunctionOnSet(w, T) /\ SumFunctionOnSet(w, T) \in Nat
      BY <1>2, SumGrows
  <2>2. CASE x \in R
    <3>1. (T \cup {x}) \cap R = (T \cap R) \cup {x} /\ T \cap R \in SUBSET S /\ x \notin T \cap R
        BY <1>2, <2>2
    <3>2. SumFunctionOnSet(w, (T \cap R) \cup {x}) = w[x] + SumFunctionOnSet(w, T \cap R)
        BY <3>1, SumGrows
    <3> QED BY <1>2, <2>1, <3>1, <3>2
  <2>3. CASE x \notin R
    <3>1. (T \cup {x}) \cap R = T \cap R /\ w[x] = 0
        BY <2>3
    <3>2. w[x] + SumFunctionOnSet(w, T) = SumFunctionOnSet(w, T)
        BY <2>1, <3>1
    <3>3. SumFunctionOnSet(w, T \cap R) = SumFunctionOnSet(w, T)
        BY <1>2
    <3> QED BY <2>1, <3>1, <3>2, <3>3
  <2> QED BY <2>2, <2>3
<1>3. SUBSET S \subseteq P
  <2> HIDE DEF P
  <2> QED BY <1>1, <1>2, AddOneByOne
<1>4. S \cap R = R
    OBVIOUS
<1> QED BY <1>3, <1>4

-----------------------------------------------------------------------------
(* Who is among the first in a finite total order.                         *)

IsTotalOrder(Before, D) ==
    /\ \A x \in D : <<x, x>> \notin Before
    /\ \A x, y \in D : x # y => <<x, y>> \in Before \/ <<y, x>> \in Before
    /\ \A x, y, z \in D : <<x, y>> \in Before /\ <<y, z>> \in Before => <<x, z>> \in Before

LEMMA FirstOnes ==
    ASSUME NEW D, IsFiniteSet(D), NEW Before, IsTotalOrder(Before, D),
           NEW r \in Nat, r <= Cardinality(D)
    PROVE  Cardinality({k \in D : Cardinality({j \in D : <<j, k>> \in Before}) < r}) = r
<1> DEFINE n == Cardinality(D)
           B(k) == {j \in D : <<j, k>> \in Before}
           rank == [k \in D |-> Cardinality(B(k))]
<1>1. n \in Nat
    BY FS_CardinalityType
<1>2. ASSUME NEW k \in D PROVE IsFiniteSet(B(k)) /\ Cardinality(B(k)) \in 0..n - 1
  <2>1. IsFiniteSet(B(k)) /\ Cardinality(B(k)) \in Nat /\ B(k) \in SUBSET D
      BY FS_Subset, FS_CardinalityType
  <2>2. k \notin B(k)
      BY DEF IsTotalOrder
  <2>3. Cardinality(B(k)) <= n /\ Cardinality(B(k)) # n
      BY <2>1, <2>2, FS_Subset
  <2> HIDE DEF B, n
  <2> QED BY <1>1, <2>1, <2>3
<1>3. rank \in [D -> 0..n - 1] /\ \A k \in D : rank[k] = Cardinality(B(k))
    BY <1>2
<1>4. ASSUME NEW j \in D, NEW k \in D, <<j, k>> \in Before PROVE rank[j] < rank[k]
  <2>1. B(j) \in SUBSET B(k) /\ j \in B(k) /\ j \notin B(j)
      BY <1>4 DEF IsTotalOrder
  <2>2. Cardinality(B(j)) <= Cardinality(B(k)) /\ Cardinality(B(j)) # Cardinality(B(k))
      BY <1>2, <2>1, FS_Subset
  <2>3. Cardinality(B(j)) \in 0..n - 1 /\ Cardinality(B(k)) \in 0..n - 1
    <3> HIDE DEF B, n
    <3> QED BY <1>2
  <2> HIDE DEF rank, B, n
  <2> QED BY <1>1, <1>3, <2>2, <2>3
<1> HIDE DEF rank, B
<1>5. \A j, k \in D : rank[j] = rank[k] => j = k
  <2> TAKE j \in D, k \in D
  <2>1. rank[j] \in 0..n - 1 /\ rank[k] \in 0..n - 1
      BY <1>3
  <2>2. j # k => rank[j] < rank[k] \/ rank[k] < rank[j]
      BY <1>4 DEF IsTotalOrder
  <2> HIDE DEF n
  <2> QED BY <1>1, <2>1, <2>2
<1>6. rank \in Injection(D, 0..n - 1)
    BY <1>3, <1>5 DEF Injection, IsInjective
<1>7. IsFiniteSet(0..n - 1) /\ Cardinality(0..n - 1) = n
  <2>1. IsFiniteSet(0..n - 1) /\ Cardinality(0..n - 1) = IF 0 > n - 1 THEN 0 ELSE (n - 1) - 0 + 1
    <3> HIDE DEF n
    <3> QED BY <1>1, FS_Interval
  <2> HIDE DEF n
  <2> QED BY <1>1, <2>1
<1>8. rank \in Surjection(D, 0..n - 1)
    BY <1>6, <1>7, FS_Injection
<1> DEFINE F == {k \in D : rank[k] < r}
           f == [k \in F |-> rank[k]]
<1>9. f \in [F -> 0..r - 1] /\ \A i \in 0..r - 1 : \E k \in F : f[k] = i
  <2>1. \A k \in F : rank[k] \in 0..r - 1
      BY <1>3
  <2>2. ASSUME NEW i \in 0..r - 1 PROVE \E k \in F : rank[k] = i
    <3>1. i \in 0..n - 1 /\ i < r
        BY <1>1
    <3>2. PICK k \in D : rank[k] = i
        BY <1>8, <3>1 DEF Surjection
    <3> QED BY <3>1, <3>2
  <2> QED BY <2>1, <2>2
<1>10. f \in Bijection(F, 0..r - 1)
  <2>1. \A j, k \in F : f[j] = f[k] => j = k
      BY <1>5
  <2> HIDE DEF f, F
  <2> QED BY <1>9, <2>1 DEF Bijection, Injection, Surjection, IsInjective
<1>11. IsFiniteSet(F) /\ F \in SUBSET D
    BY FS_Subset
<1>12. Cardinality(0..r - 1) = Cardinality(F)
  <2> HIDE DEF F, f
  <2> QED BY <1>10, <1>11, FS_Bijection DEF ExistsBijection
<1>13. Cardinality(0..r - 1) = r
  <2>1. Cardinality(0..r - 1) = IF 0 > r - 1 THEN 0 ELSE (r - 1) - 0 + 1
      BY FS_Interval
  <2> QED BY <2>1
<1>14. F = {k \in D : Cardinality({j \in D : <<j, k>> \in Before}) < r}
    BY <1>3 DEF B
<1> QED BY <1>12, <1>13, <1>14

-----------------------------------------------------------------------------
(* Shares of a number of tasks.                                            *)

LEMMA Division ==
    ASSUME NEW a \in Nat, NEW n \in Nat \ {0}
    PROVE  a \div n \in Nat /\ a % n \in 0..n - 1 /\ a = n * (a \div n) + (a % n)
OBVIOUS

LEMMA Distribute ==
    ASSUME NEW a \in Int, NEW b \in Int, NEW c \in Int
    PROVE  a * (b + c) = a * b + a * c
OBVIOUS

\* The parts of the quotas and of what they leave.
Divides(total, weights, sum, P, quotas, excess) ==
    /\ IsFiniteSet(P) /\ sum \in Nat \ {0}
    /\ quotas \in [P -> Nat] /\ excess \in [P -> 0..sum - 1]
    /\ \A k \in P : total * weights[k] = sum * quotas[k] + excess[k]
    /\ Total(quotas) \in Nat /\ Total(quotas) <= total
    /\ total - Total(quotas) <= Cardinality({k \in P : excess[k] > 0})

LEMMA Quotients ==
    ASSUME NEW K, IsFiniteSet(K), NEW weights \in [K -> Nat], Positive(weights) # {}, NEW total \in Nat
    PROVE  LET sum == Total(weights)
           IN  Divides(total, weights, sum, Positive(weights), Quotas(total, weights, sum), Excess(total, weights, sum))
<1> DEFINE P      == Positive(weights)
           sum    == Total(weights)
           quotas == Quotas(total, weights, sum)
           excess == Excess(total, weights, sum)
           S(w, T) == SumFunctionOnSet(w, T)
<1>1. P \in SUBSET K /\ IsFiniteSet(P) /\ \A k \in K : weights[k] \in Nat /\ (weights[k] > 0 <=> k \in P)
  <2>1. P \in SUBSET K /\ \A k \in K : weights[k] \in Nat /\ (weights[k] > 0 <=> k \in P)
      BY DEF Positive
  <2> HIDE DEF P
  <2> QED BY <2>1, FS_Subset
<1>2. sum = S(weights, K)
    BY DEF Total, SumFunction
<1>3. sum \in Nat \ {0}
  <2>1. PICK x \in P : TRUE
      BY DEF P
  <2>2. /\ S(weights, K) = weights[x] + S(weights, K \ {x})
        /\ weights[x] \in Nat /\ weights[x] > 0
    <3> HIDE DEF P
    <3> QED BY <1>1, <2>1, SumProperties
  <2>3. S(weights, K \ {x}) \in Nat
    <3>1. IsFiniteSet(K \ {x}) /\ \A k \in K \ {x} : weights[k] \in Nat
        BY <1>1, FS_Subset
    <3> QED BY <3>1, SumProperties
  <2> HIDE DEF sum, S
  <2> QED BY <1>2, <2>2, <2>3
<1>4. S(weights, P) = sum
  <2>1. \A k \in K \ P : weights[k] = 0
      BY <1>1
  <2> HIDE DEF P
  <2> QED BY <1>1, <1>2, <2>1, SumOfRest
<1>5. ASSUME NEW k \in P
      PROVE  /\ quotas[k] \in Nat /\ excess[k] \in 0..sum - 1
             /\ total * weights[k] = sum * quotas[k] + excess[k]
  <2>1. quotas[k] = (total * weights[k]) \div sum /\ excess[k] = (total * weights[k]) % sum
      BY DEF Quotas, Excess
  <2> DEFINE a == total * weights[k]
  <2>2. a \in Nat
      BY <1>1
  <2> HIDE DEF a, sum, quotas, excess
  <2> QED BY <1>3, <2>1, <2>2, Division DEF a
<1>6. quotas \in [P -> Nat] /\ excess \in [P -> 0..sum - 1]
  <2>1. DOMAIN quotas = P /\ DOMAIN excess = P
      BY DEF Quotas, Excess
  <2>2. quotas = [k \in P |-> quotas[k]] /\ excess = [k \in P |-> excess[k]]
      BY DEF Quotas, Excess
  <2> HIDE DEF quotas, excess, P, sum
  <2> QED BY <1>5, <2>2
<1>7. Total(quotas) = S(quotas, P) /\ Total(excess) = S(excess, P)
  <2>1. DOMAIN quotas = P /\ DOMAIN excess = P
      BY DEF Quotas, Excess
  <2> HIDE DEF quotas, excess, P, sum
  <2> QED BY <2>1 DEF Total, SumFunction
<1> HIDE DEF P, sum, quotas, excess
<1>8. \A k \in P : excess[k] \in Nat
    BY <1>3, <1>6
<1> DEFINE N == {k \in P : excess[k] > 0}
           R == {T \in SUBSET P : /\ total * S(weights, T) = sum * S(quotas, T) + S(excess, T)
                                  /\ S(excess, T) <= sum * Cardinality(T \cap N)}
<1>9. {} \in R
  <2>1. S(weights, {}) = 0 /\ S(quotas, {}) = 0 /\ S(excess, {}) = 0 /\ Cardinality({} \cap N) = 0
    <3> QED BY <1>1, <1>6, <1>8, SumProperties, FS_EmptySet
  <2> HIDE DEF S
  <2> QED BY <1>3, <2>1
<1>10. ASSUME NEW T \in SUBSET P, NEW x \in P, T \in R, x \notin T PROVE T \cup {x} \in R
  <2>1. /\ S(weights, T \cup {x}) = weights[x] + S(weights, T) /\ S(weights, T) \in Nat
        /\ S(quotas, T \cup {x}) = quotas[x] + S(quotas, T) /\ S(quotas, T) \in Nat
        /\ S(excess, T \cup {x}) = excess[x] + S(excess, T) /\ S(excess, T) \in Nat
    <3>1. IsFiniteSet(P) /\ T \in SUBSET P /\ x \in P /\ x \notin T
        BY <1>1, <1>10
    <3> HIDE DEF R
    <3>2. S(weights, T \cup {x}) = weights[x] + S(weights, T) /\ S(weights, T) \in Nat
      <4>1. \A k \in P : weights[k] \in Nat
          BY <1>1
      <4> QED BY <3>1, <4>1, SumGrows
    <3>3. S(quotas, T \cup {x}) = quotas[x] + S(quotas, T) /\ S(quotas, T) \in Nat
      <4>1. \A k \in P : quotas[k] \in Nat
          BY <1>5
      <4> QED BY <3>1, <4>1, SumGrows
    <3>4. S(excess, T \cup {x}) = excess[x] + S(excess, T) /\ S(excess, T) \in Nat
        BY <1>8, <3>1, SumGrows
    <3> QED BY <3>2, <3>3, <3>4
  <2>2. /\ Cardinality((T \cup {x}) \cap N) = Cardinality(T \cap N) + (IF excess[x] > 0 THEN 1 ELSE 0)
        /\ Cardinality(T \cap N) \in Nat
    <3>1. IsFiniteSet(T \cap N) /\ x \notin T \cap N
        BY <1>1, <1>10, FS_Subset
    <3>2. (T \cup {x}) \cap N = IF excess[x] > 0 THEN (T \cap N) \cup {x} ELSE T \cap N
        OBVIOUS
    <3>3. /\ Cardinality((T \cap N) \cup {x}) = Cardinality(T \cap N) + 1
          /\ Cardinality(T \cap N) \in Nat
        BY <3>1, FS_AddElement, FS_CardinalityType
    <3> HIDE DEF N
    <3>4. Cardinality(T \cap N) + 0 = Cardinality(T \cap N)
        BY <3>3
    <3> QED BY <3>2, <3>3, <3>4
  <2>3. /\ total * weights[x] = sum * quotas[x] + excess[x]
        /\ weights[x] \in Nat /\ quotas[x] \in Nat /\ excess[x] \in Nat /\ excess[x] <= sum
      BY <1>1, <1>3, <1>5
  <2>4. /\ total * S(weights, T) = sum * S(quotas, T) + S(excess, T)
        /\ S(excess, T) <= sum * Cardinality(T \cap N)
      BY <1>10
  <2> DEFINE w == S(weights, T)
             q == S(quotas, T)
             e == S(excess, T)
             c == Cardinality(T \cap N)
             m == IF excess[x] > 0 THEN 1 ELSE 0
  <2>5. w \in Nat /\ q \in Nat /\ e \in Nat /\ c \in Nat /\ total * w = sum * q + e /\ e <= sum * c
      BY <2>1, <2>2, <2>4
  <2> HIDE DEF w, q, e, c, S
  <2>6. total * (weights[x] + w) = sum * (quotas[x] + q) + (excess[x] + e)
    <3>1. total * (weights[x] + w) = total * weights[x] + total * w
        BY <2>3, <2>5, Distribute
    <3>2. sum * (quotas[x] + q) = sum * quotas[x] + sum * q
        BY <1>3, <2>3, <2>5, Distribute
    <3>3. sum * quotas[x] \in Nat /\ sum * q \in Nat
        BY <1>3, <2>3, <2>5
    <3> QED BY <2>3, <2>5, <3>1, <3>2, <3>3
  <2>7. excess[x] + e <= sum * (c + m)
    <3>1. sum * (c + 1) = sum * c + sum /\ sum * (c + 0) = sum * c /\ sum * c \in Nat
        BY <1>3, <2>5
    <3>2. m = 1 \/ (m = 0 /\ excess[x] = 0)
        BY <2>3
    <3> HIDE DEF m
    <3> QED BY <1>3, <2>3, <2>5, <3>1, <3>2
  <2>8. /\ total * S(weights, T \cup {x}) = sum * S(quotas, T \cup {x}) + S(excess, T \cup {x})
        /\ S(excess, T \cup {x}) <= sum * Cardinality((T \cup {x}) \cap N)
    <3> HIDE DEF m, N
    <3> QED BY <2>1, <2>2, <2>6, <2>7 DEF w, q, e, c, m
  <2> QED BY <1>10, <2>8
<1>11. SUBSET P \subseteq R
  <2> HIDE DEF R
  <2> QED BY <1>1, <1>9, <1>10, AddOneByOne
<1>12. /\ total * sum = sum * S(quotas, P) + S(excess, P) /\ S(excess, P) <= sum * Cardinality(N)
       /\ S(quotas, P) \in Nat /\ S(excess, P) \in Nat /\ Cardinality(N) \in Nat
  <2>1. P \cap N = N /\ N \in SUBSET P
      OBVIOUS
  <2>2. Cardinality(N) \in Nat
      BY <1>1, <2>1, FS_Subset, FS_CardinalityType
  <2>3. S(quotas, P) \in Nat /\ S(excess, P) \in Nat
    <3>1. \A k \in P : quotas[k] \in Nat
        BY <1>5
    <3> QED BY <1>1, <1>8, <3>1, SumProperties
  <2> HIDE DEF N, S
  <2> QED BY <1>4, <1>11, <2>1, <2>2, <2>3
<1>13. S(quotas, P) <= total /\ total - S(quotas, P) <= Cardinality(N)
  <2> DEFINE q == S(quotas, P)
             e == S(excess, P)
             c == Cardinality(N)
             d == total - q
  <2>1. total * sum = sum * q + e /\ e <= sum * c /\ q \in Nat /\ e \in Nat /\ c \in Nat /\ d \in Int
      BY <1>12
  <2>2. d = total - q
      OBVIOUS
  <2> HIDE DEF q, e, c, d
  <2>3. sum * d = e
    <3>1. sum * total = sum * q + sum * d
        BY <1>3, <2>1, <2>2, Distribute
    <3> QED BY <1>3, <2>1, <3>1
  <2>4. ~(d < 0)
    <3> SUFFICES ASSUME d < 0 PROVE FALSE
        OBVIOUS
    <3>1. sum * d < 0
        BY <1>3, <2>1
    <3> QED BY <2>1, <2>3, <3>1
  <2>5. d <= c
    <3> SUFFICES ASSUME c < d PROVE FALSE
        BY <2>1
    <3>1. sum * c < sum * d
        BY <1>3, <2>1
    <3>2. sum * c \in Int /\ sum * d \in Int
        BY <1>3, <2>1
    <3> QED BY <2>1, <2>3, <3>1, <3>2
  <2> QED BY <2>1, <2>2, <2>4, <2>5 DEF q, c
<1>14. Divides(total, weights, sum, P, quotas, excess)
    BY <1>1, <1>3, <1>5, <1>6, <1>7, <1>12, <1>13 DEF Divides
<1> QED BY <1>14 DEF P, sum, quotas, excess

\* Some elements count one more.
LEMMA OneMoreEach ==
    ASSUME NEW S, IsFiniteSet(S), NEW w, \A x \in S : w[x] \in Nat, NEW F \in SUBSET S,
           NEW v, \A x \in S : v[x] = IF x \in F THEN w[x] + 1 ELSE w[x]
    PROVE  SumFunctionOnSet(v, S) = SumFunctionOnSet(w, S) + Cardinality(F)
<1> DEFINE P == {T \in SUBSET S :
                    SumFunctionOnSet(v, T) = SumFunctionOnSet(w, T) + Cardinality(T \cap F)}
<1>1. \A x \in S : v[x] \in Nat
    OBVIOUS
<1>2. {} \in P
  <2>1. SumFunctionOnSet(v, {}) = 0 /\ SumFunctionOnSet(w, {}) = 0 /\ Cardinality({} \cap F) = 0
      BY <1>1, SumProperties, FS_EmptySet
  <2>2. SumFunctionOnSet(v, {}) = SumFunctionOnSet(w, {}) + Cardinality({} \cap F)
      BY <2>1
  <2> QED BY <2>2
<1>3. ASSUME NEW T \in SUBSET S, NEW x \in S, T \in P, x \notin T PROVE T \cup {x} \in P
  <2>1. SumFunctionOnSet(w, T \cup {x}) = w[x] + SumFunctionOnSet(w, T) /\ SumFunctionOnSet(w, T) \in Nat
    <3> HIDE DEF P
    <3> QED BY <1>3, SumGrows
  <2>2. SumFunctionOnSet(v, T \cup {x}) = v[x] + SumFunctionOnSet(v, T)
      BY <1>1, <1>3, SumGrows
  <2>3. IsFiniteSet(T \cap F) /\ Cardinality(T \cap F) \in Nat
      BY FS_Subset, FS_CardinalityType
  <2>4. x \in F => Cardinality((T \cup {x}) \cap F) = Cardinality(T \cap F) + 1
    <3>1. x \in F => (T \cup {x}) \cap F = (T \cap F) \cup {x} /\ x \notin T \cap F
        BY <1>3
    <3> QED BY <2>3, <3>1, FS_AddElement
  <2>5. x \notin F => (T \cup {x}) \cap F = T \cap F
      OBVIOUS
  <2>6. SumFunctionOnSet(v, T) = SumFunctionOnSet(w, T) + Cardinality(T \cap F)
      BY <1>3
  <2> QED BY <2>1, <2>2, <2>3, <2>4, <2>5, <2>6
<1>4. SUBSET S \subseteq P
  <2> HIDE DEF P
  <2> QED BY <1>1, <1>2, <1>3, AddOneByOne
<1>5. S \cap F = F
    OBVIOUS
<1> QED BY <1>4, <1>5

\* Keys have places of their own in `order`.
Sorts(order, K) == (\A k \in K : order[k] \in Int) /\ (\A j, k \in K : order[j] = order[k] => j = k)

\* What is left over by the quotas goes to that many keys.
LeavesFor(total, quotas, excess, P) ==
    /\ Total(quotas) \in Nat /\ Total(quotas) <= total
    /\ total - Total(quotas) <= Cardinality({k \in P : excess[k] > 0})

\* Keys with a larger remainder go first, later ones where it is the same.
LEMMA ToppedUpAddsUp ==
    ASSUME NEW P, IsFiniteSet(P), NEW sum \in Nat, NEW quotas \in [P -> Nat], NEW excess \in [P -> 0..sum - 1],
           NEW order, Sorts(order, P), NEW total \in Nat, LeavesFor(total, quotas, excess, P)
    PROVE  LET topped == ToppedUp(quotas, excess, order, total - Total(quotas))
           IN  /\ topped \in [P -> Nat] /\ SumFunctionOnSet(topped, P) = total
               /\ \A k \in P : \/ topped[k] = quotas[k]
                               \/ topped[k] = quotas[k] + 1 /\ excess[k] > 0
<1> DEFINE r      == total - Total(quotas)
           topped == ToppedUp(quotas, excess, order, r)
           N      == {k \in P : excess[k] > 0}
           Prior(j, k) == \/ excess[j] > excess[k]
                          \/ excess[j] = excess[k] /\ order[j] > order[k]
           Before == {p \in P \X P : Prior(p[1], p[2])}
           B(k)   == {j \in P : <<j, k>> \in Before}
           F      == {k \in P : Cardinality(B(k)) < r}
<1>1. /\ \A k \in P : excess[k] \in Int /\ order[k] \in Int /\ quotas[k] \in Nat
      /\ \A j, k \in P : order[j] = order[k] => j = k
    BY DEF Sorts
<1>2. ASSUME NEW j \in P, NEW k \in P PROVE <<j, k>> \in Before <=> Prior(j, k)
  <2>1. <<j, k>> \in P \X P /\ <<j, k>>[1] = j /\ <<j, k>>[2] = k
      OBVIOUS
  <2> HIDE DEF Prior
  <2> QED BY <2>1
<1>3. r \in Nat /\ r <= Cardinality(N) /\ Total(quotas) \in Nat /\ Total(quotas) + r = total
    BY DEF LeavesFor
<1>4. r <= Cardinality(P)
  <2>1. Cardinality(N) <= Cardinality(P) /\ Cardinality(N) \in Nat /\ Cardinality(P) \in Nat
      BY FS_Subset, FS_CardinalityType
  <2> HIDE DEF N, r
  <2> QED BY <1>3, <2>1
<1>5. Cardinality(F) = r
  <2> HIDE DEF Before, r
  <2>1. \A x \in P : <<x, x>> \notin Before
      BY <1>1, <1>2
  <2>2. ASSUME NEW x \in P, NEW y \in P, x # y PROVE <<x, y>> \in Before \/ <<y, x>> \in Before
    <3>1. /\ excess[x] \in Int /\ excess[y] \in Int /\ order[x] \in Int /\ order[y] \in Int
          /\ order[x] # order[y]
        BY <1>1, <2>2
    <3>2. Prior(x, y) \/ Prior(y, x)
        BY <3>1
    <3> HIDE DEF Prior
    <3> QED BY <1>2, <3>2
  <2>3. ASSUME NEW x \in P, NEW y \in P, NEW z \in P, <<x, y>> \in Before, <<y, z>> \in Before
        PROVE  <<x, z>> \in Before
    <3>1. \A k \in P : excess[k] \in Int /\ order[k] \in Int
        BY <1>1
    <3>2. Prior(x, y) /\ Prior(y, z)
      <4> HIDE DEF Prior
      <4> QED BY <1>2, <2>3
    <3>3. Prior(x, z)
        BY <3>1, <3>2
    <3> HIDE DEF Prior
    <3> QED BY <1>2, <3>3
  <2> HIDE DEF Prior
  <2>4. IsTotalOrder(Before, P)
      BY <2>1, <2>2, <2>3 DEF IsTotalOrder
  <2>5. Cardinality({k \in P : Cardinality({j \in P : <<j, k>> \in Before}) < r}) = r
      BY <1>3, <1>4, <2>4, FirstOnes, ZenonT(30)
  <2> QED BY <2>5
<1>6. ASSUME NEW k \in P PROVE B(k) = Ahead(excess, order, k)
  <2>1. Ahead(excess, order, k) = {j \in P : Prior(j, k)}
      BY DEF Ahead
  <2> HIDE DEF Before, Prior
  <2>2. B(k) = {j \in P : Prior(j, k)}
      BY <1>2
  <2> QED BY <2>1, <2>2
<1>7. topped = [k \in P |-> IF k \in F THEN quotas[k] + 1 ELSE quotas[k]]
  <2>1. DOMAIN quotas = P
      OBVIOUS
  <2>2. \A k \in P : k \in F <=> Cardinality(Ahead(excess, order, k)) < r
      BY <1>6
  <2> HIDE DEF F, r
  <2> QED BY <2>1, <2>2 DEF ToppedUp
<1> HIDE DEF topped
<1>8. topped \in [P -> Nat]
  <2> HIDE DEF F
  <2> QED BY <1>1, <1>7
<1>9. SumFunctionOnSet(topped, P) = total
  <2>1. F \in SUBSET P /\ \A k \in P : topped[k] = IF k \in F THEN quotas[k] + 1 ELSE quotas[k]
    <3>1. F \in SUBSET P
        OBVIOUS
    <3> HIDE DEF F
    <3> QED BY <1>7, <3>1
  <2> HIDE DEF F, r
  <2>2. SumFunctionOnSet(topped, P) = SumFunctionOnSet(quotas, P) + Cardinality(F)
      BY <1>1, <2>1, OneMoreEach
  <2>3. SumFunctionOnSet(quotas, P) = Total(quotas)
    <3>1. DOMAIN quotas = P
        OBVIOUS
    <3> QED BY <3>1 DEF Total, SumFunction
  <2> QED BY <1>3, <1>5, <2>2, <2>3
<1>10. ASSUME NEW k \in F PROVE excess[k] > 0
  <2> SUFFICES ASSUME ~(excess[k] > 0) PROVE FALSE
      OBVIOUS
  <2>1. k \in P /\ excess[k] = 0
      BY <1>1
  <2>2. N \in SUBSET B(k) /\ B(k) \in SUBSET P
    <3>1. \A j \in N : j \in P /\ Prior(j, k)
        BY <2>1
    <3> HIDE DEF N, Before, Prior
    <3> QED BY <1>2, <2>1, <3>1
  <2>3. IsFiniteSet(B(k)) /\ Cardinality(B(k)) \in Nat
    <3> HIDE DEF B
    <3> QED BY <2>2, FS_Subset, FS_CardinalityType
  <2>4. Cardinality(N) <= Cardinality(B(k)) /\ Cardinality(N) \in Nat
    <3> HIDE DEF B, N
    <3> QED BY <2>2, <2>3, FS_Subset, FS_CardinalityType
  <2>5. Cardinality(B(k)) < r
      OBVIOUS
  <2> HIDE DEF B, N, r
  <2> QED BY <1>3, <2>3, <2>4, <2>5
<1>11. \A k \in P : topped[k] = quotas[k] \/ (topped[k] = quotas[k] + 1 /\ excess[k] > 0)
  <2> HIDE DEF F
  <2> QED BY <1>7, <1>10
<1> QED BY <1>8, <1>9, <1>11 DEF topped

\* A dictionary without its zeroes.
LEMMA NonZeroAddsUp ==
    ASSUME NEW P, IsFiniteSet(P), NEW f \in [P -> Nat]
    PROVE  /\ DOMAIN NonZero(f) = {k \in P : f[k] > 0}
           /\ \A k \in DOMAIN NonZero(f) : NonZero(f)[k] = f[k]
           /\ Total(NonZero(f)) = SumFunctionOnSet(f, P)
<1> DEFINE D == {k \in P : f[k] > 0}
           g == NonZero(f)
<1>1. g = [k \in D |-> f[k]]
  <2>1. DOMAIN f = P
      OBVIOUS
  <2> QED BY <2>1 DEF NonZero, Restrict
<1>2. DOMAIN g = D /\ \A k \in D : g[k] = f[k]
    BY <1>1
<1> HIDE DEF g
<1>3. D \in SUBSET P /\ IsFiniteSet(D) /\ \A k \in P : f[k] \in Nat /\ (k \notin D => f[k] = 0)
  <2>1. D \in SUBSET P /\ \A k \in P : f[k] \in Nat /\ (k \notin D => f[k] = 0)
      OBVIOUS
  <2> HIDE DEF D
  <2> QED BY <2>1, FS_Subset
<1> HIDE DEF D
<1>4. Total(g) = SumFunctionOnSet(g, D)
    BY <1>2 DEF Total, SumFunction
<1>5. SumFunctionOnSet(g, D) = SumFunctionOnSet(f, D)
    BY <1>2, <1>3, SameSum
<1>6. SumFunctionOnSet(f, D) = SumFunctionOnSet(f, P)
    BY <1>3, SumOfRest
<1> QED BY <1>2, <1>4, <1>5, <1>6 DEF g, D

\* What a dictionary says of a key, absent ones having nothing.
CountOfKey(counts, k) == IF k \in DOMAIN counts THEN counts[k] ELSE 0

\* Whatever the weights, the counts add up to the number of tasks, and each is less
\* than one away from its exact share (build_corpus.py allocate_counts).
THEOREM AllocationAddsUp ==
    ASSUME NEW K, IsFiniteSet(K), NEW weights \in [K -> Nat], Positive(weights) # {}, NEW total \in Nat,
           NEW order, Sorts(order, K)
    PROVE  LET counts == AllocateCounts(total, weights, order)
               sum    == Total(weights)
           IN  /\ counts \in [DOMAIN counts -> Nat] /\ DOMAIN counts \in SUBSET K
               /\ Total(counts) = total
               /\ \A k \in K : /\ CountOfKey(counts, k) * sum < total * weights[k] + sum
                               /\ total * weights[k] < CountOfKey(counts, k) * sum + sum
<1> DEFINE P      == Positive(weights)
           sum    == Total(weights)
           quotas == Quotas(total, weights, sum)
           excess == Excess(total, weights, sum)
           topped == ToppedUp(quotas, excess, order, total - Total(quotas))
           counts == AllocateCounts(total, weights, order)
<1>1. /\ P \in SUBSET K /\ IsFiniteSet(P) /\ sum \in Nat \ {0}
      /\ quotas \in [P -> Nat] /\ excess \in [P -> 0..sum - 1]
      /\ \A k \in P : total * weights[k] = sum * quotas[k] + excess[k]
      /\ Total(quotas) \in Nat /\ Total(quotas) <= total
      /\ total - Total(quotas) <= Cardinality({k \in P : excess[k] > 0})
  <2>1. P \in SUBSET K
      BY DEF Positive
  <2>2. Divides(total, weights, sum, P, quotas, excess)
      BY Quotients
  <2> HIDE DEF P, sum, quotas, excess
  <2> QED BY <2>1, <2>2 DEF Divides
<1>2. \A k \in K : weights[k] \in Nat /\ (k \notin P => weights[k] = 0)
    BY DEF Positive
<1>3. CASE total = 0
  <2>1. counts = [k \in K |-> 0]
      BY <1>3 DEF AllocateCounts
  <2>2. DOMAIN counts = K /\ \A k \in K : counts[k] = 0
      BY <2>1
  <2> HIDE DEF counts, sum, P
  <2>3. Total(counts) = 0
    <3>1. Total(counts) = SumFunctionOnSet(counts, K)
        BY <2>2 DEF Total, SumFunction
    <3>2. SumFunctionOnSet(counts, {}) = 0 /\ SumFunctionOnSet(counts, {}) = SumFunctionOnSet(counts, K)
      <4>1. \A k \in K : counts[k] \in Nat
          BY <2>2
      <4>2. {} \in SUBSET K /\ \A k \in K \ {} : counts[k] = 0
          BY <2>2
      <4> QED BY <4>1, <4>2, SumProperties, SumOfRest
    <3> QED BY <3>1, <3>2
  <2>4. counts \in [DOMAIN counts -> Nat] /\ DOMAIN counts \in SUBSET K
      BY <2>1, <2>2
  <2>5. ASSUME NEW k \in K
        PROVE  /\ CountOfKey(counts, k) * sum < total * weights[k] + sum
               /\ total * weights[k] < CountOfKey(counts, k) * sum + sum
    <3>1. CountOfKey(counts, k) = 0
        BY <2>2 DEF CountOfKey
    <3>2. total * weights[k] = 0 /\ 0 * sum = 0
        BY <1>1, <1>2, <1>3
    <3> QED BY <1>1, <3>1, <3>2
  <2> QED BY <1>3, <2>3, <2>4, <2>5 DEF counts, sum
<1>4. CASE total # 0
  <2>1. counts = NonZero(topped)
      BY <1>4 DEF AllocateCounts
  <2> HIDE DEF P, sum, quotas, excess
  <2>2. Sorts(order, P)
      BY <1>1 DEF Sorts
  <2>3. /\ topped \in [P -> Nat] /\ SumFunctionOnSet(topped, P) = total
        /\ \A k \in P : \/ topped[k] = quotas[k]
                        \/ topped[k] = quotas[k] + 1 /\ excess[k] > 0
    <3>1. /\ IsFiniteSet(P) /\ sum \in Nat /\ quotas \in [P -> Nat] /\ excess \in [P -> 0..sum - 1]
          /\ LeavesFor(total, quotas, excess, P)
        BY <1>1 DEF LeavesFor
    <3> QED BY <2>2, <3>1, ToppedUpAddsUp
  <2> HIDE DEF topped, counts
  <2>4. /\ DOMAIN counts = {k \in P : topped[k] > 0} /\ \A k \in DOMAIN counts : counts[k] = topped[k]
        /\ Total(counts) = total
        /\ counts \in [DOMAIN counts -> Nat]
    <3>1. /\ DOMAIN counts = {k \in P : topped[k] > 0} /\ \A k \in DOMAIN counts : counts[k] = topped[k]
          /\ Total(counts) = total
      <4>1. IsFiniteSet(P) /\ topped \in [P -> Nat] /\ SumFunctionOnSet(topped, P) = total
          BY <1>1, <2>3
      <4>2. /\ DOMAIN NonZero(topped) = {k \in P : topped[k] > 0}
            /\ \A k \in DOMAIN NonZero(topped) : NonZero(topped)[k] = topped[k]
            /\ Total(NonZero(topped)) = SumFunctionOnSet(topped, P)
          BY <4>1, NonZeroAddsUp
      <4> QED BY <2>1, <4>1, <4>2
    <3>2. counts = [k \in DOMAIN counts |-> counts[k]]
        BY <2>1 DEF NonZero, Restrict
    <3> QED BY <2>3, <3>1, <3>2
  <2>5. ASSUME NEW k \in K
        PROVE  /\ CountOfKey(counts, k) * sum < total * weights[k] + sum
               /\ total * weights[k] < CountOfKey(counts, k) * sum + sum
    <3> DEFINE c == CountOfKey(counts, k)
    <3>1. CASE k \notin P
      <4>1. c = 0
          BY <2>4, <3>1 DEF CountOfKey
      <4>2. total * weights[k] = 0 /\ 0 * sum = 0
          BY <1>1, <1>2, <3>1
      <4> HIDE DEF c
      <4> QED BY <1>1, <4>1, <4>2 DEF c
    <3>2. CASE k \in P
      <4>1. c = topped[k]
          BY <2>3, <2>4, <3>2 DEF CountOfKey
      <4> DEFINE q == quotas[k]
                 e == excess[k]
                 a == total * weights[k]
      <4>2. /\ q \in Nat /\ e \in 0..sum - 1 /\ a = sum * q + e
            /\ c = q \/ (c = q + 1 /\ e > 0)
          BY <1>1, <2>3, <3>2, <4>1
      <4> HIDE DEF c, q, e, a
      <4>3. sum * q \in Nat /\ q * sum = sum * q /\ (q + 1) * sum = sum * q + sum
          BY <1>1, <4>2
      <4>4. c * sum < a + sum /\ a < c * sum + sum
        <5>1. CASE c = q
            BY <1>1, <4>2, <4>3, <5>1
        <5>2. CASE c = q + 1 /\ e > 0
            BY <1>1, <4>2, <4>3, <5>2
        <5> QED BY <4>2, <5>1, <5>2
      <4> QED BY <4>4 DEF c, a
    <3> QED BY <3>1, <3>2
  <2>6. DOMAIN counts \in SUBSET K
      BY <1>1, <2>4
  <2> QED BY <2>4, <2>5, <2>6 DEF counts, sum
<1> QED BY <1>3, <1>4

\* Strategies have something to share out as soon as one has a fraction or a default is
\* there to take the rest.
LEMMA StrategiesHaveWeights ==
    ASSUME NEW X, IsFiniteSet(X), NEW explicit \in [X -> Nat], NEW defaults, IsFiniteSet(defaults),
           NEW whole \in Nat \ {0}, Positive(explicit) # {} \/ defaults # {}
    PROVE  LET weights == StrategyWeights(explicit, defaults, whole)
           IN  /\ weights \in [X \cup defaults -> Nat] /\ Positive(weights) # {}
               /\ IsFiniteSet(X \cup defaults)
<1> DEFINE weights == StrategyWeights(explicit, defaults, whole)
           n       == Cardinality(defaults)
           sum     == Total(explicit)
           share   == IF defaults = {} THEN 0 ELSE IF sum < whole THEN whole - sum ELSE 0
           scale   == IF defaults = {} THEN 1 ELSE n
<1>1. weights = [s \in X \cup defaults |-> (IF s \in X THEN scale * explicit[s] ELSE 0)
                                           + (IF s \in defaults THEN share ELSE 0)]
    BY DEF StrategyWeights
<1>2. n \in Nat /\ (n = 0 <=> defaults = {})
    BY FS_CardinalityType, FS_EmptySet
<1>3. \A x \in X : explicit[x] \in Nat
    OBVIOUS
<1>4. sum = SumFunctionOnSet(explicit, X) /\ sum \in Nat
  <2>1. sum = SumFunctionOnSet(explicit, X)
      BY DEF Total, SumFunction
  <2> QED BY <1>3, <2>1, SumProperties
<1>5. share \in Nat /\ scale \in Nat \ {0}
  <2> HIDE DEF n, sum
  <2> QED BY <1>2, <1>4
<1> HIDE DEF weights, share, scale
<1>6. weights \in [X \cup defaults -> Nat]
  <2>1. ASSUME NEW s \in X \cup defaults
        PROVE  (IF s \in X THEN scale * explicit[s] ELSE 0) + (IF s \in defaults THEN share ELSE 0) \in Nat
    <3>1. s \in X => scale * explicit[s] \in Nat
        BY <1>3, <1>5
    <3> QED BY <1>5, <3>1
  <2> QED BY <1>1, <2>1
<1>7. ASSUME Positive(explicit) # {} PROVE Positive(weights) # {}
  <2>1. PICK s \in X : explicit[s] > 0
      BY <1>7 DEF Positive
  <2>2. scale * explicit[s] \in Nat /\ scale * explicit[s] > 0
      BY <1>3, <1>5, <2>1
  <2>3. weights[s] = scale * explicit[s] + (IF s \in defaults THEN share ELSE 0)
      BY <1>1
  <2>4. weights[s] > 0
      BY <1>5, <2>2, <2>3
  <2>5. s \in Positive(weights)
      BY <1>6, <2>4 DEF Positive
  <2> QED BY <2>5
<1>8. ASSUME Positive(explicit) = {} PROVE Positive(weights) # {}
  <2>1. \A s \in X : explicit[s] = 0
      BY <1>3, <1>8 DEF Positive
  <2>2. sum = 0
    <3>1. {} \in SUBSET X /\ \A s \in X \ {} : explicit[s] = 0
        BY <2>1
    <3>2. SumFunctionOnSet(explicit, {}) = SumFunctionOnSet(explicit, X) /\ SumFunctionOnSet(explicit, {}) = 0
        BY <1>3, <3>1, SumProperties, SumOfRest
    <3> QED BY <1>4, <3>2
  <2>3. PICK s \in defaults : TRUE
      BY <1>8
  <2>4. share = whole
    <3> HIDE DEF sum
    <3> QED BY <2>2, <2>3 DEF share
  <2>5. weights[s] = (IF s \in X THEN scale * 0 ELSE 0) + whole
      BY <1>1, <2>1, <2>3, <2>4
  <2>6. weights[s] > 0
    <3>1. scale * 0 = 0
        BY <1>5
    <3> QED BY <2>5, <3>1
  <2>7. s \in Positive(weights)
      BY <1>6, <2>3, <2>6 DEF Positive
  <2> QED BY <2>7
<1>9. IsFiniteSet(X \cup defaults)
    BY FS_Union
<1> QED BY <1>6, <1>7, <1>8, <1>9 DEF weights

\* A plan by complexity and strategy holds exactly the tasks asked for, and the
\* strategies of each complexity exactly its tasks, as soon as there is a strategy to
\* name (build_corpus.py advisor_distribution_plan).
THEOREM PlanHoldsWhatWasAsked ==
    ASSUME NEW C, IsFiniteSet(C), C # {}, NEW chains \in [C -> Nat], NEW total \in Nat,
           NEW X, IsFiniteSet(X), NEW explicit \in [X -> Nat], NEW defaults, IsFiniteSet(defaults),
           NEW whole \in Nat \ {0}, Positive(explicit) # {} \/ defaults # {},
           NEW order, Sorts(order, C), Sorts(order, X \cup defaults)
    PROVE  LET plan == DistributionPlan(total, chains, explicit, defaults, whole, order)
           IN  /\ PlannedGoals(plan) = total
               /\ DOMAIN plan \in SUBSET C
               /\ \A c \in DOMAIN plan : /\ Total(plan[c]) = Levels(total, chains, order)[c]
                                         /\ DOMAIN plan[c] \in SUBSET (X \cup defaults)
<1> DEFINE K       == X \cup defaults
           weights == StrategyWeights(explicit, defaults, whole)
           shares  == IF Positive(chains) = {} THEN [c \in DOMAIN chains |-> 1] ELSE chains
           levels  == Levels(total, chains, order)
           plan    == DistributionPlan(total, chains, explicit, defaults, whole, order)
<1>1. shares \in [C -> Nat] /\ Positive(shares) # {}
  <2>1. CASE Positive(chains) = {}
    <3>1. shares = [c \in C |-> 1]
        BY <2>1
    <3> HIDE DEF shares
    <3>2. shares \in [C -> Nat]
        BY <3>1
    <3>3. PICK c \in C : TRUE
        OBVIOUS
    <3>4. c \in Positive(shares)
        BY <3>1, <3>3 DEF Positive
    <3> QED BY <3>2, <3>4
  <2>2. CASE Positive(chains) # {}
      BY <2>2
  <2> QED BY <2>1, <2>2
<1>2. levels = AllocateCounts(total, shares, order)
    BY DEF Levels
<1>3. weights \in [K -> Nat] /\ Positive(weights) # {} /\ IsFiniteSet(K) /\ Sorts(order, K)
  <2>1. weights \in [K -> Nat] /\ Positive(weights) # {} /\ IsFiniteSet(K)
      BY StrategiesHaveWeights
  <2> QED BY <2>1
<1>4. plan = [c \in DOMAIN levels |-> AllocateCounts(levels[c], weights, order)]
    BY DEF DistributionPlan
<1> HIDE DEF shares, levels, weights, plan, K
<1>5. levels \in [DOMAIN levels -> Nat] /\ DOMAIN levels \in SUBSET C /\ Total(levels) = total
    BY <1>1, <1>2, AllocationAddsUp
<1>6. ASSUME NEW c \in DOMAIN levels PROVE Total(plan[c]) = levels[c] /\ DOMAIN plan[c] \in SUBSET K
  <2> DEFINE part == levels[c]
  <2>1. part \in Nat
      BY <1>5
  <2>2. plan[c] = AllocateCounts(part, weights, order)
      BY <1>4
  <2> HIDE DEF part
  <2>3. Total(AllocateCounts(part, weights, order)) = part /\ DOMAIN AllocateCounts(part, weights, order) \in SUBSET K
      BY <1>3, <2>1, AllocationAddsUp
  <2> QED BY <2>2, <2>3 DEF part
<1>7. DOMAIN plan = DOMAIN levels
    BY <1>4
<1>8. PlannedGoals(plan) = Total([c \in DOMAIN plan |-> Total(plan[c])])
    BY DEF PlannedGoals
<1>9. [c \in DOMAIN plan |-> Total(plan[c])] = levels
  <2>1. [c \in DOMAIN plan |-> Total(plan[c])] = [c \in DOMAIN levels |-> levels[c]]
      BY <1>6, <1>7
  <2>2. levels = [c \in DOMAIN levels |-> levels[c]]
      BY <1>5
  <2> QED BY <2>1, <2>2
<1> QED BY <1>5, <1>6, <1>7, <1>8, <1>9 DEF plan, levels, K

-----------------------------------------------------------------------------
(* Shards.                                                                 *)

\* Every number from one on is at one place of one of `n` rows.
LEMMA RoundRobin ==
    ASSUME NEW n \in Nat \ {0}
    PROVE  /\ \A g \in Nat \ {0} : \E k \in 1..n, i \in Nat \ {0} : g = k + (i - 1) * n
           /\ \A k, h \in 1..n, i, j \in Nat \ {0} :
                 k + (i - 1) * n = h + (j - 1) * n => k = h /\ i = j
<1> DEFINE Placed(m, k, i) == m + 1 = k + (i - 1) * n
           P == {m \in Nat : \E k \in 1..n : \E i \in Nat \ {0} : Placed(m, k, i)}
<1>1. 0 \in P
  <2>1. 1 \in 1..n /\ 1 \in Nat \ {0} /\ Placed(0, 1, 1)
      OBVIOUS
  <2> QED BY <2>1
<1>2. ASSUME NEW m \in Nat, m \in P PROVE m + 1 \in P
  <2>1. PICK k \in 1..n : \E i \in Nat \ {0} : Placed(m, k, i)
      BY <1>2
  <2>2. PICK i \in Nat \ {0} : Placed(m, k, i)
      BY <2>1
  <2>3. \E h \in 1..n : \E j \in Nat \ {0} : Placed(m + 1, h, j)
    <3>1. CASE k < n
      <4>1. (i - 1) * n \in Int
          OBVIOUS
      <4>2. k + 1 \in 1..n /\ Placed(m + 1, k + 1, i)
          BY <2>2, <3>1, <4>1
      <4> HIDE DEF Placed
      <4> QED BY <4>2
    <3>2. CASE k = n
      <4>1. (i + 1) - 1 = i /\ i * n = (i - 1) * n + n /\ (i - 1) * n \in Int
          OBVIOUS
      <4>2. 1 \in 1..n /\ i + 1 \in Nat \ {0} /\ Placed(m + 1, 1, i + 1)
          BY <2>2, <3>2, <4>1
      <4> HIDE DEF Placed
      <4> QED BY <4>2
    <3> QED BY <3>1, <3>2
  <2> HIDE DEF Placed
  <2> QED BY <2>3
<1>3. Nat \subseteq P
  <2> HIDE DEF P
  <2> QED BY <1>1, <1>2, Climb
<1>4. ASSUME NEW g \in Nat \ {0} PROVE \E k \in 1..n, i \in Nat \ {0} : g = k + (i - 1) * n
  <2>1. g - 1 \in Nat /\ (g - 1) + 1 = g
      OBVIOUS
  <2>2. \E k \in 1..n : \E i \in Nat \ {0} : Placed(g - 1, k, i)
    <3> HIDE DEF Placed
    <3> QED BY <1>3, <2>1
  <2> QED BY <2>1, <2>2
<1>5. ASSUME NEW k \in 1..n, NEW h \in 1..n, NEW i \in Nat \ {0}, NEW j \in Nat \ {0},
             k + (i - 1) * n = h + (j - 1) * n
      PROVE  k = h /\ i = j
  <2> DEFINE d == i - j
  <2>1. d * n = h - k
    <3>1. d = (i - 1) - (j - 1) /\ ((i - 1) - (j - 1)) * n = (i - 1) * n - (j - 1) * n
        OBVIOUS
    <3>2. (i - 1) * n \in Int /\ (j - 1) * n \in Int
        OBVIOUS
    <3> QED BY <1>5, <3>1, <3>2
  <2>2. d \in Int /\ h - k < n /\ k - h < n
      OBVIOUS
  <2>3. i = j + d
      OBVIOUS
  <2> HIDE DEF d
  <2>4. ~(d >= 1)
    <3> SUFFICES ASSUME d >= 1 PROVE FALSE
        OBVIOUS
    <3>1. d * n >= n
        BY <2>2
    <3> QED BY <2>1, <2>2, <3>1
  <2>5. ~(d <= -1)
    <3> SUFFICES ASSUME d <= -1 PROVE FALSE
        OBVIOUS
    <3>1. d * n <= -n
        BY <2>2
    <3> QED BY <2>1, <2>2, <3>1
  <2>6. d = 0
      BY <2>2, <2>4, <2>5
  <2> QED BY <2>1, <2>3, <2>6
<1> QED BY <1>4, <1>5

\* The shards hold every goal once, in the order of the file, and their numbers
\* of goals differ by at most one (build_corpus.py shard_goals).
THEOREM ShardsPartitionGoals ==
    ASSUME NEW entries, Len(entries) \in Nat, NEW n \in Nat \ {0}
    PROVE  LET shards == ShardGoals(entries, n)
               Size(k) == (Len(entries) + n - k) \div n
           IN  /\ \A k \in 1..n : /\ Size(k) \in Nat /\ DOMAIN shards[k] = 1..Size(k)
                                  /\ \A h \in 1..n : k <= h => Size(h) <= Size(k) /\ Size(k) <= Size(h) + 1
                                  /\ \A i \in 1..Size(k) : /\ k + (i - 1) * n \in 1..Len(entries)
                                                           /\ shards[k][i] = entries[k + (i - 1) * n]
               /\ \A g \in 1..Len(entries) :
                     \E k \in 1..n : \E i \in 1..Size(k) :
                        /\ g = k + (i - 1) * n /\ shards[k][i] = entries[g]
                        /\ \A h \in 1..n : \A j \in 1..Size(h) : g = h + (j - 1) * n => h = k /\ j = i
<1> DEFINE L       == Len(entries)
           shards  == ShardGoals(entries, n)
           Size(k) == (L + n - k) \div n
<1>1. ASSUME NEW k \in 1..n
      PROVE  /\ Size(k) \in Nat /\ DOMAIN shards[k] = 1..Size(k)
             /\ \A i \in 1..Size(k) : shards[k][i] = entries[k + (i - 1) * n]
             /\ n * Size(k) <= L + n - k /\ L + n - k < n * Size(k) + n
  <2> DEFINE a == L + n - k
  <2>1. a \in Nat /\ a \div n \in Nat /\ a % n \in 0..n - 1 /\ a = n * (a \div n) + (a % n)
    <3>1. a \in Nat
        OBVIOUS
    <3> HIDE DEF a
    <3> QED BY <3>1, Division
  <2>2. n * (a \div n) <= a /\ a < n * (a \div n) + n
    <3> DEFINE q == a \div n
               e == a % n
    <3>1. a \in Nat /\ n * q \in Int /\ e \in 0..n - 1 /\ a = n * q + e
        BY <2>1
    <3> HIDE DEF q, e, a
    <3>2. n * q <= a /\ a < n * q + n
        BY <3>1
    <3> QED BY <3>2 DEF q
  <2>3. shards[k] = [i \in 1..Size(k) |-> entries[k + (i - 1) * n]]
      BY DEF ShardGoals
  <2> QED BY <2>1, <2>2, <2>3
<1> HIDE DEF shards, Size
<1>2. L \in Nat
    OBVIOUS
<1> HIDE DEF L
<1>3. ASSUME NEW k \in 1..n, NEW i \in Nat \ {0}
      PROVE  i <= Size(k) <=> k + (i - 1) * n <= L
  <2>1. n * Size(k) <= L + n - k /\ L + n - k < n * Size(k) + n /\ Size(k) \in Nat
      BY <1>1
  <2> DEFINE q == Size(k)
  <2>2. (i - 1) * n = n * i - n /\ n * i \in Int /\ n * q \in Int
      BY <2>1
  <2>3. i <= q => n * i <= n * q
      BY <2>1
  <2>4. q + 1 <= i => n * q + n <= n * i
    <3>1. n * (q + 1) = n * q + n
        BY <2>1
    <3>2. q + 1 <= i => n * (q + 1) <= n * i
        BY <2>1
    <3> QED BY <3>1, <3>2
  <2>5. i <= q \/ q + 1 <= i
      BY <2>1
  <2> HIDE DEF q
  <2>6. i <= q <=> k + (i - 1) * n <= L
    <3>1. q \in Nat /\ n * q <= L + n - k /\ L + n - k < n * q + n
        BY <2>1 DEF q
    <3> QED BY <1>2, <2>2, <2>3, <2>4, <2>5, <3>1
  <2> QED BY <2>6 DEF q
<1>4. ASSUME NEW k \in 1..n, NEW h \in 1..n, k <= h
      PROVE  Size(h) <= Size(k) /\ Size(k) <= Size(h) + 1
  <2>1. /\ Size(k) \in Nat /\ n * Size(k) <= L + n - k /\ L + n - k < n * Size(k) + n
        /\ Size(h) \in Nat /\ n * Size(h) <= L + n - h /\ L + n - h < n * Size(h) + n
      BY <1>1
  <2> DEFINE p == Size(k)
             q == Size(h)
  <2>2. /\ p \in Nat /\ n * p <= L + n - k /\ L + n - k < n * p + n
        /\ q \in Nat /\ n * q <= L + n - h /\ L + n - h < n * q + n
      BY <2>1
  <2> HIDE DEF p, q
  <2>3. n * q < n * p + n /\ n * p < n * q + n + n /\ n * p \in Int /\ n * q \in Int
      BY <1>2, <1>4, <2>2
  <2>4. q <= p
    <3> SUFFICES ASSUME p + 1 <= q PROVE FALSE
        BY <2>2
    <3>1. n * (p + 1) <= n * q /\ n * (p + 1) = n * p + n
        BY <2>2
    <3> QED BY <2>3, <3>1
  <2>5. p <= q + 1
    <3> SUFFICES ASSUME q + 2 <= p PROVE FALSE
        BY <2>2
    <3>1. n * (q + 2) <= n * p /\ n * (q + 2) = n * q + n + n
        BY <2>2
    <3> QED BY <2>3, <3>1
  <2> QED BY <2>4, <2>5 DEF p, q
<1>5. ASSUME NEW k \in 1..n, NEW i \in 1..Size(k) PROVE k + (i - 1) * n \in 1..L
  <2>1. i \in Nat \ {0} /\ i <= Size(k)
      BY <1>1
  <2>2. k + (i - 1) * n <= L
      BY <1>3, <2>1
  <2>3. (i - 1) * n \in Nat
      BY <2>1
  <2> QED BY <1>2, <2>2, <2>3
<1>6. ASSUME NEW g \in 1..L
      PROVE  \E k \in 1..n : \E i \in 1..Size(k) :
                /\ g = k + (i - 1) * n /\ shards[k][i] = entries[g]
                /\ \A h \in 1..n : \A j \in 1..Size(h) : g = h + (j - 1) * n => h = k /\ j = i
  <2>1. g \in Nat \ {0} /\ g <= L
      BY <1>2
  <2>2. PICK k \in 1..n, i \in Nat \ {0} : g = k + (i - 1) * n
      BY <2>1, RoundRobin
  <2>3. i \in 1..Size(k)
      BY <1>1, <1>3, <2>1, <2>2
  <2>4. shards[k][i] = entries[g]
      BY <1>1, <2>2, <2>3
  <2>5. ASSUME NEW h \in 1..n, NEW j \in 1..Size(h), g = h + (j - 1) * n PROVE h = k /\ j = i
    <3>1. j \in Nat \ {0}
        BY <1>1
    <3> QED BY <2>2, <2>5, <3>1, RoundRobin
  <2> QED BY <2>2, <2>3, <2>4, <2>5
<1>7. \A k \in 1..n : /\ Size(k) \in Nat /\ DOMAIN shards[k] = 1..Size(k)
                      /\ \A h \in 1..n : k <= h => Size(h) <= Size(k) /\ Size(k) <= Size(h) + 1
                      /\ \A i \in 1..Size(k) : /\ k + (i - 1) * n \in 1..L
                                               /\ shards[k][i] = entries[k + (i - 1) * n]
    BY <1>1, <1>4, <1>5
<1> QED BY <1>6, <1>7 DEF L, shards, Size

\* A sequence over a larger set, that keeps to a smaller one.
LEMMA Narrowed ==
    ASSUME NEW T, NEW U, NEW s \in Seq(T), Range(s) \subseteq U
    PROVE  s \in Seq(U)
<1>1. Len(s) \in Nat /\ s \in [1..Len(s) -> T] /\ \A i \in 1..Len(s) : s[i] \in U
    BY LenProperties, RangeOf
<1>2. s \in [1..Len(s) -> U]
    BY <1>1
<1> QED BY <1>1, <1>2, SeqDef

-----------------------------------------------------------------------------
(* Files of rows.                                                          *)

LEMMA NoMarks == JUNK \notin Row /\ EMPTY \notin Row /\ JUNK # EMPTY /\ NONE \notin Jobs
    BY LaunchAssumption, TwoMarks DEF Row

LEMMA RowsAre ==
    ASSUME NEW file
    PROVE  RowsIn(file) = (Written(file.lines) \cup {file.tail}) \ {JUNK, EMPTY}
    BY DEF RowsIn, Written

LEMMA LineCount ==
    ASSUME NEW file \in Files(Row)
    PROVE  /\ JsonlCount(file) \in Nat /\ Len(file.lines) \in Nat
           /\ JsonlCount(file) = IF file.tail = EMPTY THEN Len(file.lines) ELSE Len(file.lines) + 1
<1> DEFINE n == Len(file.lines)
<1>1. n \in Nat /\ JsonlCount(file) = n + (IF file.tail = EMPTY THEN 0 ELSE 1)
    BY FileShape DEF JsonlCount
<1> HIDE DEF n
<1>2. /\ JsonlCount(file) \in Nat /\ n \in Nat
      /\ JsonlCount(file) = IF file.tail = EMPTY THEN n ELSE n + 1
    BY <1>1
<1> QED BY <1>2 DEF n

\* A line is closed.
LEMMA ClosedShape ==
    ASSUME NEW file \in Files(Row), NEW line \in Row \cup {JUNK, EMPTY}
    PROVE  LET new == Closed(file, line)
               n   == Len(file.lines)
           IN  /\ new \in Files(Row) /\ new.tail = EMPTY /\ n \in Nat
               /\ line = EMPTY => new.lines = file.lines
               /\ line # EMPTY => /\ Len(new.lines) = n + 1 /\ new.lines[n + 1] = line
                                  /\ \A i \in 1..n : new.lines[i] = file.lines[i]
               /\ Written(new.lines) = Written(file.lines) \cup ({line} \ {EMPTY})
<1> DEFINE new == Closed(file, line)
           n   == Len(file.lines)
<1>1. file.lines \in Seq(Row \cup {JUNK}) /\ n \in Nat
    BY FileShape
<1>2. new.tail = EMPTY /\ new.lines = (IF line = EMPTY THEN file.lines ELSE Append(file.lines, line))
    BY DEF Closed
<1>3. CASE line = EMPTY
  <2>1. Written(file.lines) = Written(file.lines) \cup ({line} \ {EMPTY})
      BY <1>3
  <2> QED BY <1>1, <1>2, <1>3, <2>1 DEF Files, Closed
<1>4. CASE line # EMPTY
  <2>1. line \in Row \cup {JUNK}
      BY <1>4
  <2>2. /\ Append(file.lines, line) \in Seq(Row \cup {JUNK})
        /\ Len(Append(file.lines, line)) = n + 1 /\ Append(file.lines, line)[n + 1] = line
        /\ \A i \in 1..n : Append(file.lines, line)[i] = file.lines[i]
        /\ Written(Append(file.lines, line)) = Written(file.lines) \cup {line}
      BY <1>1, <2>1, AppendRow
  <2> QED BY <1>1, <1>2, <1>4, <2>2 DEF Files, Closed
<1> QED BY <1>3, <1>4

\* A file in which no row is twice still has each once when its next line is
\* new, JUNK or what was its tail.
LEMMA ClosedOnce ==
    ASSUME NEW file \in Files(Row), EachOnce(file), NEW line \in Row \cup {JUNK, EMPTY},
           line \in {JUNK, EMPTY, file.tail} \/ line \notin Written(file.lines)
    PROVE  EachOnce(Closed(file, line))
<1> DEFINE new == Closed(file, line)
           n   == Len(file.lines)
<1>1. /\ new.tail = EMPTY /\ n \in Nat
      /\ line = EMPTY => new.lines = file.lines
      /\ line # EMPTY => /\ Len(new.lines) = n + 1 /\ new.lines[n + 1] = line
                         /\ \A i \in 1..n : new.lines[i] = file.lines[i]
    BY ClosedShape
<1> HIDE DEF new
<1>2. CASE line = EMPTY
  <2>1. new.lines = file.lines
      BY <1>1, <1>2
  <2> QED BY <1>1, <2>1 DEF EachOnce, new
<1>3. CASE line # EMPTY
  <2>1. \A a \in 1..n : file.lines[a] = line => line = JUNK
      BY <1>3 DEF EachOnce, Written
  <2>2. \A a \in 1..n + 1 : a \in 1..n \/ a = n + 1
      BY <1>1
  <2>3. ASSUME NEW a \in 1..n + 1, NEW b \in 1..n + 1, new.lines[a] = new.lines[b], new.lines[a] # JUNK
        PROVE  a = b
    <3>1. CASE a \in 1..n /\ b \in 1..n
        BY <1>1, <1>3, <2>3, <3>1 DEF EachOnce
    <3>2. CASE a = n + 1 \/ b = n + 1
        BY <1>1, <1>3, <2>1, <2>2, <2>3, <3>2
    <3> QED BY <2>2, <3>1, <3>2
  <2>4. Len(new.lines) = n + 1 /\ new.tail = EMPTY
      BY <1>1, <1>3
  <2> QED BY <2>3, <2>4 DEF EachOnce, new
<1> QED BY <1>2, <1>3 DEF new

\* What comes next and what comes later.
LEMMA FirstOut ==
    ASSUME NEW q \in Seq(Row), q # <<>>
    PROVE  /\ Head(q) \in Row /\ Tail(q) \in Seq(Row)
           /\ Written(q) = {Head(q)} \cup Written(Tail(q))
           /\ NoRepeats(q) => NoRepeats(Tail(q)) /\ Head(q) \notin Written(Tail(q))
<1> DEFINE n == Len(q)
           rest == Tail(q)
<1>1. n \in Nat \ {0} /\ \A i \in 1..n : q[i] \in Row
    BY EmptySeq, ElementOfSeq, LenProperties
<1>2. /\ rest \in Seq(Row) /\ Len(rest) = n - 1 /\ Head(q) = q[1]
      /\ \A i \in 1..n - 1 : rest[i] = q[i + 1]
    BY HeadTailProperties
<1> HIDE DEF rest, n
<1>3. /\ \A i \in 1..n : i = 1 \/ (i - 1 \in 1..n - 1 /\ (i - 1) + 1 = i)
      /\ \A i \in 1..n - 1 : i + 1 \in 1..n /\ i + 1 # 1
      /\ 1 \in 1..n
    BY <1>1
<1>4. Written(q) = {q[i] : i \in 1..n} /\ Written(rest) = {rest[i] : i \in 1..n - 1}
    BY <1>2 DEF Written, n
<1>5. Written(q) = {q[1]} \cup Written(rest)
  <2>1. ASSUME NEW i \in 1..n PROVE q[i] \in {q[1]} \cup Written(rest)
    <3>1. CASE i = 1
        BY <3>1
    <3>2. CASE i - 1 \in 1..n - 1 /\ (i - 1) + 1 = i
      <4>1. rest[i - 1] = q[i]
          BY <1>2, <3>2
      <4> QED BY <1>4, <3>2, <4>1
    <3> QED BY <1>3, <3>1, <3>2
  <2>2. \A r \in {q[1]} \cup Written(rest) : r \in Written(q)
      BY <1>2, <1>3, <1>4
  <2> QED BY <1>4, <2>1, <2>2
<1>6. ASSUME NoRepeats(q) PROVE NoRepeats(rest) /\ q[1] \notin Written(rest)
  <2>1. \A a, b \in 1..n : q[a] = q[b] => a = b
      BY <1>6 DEF NoRepeats, n
  <2>2. \A a, b \in 1..n - 1 : rest[a] = rest[b] => a = b
    <3>1. \A a, b \in 1..n - 1 : a + 1 = b + 1 => a = b
        BY <1>1
    <3> QED BY <1>2, <1>3, <2>1, <3>1
  <2>3. q[1] \notin Written(rest)
      BY <1>2, <1>3, <1>4, <2>1
  <2> QED BY <1>2, <2>2, <2>3 DEF NoRepeats
<1> QED BY <1>1, <1>2, <1>3, <1>5, <1>6 DEF rest

-----------------------------------------------------------------------------
(* What a child appends.                                                   *)

Disk == /\ queue \in [Jobs -> [File -> Seq(Row)]]
        /\ half \in [Jobs -> [File -> Row \cup {EMPTY}]]
        /\ files \in [File -> Files(Row)] /\ author \in [File -> Jobs \cup {NONE}]
        /\ tasks \in 0..MaxTasks /\ cuts \in 0..MaxCuts

\* The share of job `j` and file `f`, when no row is in the file twice.
FreshAt(j, f) == /\ NoRepeats(queue[j][f])
                 /\ Written(queue[j][f]) \cap RowsIn(files[f]) = {}
                 /\ Own(j, f) \cap Written(queue[j][f]) = {}
                 /\ Own(j, f) \cap Written(files[f].lines) = {}

\* All that a child does, to one file, and all that it leaves to the others.
Appends(j, f) ==
    /\ Disk'
    /\ \A g \in File : g # f => files'[g] = files[g] /\ author'[g] = author[g]
    /\ author'[f] \in {j, NONE}
    /\ \A k \in Jobs, g \in File : k # j \/ g # f => queue'[k][g] = queue[k][g] /\ half'[k][g] = half[k][g]
    /\ RowsIn(files'[f]) \subseteq RowsIn(files[f]) \cup Held(j, f)
    /\ Held(j, f)' \subseteq Held(j, f)
    /\ JsonlCount(files[f]) <= JsonlCount(files'[f])
    /\ \A x \in Own(j, f)' : files'[f].tail \in {JUNK, x}
    /\ EachOnce(files[f]) /\ FreshAt(j, f) => EachOnce(files'[f]) /\ FreshAt(j, f)'
    \* No line is lost, and what was begun is there, or is a broken line.
    /\ Written(files[f].lines) \subseteq Written(files'[f].lines)
    /\ \/ files[f].tail = EMPTY \/ Broken(f)' \/ files[f].tail \in Written(files'[f].lines)
       \/ author[f] = j /\ half[j][f] \in Written(files'[f].lines) /\ files[f].tail \in {JUNK, half[j][f]}
    /\ Broken(f)' \/ \A x \in Held(j, f) : x \in Held(j, f)' \/ x \in Written(files'[f].lines)

Changes(j, f, new, a, q, h) == /\ files' = [files EXCEPT ![f] = new]
                               /\ author' = [author EXCEPT ![f] = a]
                               /\ queue' = [queue EXCEPT ![j][f] = q]
                               /\ half' = [half EXCEPT ![j][f] = h]

\* The part of the steps that says what else stands.
LEMMA OthersAppend ==
    ASSUME Disk, NEW j \in Jobs, NEW f \in File,
           NEW new \in Files(Row), NEW a \in {j, NONE}, NEW q \in Seq(Row),
           NEW h \in Row \cup {EMPTY}, Changes(j, f, new, a, q, h),
           tasks' = tasks, cuts' \in 0..MaxCuts
    PROVE  /\ Disk'
           /\ files'[f] = new /\ author'[f] = a /\ queue'[j][f] = q /\ half'[j][f] = h
           /\ \A g \in File : g # f => files'[g] = files[g] /\ author'[g] = author[g]
           /\ \A k \in Jobs, g \in File :
                 k # j \/ g # f => queue'[k][g] = queue[k][g] /\ half'[k][g] = half[k][g]
<1> DEFINE S == Seq(Row)
           H == Row \cup {EMPTY}
           Q == [File -> S]
           P == [File -> H]
           F == Files(Row)
<1>1. /\ queue \in [Jobs -> Q] /\ half \in [Jobs -> P] /\ files \in [File -> F]
      /\ author \in [File -> Jobs \cup {NONE}]
      /\ new \in F /\ q \in S /\ h \in H
      /\ files' = [files EXCEPT ![f] = new] /\ author' = [author EXCEPT ![f] = a]
    BY DEF Disk, Changes
<1> HIDE DEF S, H, F
<1>2. queue[j] \in Q /\ half[j] \in P
    BY <1>1
<1>3. [queue[j] EXCEPT ![f] = q] \in Q /\ [half[j] EXCEPT ![f] = h] \in P
    BY <1>1, <1>2
<1>4. /\ queue' = [queue EXCEPT ![j] = [queue[j] EXCEPT ![f] = q]]
      /\ half' = [half EXCEPT ![j] = [half[j] EXCEPT ![f] = h]]
    BY <1>1 DEF Changes
<1>5. /\ queue'[j] = [queue[j] EXCEPT ![f] = q] /\ half'[j] = [half[j] EXCEPT ![f] = h]
      /\ \A k \in Jobs : k # j => queue'[k] = queue[k] /\ half'[k] = half[k]
    BY <1>1, <1>4
<1>6. /\ queue'[j][f] = q /\ half'[j][f] = h
      /\ \A g \in File : g # f => queue'[j][g] = queue[j][g] /\ half'[j][g] = half[j][g]
    BY <1>2, <1>5
<1>7. queue' \in [Jobs -> Q] /\ half' \in [Jobs -> P]
  <2> HIDE DEF Q, P
  <2> QED BY <1>1, <1>3, <1>4
<1>8. /\ files' \in [File -> F] /\ author' \in [File -> Jobs \cup {NONE}]
      /\ files'[f] = new /\ author'[f] = a
      /\ \A g \in File : g # f => files'[g] = files[g] /\ author'[g] = author[g]
    BY <1>1
<1>9. Disk'
    BY <1>7, <1>8 DEF Disk, S, H, F
<1> QED BY <1>5, <1>6, <1>8, <1>9

LEMMA BeginsDoes ==
    ASSUME Disk, NEW j \in Jobs, NEW f \in File, Begins(j, f), tasks' = tasks
    PROVE  Appends(j, f)
<1> DEFINE q == queue[j][f]
           x == Head(q)
           old == files[f]
           T == old.tail
           a == IF T = EMPTY THEN j ELSE NONE
<1>1. q \in Seq(Row) /\ old \in Files(Row) /\ author[f] \in Jobs \cup {NONE} /\ q # <<>> /\ half[j][f] = EMPTY
    BY DEF Disk, Begins
<1>2. /\ x \in Row /\ Tail(q) \in Seq(Row) /\ Written(q) = {x} \cup Written(Tail(q))
      /\ NoRepeats(q) => NoRepeats(Tail(q)) /\ x \notin Written(Tail(q))
    BY <1>1, FirstOut
<1>3. PICK t \in {JUNK, Glued(T, x)} : files' = [files EXCEPT ![f] = [lines |-> @.lines, tail |-> t]]
    BY DEF Begins
<1> DEFINE new == [lines |-> old.lines, tail |-> t]
<1>4. t \in Row \cup {JUNK} /\ (T = EMPTY => t \in {JUNK, x}) /\ (T # EMPTY => t = JUNK) /\ t # EMPTY
    BY <1>2, NoMarks DEF Glued
<1>5. new \in Files(Row) /\ new.lines = old.lines /\ new.tail = t
    BY <1>1, <1>4 DEF Files
<1>6. files' = [files EXCEPT ![f] = new]
    BY <1>1, <1>3 DEF Disk
<1> HIDE DEF new
<1>7. cuts' \in 0..MaxCuts
    BY LaunchAssumption DEF Disk, Begins
<1>8. /\ author' = [author EXCEPT ![f] = a] /\ a \in {j, NONE}
      /\ queue' = [queue EXCEPT ![j][f] = Tail(q)]
      /\ half' = [half EXCEPT ![j][f] = x]
    BY DEF Begins
<1>9. /\ Disk'
      /\ files'[f] = new /\ author'[f] = a /\ queue'[j][f] = Tail(q) /\ half'[j][f] = x
      /\ \A g \in File : g # f => files'[g] = files[g] /\ author'[g] = author[g]
      /\ \A k \in Jobs, g \in File :
            k # j \/ g # f => queue'[k][g] = queue[k][g] /\ half'[k][g] = half[k][g]
  <2> DEFINE rest == Tail(q)
  <2>1. a \in {j, NONE} /\ rest \in Seq(Row) /\ x \in Row \cup {EMPTY}
      BY <1>2, <1>8
  <2>2. Changes(j, f, new, a, rest, x)
      BY <1>6, <1>8 DEF Changes
  <2> HIDE DEF a, x, q, rest
  <2>3. /\ Disk'
        /\ files'[f] = new /\ author'[f] = a /\ queue'[j][f] = rest /\ half'[j][f] = x
        /\ \A g \in File : g # f => files'[g] = files[g] /\ author'[g] = author[g]
        /\ \A k \in Jobs, g \in File :
              k # j \/ g # f => queue'[k][g] = queue[k][g] /\ half'[k][g] = half[k][g]
      BY <1>5, <1>7, <2>1, <2>2, OthersAppend
  <2> QED BY <2>3 DEF rest
<1> HIDE DEF q, x, old
<1>10. Own(j, f) = {} /\ Held(j, f) = Written(q)
    BY <1>1 DEF Own, Held, q
<1>11. /\ T = EMPTY => Own(j, f)' = {x} /\ Held(j, f)' = Written(q)
       /\ T # EMPTY => Own(j, f)' = {} /\ Held(j, f)' = Written(Tail(q)) /\ Broken(f)'
  <2>1. x # EMPTY /\ j # NONE
      BY <1>2, NoMarks
  <2>2. CASE T = EMPTY
    <3>1. Own(j, f)' = {x}
        BY <1>9, <2>1, <2>2 DEF Own
    <3> QED BY <1>2, <1>9, <2>2, <3>1 DEF Held
  <2>3. CASE T # EMPTY
    <3>1. Own(j, f)' = {} /\ Broken(f)'
        BY <1>4, <1>5, <1>9, <2>1, <2>3 DEF Own, Broken
    <3> QED BY <1>9, <2>3, <3>1 DEF Held
  <2> QED BY <2>2, <2>3
<1>12. /\ RowsIn(old) = (Written(old.lines) \cup {T}) \ {JUNK, EMPTY}
       /\ RowsIn(new) = (Written(old.lines) \cup {t}) \ {JUNK, EMPTY}
    BY <1>5, RowsAre
<1>13. x \in Written(q) /\ Written(Tail(q)) \subseteq Written(q)
    BY <1>2
<1>14. /\ RowsIn(new) \subseteq RowsIn(old) \cup Written(q)
       /\ RowsIn(new) \subseteq RowsIn(old) \cup {x}
       /\ T # EMPTY => RowsIn(new) \subseteq RowsIn(old)
    BY <1>4, <1>12, <1>13
<1>15. JsonlCount(old) <= JsonlCount(new)
  <2>1. /\ JsonlCount(new) = Len(old.lines) + 1 /\ Len(old.lines) \in Nat
        /\ JsonlCount(old) = IF T = EMPTY THEN Len(old.lines) ELSE Len(old.lines) + 1
      BY <1>1, <1>4, <1>5, LineCount DEF old
  <2> QED BY <2>1
<1>16. \A y \in Own(j, f)' : new.tail \in {JUNK, y}
    BY <1>4, <1>5, <1>11
<1>17. ASSUME EachOnce(old), FreshAt(j, f)
       PROVE  EachOnce(new) /\ FreshAt(j, f)'
  <2>1. NoRepeats(q) /\ Written(q) \cap RowsIn(old) = {}
      BY <1>17 DEF FreshAt, q, old
  <2>2. x \notin RowsIn(old) /\ x \notin Written(old.lines)
      BY <1>2, <1>12, <1>13, <2>1, NoMarks
  <2>3. EachOnce(new)
    <3>1. \A i \in 1..Len(old.lines) : old.lines[i] # x
        BY <2>2 DEF Written
    <3> QED BY <1>4, <1>5, <1>17, <3>1 DEF EachOnce
  <2>4. NoRepeats(Tail(q)) /\ Written(Tail(q)) \cap RowsIn(new) = {}
      BY <1>2, <1>13, <1>14, <2>1
  <2>5. Own(j, f)' \cap Written(Tail(q)) = {} /\ Own(j, f)' \cap Written(new.lines) = {}
      BY <1>2, <1>5, <1>11, <2>1, <2>2
  <2> QED BY <1>9, <2>3, <2>4, <2>5 DEF FreshAt
<1>18. \A y \in Held(j, f) : Broken(f)' \/ y \in Held(j, f)'
    BY <1>10, <1>11
<1>19. a \in {j, NONE} /\ Held(j, f)' \subseteq Held(j, f)
    BY <1>10, <1>11, <1>13
<1>20. T = EMPTY \/ Broken(f)'
    BY <1>11
<1> HIDE DEF a, T
<1> QED BY <1>5, <1>9, <1>10, <1>14, <1>15, <1>16, <1>17, <1>18, <1>19, <1>20 DEF Appends, old, T


\* A closed line: what `EndsDoes` and `LandsDoes` have in common.
LEMMA ClosesDoes ==
    ASSUME Disk, NEW j \in Jobs, NEW f \in File,
           NEW line \in Row \cup {JUNK, EMPTY}, NEW q \in Seq(Row), cuts' = cuts, tasks' = tasks,
           Changes(j, f, Closed(files[f], line), NONE, q, EMPTY),
           Written(q) \subseteq Written(queue[j][f]), NoRepeats(queue[j][f]) => NoRepeats(q),
           \/ line \in {JUNK, files[f].tail}
           \/ line \in Held(j, f) /\ (FreshAt(j, f) => line \notin Written(q)),
           files[f].tail # EMPTY =>
              \/ line \in {JUNK, files[f].tail}
              \/ author[f] = j /\ half[j][f] = line /\ line # EMPTY /\ files[f].tail \in {JUNK, line},
           \A x \in Held(j, f) : line = JUNK \/ x = line \/ x \in Written(q)
    PROVE  Appends(j, f)
<1> DEFINE old == files[f]
           T == old.tail
           new == Closed(old, line)
<1>1. old \in Files(Row) /\ queue[j][f] \in Seq(Row) /\ half[j][f] \in Row \cup {EMPTY}
    BY DEF Disk
<1>2. /\ new \in Files(Row) /\ new.tail = EMPTY
      /\ Written(new.lines) = Written(old.lines) \cup ({line} \ {EMPTY})
      /\ line = EMPTY => new.lines = old.lines
      /\ line # EMPTY => Len(new.lines) = Len(old.lines) + 1
    BY <1>1, ClosedShape
<1>3. /\ Disk'
      /\ files'[f] = new /\ author'[f] = NONE /\ queue'[j][f] = q /\ half'[j][f] = EMPTY
      /\ \A g \in File : g # f => files'[g] = files[g] /\ author'[g] = author[g]
      /\ \A k \in Jobs, g \in File :
            k # j \/ g # f => queue'[k][g] = queue[k][g] /\ half'[k][g] = half[k][g]
  <2>1. NONE \in {j, NONE} /\ EMPTY \in Row \cup {EMPTY} /\ cuts' \in 0..MaxCuts /\ new \in Files(Row)
      BY <1>2 DEF Disk
  <2>2. Changes(j, f, new, NONE, q, EMPTY)
      OBVIOUS
  <2> HIDE DEF new
  <2> QED BY <2>1, <2>2, OthersAppend
<1>4. Own(j, f)' = {} /\ Held(j, f)' = Written(q)
    BY <1>3 DEF Own, Held
<1>5. /\ RowsIn(old) = (Written(old.lines) \cup {T}) \ {JUNK, EMPTY}
      /\ RowsIn(new) = (Written(old.lines) \cup {line}) \ {JUNK, EMPTY}
  <2>1. RowsIn(new) = (Written(new.lines) \cup {new.tail}) \ {JUNK, EMPTY}
      BY RowsAre
  <2>2. RowsIn(old) = (Written(old.lines) \cup {T}) \ {JUNK, EMPTY}
      BY RowsAre
  <2> HIDE DEF new, old
  <2> QED BY <1>2, <2>1, <2>2
<1> HIDE DEF new, T
<1>6. RowsIn(new) \subseteq RowsIn(old) \cup Held(j, f)
    BY <1>5 DEF T
<1>7. Held(j, f)' \subseteq Held(j, f)
    BY <1>4 DEF Held
<1>8. JsonlCount(old) <= JsonlCount(new)
  <2>1. /\ Len(old.lines) \in Nat /\ JsonlCount(new) = Len(new.lines)
        /\ JsonlCount(old) = IF T = EMPTY THEN Len(old.lines) ELSE Len(old.lines) + 1
      BY <1>1, <1>2, LineCount DEF T
  <2>2. T # EMPTY => line # EMPTY
      BY <1>1, NoMarks DEF T
  <2> QED BY <1>2, <2>1, <2>2
<1>9. ASSUME EachOnce(old), FreshAt(j, f)
      PROVE  EachOnce(new) /\ FreshAt(j, f)'
  <2>1. /\ NoRepeats(queue[j][f]) /\ Written(queue[j][f]) \cap RowsIn(old) = {}
        /\ Own(j, f) \cap Written(old.lines) = {}
      BY <1>9 DEF FreshAt
  <2>2. line \in Held(j, f) => line \in {JUNK, EMPTY} \/ line \notin Written(old.lines)
      BY <1>5, <2>1 DEF Held
  <2>3. EachOnce(new)
      BY <1>1, <1>9, <2>2, ClosedOnce DEF new, T
  <2>4. Written(q) \cap RowsIn(new) = {}
      BY <1>5, <1>9, <2>1 DEF T
  <2> QED BY <1>3, <1>4, <2>1, <2>3, <2>4 DEF FreshAt
<1>10. /\ Written(old.lines) \subseteq Written(new.lines)
       /\ line # EMPTY => line \in Written(new.lines)
    BY <1>2
<1>11. line = JUNK => Broken(f)'
    BY <1>3, <1>10, NoMarks DEF Broken
<1>12. \/ T = EMPTY \/ Broken(f)' \/ T \in Written(new.lines)
       \/ author[f] = j /\ half[j][f] \in Written(new.lines) /\ T \in {JUNK, half[j][f]}
  <2>1. CASE line \in {JUNK, T}
      BY <1>10, <1>11, <2>1
  <2>2. CASE T # EMPTY /\ line \notin {JUNK, T}
      BY <1>10, <2>2 DEF T
  <2> QED BY <2>1, <2>2
<1>13. Broken(f)' \/ \A x \in Held(j, f) : x \in Held(j, f)' \/ x \in Written(new.lines)
  <2>1. EMPTY \notin Held(j, f)
      BY <1>1, NoMarks, ElementOfSeq DEF Held, Own, Written
  <2> QED BY <1>4, <1>10, <1>11, <2>1
<1> QED BY <1>3, <1>4, <1>6, <1>7, <1>8, <1>9, <1>10, <1>12, <1>13 DEF Appends, old, T

\* To write what is there changes nothing.
LEMMA SameEntry ==
    ASSUME NEW A, NEW B, NEW C, NEW m \in [A -> [B -> C]], NEW a \in A, NEW b \in B
    PROVE  [m EXCEPT ![a][b] = m[a][b]] = m
<1>1. m[a] \in [B -> C]
    OBVIOUS
<1>2. [m[a] EXCEPT ![b] = m[a][b]] = m[a]
    BY <1>1
<1> QED BY <1>2

LEMMA EndsDoes ==
    ASSUME Disk, NEW j \in Jobs, NEW f \in File, Ends(j, f), tasks' = tasks,
           \A y \in Own(j, f) : files[f].tail \in {JUNK, y}
    PROVE  Appends(j, f)
<1> DEFINE q == queue[j][f]
           x == half[j][f]
           old == files[f]
           T == old.tail
<1>1. q \in Seq(Row) /\ old \in Files(Row) /\ author[f] \in Jobs \cup {NONE} /\ x \in Row /\ x # EMPTY
    BY NoMarks DEF Disk, Ends
<1>2. PICK line \in IF author[f] = j THEN {x} ELSE {JUNK, T} :
         files' = [files EXCEPT ![f] = Closed(@, line)]
    BY DEF Ends
<1>3. /\ author' = [author EXCEPT ![f] = NONE] /\ half' = [half EXCEPT ![j][f] = EMPTY]
      /\ cuts' = cuts /\ queue' = queue
    BY DEF Ends
<1>4. Changes(j, f, Closed(old, line), NONE, q, EMPTY)
  <2>1. queue' = [queue EXCEPT ![j][f] = q]
      BY <1>3, SameEntry DEF Disk
  <2>2. files' = [files EXCEPT ![f] = Closed(old, line)]
      BY <1>2 DEF Disk
  <2> HIDE DEF q
  <2> QED BY <1>3, <2>1, <2>2 DEF Changes
<1>5. line \in Row \cup {JUNK, EMPTY}
  <2>1. T \in Row \cup {JUNK, EMPTY}
      BY <1>1, FileShape
  <2> HIDE DEF T, x
  <2> QED BY <1>1, <1>2, <2>1
<1>6. /\ author[f] = j => Own(j, f) = {x} /\ line = x /\ T \in {JUNK, x}
      /\ author[f] # j => Own(j, f) = {} /\ line \in {JUNK, T}
    BY <1>1, <1>2 DEF Own
<1> HIDE DEF x, q
<1>7. /\ Held(j, f) = Written(q) \cup Own(j, f)
      /\ FreshAt(j, f) => Own(j, f) \cap Written(q) = {}
    BY DEF Held, FreshAt, q
<1>8. line \in {JUNK, T} \/ (line \in Held(j, f) /\ (FreshAt(j, f) => line \notin Written(q)))
    BY <1>6, <1>7
<1>9. T # EMPTY => line \in {JUNK, T} \/ (author[f] = j /\ x = line /\ line # EMPTY /\ T \in {JUNK, line})
    BY <1>1, <1>6
<1>10. \A y \in Held(j, f) : line = JUNK \/ y = line \/ y \in Written(q)
    BY <1>6, <1>7
<1> QED BY <1>1, <1>3, <1>4, <1>5, <1>8, <1>9, <1>10, ClosesDoes DEF q, x

LEMMA LandsDoes ==
    ASSUME Disk, NEW j \in Jobs, NEW f \in File, Lands(j, f), tasks' = tasks
    PROVE  Appends(j, f)
<1> DEFINE q == queue[j][f]
           x == Head(q)
           old == files[f]
           T == old.tail
           line == Glued(T, x)
           rest == Tail(q)
<1>1. q \in Seq(Row) /\ old \in Files(Row) /\ q # <<>> /\ half[j][f] = EMPTY
    BY DEF Disk, Lands
<1>2. /\ x \in Row /\ rest \in Seq(Row) /\ Written(q) = {x} \cup Written(rest)
      /\ NoRepeats(q) => NoRepeats(rest) /\ x \notin Written(rest)
    BY <1>1, FirstOut
<1>3. /\ files' = [files EXCEPT ![f] = Closed(@, line)] /\ author' = [author EXCEPT ![f] = NONE]
      /\ queue' = [queue EXCEPT ![j][f] = rest] /\ cuts' = cuts /\ half' = half
    BY DEF Lands
<1> HIDE DEF rest, line
<1>4. Changes(j, f, Closed(old, line), NONE, rest, EMPTY)
  <2>1. half' = [half EXCEPT ![j][f] = half[j][f]]
      BY <1>3, SameEntry DEF Disk
  <2>2. half' = [half EXCEPT ![j][f] = EMPTY]
      BY <1>1, <2>1
  <2>3. files' = [files EXCEPT ![f] = Closed(old, line)]
      BY <1>3 DEF Disk
  <2> QED BY <1>3, <2>2, <2>3 DEF Changes
<1>5. /\ T = EMPTY => line = x
      /\ T # EMPTY => line = JUNK
      /\ line \in Row \cup {JUNK, EMPTY}
    BY <1>2 DEF line, Glued
<1>6. Held(j, f) = Written(q) /\ (FreshAt(j, f) => NoRepeats(q))
    BY <1>1 DEF Held, Own, FreshAt
<1> HIDE DEF q, x
<1>7. \/ line \in {JUNK, T} \/ (line \in Held(j, f) /\ (FreshAt(j, f) => line \notin Written(rest)))
    BY <1>2, <1>5, <1>6
<1>8. /\ \A y \in Held(j, f) : line = JUNK \/ y = line \/ y \in Written(rest)
      /\ Written(rest) \subseteq Written(q) /\ (NoRepeats(q) => NoRepeats(rest))
      /\ T # EMPTY => line \in {JUNK, T}
    BY <1>2, <1>5, <1>6
<1> QED BY <1>2, <1>3, <1>4, <1>5, <1>7, <1>8, ClosesDoes DEF q


\* One file only: what stands of the others, and of the other jobs.
LEMMA OtherPlaces ==
    ASSUME NEW j \in Jobs, NEW f \in File, Appends(j, f)
    PROVE  /\ \A k \in Jobs, g \in File : g # f => Own(k, g)' = Own(k, g) /\ Held(k, g)' = Held(k, g)
           /\ \A k \in Jobs : k # j => Own(k, f)' = {} /\ Held(k, f)' \subseteq Held(k, f)
           /\ \A k \in Jobs : k # j => queue'[k][f] = queue[k][f]
           /\ \A g \in File : g # f => /\ files'[g] = files[g] /\ author'[g] = author[g]
                                       /\ (Broken(g)' <=> Broken(g))
<1>1. ASSUME NEW k \in Jobs, NEW g \in File, g # f
      PROVE  Own(k, g)' = Own(k, g) /\ Held(k, g)' = Held(k, g)
  <2>1. queue'[k][g] = queue[k][g] /\ half'[k][g] = half[k][g] /\ author'[g] = author[g]
      BY <1>1 DEF Appends
  <2> QED BY <2>1 DEF Own, Held
<1>2. ASSUME NEW k \in Jobs, k # j
      PROVE  /\ Own(k, f)' = {} /\ Held(k, f)' \subseteq Held(k, f) /\ queue'[k][f] = queue[k][f]
  <2>1. author'[f] # k /\ queue'[k][f] = queue[k][f]
      BY <1>2, NoMarks DEF Appends
  <2>2. Own(k, f)' = {}
      BY <2>1 DEF Own
  <2> QED BY <2>1, <2>2 DEF Held
<1>3. ASSUME NEW g \in File, g # f
      PROVE  files'[g] = files[g] /\ author'[g] = author[g] /\ (Broken(g)' <=> Broken(g))
  <2>1. files'[g] = files[g] /\ author'[g] = author[g]
      BY <1>3 DEF Appends
  <2> QED BY <2>1 DEF Broken
<1> QED BY <1>1, <1>2, <1>3

\* A row that is in a file or on its way there stays so, or the file has a
\* broken line, and keeps it.
LEMMA SafeStays ==
    ASSUME Disk, TailsAreTheirs, NEW j \in Jobs, NEW f \in File, Appends(j, f),
           NEW k \in Jobs, NEW g \in File, NEW t \in Row, Safe(t, g, k)
    PROVE  Safe(t, g, k)'
<1>1. CASE g # f
  <2>1. files'[g] = files[g] /\ (Broken(g)' <=> Broken(g)) /\ Held(k, g)' = Held(k, g)
      BY <1>1, OtherPlaces
  <2> QED BY <2>1 DEF Safe
<1>2. CASE g = f
  <2> DEFINE T == files[f].tail
             W == Written(files[f].lines)
             V == Written(files'[f].lines)
  <2>1. /\ W \subseteq V
        /\ \/ T = EMPTY \/ Broken(f)' \/ T \in V
           \/ author[f] = j /\ half[j][f] \in V /\ T \in {JUNK, half[j][f]}
        /\ Broken(f)' \/ \A x \in Held(j, f) : x \in Held(j, f)' \/ x \in V
      BY DEF Appends
  <2>2. t # JUNK /\ t # EMPTY /\ j # NONE
      BY NoMarks
  <2>3. \A r \in V : r \notin {JUNK, EMPTY} => r \in RowsIn(files'[f])
      BY RowsAre
  <2> HIDE DEF W, V
  <2>4. CASE t \in RowsIn(files[f])
    <3>1. t \in W \/ t = T
        BY <2>4, RowsAre DEF W
    <3>2. t \in V \/ Broken(f)'
        BY <2>1, <2>2, <3>1
    <3> QED BY <1>2, <2>2, <2>3, <3>2 DEF Safe
  <2>5. CASE Broken(f)
    <3>1. JUNK \in W \/ (T = JUNK /\ author[f] = NONE)
        BY <2>5 DEF Broken, W
    <3>2. JUNK \in V => Broken(f)'
        BY DEF Broken, V
    <3>3. Broken(f)'
        BY <2>1, <2>2, <3>1, <3>2, NoMarks
    <3> QED BY <1>2, <3>3 DEF Safe
  <2>6. CASE t \in Held(k, f)
    <3>1. CASE k = j
        BY <1>2, <2>1, <2>2, <2>3, <2>6, <3>1 DEF Safe
    <3>2. CASE k # j /\ t \in Written(queue[k][f])
      <4>1. t \in Held(k, f)'
          BY <3>2, OtherPlaces DEF Held
      <4> QED BY <1>2, <4>1 DEF Safe
    <3>3. CASE k # j /\ t \in Own(k, f)
      <4>1. author[f] = k /\ T \in {JUNK, t}
          BY <3>3 DEF Own, TailsAreTheirs
      <4>2. Broken(f)' \/ T \in V
          BY <2>2, <3>3, <4>1, <2>1, NoMarks
      <4>3. JUNK \in V => Broken(f)'
          BY DEF Broken, V
      <4>4. Broken(f)' \/ t \in V
          BY <4>1, <4>2, <4>3
      <4> QED BY <1>2, <2>2, <2>3, <4>4 DEF Safe
    <3> QED BY <2>6, <3>1, <3>2, <3>3 DEF Held
  <2> QED BY <1>2, <2>4, <2>5, <2>6 DEF Safe
<1> QED BY <1>1, <1>2

LEMMA Places ==
    ASSUME NEW d \in Dirs
    PROVE  /\ Specs(d) \in File /\ Traces(d) \in File
           /\ \A e \in Dirs : Specs(d) = Specs(e) => d = e
           /\ \A e \in Dirs : Specs(d) # Traces(e)
           /\ \A m \in ModelIx : Evals(m) \in File /\ Specs(d) # Evals(m)
BY DEF File, Specs, Traces, Evals

LEMMA AppendsKeeps ==
    ASSUME Disk, SpecsAreApart, SpecsAreFresh, TailsAreTheirs,
           NEW j \in Jobs, NEW f \in File, Appends(j, f), tasks' = tasks
    PROVE  SpecsAreApart' /\ SpecsAreFresh' /\ TailsAreTheirs'
<1> DEFINE R(d)    == RowsIn(files[Specs(d)])
           H(k, d) == Held(k, Specs(d))
<1>1. ASSUME NEW k \in Jobs, NEW d \in Dirs PROVE H(k, d)' \subseteq H(k, d)
  <2>1. Specs(d) \in File
      BY Places
  <2>2. CASE Specs(d) # f
      BY <2>1, <2>2, OtherPlaces
  <2>3. CASE Specs(d) = f /\ k # j
      BY <2>3, OtherPlaces
  <2>4. CASE Specs(d) = f /\ k = j
      BY <2>4 DEF Appends
  <2> QED BY <2>2, <2>3, <2>4
<1>2. ASSUME NEW d \in Dirs
      PROVE  R(d)' = R(d) \/ (Specs(d) = f /\ R(d)' \subseteq R(d) \cup H(j, d))
  <2>1. Specs(d) \in File
      BY Places
  <2>2. CASE Specs(d) # f
      BY <2>1, <2>2, OtherPlaces
  <2>3. CASE Specs(d) = f
      BY <2>3 DEF Appends
  <2> QED BY <2>2, <2>3
<1>3. /\ \A d \in Dirs : R(d) \subseteq 1..tasks
      /\ \A k \in Jobs, d \in Dirs : H(k, d) \subseteq 1..tasks
      /\ \A d, e \in Dirs : d # e => R(d) \cap R(e) = {}
      /\ \A k \in Jobs, d, e \in Dirs : d # e => H(k, d) \cap R(e) = {}
      /\ \A k, l \in Jobs, d, e \in Dirs : <<k, d>> # <<l, e>> => H(k, d) \cap H(l, e) = {}
    BY DEF SpecsAreApart
<1>4. \A d, e \in Dirs : d # e => ~(Specs(d) = f /\ Specs(e) = f)
    BY Places
<1> HIDE DEF R, H
<1>5. \A d \in Dirs : R(d)' \subseteq 1..tasks'
    BY <1>2, <1>3
<1>6. \A k \in Jobs, d \in Dirs : H(k, d)' \subseteq 1..tasks'
    BY <1>1, <1>3
<1>7. ASSUME NEW d \in Dirs, NEW e \in Dirs, d # e PROVE R(d)' \cap R(e)' = {}
  <2>1. /\ R(d) \cap R(e) = {} /\ H(j, d) \cap R(e) = {} /\ H(j, e) \cap R(d) = {}
      BY <1>3, <1>7
  <2>2. R(d)' = R(d) \/ R(e)' = R(e)
      BY <1>2, <1>4, <1>7
  <2>3. R(d)' \subseteq R(d) \cup H(j, d) /\ R(e)' \subseteq R(e) \cup H(j, e)
      BY <1>2
  <2> QED BY <2>1, <2>2, <2>3
<1>8. ASSUME NEW k \in Jobs, NEW d \in Dirs, NEW e \in Dirs, d # e PROVE H(k, d)' \cap R(e)' = {}
  <2>1. <<k, d>> # <<j, e>>
      BY <1>8
  <2>2. H(k, d) \cap R(e) = {} /\ H(k, d) \cap H(j, e) = {}
      BY <1>3, <1>8, <2>1
  <2>3. H(k, d)' \subseteq H(k, d) /\ R(e)' \subseteq R(e) \cup H(j, e)
      BY <1>1, <1>2
  <2> QED BY <2>2, <2>3
<1>9. ASSUME NEW k \in Jobs, NEW l \in Jobs, NEW d \in Dirs, NEW e \in Dirs, <<k, d>> # <<l, e>>
      PROVE  H(k, d)' \cap H(l, e)' = {}
  <2>1. H(k, d) \cap H(l, e) = {}
      BY <1>3, <1>9
  <2>2. H(k, d)' \subseteq H(k, d) /\ H(l, e)' \subseteq H(l, e)
      BY <1>1
  <2> QED BY <2>1, <2>2
<1>10. SpecsAreApart'
    BY <1>5, <1>6, <1>7, <1>8, <1>9 DEF SpecsAreApart, R, H
<1>11. /\ \A d \in Dirs : EachOnce(files[Specs(d)])
       /\ \A k \in Jobs, d \in Dirs : FreshAt(k, Specs(d))
    BY DEF SpecsAreFresh, FreshAt
<1>12. ASSUME NEW d \in Dirs PROVE EachOnce(files'[Specs(d)])
  <2>1. CASE Specs(d) = f
      BY <1>11, <2>1 DEF Appends
  <2>2. CASE Specs(d) # f
      BY <1>11, <2>2, OtherPlaces, Places
  <2> QED BY <2>1, <2>2
<1>13. ASSUME NEW k \in Jobs, NEW d \in Dirs PROVE FreshAt(k, Specs(d))'
  <2> DEFINE g == Specs(d)
  <2>1. g \in File /\ FreshAt(k, g)
      BY <1>11, Places
  <2>2. CASE g # f
    <3>1. /\ queue'[k][g] = queue[k][g] /\ files'[g] = files[g] /\ Own(k, g)' = Own(k, g)
        BY <2>1, <2>2, OtherPlaces DEF Appends
    <3> HIDE DEF g
    <3>2. FreshAt(k, g)'
        BY <2>1, <3>1 DEF FreshAt
    <3> QED BY <3>2 DEF g
  <2>3. CASE g = f /\ k = j
      BY <1>11, <2>3 DEF Appends
  <2>4. CASE g = f /\ k # j
    <3>1. Own(k, g)' = {} /\ queue'[k][g] = queue[k][g]
        BY <2>4, OtherPlaces
    <3>2. <<k, d>> # <<j, d>>
        BY <2>4
    <3>3. H(k, d) \cap H(j, d) = {}
        BY <1>3, <3>2
    <3>4. R(d)' \subseteq R(d) \cup H(j, d)
        BY <1>2
    <3>5. Written(queue[k][g]) \subseteq H(k, d)
        BY DEF Held, H
    <3>6. /\ NoRepeats(queue[k][g]) /\ Written(queue[k][g]) \cap R(d) = {}
        BY <2>1 DEF FreshAt, R
    <3>7. Written(queue[k][g]) \cap R(d)' = {}
        BY <3>3, <3>4, <3>5, <3>6
    <3>8. R(d)' = RowsIn(files'[g])
        BY DEF R
    <3> HIDE DEF g
    <3>9. FreshAt(k, g)'
        BY <3>1, <3>6, <3>7, <3>8 DEF FreshAt
    <3> QED BY <3>9 DEF g
  <2> QED BY <2>2, <2>3, <2>4
<1>14. SpecsAreFresh'
    BY <1>12, <1>13 DEF SpecsAreFresh, FreshAt
<1>15. TailsAreTheirs'
  <2> SUFFICES ASSUME NEW k \in Jobs, NEW g \in File, NEW x \in Own(k, g)'
               PROVE  files'[g].tail \in {JUNK, x}
      BY DEF TailsAreTheirs
  <2>1. CASE g # f
      BY <2>1, OtherPlaces DEF TailsAreTheirs
  <2>2. CASE g = f /\ k = j
      BY <2>2 DEF Appends
  <2>3. CASE g = f /\ k # j
      BY <2>3, OtherPlaces
  <2> QED BY <2>1, <2>2, <2>3
<1> QED BY <1>10, <1>14, <1>15


-----------------------------------------------------------------------------
(* A thread starts a child, or reaps it.                                   *)

LEMMA NewQueue ==
    ASSUME Disk, SpecsAreApart, SpecsAreFresh, TailsAreTheirs,
           NEW j \in Jobs, NEW q \in [File -> Seq(Row)],
           queue' = [queue EXCEPT ![j] = q], half' = [half EXCEPT ![j] = Whole],
           files' = files, author' = author, cuts' = cuts,
           tasks' \in 0..MaxTasks, tasks <= tasks',
           \A d \in Dirs : NoRepeats(q[Specs(d)]) /\ Written(q[Specs(d)]) \subseteq tasks + 1..tasks',
           \A d, e \in Dirs : d # e => Written(q[Specs(d)]) \cap Written(q[Specs(e)]) = {}
    PROVE  /\ Disk' /\ SpecsAreApart' /\ SpecsAreFresh' /\ TailsAreTheirs'
           /\ \A g \in File : Held(j, g)' = Written(q[g])
           /\ \A k \in Jobs, g \in File : k # j => Held(k, g)' = Held(k, g)
           /\ \A g \in File : Broken(g)' <=> Broken(g)
<1>1. Disk'
  <2> DEFINE S == [File -> Seq(Row)]
             H == [File -> Row \cup {EMPTY}]
  <2>1. queue \in [Jobs -> S] /\ half \in [Jobs -> H] /\ q \in S /\ Whole \in H
      BY DEF Disk, Whole
  <2> HIDE DEF S, H
  <2>2. queue' \in [Jobs -> S] /\ half' \in [Jobs -> H]
      BY <2>1
  <2> QED BY <2>2 DEF Disk, S, H
<1>2. /\ queue'[j] = q /\ half'[j] = Whole
      /\ \A k \in Jobs : k # j => queue'[k] = queue[k] /\ half'[k] = half[k]
    BY DEF Disk
<1>3. \A g \in File : Own(j, g)' = {} /\ Held(j, g)' = Written(q[g])
  <2>1. \A g \in File : Whole[g] = EMPTY
      BY DEF Whole
  <2>2. \A g \in File : Own(j, g)' = {}
      BY <1>2, <2>1 DEF Own
  <2> QED BY <1>2, <2>2 DEF Held
<1>4. \A k \in Jobs, g \in File : k # j => Own(k, g)' = Own(k, g) /\ Held(k, g)' = Held(k, g)
    BY <1>2 DEF Own, Held
<1>5. \A g \in File : Broken(g)' <=> Broken(g)
    BY DEF Broken
<1> DEFINE R(d)    == RowsIn(files[Specs(d)])
           H(k, d) == Held(k, Specs(d))
           N(d)    == Written(q[Specs(d)])
<1>6. \A d \in Dirs : R(d)' = R(d) /\ H(j, d)' = N(d) /\ \A k \in Jobs : k # j => H(k, d)' = H(k, d)
    BY <1>3, <1>4, Places
<1>7. /\ \A d \in Dirs : R(d) \subseteq 1..tasks
      /\ \A k \in Jobs, d \in Dirs : H(k, d) \subseteq 1..tasks
      /\ \A d, e \in Dirs : d # e => R(d) \cap R(e) = {}
      /\ \A k \in Jobs, d, e \in Dirs : d # e => H(k, d) \cap R(e) = {}
      /\ \A k, l \in Jobs, d, e \in Dirs : <<k, d>> # <<l, e>> => H(k, d) \cap H(l, e) = {}
    BY DEF SpecsAreApart
<1>8. /\ \A d \in Dirs : N(d) \subseteq tasks + 1..tasks'
      /\ \A d, e \in Dirs : d # e => N(d) \cap N(e) = {}
    OBVIOUS
<1>9. tasks \in Nat /\ tasks' \in Nat
    BY LaunchAssumption DEF Disk
<1>10. 1..tasks \subseteq 1..tasks' /\ tasks + 1..tasks' \subseteq 1..tasks' /\ (tasks + 1..tasks') \cap 1..tasks = {}
    BY <1>9
<1> HIDE DEF R, H, N
<1>11. SpecsAreApart'
  <2>1. \A d \in Dirs : R(d)' \subseteq 1..tasks'
      BY <1>6, <1>7, <1>10
  <2>2. ASSUME NEW k \in Jobs, NEW d \in Dirs PROVE H(k, d)' \subseteq 1..tasks'
      BY <1>6, <1>7, <1>8, <1>10
  <2>3. ASSUME NEW k \in Jobs, NEW d \in Dirs, NEW e \in Dirs, d # e PROVE H(k, d)' \cap R(e)' = {}
    <3>1. N(d) \cap R(e) = {} /\ H(k, d) \cap R(e) = {}
        BY <1>7, <1>8, <1>10, <2>3
    <3>2. H(k, d)' = N(d) \/ H(k, d)' = H(k, d)
        BY <1>6
    <3> QED BY <1>6, <3>1, <3>2
  <2>4. ASSUME NEW k \in Jobs, NEW l \in Jobs, NEW d \in Dirs, NEW e \in Dirs, <<k, d>> # <<l, e>>
        PROVE  H(k, d)' \cap H(l, e)' = {}
    <3>1. /\ N(d) \cap H(l, e) = {} /\ N(e) \cap H(k, d) = {} /\ H(k, d) \cap H(l, e) = {}
        BY <1>7, <1>8, <1>10, <2>4
    <3>2. (k = j /\ l = j) => N(d) \cap N(e) = {}
        BY <1>8, <2>4
    <3>3. /\ k = j => H(k, d)' = N(d)
          /\ l = j => H(l, e)' = N(e)
          /\ k # j => H(k, d)' = H(k, d)
          /\ l # j => H(l, e)' = H(l, e)
        BY <1>6
    <3> QED BY <3>1, <3>2, <3>3
  <2> QED BY <1>6, <1>7, <2>1, <2>2, <2>3, <2>4 DEF SpecsAreApart, R, H
<1>12. SpecsAreFresh'
  <2> SUFFICES ASSUME NEW k \in Jobs, NEW d \in Dirs PROVE FreshAt(k, Specs(d))'
      BY DEF SpecsAreFresh, FreshAt
  <2> DEFINE g == Specs(d)
  <2>1. g \in File
      BY Places
  <2>2. CASE k = j
    <3>1. /\ queue'[j][g] = q[g] /\ Own(j, g)' = {} /\ NoRepeats(q[g])
        BY <1>2, <1>3, <2>1
    <3>2. Written(q[g]) \cap RowsIn(files[g]) = {}
        BY <1>7, <1>8, <1>10 DEF N, R
    <3> HIDE DEF g
    <3>3. FreshAt(j, g)'
        BY <3>1, <3>2 DEF FreshAt
    <3> QED BY <2>2, <3>3 DEF g
  <2>3. CASE k # j
    <3>1. queue'[k][g] = queue[k][g] /\ Own(k, g)' = Own(k, g)
        BY <1>2, <1>4, <2>1, <2>3
    <3>2. FreshAt(k, g)
        BY DEF SpecsAreFresh, FreshAt
    <3> HIDE DEF g
    <3>3. FreshAt(k, g)'
        BY <3>1, <3>2 DEF FreshAt
    <3> QED BY <3>3 DEF g
  <2> QED BY <2>2, <2>3
<1>13. TailsAreTheirs'
  <2> SUFFICES ASSUME NEW k \in Jobs, NEW g \in File, NEW x \in Own(k, g)'
               PROVE  files'[g].tail \in {JUNK, x}
      BY DEF TailsAreTheirs
  <2>1. k # j /\ x \in Own(k, g)
      BY <1>3, <1>4
  <2> QED BY <2>1 DEF TailsAreTheirs
<1> QED BY <1>1, <1>3, <1>4, <1>5, <1>11, <1>12, <1>13

LEMMA NoMore ==
    /\ Idle \in [File -> Seq(Row)]
    /\ \A g \in File : Idle[g] = <<>> /\ Written(Idle[g]) = {} /\ NoRepeats(Idle[g])
<1>1. <<>> \in Seq(Row) /\ Written(<<>>) = {} /\ NoRepeats(<<>>)
    BY Nobody, NothingWritten
<1> QED BY <1>1 DEF Idle

\* The numbers a build takes are new, and each is taken once.
LEMMA NewNumbers ==
    ASSUME tasks \in 0..MaxTasks, NEW n \in Nat, tasks + n <= MaxTasks
    PROVE  /\ NewTasks(n) \in Seq(Row) /\ NoRepeats(NewTasks(n))
           /\ Written(NewTasks(n)) = tasks + 1..tasks + n
           /\ tasks + n \in 0..MaxTasks /\ 1..tasks \subseteq 1..tasks + n
<1> DEFINE new == NewTasks(n)
<1>1. tasks \in Nat /\ MaxTasks \in Nat
    BY LaunchAssumption
<1>2. \A i \in 1..n : new[i] = tasks + i /\ tasks + i \in Row
    BY <1>1 DEF NewTasks, Row
<1>3. new \in [1..n -> Row]
    BY <1>1, <1>2 DEF NewTasks
<1> HIDE DEF new
<1>4. new \in Seq(Row)
    BY <1>3, SeqDef
<1>5. Len(new) = n
  <2>1. DOMAIN new = 1..n /\ DOMAIN new = 1..Len(new) /\ Len(new) \in Nat
      BY <1>3, <1>4, LenProperties
  <2> QED BY <2>1
<1>6. NoRepeats(new)
    BY <1>1, <1>2, <1>5 DEF NoRepeats
<1>7. Written(new) = tasks + 1..tasks + n
  <2>1. \A r \in Written(new) : r \in tasks + 1..tasks + n
      BY <1>1, <1>2, <1>5 DEF Written
  <2>2. \A r \in tasks + 1..tasks + n : r - tasks \in 1..n /\ r = tasks + (r - tasks)
      BY <1>1
  <2>3. \A r \in tasks + 1..tasks + n : r \in Written(new)
      BY <1>2, <1>5, <2>2 DEF Written
  <2> QED BY <2>1, <2>3
<1>8. tasks + n \in 0..MaxTasks /\ 1..tasks \subseteq 1..tasks + n
    BY <1>1
<1> QED BY <1>4, <1>6, <1>7, <1>8 DEF new

LEMMA RangeIsWritten ==
    ASSUME NEW T, NEW s \in Seq(T)
    PROVE  Range(s) = Written(s)
<1>1. \A r : r \in Range(s) <=> \E a \in 1..Len(s) : r = s[a]
    BY RangeOf
<1> QED BY <1>1 DEF Written

\* What a build is given to write: new tasks, all to one directory.
LEMMA BuildQueue ==
    ASSUME Disk, NEW j \in Jobs, NEW d \in Dirs, Build(j, d)
    PROVE  /\ tasks' \in 0..MaxTasks /\ tasks <= tasks' /\ 1..tasks \subseteq 1..tasks'
           /\ half' = [half EXCEPT ![j] = Whole]
           /\ \E q \in [File -> Seq(Row)] :
                 /\ queue' = [queue EXCEPT ![j] = q]
                 /\ \A e \in Dirs : NoRepeats(q[Specs(e)]) /\ Written(q[Specs(e)]) \subseteq tasks + 1..tasks'
                 /\ \A e, h \in Dirs : e # h => Written(q[Specs(e)]) \cap Written(q[Specs(h)]) = {}
<1>0. PICK n \in 0..MaxBuild :
         /\ tasks + n <= MaxTasks /\ tasks' = tasks + n
         /\ \E distilled \in SUBSET (tasks + 1..tasks + n) :
               queue' = [queue EXCEPT ![j] = [f \in File |->
                            CASE f = Specs(d)  -> Filter(NewTasks(n), distilled)
                              [] f = Traces(d) -> NewTasks(n)
                              [] OTHER         -> <<>>]]
         /\ half' = [half EXCEPT ![j] = Whole]
    BY DEF Build
<1>1. PICK distilled \in SUBSET (tasks + 1..tasks + n) :
         queue' = [queue EXCEPT ![j] = [f \in File |->
                      CASE f = Specs(d)  -> Filter(NewTasks(n), distilled)
                        [] f = Traces(d) -> NewTasks(n)
                        [] OTHER         -> <<>>]]
    BY <1>0
<1> DEFINE new   == NewTasks(n)
           some  == Filter(new, distilled)
           q     == [f \in File |-> CASE f = Specs(d) -> some [] f = Traces(d) -> new [] OTHER -> <<>>]
<1>2. n \in Nat /\ tasks \in 0..MaxTasks /\ tasks \in Nat
    BY LaunchAssumption DEF Disk
<1>3. /\ new \in Seq(Row) /\ NoRepeats(new) /\ Written(new) = tasks + 1..tasks + n
      /\ tasks + n \in 0..MaxTasks /\ 1..tasks \subseteq 1..tasks + n
    BY <1>0, <1>2, NewNumbers
<1> HIDE DEF new
<1>4. some \in Seq(Row) /\ NoRepeats(some) /\ Written(some) \subseteq tasks + 1..tasks + n
  <2>1. Once(new, Len(new), distilled)
      BY <1>3 DEF Once, NoRepeats
  <2>2. some \in Seq(Row) /\ Range(some) = Range(new) \cap distilled /\ NoRepeats(some)
      BY <1>3, <2>1, FilterProperties
  <2>3. Range(some) = Written(some) /\ Range(new) = Written(new)
      BY <1>3, <2>2, RangeIsWritten
  <2> QED BY <1>3, <2>2, <2>3
<1> HIDE DEF some
<1>5. <<>> \in Seq(Row) /\ Written(<<>>) = {} /\ NoRepeats(<<>>)
    BY Nobody, NothingWritten
<1>6. q \in [File -> Seq(Row)]
    BY <1>3, <1>4, <1>5
<1>7. \A e \in Dirs : q[Specs(e)] = IF e = d THEN some ELSE <<>>
    BY Places
<1>8. queue' = [queue EXCEPT ![j] = q]
    BY <1>1 DEF new, some
<1> HIDE DEF q
<1>9. tasks <= tasks'
    BY <1>0, <1>2
<1> QED BY <1>0, <1>3, <1>4, <1>5, <1>6, <1>7, <1>8, <1>9


\* Reading a file yields its rows; none twice, and no fewer than its lines, if
\* each is there once and no line is broken.
LEMMA ReadableRows ==
    ASSUME NEW file \in Files(Row)
    PROVE  LET out == Readable(file)
           IN  /\ out \in Seq(Row) /\ Range(out) = RowsIn(file)
               /\ EachOnce(file) => NoRepeats(out)
               /\ EachOnce(file) /\ Parses(file) => JsonlCount(file) <= Len(out)
<1> DEFINE Text  == Row \cup {JUNK, EMPTY}
           lines == file.lines
           n     == Len(lines)
           all   == Append(lines, file.tail)
           out   == Readable(file)
<1>1. lines \in Seq(Row \cup {JUNK}) /\ n \in Nat /\ file.tail \in Text
    BY FileShape
<1>2. lines \in Seq(Text)
    BY <1>1, SeqMonotonic
<1>3. /\ all \in Seq(Text) /\ Len(all) = n + 1
      /\ \A i \in 1..n : all[i] = lines[i]
      /\ all[n + 1] = file.tail
    BY <1>1, <1>2, AppendProperties
<1>4. out = Filter(all, Row)
    BY DEF Readable
<1> HIDE DEF all, out, Text
<1>5. out \in Seq(Text) /\ Range(out) = Range(all) \cap Row /\ (Once(all, n + 1, Row) => NoRepeats(out))
    BY <1>3, <1>4, FilterProperties
<1>6. out \in Seq(Row)
    BY <1>5, Narrowed
<1>7. (\A i \in 1..n + 1 : i \in 1..n \/ i = n + 1) /\ n + 1 \in 1..n + 1 /\ \A i \in 1..n : i \in 1..n + 1
    BY <1>1
<1>8. Range(all) = {lines[i] : i \in 1..n} \cup {file.tail}
  <2>1. \A r : r \in Range(all) <=> \E i \in 1..n + 1 : r = all[i]
      BY <1>3, RangeOf
  <2>2. \A r \in Range(all) : r \in {lines[i] : i \in 1..n} \cup {file.tail}
      BY <1>3, <1>7, <2>1
  <2>3. \A r \in {lines[i] : i \in 1..n} \cup {file.tail} : r \in Range(all)
      BY <1>3, <1>7, <2>1
  <2> QED BY <2>2, <2>3
<1>9. Range(out) = RowsIn(file)
  <2>1. \A r \in Range(all) : r \in Text
      BY <1>3, RangeOf
  <2> QED BY <1>5, <1>8, <2>1, NoMarks DEF RowsIn, Text
<1>10. ASSUME EachOnce(file) PROVE Once(all, n + 1, Row)
  <2> SUFFICES ASSUME NEW a \in 1..n + 1, NEW b \in 1..n + 1, all[a] = all[b], all[a] \in Row
               PROVE  a = b
      BY DEF Once
  <2>1. CASE a \in 1..n /\ b \in 1..n
      BY <1>3, <1>10, <2>1, NoMarks DEF EachOnce
  <2>2. CASE a = n + 1 /\ b \in 1..n
      BY <1>3, <1>10, <2>2, NoMarks DEF EachOnce
  <2>3. CASE b = n + 1 /\ a \in 1..n
      BY <1>3, <1>10, <2>3, NoMarks DEF EachOnce
  <2> QED BY <1>7, <2>1, <2>2, <2>3
<1>11. ASSUME EachOnce(file), Parses(file) PROVE JsonlCount(file) <= Len(out)
  <2>1. out \in Seq(Text) /\ lines \in Seq(Text) /\ all \in Seq(Text)
      BY <1>2, <1>3, <1>5
  <2>2. \A i \in 1..n : lines[i] \in Row
      BY <1>1, <1>11, ElementOfSeq DEF Parses
  <2>3. CASE file.tail = EMPTY
    <3>1. NoRepeats(lines)
        BY <1>11, <2>2, NoMarks DEF EachOnce, NoRepeats
    <3>2. Range(lines) \subseteq Range(out)
      <4>1. \A r : r \in Range(lines) <=> \E i \in 1..n : r = lines[i]
          BY <1>2, RangeOf
      <4> QED BY <1>5, <1>8, <2>2, <4>1
    <3>3. JsonlCount(file) = n
        BY <2>3, LineCount
    <3> QED BY <2>1, <3>1, <3>2, <3>3, NoLonger
  <2>4. CASE file.tail # EMPTY
    <3>1. file.tail \in Row
        BY <1>1, <1>11, <2>4 DEF Parses, Text
    <3>2. \A i \in 1..n + 1 : all[i] \in Row
        BY <1>3, <1>7, <2>2, <3>1
    <3>3. NoRepeats(all)
        BY <1>3, <1>10, <1>11, <3>2 DEF Once, NoRepeats
    <3>4. Range(all) \subseteq Range(out)
        BY <1>5, <1>8, <2>2, <3>1
    <3>5. JsonlCount(file) = n + 1
        BY <2>4, LineCount
    <3> QED BY <1>3, <2>1, <3>3, <3>4, <3>5, NoLonger
  <2> QED BY <2>3, <2>4
<1> QED BY <1>5, <1>6, <1>9, <1>10, <1>11 DEF out

-----------------------------------------------------------------------------
(* What a job reads and selects.                                           *)

\* The rows of the directories a job has made.
ReadOf(P, n) == Readable(P[0]) \o (IF n >= 1 THEN Readable(P[1]) ELSE <<>>)
                               \o (IF n >= 2 THEN Readable(P[2]) ELSE <<>>)

LEMMA Reading ==
    ASSUME NEW P \in [Dirs -> Files(Row)], NEW h \in 0..2
    PROVE  /\ ReadOf(P, h) \in Seq(Row)
           /\ Range(ReadOf(P, h)) \subseteq UNION {RowsIn(P[d]) : d \in Dirs}
           /\ /\ \A d \in Dirs : EachOnce(P[d])
              /\ \A d, e \in Dirs : d # e => RowsIn(P[d]) \cap RowsIn(P[e]) = {}
              => /\ NoRepeats(ReadOf(P, h))
                 /\ (\A d \in 0..h : Parses(P[d])) =>
                       JsonlCount(P[0]) + (IF h >= 1 THEN JsonlCount(P[1]) ELSE 0)
                                           + (IF h >= 2 THEN JsonlCount(P[2]) ELSE 0)
                       <= Len(ReadOf(P, h))
<1> DEFINE a  == Readable(P[0])
           b  == IF h >= 1 THEN Readable(P[1]) ELSE <<>>
           c  == IF h >= 2 THEN Readable(P[2]) ELSE <<>>
           ab == a \o b
           all == ab \o c
           La == JsonlCount(P[0])
           Lb == IF h >= 1 THEN JsonlCount(P[1]) ELSE 0
           Lc == IF h >= 2 THEN JsonlCount(P[2]) ELSE 0
           Apart == /\ \A d \in Dirs : EachOnce(P[d])
                    /\ \A d, e \in Dirs : d # e => RowsIn(P[d]) \cap RowsIn(P[e]) = {}
           Sound == \A d \in 0..h : Parses(P[d])
<1>1. /\ 0 \in Dirs /\ 1 \in Dirs /\ 2 \in Dirs
      /\ 0 \in 0..h /\ (h >= 1 => 1 \in 0..h) /\ (h >= 2 => 2 \in 0..h)
    BY DEF Dirs
<1>2. ASSUME NEW d \in Dirs
      PROVE  /\ Readable(P[d]) \in Seq(Row) /\ Range(Readable(P[d])) = RowsIn(P[d])
             /\ EachOnce(P[d]) => NoRepeats(Readable(P[d]))
             /\ EachOnce(P[d]) /\ Parses(P[d]) => JsonlCount(P[d]) <= Len(Readable(P[d]))
    BY ReadableRows
<1>3. <<>> \in Seq(Row) /\ Len(<<>>) = 0 /\ Range(<<>>) = {} /\ NoRepeats(<<>>)
    BY Nobody
<1>4. /\ a \in Seq(Row) /\ Range(a) = RowsIn(P[0])
      /\ Apart => NoRepeats(a) /\ (Sound => La <= Len(a))
    BY <1>1, <1>2
<1>5. /\ b \in Seq(Row) /\ Range(b) \subseteq RowsIn(P[1])
      /\ Apart => NoRepeats(b) /\ (Sound => Lb <= Len(b))
  <2>1. CASE h >= 1
      BY <1>1, <1>2, <2>1
  <2>2. CASE ~(h >= 1)
      BY <1>3, <2>2
  <2> QED BY <2>1, <2>2
<1>6. /\ c \in Seq(Row) /\ Range(c) \subseteq RowsIn(P[2])
      /\ Apart => NoRepeats(c) /\ (Sound => Lc <= Len(c))
  <2>1. CASE h >= 2
      BY <1>1, <1>2, <2>1
  <2>2. CASE ~(h >= 2)
      BY <1>3, <2>2
  <2> QED BY <2>1, <2>2
<1>7. Apart => /\ RowsIn(P[0]) \cap RowsIn(P[1]) = {}
               /\ RowsIn(P[0]) \cap RowsIn(P[2]) = {}
               /\ RowsIn(P[1]) \cap RowsIn(P[2]) = {}
    BY <1>1
<1>8. /\ Len(a) \in Nat /\ Len(b) \in Nat /\ Len(c) \in Nat
      /\ La \in Nat /\ Lb \in Nat /\ Lc \in Nat
  <2>1. \A d \in Dirs : JsonlCount(P[d]) \in Nat
      BY LineCount
  <2>2. Len(a) \in Nat /\ Len(b) \in Nat /\ Len(c) \in Nat
      BY <1>4, <1>5, <1>6, LenProperties
  <2> QED BY <1>1, <2>1, <2>2
<1>9. ReadOf(P, h) = all
    BY DEF ReadOf
<1> HIDE DEF a, b, c, Apart, Sound, La, Lb, Lc
<1>10. /\ ab \in Seq(Row) /\ Len(ab) = Len(a) + Len(b) /\ Range(ab) = Range(a) \cup Range(b)
       /\ Apart => NoRepeats(ab)
  <2>1. /\ ab \in Seq(Row) /\ Len(ab) = Len(a) + Len(b) /\ Range(ab) = Range(a) \cup Range(b)
        /\ NoRepeats(a) /\ NoRepeats(b) /\ Range(a) \cap Range(b) = {} => NoRepeats(ab)
      BY <1>4, <1>5, Concatenation
  <2>2. Apart => Range(a) \cap Range(b) = {}
      BY <1>4, <1>5, <1>7
  <2> QED BY <1>4, <1>5, <2>1, <2>2
<1> HIDE DEF ab
<1>11. /\ all \in Seq(Row) /\ Len(all) = Len(ab) + Len(c) /\ Range(all) = Range(ab) \cup Range(c)
       /\ Apart => NoRepeats(all)
  <2>1. /\ all \in Seq(Row) /\ Len(all) = Len(ab) + Len(c) /\ Range(all) = Range(ab) \cup Range(c)
        /\ NoRepeats(ab) /\ NoRepeats(c) /\ Range(ab) \cap Range(c) = {} => NoRepeats(all)
      BY <1>6, <1>10, Concatenation
  <2>2. Apart => Range(ab) \cap Range(c) = {}
      BY <1>4, <1>5, <1>6, <1>7, <1>10
  <2> QED BY <1>6, <1>10, <2>1, <2>2
<1> HIDE DEF all
<1>12. Range(all) \subseteq UNION {RowsIn(P[d]) : d \in Dirs}
    BY <1>1, <1>4, <1>5, <1>6, <1>10, <1>11
<1>13. Apart => NoRepeats(all) /\ (Sound => La + Lb + Lc <= Len(all))
    BY <1>4, <1>5, <1>6, <1>8, <1>10, <1>11
<1> QED BY <1>9, <1>11, <1>12, <1>13 DEF Apart, Sound, La, Lb, Lc

LEMMA GreatestNumber ==
    ASSUME NEW n \in Nat, NEW S, S \subseteq 1..n, S # {}
    PROVE  Max(S) \in S
<1> DEFINE Bounds == {b \in Nat : \A y \in S : y <= b}
<1>1. \A y \in S : y \in Nat /\ y <= n
    OBVIOUS
<1>2. n \in Bounds /\ Bounds \subseteq Nat
    BY <1>1
<1>3. PICK b \in Bounds : \A x \in Bounds : b <= x
    BY <1>2, LeastNumber
<1>4. b \in S
  <2> SUFFICES ASSUME b \notin S PROVE FALSE
      OBVIOUS
  <2>1. \A y \in S : y <= b - 1
      BY <1>1
  <2>2. b # 0
    <3>1. PICK y \in S : y \in 1..n
        OBVIOUS
    <3>2. y <= b
        BY <1>3
    <3> QED BY <3>1, <3>2
  <2>3. b - 1 \in Bounds
      BY <2>1, <2>2
  <2> QED BY <1>3, <2>3
<1>5. \A y \in S : b >= y
    BY <1>1
<1>6. \E x \in S : \A y \in S : x >= y
    BY <1>4, <1>5
<1> QED BY <1>6 DEF Max

\* The reference traces of a selection are traces that were read.
LEMMA TracesAreRows ==
    ASSUME TypeOK, NEW j \in Jobs, NEW picked
    PROVE  SelectedTraces(picked, j) \subseteq Row
<1> DEFINE all == Read("traces", j)
           At(goal) == {i \in 1..Len(all) : GoalOf[all[i]] = goal}
           goals == {GoalOf[t] : t \in Range(all)}
           T == TraceRows(j)
<1>1. all \in Seq(Row)
  <2> DEFINE P == [d \in Dirs |-> files[Traces(d)]]
  <2>1. P \in [Dirs -> Files(Row)] /\ attempts[j] \in 0..2
      BY Places DEF TypeOK
  <2>2. all = ReadOf(P, attempts[j])
    <3>1. P[0] = files[<<"traces", 0>>] /\ P[1] = files[<<"traces", 1>>] /\ P[2] = files[<<"traces", 2>>]
        BY DEF Dirs, Traces
    <3> HIDE DEF P
    <3> QED BY <3>1 DEF Read, ReadOf
  <2> HIDE DEF P, all
  <2> QED BY <2>1, <2>2, Reading
<1> HIDE DEF all
<1>2. Len(all) \in Nat /\ \A r : r \in Range(all) <=> \E i \in 1..Len(all) : r = all[i]
    BY <1>1, RangeOf
<1>3. T = [goal \in goals |-> all[Max(At(goal))]]
    BY DEF TraceRows, all
<1>4. ASSUME NEW goal \in goals PROVE all[Max(At(goal))] \in Row
  <2>1. PICK t \in Range(all) : goal = GoalOf[t]
      OBVIOUS
  <2>2. PICK i \in 1..Len(all) : t = all[i]
      BY <1>2, <2>1
  <2>3. At(goal) # {} /\ At(goal) \subseteq 1..Len(all)
      BY <2>1, <2>2
  <2> HIDE DEF At
  <2>4. Max(At(goal)) \in 1..Len(all)
      BY <1>2, <2>3, GreatestNumber
  <2> QED BY <1>1, <2>4, ElementOfSeq
<1> HIDE DEF T, goals, At
<1>5. DOMAIN T = goals /\ \A p \in goals : T[p] \in Row
    BY <1>3, <1>4
<1> QED BY <1>5 DEF SelectedTraces, T

LEMMA CountableType ==
    ASSUME files \in [File -> Files(Row)], NEW n \in Int
    PROVE  Countable(n) \in Nat
<1> DEFINE a == JsonlCount(files[Specs(0)])
           b == JsonlCount(files[Specs(1)])
           c == JsonlCount(files[Specs(2)])
<1>1. Countable(n) = a + (IF n >= 1 THEN b ELSE 0) + (IF n >= 2 THEN c ELSE 0)
    BY DEF Countable
<1>2. a \in Nat /\ b \in Nat /\ c \in Nat
  <2>1. \A d \in Dirs : JsonlCount(files[Specs(d)]) \in Nat
      BY LineCount, Places
  <2>2. 0 \in Dirs /\ 1 \in Dirs /\ 2 \in Dirs
      BY DEF Dirs
  <2> QED BY <2>1, <2>2
<1> HIDE DEF a, b, c
<1> QED BY <1>1, <1>2

\* Every file of specs that the job has counted can be read, line by line.
CountedParse(j) == \A d \in 0..attempts[j] : Parses(files[Specs(d)])

LEMMA SelectionOf ==
    ASSUME TypeOK, SpecsAreApart, SpecsAreFresh, NEW j \in Jobs
    PROVE  /\ Picked(j) \in Seq(Row) /\ Picked(j) \in Seq(1..tasks) /\ NoRepeats(Picked(j))
           /\ Len(Picked(j)) <= Target
           /\ CountedParse(j) /\ Countable(attempts[j]) >= Target => Len(Picked(j)) = Target
<1> DEFINE read   == Read("specs", j)
           unique == FirstOfEach(read)
           P      == [d \in Dirs |-> files[Specs(d)]]
<1>1. /\ files \in [File -> Files(Row)] /\ P \in [Dirs -> Files(Row)]
      /\ attempts[j] \in 0..2 /\ Target \in Nat
      /\ \A d \in Dirs : EachOnce(P[d]) /\ RowsIn(P[d]) \subseteq 1..tasks
      /\ \A d, e \in Dirs : d # e => RowsIn(P[d]) \cap RowsIn(P[e]) = {}
    BY LaunchAssumption, Places DEF TypeOK, SpecsAreFresh, SpecsAreApart
<1>2. read = ReadOf(P, attempts[j])
  <2>1. P[0] = files[<<"specs", 0>>] /\ P[1] = files[<<"specs", 1>>] /\ P[2] = files[<<"specs", 2>>]
      BY DEF Dirs, Specs
  <2> HIDE DEF P
  <2> QED BY <2>1 DEF Read, ReadOf
<1>3. CountedParse(j) => \A d \in 0..attempts[j] : Parses(P[d])
    BY <1>1 DEF CountedParse, Dirs
<1>4. Countable(attempts[j]) = JsonlCount(P[0]) + (IF attempts[j] >= 1 THEN JsonlCount(P[1]) ELSE 0)
                                                + (IF attempts[j] >= 2 THEN JsonlCount(P[2]) ELSE 0)
    BY DEF Countable, Dirs
<1> HIDE DEF P, read
<1>5. /\ read \in Seq(Row) /\ NoRepeats(read)
      /\ Range(read) \subseteq UNION {RowsIn(P[d]) : d \in Dirs}
      /\ CountedParse(j) => Countable(attempts[j]) <= Len(read)
    BY <1>1, <1>2, <1>3, <1>4, Reading
<1>6. Range(read) \subseteq 1..tasks
    BY <1>1, <1>5
<1>7. unique \in Seq(Row) /\ NoRepeats(unique) /\ Range(unique) = Range(read) /\ Len(unique) = Len(read)
    BY <1>5, FirstOccurrences
<1>8. Picked(j) = SelectByDepth(unique, Target, DepthOf)
    BY DEF Picked, read
<1> HIDE DEF unique
<1>9. /\ Picked(j) \in Seq(Row) /\ NoRepeats(Picked(j)) /\ Range(Picked(j)) \subseteq Range(unique)
      /\ Len(Picked(j)) = IF Target < Len(unique) THEN Target ELSE Len(unique)
    BY <1>1, <1>7, <1>8, Selection
<1>10. Picked(j) \in Seq(1..tasks)
    BY <1>6, <1>7, <1>9, Narrowed
<1>11. Len(unique) \in Nat /\ Countable(attempts[j]) \in Nat
  <2>1. attempts[j] \in Int
      BY <1>1
  <2> QED BY <1>1, <1>7, <2>1, CountableType, LenProperties
<1> QED BY <1>1, <1>5, <1>7, <1>9, <1>10, <1>11

-----------------------------------------------------------------------------
(* What a step of one job leaves to the others.                            *)

Replies == {NONE} \cup [status : {"queued", "running", "succeeded", "failed"},
                        phase : {"queued", "corpus", "top_up", "select_corpus",
                                 "eval", "succeeded", "failed"}]

LocalsOK == /\ at \in [Jobs -> Steps]
            /\ attempts \in [Jobs -> 0..2] /\ generated \in [Jobs -> Nat]
            /\ model \in [Jobs -> 1..Len(Models) + 1]
            /\ selected \in [Jobs -> [specs : SUBSET Row, traces : SUBSET Row]]
            /\ copy \in [Jobs -> Seq(Row)] /\ warned \in [Jobs -> SUBSET ModelIx]

OutputsOK == /\ combined \in [specs : Seq(Row), traces : SUBSET Row]
             /\ owner \in [specs : Jobs \cup {NONE}, traces : Jobs \cup {NONE}]
             /\ dedup \in [ModelIx -> [rows : Seq(Row), by : Jobs \cup {NONE}]]
             /\ report = NONE \/ report \subseteq 1..tasks

LEMMA TypeParts ==
    /\ TypeOK <=> request \in Requests /\ job \in [Jobs -> Replies] /\ LocalsOK /\ Disk /\ OutputsOK
    /\ TypeOK' <=> request' \in Requests /\ job' \in [Jobs -> Replies] /\ LocalsOK' /\ Disk' /\ OutputsOK'
BY Zenon DEF TypeOK, LocalsOK, Disk, OutputsOK, Replies

\* Of all other threads, everything stands.
OthersStand(j) == \A k \in Jobs : k # j =>
    /\ at'[k] = at[k] /\ attempts'[k] = attempts[k] /\ generated'[k] = generated[k]
    /\ model'[k] = model[k] /\ selected'[k] = selected[k]
    /\ copy'[k] = copy[k] /\ warned'[k] = warned[k]

\* The thread's own share of the invariant.
ProgressOf(j) ==
    /\ at[j] \in {"unborn", "corpus", "building"} => attempts[j] = 0
    /\ at[j] = "top_up" => attempts[j] >= 1
    /\ at[j] \notin {"eval", "evaluating", "copying"} => model[j] = 1
    /\ at[j] \in {"evaluating", "copying"} => model[j] \in ModelIx
    /\ NoRepeats(copy[j])

CountOf(j) == /\ at[j] = "topping" => generated[j] <= Countable(attempts[j])
              /\ at[j] = "top_up" => generated[j] <= Countable(attempts[j] - 1)

Chosen(j) == owner.specs = j /\ owner.traces = j

CoverOf(j) ==
    /\ at[j] \in {"selecting", "eval", "evaluating", "copying"} /\ owner.specs = j =>
          selected[j].specs = Range(combined.specs)
    /\ at[j] \in {"eval", "evaluating", "copying"} /\ owner.traces = j =>
          selected[j].traces = combined.traces
    /\ at[j] \in {"eval", "evaluating", "copying"} =>
          \A m \in ModelIx : m < model[j] /\ dedup[m].by = j /\ Chosen(j) =>
             Due(j) \subseteq Range(dedup[m].rows) \/ m \in warned[j]
    /\ at[j] = "evaluating" /\ Chosen(j) => \A t \in Due(j) : Safe(t, Evals(model[j]), j)
    /\ at[j] = "copying" /\ Chosen(j) => Due(j) \subseteq Range(copy[j]) \/ model[j] \in warned[j]

LEMMA Shares ==
    /\ Progress <=> \A j \in Jobs : ProgressOf(j)
    /\ CountsAreBacked <=> \A j \in Jobs : CountOf(j)
    /\ SelectionIsCovered <=> \A j \in Jobs : CoverOf(j)
<1>1. SelectionIsCovered <=> \A j \in Jobs : CoverOf(j)
  <2>1. SelectionIsCovered => \A j \in Jobs : CoverOf(j)
      BY DEF SelectionIsCovered, CoverOf, Chosen
  <2>2. (\A j \in Jobs : CoverOf(j)) => SelectionIsCovered
      BY DEF SelectionIsCovered, CoverOf, Chosen
  <2> QED BY <2>1, <2>2
<1> QED BY <1>1 DEF Progress, ProgressOf, CountsAreBacked, CountOf

LEMMA SharesNext ==
    /\ Progress' <=> \A j \in Jobs : ProgressOf(j)'
    /\ CountsAreBacked' <=> \A j \in Jobs : CountOf(j)'
    /\ SelectionIsCovered' <=> \A j \in Jobs : CoverOf(j)'
<1>1. SelectionIsCovered' <=> \A j \in Jobs : CoverOf(j)'
  <2>1. SelectionIsCovered' => \A j \in Jobs : CoverOf(j)'
      BY DEF SelectionIsCovered, CoverOf, Chosen
  <2>2. (\A j \in Jobs : CoverOf(j)') => SelectionIsCovered'
      BY DEF SelectionIsCovered, CoverOf, Chosen
  <2> QED BY <2>1, <2>2
<1> QED BY <1>1 DEF Progress, ProgressOf, CountsAreBacked, CountOf

\* A thread that ends leaves no locals behind.
LEMMA Exits ==
    ASSUME LocalsOK, NEW j \in Jobs, Exit(j)
    PROVE  LocalsOK' /\ OthersStand(j) /\ ProgressOf(j)' /\ CountOf(j)' /\ CoverOf(j)'
<1>1. at'[j] = "done" /\ attempts'[j] = 0 /\ model'[j] = 1 /\ OthersStand(j)
    BY DEF Exit, Goto, LocalsOK, OthersStand
<1>2. /\ at' \in [Jobs -> Steps] /\ attempts' \in [Jobs -> 0..2] /\ generated' \in [Jobs -> Nat]
      /\ warned' \in [Jobs -> SUBSET ModelIx]
    BY DEF Exit, Goto, LocalsOK, Steps
<1>3. model' \in [Jobs -> 1..Len(Models) + 1]
  <2>1. 1 \in 1..Len(Models) + 1
      BY LaunchAssumption
  <2> QED BY <2>1 DEF Exit, LocalsOK
<1>4. selected' \in [Jobs -> [specs : SUBSET Row, traces : SUBSET Row]]
  <2> DEFINE R == [specs : SUBSET Row, traces : SUBSET Row]
  <2>1. Unselected \in R /\ selected \in [Jobs -> R] /\ selected' = [selected EXCEPT ![j] = Unselected]
      BY DEF Exit, LocalsOK, Unselected
  <2> HIDE DEF R
  <2>2. selected' \in [Jobs -> R]
      BY <2>1
  <2> QED BY <2>2 DEF R
<1>5. copy' \in [Jobs -> Seq(Row)]
  <2>1. <<>> \in Seq(Row)
      BY Nobody
  <2> QED BY <2>1 DEF Exit, LocalsOK
<1>6. LocalsOK'
    BY <1>2, <1>3, <1>4, <1>5 DEF LocalsOK
<1>7. copy'[j] = <<>> /\ NoRepeats(<<>>)
    BY Nobody DEF Exit, LocalsOK
<1> QED BY <1>1, <1>6, <1>7 DEF ProgressOf, CountOf, CoverOf

-----------------------------------------------------------------------------
(* The invariant, frame by frame.                                          *)

MoreLines == \A d \in Dirs : JsonlCount(files[Specs(d)]) <= JsonlCount(files'[Specs(d)])

\* More lines, more to count.
LEMMA MoreToCount ==
    ASSUME files \in [File -> Files(Row)], files' \in [File -> Files(Row)], MoreLines
    PROVE  /\ \A n \in Int : Countable(n) \in Nat /\ Countable(n)' \in Nat /\ Countable(n) <= Countable(n)'
           /\ \A n \in {1, 2} : Countable(n - 1) + JsonlCount(files[Specs(n)]) <= Countable(n)
           /\ Countable(0) = JsonlCount(files[Specs(0)])
<1>1. 0 \in Dirs /\ 1 \in Dirs /\ 2 \in Dirs
    BY DEF Dirs
<1>2. /\ \A e \in Dirs : JsonlCount(files[Specs(e)]) \in Nat
      /\ \A e \in Dirs : JsonlCount(files'[Specs(e)]) \in Nat
    BY LineCount, Places
<1> DEFINE a == JsonlCount(files[Specs(0)])
           b == JsonlCount(files[Specs(1)])
           c == JsonlCount(files[Specs(2)])
           x == JsonlCount(files'[Specs(0)])
           y == JsonlCount(files'[Specs(1)])
           z == JsonlCount(files'[Specs(2)])
           C(n) == a + (IF n >= 1 THEN b ELSE 0) + (IF n >= 2 THEN c ELSE 0)
           D(n) == x + (IF n >= 1 THEN y ELSE 0) + (IF n >= 2 THEN z ELSE 0)
<1>3. \A n : Countable(n) = C(n) /\ Countable(n)' = D(n)
    BY DEF Countable
<1>4. a \in Nat /\ b \in Nat /\ c \in Nat /\ x \in Nat /\ y \in Nat /\ z \in Nat /\ a <= x /\ b <= y /\ c <= z
    BY <1>1, <1>2 DEF MoreLines
<1> HIDE DEF a, b, c, x, y, z
<1>5. /\ \A n \in Int : C(n) \in Nat /\ D(n) \in Nat /\ C(n) <= D(n)
      /\ C(0) + b <= C(1) /\ C(1) + c <= C(2) /\ C(0) = a
    BY <1>4
<1> HIDE DEF C, D
<1>6. \A n \in Int : Countable(n) \in Nat /\ Countable(n)' \in Nat /\ Countable(n) <= Countable(n)'
    BY <1>3, <1>5
<1>7. \A n \in {1, 2} : Countable(n - 1) + JsonlCount(files[Specs(n)]) <= Countable(n)
  <2>1. Countable(0) + b <= Countable(1) /\ Countable(1) + c <= Countable(2)
      BY <1>3, <1>5
  <2>2. 1 - 1 = 0 /\ 2 - 1 = 1
      OBVIOUS
  <2> QED BY <2>1, <2>2 DEF b, c
<1>8. Countable(0) = JsonlCount(files[Specs(0)])
    BY <1>3, <1>5 DEF a
<1> QED BY <1>6, <1>7, <1>8

\* What a step of job `j` does to the directories: rows are added, and no other
\* job's rows are lost in silence.
DiskGrows(j) ==
    /\ Disk' /\ SpecsAreApart' /\ SpecsAreFresh' /\ TailsAreTheirs'
    /\ 1..tasks \subseteq 1..tasks' /\ MoreLines
    /\ \A k \in Jobs, m \in ModelIx, t \in Row :
          k # j /\ Safe(t, Evals(m), k) => Safe(t, Evals(m), k)'

\* What a step of job `j` does to the outputs: it replaces them by its own.
OutputsGrow(j) ==
    /\ OutputsOK'
    /\ combined'.specs \in Seq(1..tasks') /\ NoRepeats(combined'.specs)
    /\ \A m \in ModelIx : NoRepeats(dedup'[m].rows)
    /\ owner'.specs = j \/ (owner'.specs = owner.specs /\ combined'.specs = combined.specs)
    /\ owner'.traces = j \/ (owner'.traces = owner.traces /\ combined'.traces = combined.traces)
    /\ \A m \in ModelIx : dedup'[m].by = j \/ dedup'[m] = dedup[m]

LEMMA OutputsStay ==
    ASSUME TypeOK, IInv, UNCHANGED outputs, 1..tasks \subseteq 1..tasks', NEW j \in Jobs
    PROVE  OutputsGrow(j)
<1>1. combined' = combined /\ dedup' = dedup /\ report' = report /\ owner' = owner
    BY DEF outputs
<1>2. combined'.specs \in Seq(1..tasks')
    BY <1>1, SeqMonotonic DEF IInv
<1>3. NoRepeats(combined.specs) /\ \A m \in ModelIx : NoRepeats(dedup[m].rows)
    BY DEF IInv, OneRowPerTask
<1>4. OutputsOK'
  <2>1. OutputsOK
      BY TypeParts
  <2> QED BY <1>1, <2>1 DEF OutputsOK
<1> QED BY <1>1, <1>2, <1>3, <1>4 DEF OutputsGrow

\* A step of one job keeps the invariant if it keeps the job's own share.
LEMMA OwnShare ==
    ASSUME TypeOK, IInv, NEW j \in Jobs, request' = request, job' \in [Jobs -> Replies],
           LocalsOK', OthersStand(j), DiskGrows(j), OutputsGrow(j),
           ProgressOf(j)', CountOf(j)', CoverOf(j)'
    PROVE  IInv'
<1>1. OneRowPerTask'
  <2>1. TypeOK'
      BY TypeParts DEF DiskGrows, OutputsGrow
  <2> QED BY <2>1 DEF OneRowPerTask, OutputsGrow
<1>2. /\ combined'.specs \in Seq(1..tasks')
      /\ SpecsAreApart' /\ SpecsAreFresh' /\ TailsAreTheirs'
    BY DEF DiskGrows, OutputsGrow
<1>3. Progress'
  <2>1. \A k \in Jobs : k # j => ProgressOf(k)'
      BY Shares DEF IInv, OthersStand, ProgressOf
  <2> QED BY <2>1, SharesNext
<1>4. CountsAreBacked'
  <2>1. ASSUME NEW k \in Jobs, k # j PROVE CountOf(k)'
    <3>1. \A n \in Int : Countable(n) \in Nat /\ Countable(n)' \in Nat /\ Countable(n) <= Countable(n)'
        BY MoreToCount DEF DiskGrows, Disk, TypeOK
    <3>2. attempts'[k] = attempts[k] /\ generated'[k] = generated[k] /\ at'[k] = at[k]
        BY <2>1 DEF OthersStand
    <3>3. attempts[k] \in 0..2 /\ generated[k] \in Nat
        BY DEF TypeOK
    <3>4. /\ at[k] = "topping" => generated[k] <= Countable(attempts[k])
          /\ at[k] = "top_up" => generated[k] <= Countable(attempts[k] - 1)
        BY Shares DEF IInv, CountOf
    <3>5. /\ Countable(attempts[k]) \in Nat /\ Countable(attempts[k])' \in Nat
          /\ Countable(attempts[k]) <= Countable(attempts[k])'
          /\ Countable(attempts[k] - 1) \in Nat /\ Countable(attempts[k] - 1)' \in Nat
          /\ Countable(attempts[k] - 1) <= Countable(attempts[k] - 1)'
      <4>1. attempts[k] \in Int /\ attempts[k] - 1 \in Int
          BY <3>3
      <4> QED BY <3>1, <3>2, <4>1
    <3>6. /\ at[k] = "topping" => generated[k] <= Countable(attempts[k])'
          /\ at[k] = "top_up" => generated[k] <= Countable(attempts[k] - 1)'
        BY <3>3, <3>4, <3>5
    <3> QED BY <3>2, <3>6 DEF CountOf
  <2> QED BY <2>1, SharesNext
<1>5. SelectionIsCovered'
  <2>1. ASSUME NEW k \in Jobs, k # j PROVE CoverOf(k)'
    <3>1. /\ at'[k] = at[k] /\ model'[k] = model[k] /\ selected'[k] = selected[k]
          /\ copy'[k] = copy[k] /\ warned'[k] = warned[k] /\ Due(k)' = Due(k)
        BY <2>1 DEF OthersStand, Due
    <3>2. /\ owner'.specs = k => owner.specs = k /\ combined'.specs = combined.specs
          /\ owner'.traces = k => owner.traces = k /\ combined'.traces = combined.traces
          /\ \A m \in ModelIx : dedup'[m].by = k => dedup'[m] = dedup[m]
          /\ Chosen(k)' => Chosen(k)
        BY <2>1 DEF OutputsGrow, Chosen
    <3>3. CoverOf(k) /\ ProgressOf(k)
        BY Shares DEF IInv
    <3>4. Due(k) \subseteq Row
        BY DEF TypeOK, Due
    <3>5. at[k] = "evaluating" => model[k] \in ModelIx
        BY <3>3 DEF ProgressOf
    <3>6. at[k] = "evaluating" /\ Chosen(k)' => \A t \in Due(k) : Safe(t, Evals(model[k]), k)'
      <4>1. ASSUME at[k] = "evaluating", Chosen(k)', NEW t \in Due(k)
            PROVE  Safe(t, Evals(model[k]), k)'
        <5>1. Safe(t, Evals(model[k]), k) /\ t \in Row /\ model[k] \in ModelIx
            BY <3>2, <3>3, <3>4, <3>5, <4>1 DEF CoverOf
        <5>2. \A m \in ModelIx : Safe(t, Evals(m), k) => Safe(t, Evals(m), k)'
            BY <2>1, <5>1 DEF DiskGrows
        <5>3. Evals(model[k])' = Evals(model[k])
            BY <3>1 DEF Evals
        <5> QED BY <5>1, <5>2, <5>3
      <4> QED BY <4>1
    <3>7. /\ at[k] \in {"selecting", "eval", "evaluating", "copying"} /\ owner'.specs = k =>
                selected[k].specs = Range(combined'.specs)
          /\ at[k] \in {"eval", "evaluating", "copying"} /\ owner'.traces = k =>
                selected[k].traces = combined'.traces
          /\ at[k] \in {"eval", "evaluating", "copying"} =>
                \A m \in ModelIx : m < model[k] /\ dedup'[m].by = k /\ Chosen(k)' =>
                   Due(k) \subseteq Range(dedup'[m].rows) \/ m \in warned[k]
          /\ at[k] = "copying" /\ Chosen(k)' => Due(k) \subseteq Range(copy[k]) \/ model[k] \in warned[k]
        BY <3>2, <3>3 DEF CoverOf
    <3> QED BY <3>1, <3>6, <3>7 DEF CoverOf
  <2> QED BY <2>1, SharesNext
<1> QED BY <1>1, <1>2, <1>3, <1>4, <1>5 DEF IInv

-----------------------------------------------------------------------------
(* The steps.                                                              *)

LEMMA Phases ==
    ASSUME TypeOK, NEW j \in Jobs,
           NEW status \in {"queued", "running", "succeeded", "failed"},
           NEW what \in {"queued", "corpus", "top_up", "select_corpus", "eval", "succeeded", "failed"},
           Phase(j, status, what)
    PROVE  job' \in [Jobs -> Replies]
<1>1. [status |-> status, phase |-> what] \in Replies
    BY DEF Replies
<1>2. job \in [Jobs -> Replies] /\ job' = [job EXCEPT ![j] = [status |-> status, phase |-> what]]
    BY TypeParts DEF Phase
<1> HIDE DEF Replies
<1> QED BY <1>1, <1>2

LEMMA DiskStays ==
    ASSUME TypeOK, IInv, UNCHANGED children, UNCHANGED disk, tasks' = tasks, NEW j \in Jobs
    PROVE  /\ DiskGrows(j) /\ 1..tasks \subseteq 1..tasks' /\ files' = files
           /\ \A k \in Jobs, g \in File, t \in Row : Safe(t, g, k) => Safe(t, g, k)'
<1>1. queue' = queue /\ half' = half /\ files' = files /\ author' = author /\ cuts' = cuts
    BY DEF children, disk
<1>2. \A k \in Jobs, g \in File : Own(k, g)' = Own(k, g) /\ Held(k, g)' = Held(k, g) /\ (Broken(g)' <=> Broken(g))
    BY <1>1 DEF Own, Held, Broken
<1>3. \A k \in Jobs, g \in File, t \in Row : Safe(t, g, k) => Safe(t, g, k)'
    BY <1>1, <1>2 DEF Safe
<1>4. Disk'
  <2>1. Disk
      BY TypeParts
  <2> QED BY <1>1, <2>1 DEF Disk
<1>5. SpecsAreApart' /\ SpecsAreFresh' /\ TailsAreTheirs'
  <2>1. SpecsAreApart /\ SpecsAreFresh /\ TailsAreTheirs
      BY DEF IInv
  <2>2. \A k \in Jobs, d \in Dirs : Own(k, Specs(d))' = Own(k, Specs(d)) /\ Held(k, Specs(d))' = Held(k, Specs(d))
      BY <1>2, Places
  <2>3. SpecsAreApart'
      BY <1>1, <2>1, <2>2 DEF SpecsAreApart, Specs
  <2>4. SpecsAreFresh'
      BY <1>1, <2>1, <2>2 DEF SpecsAreFresh, EachOnce, Specs
  <2>5. TailsAreTheirs'
      BY <1>1, <1>2, <2>1 DEF TailsAreTheirs
  <2> QED BY <2>3, <2>4, <2>5
<1>6. MoreLines
  <2>1. \A d \in Dirs : JsonlCount(files[Specs(d)]) \in Nat
      BY LineCount, Places DEF TypeOK
  <2> QED BY <1>1, <2>1 DEF MoreLines
<1>7. \A m \in ModelIx : Evals(m) \in File
    BY DEF File, Evals
<1>8. \A k \in Jobs, m \in ModelIx, t \in Row : Safe(t, Evals(m), k) => Safe(t, Evals(m), k)'
    BY <1>3, <1>7
<1> QED BY <1>1, <1>3, <1>4, <1>5, <1>6, <1>8 DEF DiskGrows

\* A thread starts a child, with rows to write, or has none any more.
LEMMA QueueChanges ==
    ASSUME TypeOK, IInv, NEW j \in Jobs, NEW q \in [File -> Seq(Row)],
           queue' = [queue EXCEPT ![j] = q], half' = [half EXCEPT ![j] = Whole],
           UNCHANGED disk,
           tasks' \in 0..MaxTasks, tasks <= tasks',
           \A d \in Dirs : NoRepeats(q[Specs(d)]) /\ Written(q[Specs(d)]) \subseteq tasks + 1..tasks',
           \A d, e \in Dirs : d # e => Written(q[Specs(d)]) \cap Written(q[Specs(e)]) = {}
    PROVE  /\ DiskGrows(j) /\ 1..tasks \subseteq 1..tasks' /\ files' = files
           /\ \A g \in File, t \in Row :
                 t \in RowsIn(files[g]) \cup Written(q[g]) => Safe(t, g, j)'
<1>1. files' = files /\ author' = author /\ cuts' = cuts
    BY DEF disk
<1>2. Disk /\ SpecsAreApart /\ SpecsAreFresh /\ TailsAreTheirs
    BY TypeParts DEF IInv
<1>3. /\ Disk' /\ SpecsAreApart' /\ SpecsAreFresh' /\ TailsAreTheirs'
      /\ \A g \in File : Held(j, g)' = Written(q[g])
      /\ \A k \in Jobs, g \in File : k # j => Held(k, g)' = Held(k, g)
      /\ \A g \in File : Broken(g)' <=> Broken(g)
    BY <1>1, <1>2, NewQueue
<1>4. \A k \in Jobs, g \in File, t \in Row : k # j /\ Safe(t, g, k) => Safe(t, g, k)'
    BY <1>1, <1>3 DEF Safe
<1>5. \A g \in File, t \in Row : t \in RowsIn(files[g]) \cup Written(q[g]) => Safe(t, g, j)'
    BY <1>1, <1>3 DEF Safe
<1>6. MoreLines
  <2>1. \A d \in Dirs : JsonlCount(files[Specs(d)]) \in Nat
      BY LineCount, Places DEF TypeOK
  <2> QED BY <1>1, <2>1 DEF MoreLines
<1>7. 1..tasks \subseteq 1..tasks'
  <2>1. tasks \in Nat /\ tasks' \in Nat
      BY LaunchAssumption DEF TypeOK
  <2> QED BY <2>1
<1>8. \A m \in ModelIx : Evals(m) \in File
    BY DEF File, Evals
<1>9. \A k \in Jobs, m \in ModelIx, t \in Row :
          k # j /\ Safe(t, Evals(m), k) => Safe(t, Evals(m), k)'
    BY <1>4, <1>8
<1> QED BY <1>1, <1>3, <1>5, <1>6, <1>7, <1>9 DEF DiskGrows

LEMMA Reaps ==
    ASSUME TypeOK, IInv, NEW j \in Jobs, Reaped(j), UNCHANGED disk, tasks' = tasks
    PROVE  DiskGrows(j) /\ 1..tasks \subseteq 1..tasks' /\ files' = files
<1>1. queue' = [queue EXCEPT ![j] = Idle] /\ half' = [half EXCEPT ![j] = Whole]
    BY DEF Reaped
<1>2. tasks' \in 0..MaxTasks /\ tasks <= tasks'
  <2>1. tasks \in 0..MaxTasks /\ MaxTasks \in Nat
      BY LaunchAssumption DEF TypeOK
  <2> QED BY <2>1
<1>3. \A d \in Dirs : Specs(d) \in File
    BY Places
<1>4. /\ Idle \in [File -> Seq(Row)]
      /\ \A d \in Dirs : NoRepeats(Idle[Specs(d)]) /\ Written(Idle[Specs(d)]) \subseteq tasks + 1..tasks'
      /\ \A d, e \in Dirs : d # e => Written(Idle[Specs(d)]) \cap Written(Idle[Specs(e)]) = {}
    BY <1>3, NoMore
<1> QED BY <1>1, <1>2, <1>4, QueueChanges

LEMMA Builds ==
    ASSUME TypeOK, IInv, NEW j \in Jobs, NEW d \in Dirs, Build(j, d), UNCHANGED disk
    PROVE  DiskGrows(j) /\ 1..tasks \subseteq 1..tasks' /\ files' = files
<1>1. Disk
    BY TypeParts
<1>2. /\ tasks' \in 0..MaxTasks /\ tasks <= tasks' /\ half' = [half EXCEPT ![j] = Whole]
      /\ \E q \in [File -> Seq(Row)] :
            /\ queue' = [queue EXCEPT ![j] = q]
            /\ \A e \in Dirs : NoRepeats(q[Specs(e)]) /\ Written(q[Specs(e)]) \subseteq tasks + 1..tasks'
            /\ \A e, h \in Dirs : e # h => Written(q[Specs(e)]) \cap Written(q[Specs(h)]) = {}
    BY <1>1, BuildQueue
<1>3. PICK q \in [File -> Seq(Row)] :
            /\ queue' = [queue EXCEPT ![j] = q]
            /\ \A e \in Dirs : NoRepeats(q[Specs(e)]) /\ Written(q[Specs(e)]) \subseteq tasks + 1..tasks'
            /\ \A e, h \in Dirs : e # h => Written(q[Specs(e)]) \cap Written(q[Specs(h)]) = {}
    BY <1>2
<1> QED BY <1>2, <1>3, QueueChanges

LEMMA ChildKeeps ==
    ASSUME TypeOK, IInv, NEW j \in Jobs, Child(j)
    PROVE  IInv'
<1>1. PICK f \in File : Begins(j, f) \/ Ends(j, f) \/ Lands(j, f)
    BY DEF Child
<1>2. /\ request' = request /\ job' = job /\ at' = at /\ UNCHANGED local /\ tasks' = tasks
      /\ UNCHANGED outputs
    BY DEF Child
<1>3. /\ attempts' = attempts /\ generated' = generated /\ model' = model /\ selected' = selected
      /\ copy' = copy /\ warned' = warned
    BY <1>2 DEF local
<1>4. Disk /\ LocalsOK /\ job \in [Jobs -> Replies]
    BY TypeParts
<1>5. SpecsAreApart /\ SpecsAreFresh /\ TailsAreTheirs
    BY DEF IInv
<1>6. Appends(j, f)
  <2>1. CASE Begins(j, f)
      BY <1>2, <1>4, <2>1, BeginsDoes
  <2>2. CASE Ends(j, f)
      BY <1>2, <1>4, <1>5, <2>2, EndsDoes DEF TailsAreTheirs
  <2>3. CASE Lands(j, f)
      BY <1>2, <1>4, <2>3, LandsDoes
  <2> QED BY <1>1, <2>1, <2>2, <2>3
<1>7. SpecsAreApart' /\ SpecsAreFresh' /\ TailsAreTheirs' /\ Disk'
    BY <1>2, <1>4, <1>5, <1>6, AppendsKeeps DEF Appends
<1>8. \A k \in Jobs, g \in File, t \in Row : Safe(t, g, k) => Safe(t, g, k)'
    BY <1>4, <1>5, <1>6, SafeStays
<1>9. MoreLines
  <2> SUFFICES ASSUME NEW d \in Dirs PROVE JsonlCount(files[Specs(d)]) <= JsonlCount(files'[Specs(d)])
      BY DEF MoreLines
  <2>1. Specs(d) \in File
      BY Places
  <2>2. CASE Specs(d) = f
      BY <1>6, <2>2 DEF Appends
  <2>3. CASE Specs(d) # f
    <3>1. files'[Specs(d)] = files[Specs(d)] /\ files[Specs(d)] \in Files(Row)
        BY <1>4, <1>6, <2>1, <2>3 DEF Appends, Disk
    <3>2. JsonlCount(files[Specs(d)]) \in Nat
        BY <3>1, LineCount
    <3> QED BY <3>1, <3>2
  <2> QED BY <2>2, <2>3
<1>10. \A m \in ModelIx : Evals(m) \in File
    BY DEF File, Evals
<1>11. DiskGrows(j)
  <2>1. \A k \in Jobs, m \in ModelIx, t \in Row : Safe(t, Evals(m), k) => Safe(t, Evals(m), k)'
      BY <1>8, <1>10
  <2> QED BY <1>2, <1>7, <1>9, <2>1 DEF DiskGrows
<1>12. OutputsGrow(j)
    BY <1>2, OutputsStay
<1>13. LocalsOK' /\ OthersStand(j)
    BY <1>2, <1>3, <1>4 DEF LocalsOK, OthersStand
<1>14. ProgressOf(j)'
    BY <1>2, <1>3, Shares DEF IInv, ProgressOf
<1>15. CountOf(j)'
  <2>1. \A n \in Int : Countable(n) \in Nat /\ Countable(n)' \in Nat /\ Countable(n) <= Countable(n)'
      BY <1>4, <1>7, <1>9, MoreToCount DEF Disk
  <2>2. attempts[j] \in 0..2 /\ generated[j] \in Nat
      BY <1>4 DEF LocalsOK
  <2>3. /\ at[j] = "topping" => generated[j] <= Countable(attempts[j])
        /\ at[j] = "top_up" => generated[j] <= Countable(attempts[j] - 1)
      BY Shares DEF IInv, CountOf
  <2>4. /\ Countable(attempts[j]) \in Nat /\ Countable(attempts[j])' \in Nat
        /\ Countable(attempts[j]) <= Countable(attempts[j])'
        /\ Countable(attempts[j] - 1) \in Nat /\ Countable(attempts[j] - 1)' \in Nat
        /\ Countable(attempts[j] - 1) <= Countable(attempts[j] - 1)'
    <3>1. attempts[j] \in Int /\ attempts[j] - 1 \in Int
        BY <2>2
    <3> QED BY <1>3, <2>1, <3>1
  <2>5. /\ at[j] = "topping" => generated[j] <= Countable(attempts[j])'
        /\ at[j] = "top_up" => generated[j] <= Countable(attempts[j] - 1)'
      BY <2>2, <2>3, <2>4
  <2> QED BY <1>2, <1>3, <2>5 DEF CountOf
<1>16. CoverOf(j)'
  <2>1. CoverOf(j) /\ ProgressOf(j)
      BY Shares DEF IInv
  <2>2. combined' = combined /\ owner' = owner /\ dedup' = dedup
      BY <1>2 DEF outputs
  <2>3. Due(j)' = Due(j) /\ (Chosen(j)' <=> Chosen(j)) /\ Due(j) \subseteq Row
      BY <1>3, <1>4, <2>2 DEF Due, Chosen, LocalsOK
  <2>4. at[j] = "evaluating" /\ Chosen(j) => \A t \in Due(j) : Safe(t, Evals(model[j]), j)'
    <3>1. ASSUME at[j] = "evaluating", Chosen(j), NEW t \in Due(j)
          PROVE  Safe(t, Evals(model[j]), j)'
      <4>1. Safe(t, Evals(model[j]), j) /\ t \in Row /\ Evals(model[j]) \in File
          BY <1>10, <2>1, <2>3, <3>1 DEF CoverOf, ProgressOf
      <4>2. Evals(model[j])' = Evals(model[j])
          BY <1>3 DEF Evals
      <4> QED BY <1>8, <4>1, <4>2
    <3> QED BY <3>1
  <2>5. /\ at[j] \in {"selecting", "eval", "evaluating", "copying"} /\ owner.specs = j =>
              selected[j].specs = Range(combined.specs)
        /\ at[j] \in {"eval", "evaluating", "copying"} /\ owner.traces = j =>
              selected[j].traces = combined.traces
        /\ at[j] \in {"eval", "evaluating", "copying"} =>
              \A m \in ModelIx : m < model[j] /\ dedup[m].by = j /\ Chosen(j) =>
                 Due(j) \subseteq Range(dedup[m].rows) \/ m \in warned[j]
        /\ at[j] = "copying" /\ Chosen(j) => Due(j) \subseteq Range(copy[j]) \/ model[j] \in warned[j]
      BY <2>1 DEF CoverOf
  <2> QED BY <1>2, <1>3, <2>2, <2>3, <2>4, <2>5 DEF CoverOf
<1> QED BY <1>2, <1>4, <1>11, <1>12, <1>13, <1>14, <1>15, <1>16, OwnShare

LEMMA LaunchKeeps ==
    ASSUME TypeOK, IInv, NEW j \in Jobs, Launch(j)
    PROVE  IInv'
<1>1. /\ at[j] = "unborn" /\ request' = request /\ UNCHANGED local /\ UNCHANGED children
      /\ UNCHANGED disk /\ tasks' = tasks /\ UNCHANGED outputs
    BY DEF Launch
<1>2. /\ attempts' = attempts /\ generated' = generated /\ model' = model
      /\ selected' = selected /\ copy' = copy /\ warned' = warned
    BY <1>1 DEF local
<1>3. DiskGrows(j) /\ OutputsGrow(j)
    BY <1>1, DiskStays, OutputsStay
<1>4. /\ job' \in [Jobs -> Replies]
      /\ at' = [at EXCEPT ![j] = "done"] \/ at' = [at EXCEPT ![j] = "corpus"]
    BY Phases DEF Launch, Goto
<1>5. LocalsOK' /\ OthersStand(j) /\ at'[j] \in {"done", "corpus"}
    BY <1>2, <1>4, TypeParts DEF LocalsOK, OthersStand, Steps
<1>6. ProgressOf(j)' /\ CountOf(j)' /\ CoverOf(j)'
  <2>1. attempts[j] = 0 /\ model[j] = 1 /\ NoRepeats(copy[j])
      BY <1>1, Shares DEF IInv, ProgressOf
  <2> QED BY <1>2, <1>5, <2>1 DEF ProgressOf, CountOf, CoverOf
<1> QED BY <1>1, <1>3, <1>4, <1>5, <1>6, OwnShare

LEMMA StartCorpusKeeps ==
    ASSUME TypeOK, IInv, NEW j \in Jobs, StartCorpus(j)
    PROVE  IInv'
<1>1. /\ at[j] = "corpus" /\ Build(j, 0) /\ request' = request /\ UNCHANGED local
      /\ UNCHANGED disk /\ UNCHANGED outputs
    BY DEF StartCorpus
<1>2. /\ attempts' = attempts /\ generated' = generated /\ model' = model
      /\ selected' = selected /\ copy' = copy /\ warned' = warned
    BY <1>1 DEF local
<1>3. DiskGrows(j) /\ OutputsGrow(j)
  <2>1. 0 \in Dirs
      BY DEF Dirs
  <2> QED BY <1>1, <2>1, Builds, OutputsStay
<1>4. job' \in [Jobs -> Replies] /\ at' = [at EXCEPT ![j] = "building"]
    BY Phases DEF StartCorpus, Goto
<1>5. LocalsOK' /\ OthersStand(j) /\ at'[j] = "building"
    BY <1>2, <1>4, TypeParts DEF LocalsOK, OthersStand, Steps
<1>6. ProgressOf(j)' /\ CountOf(j)' /\ CoverOf(j)'
  <2>1. attempts[j] = 0 /\ model[j] = 1 /\ NoRepeats(copy[j])
      BY <1>1, Shares DEF IInv, ProgressOf
  <2> QED BY <1>2, <1>5, <2>1 DEF ProgressOf, CountOf, CoverOf
<1> QED BY <1>1, <1>3, <1>4, <1>5, <1>6, OwnShare

LEMMA EndCorpusKeeps ==
    ASSUME TypeOK, IInv, NEW j \in Jobs, EndCorpus(j)
    PROVE  IInv'
<1>1. /\ at[j] = "building" /\ Reaped(j) /\ request' = request
      /\ UNCHANGED disk /\ tasks' = tasks /\ UNCHANGED outputs
    BY DEF EndCorpus
<1>2. DiskGrows(j) /\ OutputsGrow(j) /\ files' = files
    BY <1>1, Reaps, OutputsStay
<1>3. LocalsOK /\ attempts[j] = 0 /\ model[j] = 1 /\ NoRepeats(copy[j])
    BY <1>1, TypeParts, Shares DEF IInv, ProgressOf
<1>4. CASE request.run_benchmark
  <2> DEFINE n == JsonlCount(files[Specs(0)])
  <2>1. /\ generated' = [generated EXCEPT ![j] = n]
        /\ at' = [at EXCEPT ![j] = "topping"]
        /\ job' = job /\ attempts' = attempts /\ model' = model
        /\ selected' = selected /\ copy' = copy /\ warned' = warned
      BY <1>4 DEF EndCorpus, Goto
  <2>2. /\ Countable(0)' \in Nat /\ Countable(0) = n /\ n \in Nat
        /\ Countable(0)' = Countable(0)
    <3>1. /\ \A x \in Int : Countable(x) \in Nat /\ Countable(x)' \in Nat /\ Countable(x) <= Countable(x)'
          /\ Countable(0) = n
        BY <1>2, MoreToCount DEF DiskGrows, Disk, TypeOK
    <3>2. Countable(0)' = Countable(0)
        BY <1>2 DEF Countable
    <3> QED BY <3>1, <3>2
  <2> HIDE DEF n
  <2>3. LocalsOK'
      BY <1>3, <2>1, <2>2 DEF LocalsOK, Steps
  <2>4. /\ OthersStand(j) /\ at'[j] = "topping" /\ attempts'[j] = 0 /\ model'[j] = 1
        /\ generated'[j] = n
      BY <1>3, <2>1 DEF LocalsOK, OthersStand
  <2>5. ProgressOf(j)' /\ CoverOf(j)'
      BY <1>3, <2>1, <2>4 DEF ProgressOf, CoverOf
  <2>6. CountOf(j)'
    <3>1. n <= Countable(0)'
        BY <2>2
    <3> QED BY <2>4, <3>1 DEF CountOf
  <2>7. job' \in [Jobs -> Replies]
      BY <2>1, TypeParts
  <2> QED BY <1>1, <1>2, <2>3, <2>4, <2>5, <2>6, <2>7, OwnShare
<1>5. CASE ~request.run_benchmark
  <2>1. Phase(j, "succeeded", "succeeded") /\ Exit(j)
      BY <1>5 DEF EndCorpus
  <2>2. job' \in [Jobs -> Replies]
      BY <2>1, Phases
  <2>3. LocalsOK' /\ OthersStand(j) /\ ProgressOf(j)' /\ CountOf(j)' /\ CoverOf(j)'
      BY <1>3, <2>1, Exits
  <2> QED BY <1>1, <1>2, <2>2, <2>3, OwnShare
<1> QED BY <1>4, <1>5

LEMMA StartTopUpKeeps ==
    ASSUME TypeOK, IInv, NEW j \in Jobs, StartTopUp(j)
    PROVE  IInv'
<1>1. /\ at[j] = "topping" /\ attempts[j] < 2
      /\ attempts' = [attempts EXCEPT ![j] = @ + 1] /\ at' = [at EXCEPT ![j] = "top_up"]
      /\ Build(j, attempts'[j])
      /\ request' = request /\ generated' = generated /\ model' = model
      /\ selected' = selected /\ copy' = copy /\ warned' = warned
      /\ UNCHANGED disk /\ UNCHANGED outputs
    BY DEF StartTopUp, Short, Goto
<1>2. LocalsOK /\ model[j] = 1 /\ NoRepeats(copy[j])
    BY <1>1, TypeParts, Shares DEF IInv, ProgressOf
<1>3. /\ attempts[j] \in 0..2 /\ attempts[j] + 1 \in 0..2
      /\ attempts[j] + 1 >= 1 /\ (attempts[j] + 1) - 1 = attempts[j]
  <2>1. attempts[j] \in 0..2
      BY <1>2 DEF LocalsOK
  <2> QED BY <1>1, <2>1
<1>4. /\ OthersStand(j) /\ at'[j] = "top_up" /\ attempts'[j] = attempts[j] + 1
      /\ model'[j] = 1 /\ generated'[j] = generated[j]
    BY <1>1, <1>2 DEF LocalsOK, OthersStand
<1>5. DiskGrows(j) /\ OutputsGrow(j) /\ files' = files
  <2>1. attempts'[j] \in Dirs
      BY <1>3, <1>4 DEF Dirs
  <2> QED BY <1>1, <2>1, Builds, OutputsStay
<1>6. job' \in [Jobs -> Replies]
    BY Phases DEF StartTopUp
<1>7. LocalsOK'
  <2>1. attempts' \in [Jobs -> 0..2]
      BY <1>1, <1>2, <1>3 DEF LocalsOK
  <2> QED BY <1>1, <1>2, <2>1 DEF LocalsOK, Steps
<1>8. ProgressOf(j)' /\ CoverOf(j)'
    BY <1>1, <1>2, <1>3, <1>4 DEF ProgressOf, CoverOf
<1>9. CountOf(j)'
  <2>1. generated[j] <= Countable(attempts[j])
      BY <1>1, Shares DEF IInv, CountOf
  <2>2. attempts'[j] - 1 = attempts[j]
      BY <1>3, <1>4
  <2>3. Countable(attempts[j] - 1)' = Countable(attempts'[j] - 1)
      BY <1>5 DEF Countable
  <2>4. generated'[j] <= Countable(attempts[j] - 1)'
      BY <1>4, <2>1, <2>2, <2>3
  <2> QED BY <1>4, <2>4 DEF CountOf
<1> QED BY <1>1, <1>4, <1>5, <1>6, <1>7, <1>8, <1>9, OwnShare

LEMMA EndTopUpKeeps ==
    ASSUME TypeOK, IInv, NEW j \in Jobs, EndTopUp(j)
    PROVE  IInv'
<1>1. /\ at[j] = "top_up" /\ Reaped(j)
      /\ generated' = [generated EXCEPT ![j] = @ + JsonlCount(files[Specs(attempts[j])])]
      /\ at' = [at EXCEPT ![j] = "topping"]
      /\ request' = request /\ job' = job /\ attempts' = attempts /\ model' = model
      /\ selected' = selected /\ copy' = copy /\ warned' = warned
      /\ UNCHANGED disk /\ tasks' = tasks /\ UNCHANGED outputs
    BY DEF EndTopUp, Goto
<1>2. LocalsOK /\ attempts[j] >= 1 /\ model[j] = 1 /\ NoRepeats(copy[j])
    BY <1>1, TypeParts, Shares DEF IInv, ProgressOf
<1>3. attempts[j] \in {1, 2} /\ attempts[j] \in Int /\ attempts[j] - 1 \in Int /\ generated[j] \in Nat
  <2>1. attempts[j] \in 0..2 /\ generated[j] \in Nat
      BY <1>2 DEF LocalsOK
  <2> QED BY <1>2, <2>1
<1> DEFINE more   == JsonlCount(files[Specs(attempts[j])])
           before == Countable(attempts[j] - 1)
           after  == Countable(attempts[j])
<1>4. DiskGrows(j) /\ OutputsGrow(j) /\ files' = files
    BY <1>1, Reaps, OutputsStay
<1>5. /\ \A n \in Int : Countable(n) \in Nat
      /\ \A n \in {1, 2} : Countable(n - 1) + JsonlCount(files[Specs(n)]) <= Countable(n)
    BY <1>4, MoreToCount DEF DiskGrows, Disk, TypeOK
<1>6. before \in Nat /\ after \in Nat /\ before + more <= after
    BY <1>3, <1>5
<1>7. more \in Nat
  <2>1. attempts[j] \in Dirs
      BY <1>3 DEF Dirs
  <2>2. files[Specs(attempts[j])] \in Files(Row)
      BY <2>1, Places DEF TypeOK
  <2> QED BY <2>2, LineCount
<1>8. generated[j] <= before
    BY <1>1, Shares DEF IInv, CountOf
<1>9. generated' = [generated EXCEPT ![j] = generated[j] + more]
    BY <1>1
<1>10. Countable(attempts[j])' = after
    BY <1>1, <1>4 DEF Countable
<1> HIDE DEF more, before, after
<1>11. generated[j] + more \in Nat /\ generated[j] + more <= after
    BY <1>3, <1>6, <1>7, <1>8
<1>12. LocalsOK'
  <2>1. generated' \in [Jobs -> Nat]
      BY <1>2, <1>9, <1>11 DEF LocalsOK
  <2> QED BY <1>1, <1>2, <2>1 DEF LocalsOK, Steps
<1>13. /\ OthersStand(j) /\ at'[j] = "topping" /\ attempts'[j] = attempts[j]
       /\ model'[j] = 1 /\ generated'[j] = generated[j] + more
    BY <1>1, <1>2, <1>9 DEF LocalsOK, OthersStand
<1>14. ProgressOf(j)' /\ CoverOf(j)'
    BY <1>1, <1>2, <1>13 DEF ProgressOf, CoverOf
<1>15. CountOf(j)'
    BY <1>10, <1>11, <1>13 DEF CountOf
<1>16. job' \in [Jobs -> Replies]
    BY <1>1, TypeParts
<1> QED BY <1>1, <1>4, <1>12, <1>13, <1>14, <1>15, <1>16, OwnShare

LEMMA BuildFailsKeeps ==
    ASSUME TypeOK, IInv, NEW j \in Jobs, BuildFails(j) \/ SelectFails(j)
    PROVE  IInv'
<1>1. /\ request' = request /\ UNCHANGED children /\ UNCHANGED disk /\ tasks' = tasks
      /\ UNCHANGED outputs /\ Phase(j, "failed", "failed") /\ Exit(j)
    BY DEF BuildFails, SelectFails
<1>2. DiskGrows(j) /\ OutputsGrow(j)
    BY <1>1, DiskStays, OutputsStay
<1>3. job' \in [Jobs -> Replies]
    BY <1>1, Phases
<1>4. LocalsOK' /\ OthersStand(j) /\ ProgressOf(j)' /\ CountOf(j)' /\ CoverOf(j)'
    BY <1>1, Exits, TypeParts
<1> QED BY <1>1, <1>2, <1>3, <1>4, OwnShare

LEMMA EvalFailsKeeps ==
    ASSUME TypeOK, IInv, NEW j \in Jobs, EvalFails(j)
    PROVE  IInv'
<1>1. /\ Reaped(j) /\ request' = request /\ UNCHANGED disk /\ tasks' = tasks
      /\ UNCHANGED outputs /\ Phase(j, "failed", "failed") /\ Exit(j)
    BY DEF EvalFails
<1>2. DiskGrows(j) /\ OutputsGrow(j)
    BY <1>1, Reaps, OutputsStay
<1>3. job' \in [Jobs -> Replies]
    BY <1>1, Phases
<1>4. LocalsOK' /\ OthersStand(j) /\ ProgressOf(j)' /\ CountOf(j)' /\ CoverOf(j)'
    BY <1>1, Exits, TypeParts
<1> QED BY <1>1, <1>2, <1>3, <1>4, OwnShare

LEMMA SelectSpecsKeeps ==
    ASSUME TypeOK, IInv, NEW j \in Jobs, SelectSpecs(j)
    PROVE  IInv'
<1> DEFINE P == Picked(j)
           T == SelectedTraces(P, j)
<1>1. /\ at[j] = "topping"
      /\ combined' = [combined EXCEPT !.specs = P] /\ owner' = [owner EXCEPT !.specs = j]
      /\ selected' = [selected EXCEPT ![j] = [specs |-> Range(P), traces |-> T]]
      /\ at' = [at EXCEPT ![j] = "selecting"]
      /\ generated' = [generated EXCEPT ![j] = 0]
      /\ request' = request /\ attempts' = attempts /\ model' = model
      /\ copy' = copy /\ warned' = warned
      /\ UNCHANGED children /\ UNCHANGED disk /\ tasks' = tasks /\ dedup' = dedup /\ report' = report
    BY DEF SelectSpecs, Goto
<1>2. DiskGrows(j)
    BY <1>1, DiskStays
<1>3. job' \in [Jobs -> Replies]
    BY Phases DEF SelectSpecs
<1>4. LocalsOK /\ OutputsOK /\ model[j] = 1 /\ NoRepeats(copy[j])
    BY <1>1, TypeParts, Shares DEF IInv, ProgressOf
<1>5. P \in Seq(Row) /\ P \in Seq(1..tasks) /\ NoRepeats(P) /\ Range(P) \subseteq Row
  <2>1. P \in Seq(Row) /\ P \in Seq(1..tasks) /\ NoRepeats(P)
      BY SelectionOf DEF IInv
  <2> QED BY <2>1, RangeOf
<1>6. T \subseteq Row
    BY TracesAreRows
<1> HIDE DEF P, T
<1>7. /\ combined' \in [specs : Seq(Row), traces : SUBSET Row]
      /\ combined'.specs = P /\ combined'.traces = combined.traces
      /\ owner' \in [specs : Jobs \cup {NONE}, traces : Jobs \cup {NONE}]
      /\ owner'.specs = j /\ owner'.traces = owner.traces
    BY <1>1, <1>4, <1>5 DEF OutputsOK
<1>8. OutputsGrow(j)
  <2>1. OutputsOK'
      BY <1>1, <1>4, <1>7 DEF OutputsOK
  <2>2. \A m \in ModelIx : NoRepeats(dedup[m].rows)
      BY DEF IInv, OneRowPerTask
  <2> QED BY <1>1, <1>5, <1>7, <2>1, <2>2 DEF OutputsGrow
<1>9. LocalsOK'
  <2> DEFINE R == [specs : SUBSET Row, traces : SUBSET Row]
  <2>1. [specs |-> Range(P), traces |-> T] \in R /\ selected \in [Jobs -> R]
      BY <1>4, <1>5, <1>6 DEF LocalsOK
  <2> HIDE DEF R
  <2>2. selected' \in [Jobs -> R]
      BY <1>1, <2>1
  <2>3. generated' \in [Jobs -> Nat] /\ at' \in [Jobs -> Steps]
      BY <1>1, <1>4 DEF LocalsOK, Steps
  <2> QED BY <1>1, <1>4, <2>2, <2>3 DEF LocalsOK, R
<1>10. /\ OthersStand(j) /\ at'[j] = "selecting" /\ model'[j] = 1
       /\ selected'[j].specs = Range(P)
    BY <1>1, <1>4 DEF LocalsOK, OthersStand
<1>11. ProgressOf(j)' /\ CountOf(j)' /\ CoverOf(j)'
    BY <1>1, <1>4, <1>7, <1>10 DEF ProgressOf, CountOf, CoverOf
<1> QED BY <1>1, <1>2, <1>3, <1>8, <1>9, <1>10, <1>11, OwnShare

LEMMA SelectTracesKeeps ==
    ASSUME TypeOK, IInv, NEW j \in Jobs, SelectTraces(j)
    PROVE  IInv'
<1>1. /\ at[j] = "selecting"
      /\ combined' = [combined EXCEPT !.traces = selected[j].traces]
      /\ owner' = [owner EXCEPT !.traces = j]
      /\ at' = [at EXCEPT ![j] = "eval"]
      /\ request' = request /\ job' = job /\ UNCHANGED local
      /\ UNCHANGED children /\ UNCHANGED disk /\ tasks' = tasks /\ dedup' = dedup /\ report' = report
    BY DEF SelectTraces, Goto
<1>2. /\ attempts' = attempts /\ generated' = generated /\ model' = model
      /\ selected' = selected /\ copy' = copy /\ warned' = warned
    BY <1>1 DEF local
<1>3. DiskGrows(j)
    BY <1>1, DiskStays
<1>4. /\ LocalsOK /\ OutputsOK /\ model[j] = 1 /\ NoRepeats(copy[j]) /\ CoverOf(j)
      /\ job' \in [Jobs -> Replies]
    BY <1>1, TypeParts, Shares DEF IInv, ProgressOf
<1>5. /\ combined' \in [specs : Seq(Row), traces : SUBSET Row]
      /\ combined'.specs = combined.specs /\ combined'.traces = selected[j].traces
      /\ owner' \in [specs : Jobs \cup {NONE}, traces : Jobs \cup {NONE}]
      /\ owner'.traces = j /\ owner'.specs = owner.specs
  <2>1. selected[j].traces \subseteq Row
      BY <1>4 DEF LocalsOK
  <2> QED BY <1>1, <1>4, <2>1 DEF OutputsOK
<1>6. OutputsGrow(j)
  <2>1. OutputsOK'
      BY <1>1, <1>4, <1>5 DEF OutputsOK
  <2>2. /\ \A m \in ModelIx : NoRepeats(dedup[m].rows)
        /\ combined.specs \in Seq(1..tasks) /\ NoRepeats(combined.specs)
      BY DEF IInv, OneRowPerTask
  <2> QED BY <1>1, <1>5, <2>1, <2>2 DEF OutputsGrow
<1>7. LocalsOK' /\ OthersStand(j) /\ at'[j] = "eval" /\ model'[j] = 1 /\ selected'[j] = selected[j]
    BY <1>1, <1>2, <1>4 DEF LocalsOK, OthersStand, Steps
<1>8. ProgressOf(j)' /\ CountOf(j)'
    BY <1>2, <1>4, <1>7 DEF ProgressOf, CountOf
<1>9. CoverOf(j)'
  <2>1. \A m \in ModelIx : ~(m < 1)
      BY LaunchAssumption DEF ModelIx
  <2>2. owner'.specs = j => selected[j].specs = Range(combined'.specs)
      BY <1>1, <1>4, <1>5 DEF CoverOf
  <2> QED BY <1>5, <1>7, <2>1, <2>2 DEF CoverOf
<1> QED BY <1>1, <1>3, <1>4, <1>6, <1>7, <1>8, <1>9, OwnShare

LEMMA StartEvalKeeps ==
    ASSUME TypeOK, IInv, NEW j \in Jobs, StartEval(j)
    PROVE  IInv'
<1> DEFINE f == Evals(model[j])
           L == combined.traces \ SeenTasks(j)
           Q == Filter(combined.specs, L)
           q == [g \in File |-> IF g = f THEN Q ELSE <<>>]
<1>1. /\ at[j] = "eval" /\ model[j] \in ModelIx
      /\ queue' = [queue EXCEPT ![j] = q] /\ half' = [half EXCEPT ![j] = Whole]
      /\ at' = [at EXCEPT ![j] = "evaluating"]
      /\ request' = request /\ UNCHANGED local /\ UNCHANGED disk /\ tasks' = tasks /\ UNCHANGED outputs
    BY DEF StartEval, Goto
<1>2. /\ attempts' = attempts /\ generated' = generated /\ model' = model
      /\ selected' = selected /\ copy' = copy /\ warned' = warned
      /\ combined' = combined /\ owner' = owner /\ dedup' = dedup
    BY <1>1 DEF local, outputs
<1>3. LocalsOK /\ OutputsOK /\ CoverOf(j) /\ NoRepeats(copy[j])
    BY TypeParts, Shares DEF IInv, ProgressOf
<1>4. f \in File /\ \A d \in Dirs : Specs(d) \in File /\ Specs(d) # f
  <2>1. f \in File
      BY <1>1 DEF File, Evals
  <2>2. \A d \in Dirs : Specs(d) \in File /\ Specs(d) # f
      BY <1>1, Places
  <2> QED BY <2>1, <2>2
<1>5. Q \in Seq(Row) /\ Written(Q) = Range(combined.specs) \cap L
  <2>1. combined.specs \in Seq(Row)
      BY <1>3 DEF OutputsOK
  <2>2. Q \in Seq(Row) /\ Range(Q) = Range(combined.specs) \cap L
      BY <2>1, FilterProperties
  <2> QED BY <2>2, RangeIsWritten
<1> HIDE DEF Q
<1>6. <<>> \in Seq(Row) /\ NoRepeats(<<>>) /\ Written(<<>>) = {}
  <2>1. <<>> \in Seq(Row) /\ Range(<<>>) = {} /\ NoRepeats(<<>>)
      BY Nobody
  <2> QED BY <2>1, RangeIsWritten
<1>7. q \in [File -> Seq(Row)] /\ q[f] = Q /\ \A d \in Dirs : q[Specs(d)] = <<>>
    BY <1>4, <1>5, <1>6
<1> HIDE DEF q
<1>8. tasks' \in 0..MaxTasks /\ tasks <= tasks'
  <2>1. tasks \in 0..MaxTasks /\ MaxTasks \in Nat
      BY LaunchAssumption DEF TypeOK
  <2> QED BY <1>1, <2>1
<1>9. /\ DiskGrows(j) /\ 1..tasks \subseteq 1..tasks'
      /\ \A g \in File, t \in Row : t \in RowsIn(files[g]) \cup Written(q[g]) => Safe(t, g, j)'
  <2>1. /\ \A d \in Dirs : NoRepeats(q[Specs(d)]) /\ Written(q[Specs(d)]) \subseteq tasks + 1..tasks'
        /\ \A d, e \in Dirs : d # e => Written(q[Specs(d)]) \cap Written(q[Specs(e)]) = {}
      BY <1>6, <1>7
  <2> QED BY <1>1, <1>7, <1>8, <2>1, QueueChanges
<1>10. OutputsGrow(j)
    BY <1>1, <1>9, OutputsStay
<1>11. job' \in [Jobs -> Replies]
    BY Phases DEF StartEval
<1>12. LocalsOK' /\ OthersStand(j) /\ at'[j] = "evaluating"
    BY <1>1, <1>2, <1>3 DEF LocalsOK, OthersStand, Steps
<1>13. ProgressOf(j)' /\ CountOf(j)'
    BY <1>1, <1>2, <1>3, <1>12 DEF ProgressOf, CountOf
<1>14. Due(j)' = Due(j) /\ (Chosen(j)' <=> Chosen(j)) /\ Due(j) \subseteq Row /\ f' = f
    BY <1>2, <1>3 DEF Due, Chosen, LocalsOK, Evals
<1>15. ASSUME Chosen(j), NEW t \in Due(j) PROVE Safe(t, f, j)'
  <2>1. t \in Range(combined.specs) /\ t \in combined.traces
      BY <1>1, <1>3, <1>15 DEF CoverOf, Chosen, Due
  <2>2. t \in RowsIn(files[f]) \cup Written(q[f])
      BY <1>5, <1>7, <2>1 DEF SeenTasks
  <2> QED BY <1>4, <1>9, <1>14, <1>15, <2>2
<1>16. CoverOf(j)'
    BY <1>1, <1>2, <1>3, <1>12, <1>14, <1>15 DEF CoverOf, Chosen
<1> QED BY <1>1, <1>9, <1>10, <1>11, <1>12, <1>13, <1>16, OwnShare

\* Where a row is safe and nothing is on its way, it is read, or the file does not parse.
LEMMA SafeIsRead ==
    ASSUME TypeOK, NEW j \in Jobs, NEW f \in File, Finished(j), NEW t \in Row, Safe(t, f, j)
    PROVE  t \in Range(DedupEval(Readable(files[f]))) \/ ~Parses(files[f])
<1>1. files[f] \in Files(Row)
    BY DEF TypeOK
<1>2. Held(j, f) = {}
  <2>1. queue[j] = Idle /\ half[j] = Whole
      BY DEF Finished
  <2>2. Written(queue[j][f]) = {} /\ half[j][f] = EMPTY
      BY <2>1, NoMore DEF Whole
  <2> QED BY <2>2 DEF Held, Own
<1>3. CASE t \in RowsIn(files[f])
  <2>1. Readable(files[f]) \in Seq(Row) /\ Range(Readable(files[f])) = RowsIn(files[f])
      BY <1>1, ReadableRows
  <2>2. Range(DedupEval(Readable(files[f]))) = Range(Readable(files[f]))
      BY <2>1, FirstOccurrences DEF DedupEval
  <2> QED BY <1>3, <2>1, <2>2
<1>4. CASE Broken(f)
    BY <1>4 DEF Broken, Parses, Written
<1> QED BY <1>2, <1>3, <1>4 DEF Safe

LEMMA EndEvalKeeps ==
    ASSUME TypeOK, IInv, NEW j \in Jobs, EndEval(j)
    PROVE  IInv'
<1> DEFINE m    == model[j]
           rows == DedupEval(Readable(files[Evals(m)]))
           W    == IF Parses(files[Evals(m)]) THEN warned[j] ELSE warned[j] \cup {m}
<1>1. /\ at[j] = "evaluating" /\ Finished(j)
      /\ copy' = [copy EXCEPT ![j] = rows]
      /\ warned' = [warned EXCEPT ![j] = W]
      /\ at' = [at EXCEPT ![j] = "copying"]
      /\ request' = request /\ job' = job /\ attempts' = attempts /\ generated' = generated
      /\ model' = model /\ selected' = selected
      /\ UNCHANGED children /\ UNCHANGED disk /\ tasks' = tasks /\ UNCHANGED outputs
    BY DEF EndEval, Goto
<1>2. combined' = combined /\ owner' = owner /\ dedup' = dedup
    BY <1>1 DEF outputs
<1>3. LocalsOK /\ CoverOf(j) /\ ProgressOf(j) /\ m \in ModelIx /\ job' \in [Jobs -> Replies]
    BY <1>1, TypeParts, Shares DEF IInv, ProgressOf
<1>4. DiskGrows(j) /\ OutputsGrow(j)
    BY <1>1, DiskStays, OutputsStay
<1>5. Evals(m) \in File
    BY <1>3 DEF File, Evals
<1>6. rows \in Seq(Row) /\ NoRepeats(rows)
  <2>1. files[Evals(m)] \in Files(Row)
      BY <1>5 DEF TypeOK
  <2>2. Readable(files[Evals(m)]) \in Seq(Row)
      BY <2>1, ReadableRows
  <2> QED BY <2>2, FirstOccurrences DEF DedupEval
<1>7. /\ W \in SUBSET ModelIx /\ warned[j] \subseteq W
      /\ ~Parses(files[Evals(m)]) => m \in W
    BY <1>3 DEF LocalsOK
<1>8. ASSUME Chosen(j), m \notin W, NEW t \in Due(j) PROVE t \in Range(rows)
  <2>1. Safe(t, Evals(m), j) /\ t \in Row
      BY <1>1, <1>3, <1>8 DEF CoverOf, Due, LocalsOK
  <2>2. Parses(files[Evals(m)])
      BY <1>7, <1>8
  <2> QED BY <1>1, <1>5, <2>1, <2>2, SafeIsRead
<1> HIDE DEF rows, W
<1>9. LocalsOK'
    BY <1>1, <1>3, <1>6, <1>7 DEF LocalsOK, Steps
<1>10. /\ OthersStand(j) /\ at'[j] = "copying" /\ model'[j] = m /\ copy'[j] = rows /\ warned'[j] = W
       /\ selected'[j] = selected[j]
    BY <1>1, <1>3 DEF LocalsOK, OthersStand
<1>11. ProgressOf(j)' /\ CountOf(j)'
    BY <1>3, <1>6, <1>10 DEF ProgressOf, CountOf
<1>12. Due(j)' = Due(j) /\ (Chosen(j)' <=> Chosen(j))
    BY <1>2, <1>10 DEF Due, Chosen
<1>13. CoverOf(j)'
  <2>1. /\ owner.specs = j => selected[j].specs = Range(combined.specs)
        /\ owner.traces = j => selected[j].traces = combined.traces
        /\ \A x \in ModelIx : x < m /\ dedup[x].by = j /\ Chosen(j) =>
               Due(j) \subseteq Range(dedup[x].rows) \/ x \in warned[j]
      BY <1>1, <1>3 DEF CoverOf
  <2>2. \A x \in ModelIx : x < m /\ dedup[x].by = j /\ Chosen(j) =>
               Due(j) \subseteq Range(dedup[x].rows) \/ x \in W
      BY <1>7, <2>1
  <2>3. Chosen(j) => Due(j) \subseteq Range(rows) \/ m \in W
      BY <1>8
  <2> HIDE DEF m
  <2> QED BY <1>2, <1>10, <1>12, <2>1, <2>2, <2>3 DEF CoverOf
<1> QED BY <1>1, <1>3, <1>4, <1>9, <1>10, <1>11, <1>13, OwnShare

LEMMA WriteCopyKeeps ==
    ASSUME TypeOK, IInv, NEW j \in Jobs, WriteCopy(j)
    PROVE  IInv'
<1> DEFINE m   == model[j]
           new == [rows |-> copy[j], by |-> j]
<1>1. /\ at[j] = "copying"
      /\ dedup' = [dedup EXCEPT ![m] = new]
      /\ copy' = [copy EXCEPT ![j] = <<>>]
      /\ model' = [model EXCEPT ![j] = m + 1]
      /\ at' = [at EXCEPT ![j] = "eval"]
      /\ request' = request /\ job' = job /\ attempts' = attempts /\ generated' = generated
      /\ selected' = selected /\ warned' = warned
      /\ UNCHANGED children /\ UNCHANGED disk /\ tasks' = tasks
      /\ combined' = combined /\ owner' = owner /\ report' = report
    BY DEF WriteCopy, Goto
<1>2. /\ LocalsOK /\ OutputsOK /\ CoverOf(j) /\ m \in ModelIx /\ NoRepeats(copy[j])
      /\ job' \in [Jobs -> Replies]
    BY <1>1, TypeParts, Shares DEF IInv, ProgressOf
<1>3. DiskGrows(j)
    BY <1>1, DiskStays
<1>4. Len(Models) \in Nat /\ m \in Nat /\ m + 1 \in 1..Len(Models) + 1
  <2>1. Len(Models) \in Nat /\ m \in 1..Len(Models)
      BY <1>2, LaunchAssumption DEF ModelIx
  <2> QED BY <2>1
<1>5. <<>> \in Seq(Row) /\ NoRepeats(<<>>)
    BY Nobody
<1>6. new \in [rows : Seq(Row), by : Jobs \cup {NONE}] /\ new.rows = copy[j] /\ new.by = j
    BY <1>2 DEF LocalsOK
<1> HIDE DEF m, new
<1>7. /\ dedup' \in [ModelIx -> [rows : Seq(Row), by : Jobs \cup {NONE}]] /\ dedup'[m] = new
      /\ \A x \in ModelIx : x # m => dedup'[x] = dedup[x]
    BY <1>1, <1>2, <1>6 DEF OutputsOK
<1>8. OutputsGrow(j)
  <2>1. OutputsOK'
      BY <1>1, <1>2, <1>7 DEF OutputsOK
  <2>2. /\ \A x \in ModelIx : NoRepeats(dedup[x].rows)
        /\ combined.specs \in Seq(1..tasks) /\ NoRepeats(combined.specs)
      BY DEF IInv, OneRowPerTask
  <2>3. ASSUME NEW x \in ModelIx
        PROVE  NoRepeats(dedup'[x].rows) /\ (dedup'[x].by = j \/ dedup'[x] = dedup[x])
    <3>1. CASE x = m
        BY <1>2, <1>6, <1>7, <3>1
    <3>2. CASE x # m
        BY <1>7, <2>2, <3>2
    <3> QED BY <3>1, <3>2
  <2> QED BY <1>1, <2>1, <2>2, <2>3 DEF OutputsGrow
<1>9. LocalsOK'
    BY <1>1, <1>2, <1>4, <1>5 DEF LocalsOK, Steps
<1>10. /\ OthersStand(j) /\ at'[j] = "eval" /\ model'[j] = m + 1 /\ copy'[j] = <<>>
       /\ warned'[j] = warned[j] /\ selected'[j] = selected[j]
    BY <1>1, <1>2 DEF LocalsOK, OthersStand
<1>11. ProgressOf(j)' /\ CountOf(j)'
    BY <1>5, <1>10 DEF ProgressOf, CountOf
<1>12. Due(j)' = Due(j) /\ (Chosen(j)' <=> Chosen(j))
    BY <1>1, <1>10 DEF Due, Chosen
<1>13. /\ owner.specs = j => selected[j].specs = Range(combined.specs)
       /\ owner.traces = j => selected[j].traces = combined.traces
       /\ \A x \in ModelIx : x < m /\ dedup[x].by = j /\ Chosen(j) =>
              Due(j) \subseteq Range(dedup[x].rows) \/ x \in warned[j]
       /\ Chosen(j) => Due(j) \subseteq Range(copy[j]) \/ m \in warned[j]
    BY <1>1, <1>2 DEF CoverOf, m
<1>14. ASSUME NEW x \in ModelIx, x < m + 1, dedup'[x].by = j, Chosen(j)
       PROVE  Due(j) \subseteq Range(dedup'[x].rows) \/ x \in warned[j]
  <2>1. CASE x = m
      BY <1>6, <1>7, <1>13, <1>14, <2>1
  <2>2. CASE x # m
    <3>1. x < m
      <4>1. x \in Nat
          BY LaunchAssumption DEF ModelIx
      <4> QED BY <1>4, <1>14, <2>2, <4>1
    <3> QED BY <1>7, <1>13, <1>14, <2>2, <3>1
  <2> QED BY <2>1, <2>2
<1>15. CoverOf(j)'
    BY <1>1, <1>10, <1>12, <1>13, <1>14 DEF CoverOf
<1> QED BY <1>1, <1>2, <1>3, <1>8, <1>9, <1>10, <1>11, <1>15, OwnShare

LEMMA BuildReportKeeps ==
    ASSUME TypeOK, IInv, NEW j \in Jobs, BuildReport(j)
    PROVE  IInv'
<1>1. /\ report' = CommonTasks /\ Phase(j, "succeeded", "succeeded") /\ Exit(j)
      /\ request' = request /\ UNCHANGED children /\ UNCHANGED disk /\ tasks' = tasks
      /\ combined' = combined /\ owner' = owner /\ dedup' = dedup
    BY DEF BuildReport
<1>2. DiskGrows(j)
    BY <1>1, DiskStays
<1>3. OutputsGrow(j)
  <2>1. CommonTasks \subseteq 1..tasks
      BY DEF CommonTasks
  <2>2. OutputsOK
      BY TypeParts
  <2>3. OutputsOK'
      BY <1>1, <2>1, <2>2 DEF OutputsOK
  <2> QED BY <1>1, <2>3 DEF OutputsGrow, IInv, OneRowPerTask
<1>4. job' \in [Jobs -> Replies]
    BY <1>1, Phases
<1>5. LocalsOK' /\ OthersStand(j) /\ ProgressOf(j)' /\ CountOf(j)' /\ CoverOf(j)'
    BY <1>1, Exits, TypeParts
<1> QED BY <1>1, <1>2, <1>3, <1>4, <1>5, OwnShare

\* Of a restart the files do not change, the children stay, and no thread is left.
LEMMA RestartKeeps ==
    ASSUME TypeOK, IInv, Restart
    PROVE  IInv'
<1>1. /\ job' = [j \in Jobs |-> NONE]
      /\ at' = [j \in Jobs |-> IF at[j] = "unborn" THEN "unborn" ELSE "done"]
      /\ attempts' = [j \in Jobs |-> 0] /\ generated' = [j \in Jobs |-> 0]
      /\ model' = [j \in Jobs |-> 1]
      /\ selected' = [j \in Jobs |-> Unselected]
      /\ copy' = [j \in Jobs |-> <<>>] /\ warned' = [j \in Jobs |-> {}]
      /\ request' = request
      /\ UNCHANGED children /\ UNCHANGED disk /\ tasks' = tasks /\ UNCHANGED outputs
    BY DEF Restart
<1>2. combined' = combined /\ owner' = owner /\ dedup' = dedup /\ report' = report
    BY <1>1 DEF outputs
<1>3. <<>> \in Seq(Row) /\ NoRepeats(<<>>)
    BY Nobody
<1>4. LocalsOK'
  <2>1. 1 \in 1..Len(Models) + 1
      BY LaunchAssumption
  <2>2. selected' \in [Jobs -> [specs : SUBSET Row, traces : SUBSET Row]]
    <3> DEFINE R == [specs : SUBSET Row, traces : SUBSET Row]
    <3>1. Unselected \in R
        BY DEF Unselected
    <3> HIDE DEF R
    <3>2. selected' \in [Jobs -> R]
        BY <1>1, <3>1
    <3> QED BY <3>2 DEF R
  <2>3. copy' \in [Jobs -> Seq(Row)] /\ warned' \in [Jobs -> SUBSET ModelIx]
      BY <1>1, <1>3
  <2> QED BY <1>1, <2>1, <2>2, <2>3 DEF LocalsOK, Steps
<1>5. \A j \in Jobs : DiskGrows(j)
    BY <1>1, DiskStays
<1>6. Disk' /\ SpecsAreApart' /\ SpecsAreFresh' /\ TailsAreTheirs'
  <2>1. CASE \E j \in Jobs : TRUE
      BY <1>5, <2>1 DEF DiskGrows
  <2>2. CASE ~\E j \in Jobs : TRUE
      BY <2>2 DEF Restart
  <2> QED BY <2>1, <2>2
<1>7. OneRowPerTask'
  <2>1. job' \in [Jobs -> Replies]
      BY <1>1 DEF Replies
  <2>2. OutputsOK'
    <3>1. OutputsOK
        BY TypeParts
    <3> QED BY <1>1, <1>2, <3>1 DEF OutputsOK
  <2>3. TypeOK'
      BY <1>1, <1>4, <1>6, <2>1, <2>2, TypeParts
  <2> QED BY <1>2, <2>3 DEF IInv, OneRowPerTask
<1>8. \A j \in Jobs : /\ at'[j] \in {"unborn", "done"} /\ attempts'[j] = 0 /\ model'[j] = 1
                      /\ copy'[j] = <<>>
    BY <1>1
<1>9. Progress' /\ CountsAreBacked' /\ SelectionIsCovered'
  <2>1. \A j \in Jobs : ProgressOf(j)' /\ CountOf(j)' /\ CoverOf(j)'
      BY <1>3, <1>8 DEF ProgressOf, CountOf, CoverOf
  <2> QED BY <2>1, SharesNext
<1> QED BY <1>1, <1>2, <1>6, <1>7, <1>9 DEF IInv

LEMMA InitHolds ==
    Init => IInv
<1> SUFFICES ASSUME Init PROVE IInv
    OBVIOUS
<1>1. <<>> \in Seq(Row) /\ <<>> \in Seq(1..tasks) /\ NoRepeats(<<>>) /\ Written(<<>>) = {}
  <2>1. \A T : <<>> \in Seq(T) /\ Range(<<>>) = {} /\ NoRepeats(<<>>)
      BY Nobody
  <2> QED BY <2>1, RangeIsWritten
<1>2. EmptyFile \in Files(Row) /\ RowsIn(EmptyFile) = {} /\ EachOnce(EmptyFile) /\ EmptyFile.tail = EMPTY
  <2>1. EmptyFile.lines = <<>> /\ EmptyFile.tail = EMPTY /\ Len(<<>>) = 0
      BY DEF EmptyFile
  <2>2. EmptyFile \in Files(Row)
      BY <1>1 DEF EmptyFile, Files
  <2>3. \A i : i \notin 1..Len(EmptyFile.lines)
      BY <2>1
  <2> QED BY <1>1, <2>1, <2>2, <2>3, RowsAre DEF EachOnce
<1>3. /\ Idle \in [File -> Seq(Row)] /\ Whole \in [File -> Row \cup {EMPTY}]
      /\ \A f \in File : Idle[f] = <<>> /\ Whole[f] = EMPTY
    BY NoMore DEF Whole
<1>4. /\ queue = [j \in Jobs |-> Idle] /\ half = [j \in Jobs |-> Whole]
      /\ files = [f \in File |-> EmptyFile] /\ author = [f \in File |-> NONE]
    BY DEF Init
<1>5. \A j \in Jobs, f \in File : /\ queue[j][f] = <<>> /\ half[j][f] = EMPTY /\ files[f] = EmptyFile
                                  /\ Own(j, f) = {} /\ Held(j, f) = {}
    BY <1>1, <1>3, <1>4 DEF Own, Held
<1>6. Disk
  <2>1. tasks \in 0..MaxTasks /\ cuts \in 0..MaxCuts
      BY LaunchAssumption DEF Init
  <2> HIDE DEF Idle, Whole, EmptyFile
  <2> QED BY <1>2, <1>3, <1>4, <2>1 DEF Disk
<1>7. LocalsOK
  <2>1. 1 \in 1..Len(Models) + 1
      BY LaunchAssumption
  <2>2. selected \in [Jobs -> [specs : SUBSET Row, traces : SUBSET Row]]
    <3> DEFINE R == [specs : SUBSET Row, traces : SUBSET Row]
    <3>1. Unselected \in R
        BY DEF Unselected
    <3> HIDE DEF R
    <3>2. selected \in [Jobs -> R]
        BY <3>1 DEF Init
    <3> QED BY <3>2 DEF R
  <2>3. copy \in [Jobs -> Seq(Row)] /\ warned \in [Jobs -> SUBSET ModelIx]
      BY <1>1 DEF Init
  <2> QED BY <2>1, <2>2, <2>3 DEF Init, LocalsOK, Steps
<1>8. OneRowPerTask
  <2>1. job \in [Jobs -> Replies] /\ request \in Requests
      BY DEF Init, Replies
  <2>2. NoCopy \in [rows : Seq(Row), by : Jobs \cup {NONE}] /\ NoCopy.rows = <<>>
      BY <1>1 DEF NoCopy
  <2>3. dedup = [m \in ModelIx |-> NoCopy] /\ report = NONE
      BY DEF Init
  <2>4. /\ combined \in [specs : Seq(Row), traces : SUBSET Row] /\ combined.specs = <<>>
        /\ owner \in [specs : Jobs \cup {NONE}, traces : Jobs \cup {NONE}]
      BY <1>1 DEF Init
  <2> HIDE DEF NoCopy
  <2>5. OutputsOK
      BY <2>2, <2>3, <2>4 DEF OutputsOK
  <2>6. TypeOK
      BY <1>6, <1>7, <2>1, <2>5, TypeParts
  <2> QED BY <1>1, <2>2, <2>3, <2>4, <2>6 DEF OneRowPerTask
<1>9. \A d \in Dirs : Specs(d) \in File
    BY Places
<1>10. SpecsAreApart /\ SpecsAreFresh
  <2>1. \A d \in Dirs : RowsIn(files[Specs(d)]) = {} /\ EachOnce(files[Specs(d)])
    <3>1. \A d \in Dirs : files[Specs(d)] = EmptyFile
        BY <1>4, <1>9
    <3> QED BY <1>2, <3>1
  <2>2. \A j \in Jobs, d \in Dirs : /\ queue[j][Specs(d)] = <<>>
                                   /\ Own(j, Specs(d)) = {} /\ Held(j, Specs(d)) = {}
      BY <1>5, <1>9
  <2>3. SpecsAreApart
      BY <2>1, <2>2 DEF SpecsAreApart
  <2>4. \A j \in Jobs, d \in Dirs : /\ NoRepeats(queue[j][Specs(d)])
                                   /\ Written(queue[j][Specs(d)]) = {}
      BY <1>1, <2>2
  <2>5. SpecsAreFresh
      BY <2>1, <2>2, <2>4 DEF SpecsAreFresh
  <2> QED BY <2>3, <2>5
<1>11. TailsAreTheirs
    BY <1>5 DEF TailsAreTheirs
<1>12. Progress /\ CountsAreBacked /\ SelectionIsCovered
  <2>1. \A j \in Jobs : at[j] = "unborn" /\ attempts[j] = 0 /\ model[j] = 1 /\ copy[j] = <<>>
      BY DEF Init
  <2>2. \A j \in Jobs : ProgressOf(j) /\ CountOf(j) /\ CoverOf(j)
      BY <1>1, <2>1 DEF ProgressOf, CountOf, CoverOf
  <2> QED BY <2>2, Shares
<1>13. combined.specs \in Seq(1..tasks)
    BY <1>1 DEF Init
<1> QED BY <1>8, <1>10, <1>11, <1>12, <1>13 DEF IInv

LEMMA StutterKeeps ==
    ASSUME IInv, UNCHANGED vars
    PROVE  IInv'
<1>1. TypeOK
    BY DEF IInv, OneRowPerTask
<1>2. /\ request' = request /\ job' = job /\ at' = at /\ UNCHANGED local /\ UNCHANGED children
      /\ UNCHANGED disk /\ tasks' = tasks /\ UNCHANGED outputs
    BY DEF vars
<1>3. /\ attempts' = attempts /\ generated' = generated /\ model' = model /\ selected' = selected
      /\ copy' = copy /\ warned' = warned /\ queue' = queue /\ half' = half
      /\ files' = files /\ author' = author /\ cuts' = cuts
      /\ combined' = combined /\ owner' = owner /\ dedup' = dedup /\ report' = report
    BY <1>2 DEF local, children, disk, outputs
<1>4. OneRowPerTask' /\ combined'.specs \in Seq(1..tasks')
    BY <1>2, <1>3 DEF IInv, OneRowPerTask, TypeOK
<1>5. \A j \in Jobs, f \in File : Own(j, f)' = Own(j, f) /\ Held(j, f)' = Held(j, f)
    BY <1>3 DEF Own, Held
<1>6. \A j \in Jobs, d \in Dirs : Own(j, Specs(d))' = Own(j, Specs(d)) /\ Held(j, Specs(d))' = Held(j, Specs(d))
    BY <1>5, Places
<1>7. SpecsAreApart'
  <2>1. SpecsAreApart
      BY DEF IInv
  <2> QED BY <1>2, <1>3, <1>6, <2>1 DEF SpecsAreApart, Specs
<1>8. SpecsAreFresh'
    BY <1>3, <1>6 DEF IInv, SpecsAreFresh, EachOnce, Specs
<1>9. TailsAreTheirs'
    BY <1>3, <1>5 DEF IInv, TailsAreTheirs
<1>10. Progress' /\ CountsAreBacked'
    BY <1>2, <1>3 DEF IInv, Progress, CountsAreBacked, Countable, Specs
<1>11. SelectionIsCovered'
  <2>1. \A t, f, j : Safe(t, f, j)' <=> Safe(t, f, j)
      BY <1>3 DEF Safe, Broken, Held, Own
  <2>2. \A j : Due(j)' = Due(j)
      BY <1>3 DEF Due
  <2>3. \A j \in Jobs : CoverOf(j)
      BY Shares DEF IInv
  <2>4. \A j \in Jobs : CoverOf(j)'
      BY <1>2, <1>3, <2>1, <2>2, <2>3 DEF CoverOf, Chosen, Evals
  <2> QED BY <2>4, SharesNext
<1> QED BY <1>4, <1>7, <1>8, <1>9, <1>10, <1>11 DEF IInv

LEMMA NextKeeps ==
    IInv /\ [Next]_vars => IInv'
<1> SUFFICES ASSUME IInv, [Next]_vars PROVE IInv'
    OBVIOUS
<1>1. TypeOK
    BY DEF IInv, OneRowPerTask
<1>2. ASSUME NEW j \in Jobs, Launch(j) PROVE IInv'
    BY <1>1, <1>2, LaunchKeeps
<1>3. ASSUME NEW j \in Jobs, Thread(j) PROVE IInv'
  <2>1. CASE StartCorpus(j)
      BY <1>1, <2>1, StartCorpusKeeps
  <2>2. CASE EndCorpus(j)
      BY <1>1, <2>2, EndCorpusKeeps
  <2>3. CASE StartTopUp(j)
      BY <1>1, <2>3, StartTopUpKeeps
  <2>4. CASE EndTopUp(j)
      BY <1>1, <2>4, EndTopUpKeeps
  <2>5. CASE BuildFails(j) \/ SelectFails(j)
      BY <1>1, <2>5, BuildFailsKeeps
  <2>6. CASE SelectSpecs(j)
      BY <1>1, <2>6, SelectSpecsKeeps
  <2>7. CASE SelectTraces(j)
      BY <1>1, <2>7, SelectTracesKeeps
  <2>8. CASE StartEval(j)
      BY <1>1, <2>8, StartEvalKeeps
  <2>9. CASE EvalFails(j)
      BY <1>1, <2>9, EvalFailsKeeps
  <2>10. CASE EndEval(j)
      BY <1>1, <2>10, EndEvalKeeps
  <2>11. CASE WriteCopy(j)
      BY <1>1, <2>11, WriteCopyKeeps
  <2>12. CASE BuildReport(j)
      BY <1>1, <2>12, BuildReportKeeps
  <2> QED BY <1>3, <2>1, <2>2, <2>3, <2>4, <2>5, <2>6, <2>7, <2>8, <2>9, <2>10, <2>11, <2>12
          DEF Thread
<1>4. ASSUME NEW j \in Jobs, Child(j) PROVE IInv'
    BY <1>1, <1>4, ChildKeeps
<1>5. CASE Restart
    BY <1>1, <1>5, RestartKeeps
<1>6. CASE UNCHANGED vars
    BY <1>6, StutterKeeps
<1> QED BY <1>2, <1>3, <1>4, <1>5, <1>6 DEF Next

-----------------------------------------------------------------------------
(* The theorems.                                                           *)

\* What every step of every job and of every child keeps holds in every state of
\* a server and its directories, whatever restarts, kills and orphans do
\* (v2_launch.py).
THEOREM LaunchInvariance == Spec => []IInv
BY InitHolds, NextKeeps, PTL DEF Spec

\* The combined corpus and the copies a report reads have one row per task,
\* whatever other jobs and orphans write to the same files (v2_launch.py:405-412,
\* 460-482).
THEOREM CorpusHasOneRowPerTask == Spec => []OneRowPerTask
<1>1. IInv => OneRowPerTask
    BY DEF IInv
<1> QED BY <1>1, LaunchInvariance, PTL

\* A selection has at most `target` specs, and fewer only after two top-ups or
\* where a counted file has a line that cannot be read, although other jobs and
\* orphans add to the directories between the counts (v2_launch.py:192-217,
\* 440-457).
THEOREM TargetIsMissedOnlyAfterTopUps == Spec => TopUpsSuffice
<1>1. ASSUME IInv, NEW j \in Jobs, SelectSpecs(j)
      PROVE  /\ Len(combined'.specs) <= Target
             /\ \/ attempts[j] = 2 \/ Len(combined'.specs) = Target
                \/ \E d \in 0..attempts[j] : ~Parses(files[Specs(d)])
  <2>1. TypeOK /\ SpecsAreApart /\ SpecsAreFresh
      BY <1>1 DEF IInv, OneRowPerTask
  <2>2. combined'.specs = Picked(j)
    <3>1. combined \in [specs : Seq(Row), traces : SUBSET Row]
        BY <2>1 DEF TypeOK
    <3> QED BY <1>1, <3>1 DEF SelectSpecs
  <2>3. /\ Len(Picked(j)) <= Target
        /\ CountedParse(j) /\ Countable(attempts[j]) >= Target => Len(Picked(j)) = Target
      BY <2>1, SelectionOf
  <2>4. ASSUME attempts[j] # 2, \A d \in 0..attempts[j] : Parses(files[Specs(d)])
        PROVE  Len(Picked(j)) = Target
    <3>1. attempts[j] \in 0..2 /\ generated[j] \in Nat /\ Target \in Nat
        BY <2>1, LaunchAssumption DEF TypeOK
    <3>2. attempts[j] < 2
        BY <2>4, <3>1
    <3>3. at[j] = "topping" /\ ~(generated[j] < Target)
        BY <1>1, <3>2 DEF SelectSpecs, Short
    <3>4. generated[j] <= Countable(attempts[j])
        BY <1>1, <3>3, Shares DEF IInv, CountOf
    <3>5. Countable(attempts[j]) \in Nat
      <4>1. files \in [File -> Files(Row)] /\ attempts[j] \in Int
          BY <2>1, <3>1 DEF TypeOK
      <4> QED BY <4>1, CountableType
    <3>6. Countable(attempts[j]) >= Target
        BY <3>1, <3>3, <3>4, <3>5
    <3> QED BY <2>3, <2>4, <3>6 DEF CountedParse
  <2> QED BY <2>2, <2>3, <2>4
<1>2. IInv /\ [Next]_vars =>
        [\A j \in Jobs : SelectSpecs(j) =>
          /\ Len(combined'.specs) <= Target
          /\ \/ attempts[j] = 2 \/ Len(combined'.specs) = Target
             \/ \E d \in 0..attempts[j] : ~Parses(files[Specs(d)])]_vars
    BY <1>1
<1> QED BY <1>2, LaunchInvariance, PTL DEF Spec, TopUpsSuffice

\* A job whose selection and copies were not overwritten reports every task it
\* selected with its reference trace, or has warned of invalid lines in the
\* results of a model that lacks it (v2_launch.py:247-285, 460-482, 496-498).
THEOREM StandingSelectionIsReported == Spec => SelectionIsReported
<1>1. ASSUME IInv, NEW j \in Jobs, BuildReport(j), Stands(j), NEW t \in Due(j) \ report'
      PROVE  \E m \in warned[j] : t \notin Range(dedup[m].rows)
  <2>1. /\ at[j] = "eval" /\ model[j] \notin ModelIx /\ report' = CommonTasks
      BY <1>1 DEF BuildReport
  <2>2. model[j] \in 1..Len(Models) + 1 /\ Len(Models) \in Nat \ {0}
      BY <1>1, LaunchAssumption DEF IInv, OneRowPerTask, TypeOK
  <2>3. \A m \in ModelIx : m < model[j]
      BY <2>1, <2>2 DEF ModelIx
  <2>4. CoverOf(j) /\ Chosen(j) /\ \A m \in ModelIx : dedup[m].by = j
      BY <1>1, Shares DEF IInv, Stands, Chosen
  <2>5. t \in 1..tasks
    <3>1. selected[j].specs = Range(combined.specs) /\ combined.specs \in Seq(1..tasks)
        BY <1>1, <2>1, <2>4 DEF CoverOf, Chosen, IInv
    <3>2. Range(combined.specs) \subseteq 1..tasks
        BY <3>1, RangeOf
    <3> QED BY <1>1, <3>1, <3>2 DEF Due
  <2>6. PICK m \in ModelIx : t \notin Range(dedup[m].rows)
      BY <1>1, <2>1, <2>5 DEF CommonTasks
  <2>7. m \in warned[j]
      BY <1>1, <2>1, <2>3, <2>4, <2>6 DEF CoverOf
  <2> QED BY <2>6, <2>7
<1>2. IInv /\ [Next]_vars =>
        [\A j \in Jobs : BuildReport(j) /\ Stands(j) =>
          \A t \in Due(j) \ report' : \E m \in warned[j] : t \notin Range(dedup[m].rows)]_vars
    BY <1>1
<1> QED BY <1>2, LaunchInvariance, PTL DEF Spec, SelectionIsReported
=============================================================================
