---------------------------- MODULE Texts_proofs ----------------------------
(***************************************************************************)
(* Proofs about what is written out as a text: the workflows that are      *)
(* written as YAML and read back, and the documents that are written as a  *)
(* form, of any length, nested any number of times.  They are by induction *)
(* over numbers and over the runs of recursive functions, in the form the  *)
(* provers take: a set of numbers that has 0 and every successor has all.  *)
(***************************************************************************)
EXTENDS Workflows, FormData, SequenceTheorems, FiniteSetTheorems, WellFoundedInduction,
        TLAPS

-----------------------------------------------------------------------------
(* Numbers and sequences.                                                   *)

\* What holds of 0 and, with a number, of the next one, holds of all.
LEMMA SetInduction ==
  ASSUME NEW S, 0 \in S, \A n \in Nat : n \in S => n + 1 \in S
  PROVE  Nat \subseteq S
<1> SUFFICES ASSUME Nat \ S # {} PROVE FALSE
  OBVIOUS
<1>1. \E m \in Nat \ S : \A k \in Nat \ S : ~(<<k, m>> \in OpToRel(<, Nat))
  BY NatLessThanWellFounded, WFMin
<1>2. PICK m \in Nat \ S : \A k \in Nat \ S : ~(<<k, m>> \in OpToRel(<, Nat))
  BY <1>1
<1>3. m \in Nat /\ m \notin S /\ m # 0 /\ m - 1 \in Nat
  OBVIOUS
<1>4. m - 1 \in S
  <2>1. SUFFICES ASSUME m - 1 \in Nat \ S PROVE FALSE
    BY <1>3
  <2>2. ~(<<m - 1, m>> \in OpToRel(<, Nat))
    BY <1>2, <2>1
  <2>3. m - 1 < m
    BY <1>3
  <2>4. QED BY <1>3, <2>2, <2>3 DEF OpToRel
<1>5. (m - 1) + 1 \in S
  BY <1>3, <1>4
<1>6. QED BY <1>3, <1>5

\* FlattenSeq of at least one sequence is the last of a run of concatenations.
LEMMA FlattenRun ==
  ASSUME NEW T, NEW ss \in Seq(Seq(T)), Len(ss) # 0
  PROVE  \E f \in [1 .. Len(ss) -> Seq(T)] :
           /\ f[1] = ss[1] /\ FlattenSeq(ss) = f[Len(ss)]
           /\ \A i \in 2 .. Len(ss) : f[i] = f[i - 1] \o ss[i]
<1> DEFINE L == Len(ss)
           Run(f, n) == /\ f[1] = ss[1]
                        /\ \A i \in 2 .. n : f[i] = f[i - 1] \o ss[i]
           Some(n) == \E f \in [1 .. n -> Seq(T)] : Run(f, n)
           S == {n \in Nat : n + 1 <= L => Some(n + 1)}
<1>1. L \in Nat /\ L >= 1 /\ \A i \in 1 .. L : ss[i] \in Seq(T)
  OBVIOUS
<1>2. 0 \in S
  <2> DEFINE f == [i \in 1 .. 1 |-> ss[1]]
  <2>1. f \in [1 .. 0 + 1 -> Seq(T)] /\ f[1] = ss[1]
    BY <1>1
  <2>2. 2 .. 0 + 1 = {}
    OBVIOUS
  <2>3. QED BY <2>1, <2>2
<1>3. ASSUME NEW n \in Nat, n \in S PROVE n + 1 \in S
  <2> DEFINE m == (n + 1) + 1
  <2> HIDE DEF Some
  <2>1. SUFFICES ASSUME m <= L PROVE Some(m)
    OBVIOUS
  <2>a. n + 1 <= L
    BY <1>1, <2>1
  <2>b. Some(n + 1)
    BY <1>3, <2>a
  <2>2. PICK f \in [1 .. n + 1 -> Seq(T)] : Run(f, n + 1)
    BY <2>b DEF Some
  <2> DEFINE g == [i \in 1 .. m |-> IF i = m THEN f[n + 1] \o ss[m] ELSE f[i]]
  <2>3. f[n + 1] \in Seq(T) /\ ss[m] \in Seq(T)
    BY <1>1, <2>1
  <2>c. m \in 1 .. m /\ \A i \in 1 .. n + 1 : i \in 1 .. m /\ i # m
    OBVIOUS
  <2>4. f[n + 1] \o ss[m] \in Seq(T)
    BY <2>3, ConcatProperties
  <2>5. g \in [1 .. m -> Seq(T)]
    BY <2>4
  <2>6. g[m] = f[n + 1] \o ss[m] /\ \A i \in 1 .. n + 1 : g[i] = f[i]
    BY <2>c
  <2> HIDE DEF g
  <2>7. g[1] = ss[1]
    <3>1. 1 \in 1 .. n + 1
      OBVIOUS
    <3>2. QED BY <2>2, <2>6, <3>1
  <2>8. ASSUME NEW i \in 2 .. m PROVE g[i] = g[i - 1] \o ss[i]
    <3>1. CASE i = m
      <4>1. i - 1 = n + 1
        BY <3>1
      <4>2. n + 1 \in 1 .. n + 1
        OBVIOUS
      <4>3. QED BY <2>6, <3>1, <4>1, <4>2
    <3>2. CASE i # m
      <4>1. i \in 2 .. n + 1 /\ i \in 1 .. n + 1 /\ i - 1 \in 1 .. n + 1
        BY <3>2
      <4>2. f[i] = f[i - 1] \o ss[i]
        BY <2>2, <4>1
      <4>3. QED BY <2>6, <4>1, <4>2
    <3>3. QED BY <3>1, <3>2
  <2>9. Run(g, m)
    BY <2>7, <2>8
  <2>10. QED BY <2>5, <2>9 DEF Some
<1> HIDE DEF S
<1>4. Nat \subseteq S
  BY <1>2, <1>3, SetInduction
<1>5. L - 1 \in S /\ (L - 1) + 1 = L
  BY <1>1, <1>4
<1>6. PICK f \in [1 .. L -> Seq(T)] : Run(f, L)
  <2> HIDE DEF Some
  <2>1. L <= L
    BY <1>1
  <2>2. Some(L)
    BY <1>5, <2>1 DEF S
  <2>3. QED BY <2>2 DEF Some
<1> DEFINE Is(g) == g = [i \in 1 .. L |-> IF i = 1 THEN ss[i] ELSE g[i - 1] \o ss[i]]
           flatten == CHOOSE g : Is(g)
<1>7. Is(f)
  <2>1. ASSUME NEW i \in 1 .. L
        PROVE  f[i] = IF i = 1 THEN ss[i] ELSE f[i - 1] \o ss[i]
    <3>1. CASE i = 1
      BY <1>6, <3>1
    <3>2. CASE i # 1
      <4>1. i \in 2 .. L
        BY <1>1, <3>2
      <4>2. QED BY <1>6, <3>2, <4>1
    <3>3. QED BY <3>1, <3>2
  <2>2. QED BY <2>1
<1>8. Is(flatten)
  BY <1>7
<1>9. FlattenSeq(ss) = flatten[L]
  BY <1>1 DEF FlattenSeq
<1> HIDE DEF flatten
<1> DEFINE U == {n \in Nat : n + 1 <= L => flatten[n + 1] = f[n + 1]}
<1>10. /\ flatten[1] = ss[1]
       /\ \A i \in 2 .. L : flatten[i] = flatten[i - 1] \o ss[i]
  <2>1. \A i \in 1 .. L : flatten[i] = IF i = 1 THEN ss[i] ELSE flatten[i - 1] \o ss[i]
    BY <1>8
  <2>2. 1 \in 1 .. L /\ \A i \in 2 .. L : i \in 1 .. L /\ i # 1
    BY <1>1
  <2> HIDE DEF L, Is
  <2>3. QED BY <2>1, <2>2
<1>11. 0 \in U
  BY <1>6, <1>10
<1>12. ASSUME NEW n \in Nat, n \in U PROVE n + 1 \in U
  <2>1. SUFFICES ASSUME (n + 1) + 1 <= L PROVE flatten[(n + 1) + 1] = f[(n + 1) + 1]
    OBVIOUS
  <2>2. (n + 1) + 1 \in 2 .. L /\ ((n + 1) + 1) - 1 = n + 1 /\ n + 1 <= L
    BY <1>1, <2>1
  <2>3. flatten[n + 1] = f[n + 1]
    BY <1>12, <2>2
  <2>4. QED BY <1>6, <1>10, <2>2, <2>3
<1> HIDE DEF U
<1>13. Nat \subseteq U
  BY <1>11, <1>12, SetInduction
<1>14. flatten[L] = f[L]
  <2>1. L - 1 \in U /\ L <= L
    BY <1>1, <1>5, <1>13
  <2>2. (L - 1) + 1 = L
    BY <1>5
  <2> HIDE DEF L
  <2>3. (L - 1) + 1 <= L => flatten[(L - 1) + 1] = f[(L - 1) + 1]
    BY <2>1 DEF U
  <2>4. QED BY <2>1, <2>2, <2>3
<1>15. QED BY <1>6, <1>9, <1>14

\* A set of some of the first places that has one has a last one, and Max is it.
LEMMA LastPlace ==
  ASSUME NEW N \in Nat, NEW S, S \subseteq 1 .. N, S # {}
  PROVE  Max(S) \in S /\ \A k \in S : k <= Max(S)
<1> DEFINE Left == {N - k : k \in S}
<1>0. \A k \in S : k \in Nat /\ N - k \in Nat
  OBVIOUS
<1>1. Left \subseteq Nat /\ Left # {}
  BY <1>0
<1>2. PICK m \in Left : \A k \in Left : ~(<<k, m>> \in OpToRel(<, Nat))
  <2> HIDE DEF Left
  <2>1. QED BY <1>1, NatLessThanWellFounded, WFMin
<1>3. PICK x \in S : m = N - x
  BY <1>2
<1>4. ASSUME NEW k \in S PROVE k <= x
  <2>1. N - k \in Left /\ N - k \in Nat /\ m \in Nat /\ k \in Nat /\ x \in Nat
    BY <1>0, <1>1, <1>2
  <2>2. ~(<<N - k, m>> \in OpToRel(<, Nat))
    BY <1>2, <2>1
  <2>3. ~(N - k < m)
    BY <2>1, <2>2 DEF OpToRel
  <2>4. QED BY <1>3, <2>1, <2>3
<1>5. \A k \in S : x >= k
  BY <1>4
<1>6. /\ Max(S) \in S
      /\ \A k \in S : Max(S) >= k
  BY <1>5 DEF Max
<1>7. QED BY <1>6

LEMMA LastIsGreatest ==
  ASSUME NEW N \in Nat, NEW S, S \subseteq 1 .. N, N \in S
  PROVE  Max(S) = N
<1>1. S # {}
  OBVIOUS
<1>2. Max(S) \in S /\ N <= Max(S)
  BY <1>1, LastPlace
<1>3. Max(S) \in 1 .. N
  BY <1>2
<1>4. QED BY <1>2, <1>3

\* Of two sequences that have no element twice and none in common neither has
\* what one makes of them.
LEMMA ConcatInjective ==
  ASSUME NEW T, NEW s \in Seq(T), NEW t \in Seq(T),
         IsInjective(s), IsInjective(t), Range(s) \cap Range(t) = {}
  PROVE  /\ s \o t \in Seq(T) /\ IsInjective(s \o t)
         /\ Range(s \o t) = Range(s) \cup Range(t)
<1> DEFINE L == Len(s)
           M == Len(t)
           c == s \o t
<1>1. /\ L \in Nat /\ M \in Nat /\ DOMAIN s = 1 .. L /\ DOMAIN t = 1 .. M
  BY LenProperties
<1>2. /\ c \in Seq(T) /\ Len(c) = L + M
      /\ \A n \in 1 .. L + M : c[n] = IF n <= L THEN s[n] ELSE t[n - L]
  BY ConcatProperties
<1>3. DOMAIN c = 1 .. L + M
  BY <1>2, LenProperties
<1> HIDE DEF c, L, M
<1>4. \A n \in 1 .. L : n \in 1 .. L + M /\ c[n] = s[n] /\ s[n] \in Range(s)
  <2> TAKE n \in 1 .. L
  <2>1. n \in 1 .. L + M /\ n <= L
    BY <1>1
  <2>2. s[n] \in Range(s)
    BY <1>1 DEF Range
  <2>3. QED BY <1>2, <2>1, <2>2
<1>5. \A n \in 1 .. M : L + n \in 1 .. L + M /\ c[L + n] = t[n] /\ t[n] \in Range(t)
  <2> TAKE n \in 1 .. M
  <2>1. L + n \in 1 .. L + M /\ ~(L + n <= L) /\ (L + n) - L = n
    BY <1>1
  <2>2. t[n] \in Range(t)
    BY <1>1 DEF Range
  <2>3. QED BY <1>2, <2>1, <2>2
<1>6. \A n \in 1 .. L + M : n \in 1 .. L \/ \E k \in 1 .. M : n = L + k
  <2> TAKE n \in 1 .. L + M
  <2>1. CASE n <= L
    BY <1>1, <2>1
  <2>2. CASE ~(n <= L)
    <3>1. n - L \in 1 .. M /\ n = L + (n - L)
      BY <1>1, <2>2
    <3>2. QED BY <3>1
  <2>3. QED BY <2>1, <2>2
<1>7. Range(c) = Range(s) \cup Range(t)
  <2>1. ASSUME NEW e \in Range(c) PROVE e \in Range(s) \cup Range(t)
    <3>1. PICK n \in 1 .. L + M : e = c[n]
      BY <1>3 DEF Range
    <3>2. QED BY <1>4, <1>5, <1>6, <3>1
  <2>2. ASSUME NEW e \in Range(s) PROVE e \in Range(c)
    BY <1>1, <1>3, <1>4 DEF Range
  <2>3. ASSUME NEW e \in Range(t) PROVE e \in Range(c)
    <3>1. PICK n \in 1 .. M : e = t[n]
      BY <1>1 DEF Range
    <3>2. QED BY <1>3, <1>5, <3>1 DEF Range
  <2>4. QED BY <2>1, <2>2, <2>3
<1>8. IsInjective(c)
  <2> SUFFICES ASSUME NEW a \in 1 .. L + M, NEW b \in 1 .. L + M, c[a] = c[b]
               PROVE  a = b
    BY <1>3 DEF IsInjective
  <2>1. CASE a \in 1 .. L /\ b \in 1 .. L
    <3>1. s[a] = s[b]
      BY <1>4, <2>1
    <3>2. QED BY <1>1, <2>1, <3>1 DEF IsInjective
  <2>2. ASSUME a \in 1 .. L, NEW k \in 1 .. M, b = L + k PROVE FALSE
    BY <1>4, <1>5, <2>2
  <2>3. ASSUME b \in 1 .. L, NEW k \in 1 .. M, a = L + k PROVE FALSE
    BY <1>4, <1>5, <2>3
  <2>4. ASSUME NEW k \in 1 .. M, NEW m \in 1 .. M, a = L + k, b = L + m PROVE a = b
    <3>1. t[k] = t[m]
      BY <1>5, <2>4
    <3>2. k = m
      BY <1>1, <3>1 DEF IsInjective
    <3>3. QED BY <2>4, <3>2
  <2>5. QED BY <1>6, <2>1, <2>2, <2>3, <2>4
<1>9. QED BY <1>2, <1>7, <1>8 DEF c

\* nor does FlattenSeq of any number of them.
LEMMA FlattenInjective ==
  ASSUME NEW T, NEW ss \in Seq(Seq(T)),
         \A i \in DOMAIN ss : IsInjective(ss[i]),
         \A i, j \in DOMAIN ss : i # j => Range(ss[i]) \cap Range(ss[j]) = {}
  PROVE  /\ FlattenSeq(ss) \in Seq(T) /\ IsInjective(FlattenSeq(ss))
         /\ Range(FlattenSeq(ss)) = UNION {Range(ss[i]) : i \in DOMAIN ss}
<1> DEFINE L == Len(ss)
<1>1. L \in Nat /\ DOMAIN ss = 1 .. L /\ \A i \in 1 .. L : ss[i] \in Seq(T)
  BY LenProperties, ElementOfSeq
<1>2. CASE L = 0
  <2>1. FlattenSeq(ss) = << >> /\ ss = << >>
    BY <1>2, EmptySeq DEF FlattenSeq
  <2>2. << >> \in Seq(T) /\ IsInjective(<< >>) /\ Range(<< >>) = {}
    BY EmptySeq DEF IsInjective, Range
  <2>3. {Range(ss[i]) : i \in DOMAIN ss} = {}
    BY <1>1, <1>2
  <2>4. QED BY <2>1, <2>2, <2>3
<1>3. CASE L # 0
  <2>1. PICK f \in [1 .. L -> Seq(T)] :
          /\ f[1] = ss[1] /\ FlattenSeq(ss) = f[L]
          /\ \A i \in 2 .. L : f[i] = f[i - 1] \o ss[i]
    BY <1>3, FlattenRun
  <2> DEFINE Upto(n) == UNION {Range(ss[i]) : i \in 1 .. n}
             Fine(n) == IsInjective(f[n]) /\ Range(f[n]) = Upto(n)
             S == {n \in Nat : n + 1 <= L => Fine(n + 1)}
  <2> HIDE DEF L
  <2>2. 0 \in S
    <3>1. 1 \in 1 .. L /\ 1 .. 1 = {1}
      BY <1>1, <1>3
    <3>2. Upto(1) = Range(ss[1])
      BY <3>1
    <3>3. Fine(1)
      BY <1>1, <2>1, <3>1, <3>2
    <3>4. QED BY <3>3
  <2>3. ASSUME NEW n \in Nat, n \in S PROVE n + 1 \in S
    <3> DEFINE m == n + 1
    <3> HIDE DEF Fine
    <3>1. SUFFICES ASSUME m + 1 <= L PROVE Fine(m + 1)
      OBVIOUS
    <3>2. /\ m \in Nat /\ m <= L /\ m \in 1 .. L /\ m + 1 \in 1 .. L /\ m + 1 \in 2 .. L
          /\ (m + 1) - 1 = m
      BY <1>1, <3>1
    <3>3. Fine(m)
      BY <2>3, <3>2
    <3> HIDE DEF m, S
    <3>4. f[m + 1] = f[m] \o ss[m + 1]
      BY <2>1, <3>2
    <3>5. f[m] \in Seq(T) /\ ss[m + 1] \in Seq(T) /\ IsInjective(ss[m + 1])
      BY <1>1, <3>2
    <3>6. IsInjective(f[m]) /\ Range(f[m]) = Upto(m)
      BY <3>3 DEF Fine
    <3>7. Range(f[m]) \cap Range(ss[m + 1]) = {}
      <4>1. \A i \in 1 .. m : i \in 1 .. L /\ i # m + 1
        BY <1>1, <3>2
      <4>2. \A i \in 1 .. m : Range(ss[i]) \cap Range(ss[m + 1]) = {}
        BY <1>1, <3>2, <4>1
      <4>3. QED BY <3>6, <4>2
    <3>8. /\ IsInjective(f[m + 1])
          /\ Range(f[m + 1]) = Upto(m) \cup Range(ss[m + 1])
      BY <3>4, <3>5, <3>6, <3>7, ConcatInjective
    <3>9. Upto(m + 1) = Upto(m) \cup Range(ss[m + 1])
      <4>1. 1 .. m + 1 = 1 .. m \cup {m + 1}
        BY <3>2
      <4>2. QED BY <4>1
    <3>10. QED BY <3>8, <3>9 DEF Fine
  <2> HIDE DEF S, Fine
  <2>4. Nat \subseteq S
    BY <2>2, <2>3, SetInduction
  <2>5. Fine(L)
    <3>1. L - 1 \in Nat /\ (L - 1) + 1 = L /\ L <= L
      BY <1>1, <1>3
    <3>2. (L - 1) + 1 <= L => Fine((L - 1) + 1)
      BY <2>4, <3>1 DEF S
    <3>3. QED BY <3>1, <3>2
  <2>6. f[L] \in Seq(T)
    <3>1. L \in 1 .. L
      BY <1>1, <1>3
    <3>2. QED BY <3>1
  <2>7. QED BY <1>1, <2>1, <2>5, <2>6 DEF Fine
<1>4. QED BY <1>2, <1>3

-----------------------------------------------------------------------------
(* The workflows.                                                           *)

Keys == {"name", "command", "description", "tags", "source_url", "arguments",
         "- name", "default_value"}
Lines == [key : Keys, value : Words \cup Seq(Words)]

\* Reading lines with w known before ends with v known.
Reads(w, lines, v) ==
  \E f : /\ f[0] = w /\ f[Len(lines)] = v
         /\ \A n \in 1 .. Len(lines) : f[n] = ParseLine(f[n - 1], lines[n])

\* Nothing is learnt from no line,
LEMMA ReadsNothing ==
  ASSUME NEW w PROVE Reads(w, << >>, w)
<1> DEFINE f == [n \in {0} |-> w]
<1>1. f[0] = w /\ Len(<< >>) = 0
  OBVIOUS
<1> HIDE DEF f
<1>2. QED BY <1>1 DEF Reads

\* from one line what ParseLine learns,
LEMMA ReadsLine ==
  ASSUME NEW w, NEW line PROVE Reads(w, <<line>>, ParseLine(w, line))
<1> DEFINE f == [n \in 0 .. 1 |-> IF n = 0 THEN w ELSE ParseLine(w, line)]
<1>1. /\ f[0] = w /\ f[1] = ParseLine(w, line)
      /\ Len(<<line>>) = 1 /\ <<line>>[1] = line
  OBVIOUS
<1> HIDE DEF f
<1>2. \A n \in 1 .. 1 : n = 1 /\ n - 1 = 0
  OBVIOUS
<1>3. QED BY <1>1, <1>2 DEF Reads

\* from lines and then others what the others tell who knows the first,
LEMMA ReadsThen ==
  ASSUME NEW T, NEW s \in Seq(T), NEW t \in Seq(T), NEW w, NEW v, NEW u,
         Reads(w, s, v), Reads(v, t, u)
  PROVE  Reads(w, s \o t, u)
<1>1. PICK f : /\ f[0] = w /\ f[Len(s)] = v
               /\ \A n \in 1 .. Len(s) : f[n] = ParseLine(f[n - 1], s[n])
  BY DEF Reads
<1>2. PICK g : /\ g[0] = v /\ g[Len(t)] = u
               /\ \A n \in 1 .. Len(t) : g[n] = ParseLine(g[n - 1], t[n])
  BY DEF Reads
<1> DEFINE L == Len(s) + Len(t)
           h == [n \in 0 .. L |-> IF n <= Len(s) THEN f[n] ELSE g[n - Len(s)]]
<1>3. Len(s) \in Nat /\ Len(t) \in Nat
  OBVIOUS
<1>4. /\ Len(s \o t) = L
      /\ \A n \in 1 .. Len(s) : (s \o t)[n] = s[n]
      /\ \A n \in 1 .. L : n > Len(s) => (s \o t)[n] = t[n - Len(s)]
  <2>1. Len(s \o t) = L
    BY ConcatProperties
  <2>2. \A n \in 1 .. L : (s \o t)[n] = IF n <= Len(s) THEN s[n] ELSE t[n - Len(s)]
    BY ConcatProperties
  <2>3. QED BY <1>3, <2>1, <2>2
<1>5. \A n \in 0 .. Len(s) : h[n] = f[n]
  BY <1>3
<1>6. \A n \in 0 .. Len(t) : h[Len(s) + n] = g[n]
  <2> TAKE n \in 0 .. Len(t)
  <2>1. CASE n = 0
    BY <1>1, <1>2, <1>3, <2>1
  <2>2. CASE n # 0
    BY <1>3, <2>2
  <2>3. QED BY <2>1, <2>2
<1> HIDE DEF h
<1>7. h[0] = w
  BY <1>1, <1>3, <1>5
<1>8. h[L] = u
  BY <1>2, <1>3, <1>6
<1>9. ASSUME NEW n \in 1 .. L PROVE h[n] = ParseLine(h[n - 1], (s \o t)[n])
  <2>1. CASE n <= Len(s)
    <3>1. n \in 1 .. Len(s) /\ n \in 0 .. Len(s) /\ n - 1 \in 0 .. Len(s)
      BY <1>3, <2>1
    <3>2. QED BY <1>1, <1>4, <1>5, <3>1
  <2>2. CASE n > Len(s)
    <3> DEFINE k == n - Len(s)
    <3>1. /\ k \in 1 .. Len(t) /\ k \in 0 .. Len(t) /\ k - 1 \in 0 .. Len(t)
          /\ Len(s) + k = n /\ Len(s) + (k - 1) = n - 1
      BY <1>3, <2>2
    <3>2. g[k] = ParseLine(g[k - 1], t[k])
      BY <1>2, <3>1
    <3>3. h[n] = g[k] /\ h[n - 1] = g[k - 1]
      BY <1>6, <3>1
    <3>4. (s \o t)[n] = t[k]
      BY <1>4, <2>2
    <3>5. QED BY <3>2, <3>3, <3>4
  <2>3. QED BY <1>3, <2>1, <2>2
<1> HIDE DEF L
<1>10. QED BY <1>4, <1>7, <1>8, <1>9 DEF Reads

\* and ParseWorkflow learns it from all of them.
LEMMA ReadsAll ==
  ASSUME NEW T, NEW lines \in Seq(T), NEW v, Reads(Unread, lines, v)
  PROVE  ParseWorkflow(lines) = v
<1>1. PICK f : /\ f[0] = Unread /\ f[Len(lines)] = v
               /\ \A n \in 1 .. Len(lines) : f[n] = ParseLine(f[n - 1], lines[n])
  BY DEF Reads
<1> DEFINE L == Len(lines)
           Is(g) == g = [n \in 0 .. L |->
                           IF n = 0 THEN Unread ELSE ParseLine(g[n - 1], lines[n])]
           read == CHOOSE g : Is(g)
           h == [n \in 0 .. L |-> f[n]]
<1>2. L \in Nat
  OBVIOUS
<1>3. Is(h)
  <2>1. \A n \in 0 .. L : h[n] = f[n]
    OBVIOUS
  <2>2. h[0] = Unread
    BY <1>1, <1>2
  <2>3. ASSUME NEW n \in 0 .. L, n # 0 PROVE h[n] = ParseLine(h[n - 1], lines[n])
    <3>1. n \in 1 .. L /\ n - 1 \in 0 .. L
      BY <1>2, <2>3
    <3>2. f[n] = ParseLine(f[n - 1], lines[n])
      BY <1>1, <3>1
    <3>3. QED BY <2>1, <3>1, <3>2
  <2>4. \A n \in 0 .. L : f[n] = IF n = 0 THEN Unread ELSE ParseLine(h[n - 1], lines[n])
    BY <1>1, <2>1, <2>3
  <2>5. QED BY <2>4
<1>4. Is(read)
  BY <1>3
<1> DEFINE S == {n \in Nat : n <= L => read[n] = f[n]}
<1> HIDE DEF read, h
<1>5. /\ read[0] = Unread
      /\ \A n \in 1 .. L : read[n] = ParseLine(read[n - 1], lines[n])
  BY <1>2, <1>4
<1>6. 0 \in S
  BY <1>1, <1>5
<1>7. ASSUME NEW n \in Nat, n \in S PROVE n + 1 \in S
  <2>1. SUFFICES ASSUME n + 1 <= L PROVE read[n + 1] = f[n + 1]
    OBVIOUS
  <2>2. n + 1 \in 1 .. L /\ (n + 1) - 1 = n /\ n <= L
    BY <1>2, <2>1
  <2>3. read[n] = f[n]
    BY <1>7, <2>2
  <2>4. QED BY <1>1, <1>5, <2>2, <2>3
<1> HIDE DEF S
<1>8. Nat \subseteq S
  BY <1>6, <1>7, SetInduction
<1>9. read[L] = f[L]
  BY <1>2, <1>8 DEF S
<1>10. ParseWorkflow(lines) = read[L]
  BY DEF ParseWorkflow, read
<1>11. QED BY <1>1, <1>9, <1>10

\* What is known of w after its header and n of its arguments.
SaidBy(w, n) ==
  LET said == {i \in 1 .. n : w.arguments[i].description # ""}
  IN IF said = {} THEN w.description ELSE w.arguments[Max(said)].description

Named(w, n) == [i \in 1 .. n |-> Argument(w.arguments[i].name, "", "")]

KnownAfter(w, n) == [w EXCEPT !.description = SaidBy(w, n), !.arguments = Named(w, n)]

LEMMA KnownAfterTyped ==
  ASSUME NEW w \in Workflows, NEW n \in 0 .. Len(w.arguments)
  PROVE  /\ SaidBy(w, n) \in Words /\ Named(w, n) \in Seq(Arguments)
         /\ KnownAfter(w, n) \in Workflows
<1>1. /\ w.arguments \in Seq(Arguments) /\ w.description \in Words /\ "" \in Words
      /\ n \in Nat /\ Len(w.arguments) \in Nat
  <2>1. w.arguments \in Seq(Arguments) /\ w.description \in Words
    BY DEF Workflows
  <2>2. Len(w.arguments) \in Nat
    BY <2>1, LenProperties
  <2>3. n \in Nat
    BY <2>2
  <2>4. QED BY <2>1, <2>2, <2>3, WorkflowsAssumption
<1>2. \A i \in 1 .. n : w.arguments[i] \in Arguments
  <2>1. \A k \in Nat : \A m \in 0 .. k : 1 .. m \subseteq 1 .. k
    OBVIOUS
  <2>2. 1 .. n \subseteq 1 .. Len(w.arguments)
    BY <1>1, <2>1, Zenon
  <2>3. \A i \in 1 .. Len(w.arguments) : w.arguments[i] \in Arguments
    BY <1>1, ElementOfSeq
  <2>4. QED BY <2>2, <2>3, Zenon
<1>3. \A a \in Arguments : a.name \in Words /\ a.description \in Words
  BY DEF Arguments
<1>4. SaidBy(w, n) \in Words
  <2> DEFINE said == {i \in 1 .. n : w.arguments[i].description # ""}
  <2>1. CASE said = {}
    BY <1>1, <2>1 DEF SaidBy
  <2>2. CASE said # {}
    <3>1. said \subseteq 1 .. n
      OBVIOUS
    <3> HIDE DEF said
    <3>2. Max(said) \in 1 .. n
      BY <1>1, <2>2, <3>1, LastPlace
    <3>3. w.arguments[Max(said)].description \in Words
      BY <1>2, <1>3, <3>2
    <3>4. QED BY <2>2, <3>3 DEF SaidBy, said
  <2>3. QED BY <2>1, <2>2
<1>5. \A v \in Words : Argument(v, "", "") \in Arguments
  BY <1>1 DEF Argument, Arguments
<1>6. \A i \in 1 .. n : Argument(w.arguments[i].name, "", "") \in Arguments
  BY <1>2, <1>3, <1>5
<1>7. Named(w, n) \in Seq(Arguments)
  <2>1. Named(w, n) \in [1 .. n -> Arguments]
    BY <1>6 DEF Named
  <2>2. QED BY <1>1, <2>1, SeqDef
<1>8. KnownAfter(w, n) \in Workflows
  BY <1>4, <1>7 DEF KnownAfter, Workflows
<1>9. QED BY <1>4, <1>7, <1>8

LEMMA LineTyped ==
  ASSUME NEW key \in Keys, NEW v \in Words \cup Seq(Words), NEW absent
  PROVE  /\ Line(key, v) \in Seq(Lines)
         /\ LineUnless(key, v, absent) \in Seq(Lines)
<1>1. [key |-> key, value |-> v] \in Lines
  BY DEF Lines
<1>2. \A x \in Lines : <<x>> \in Seq(Lines)
  OBVIOUS
<1>3. << >> \in Seq(Lines)
  OBVIOUS
<1>4. QED BY <1>1, <1>2, <1>3 DEF Line, LineUnless

\* A line of a field sets it, and a line left out leaves it absent.
LEMMA ReadsField ==
  ASSUME NEW u \in Workflows, NEW v,
         NEW key \in {"name", "command", "description", "tags", "source_url"}
  PROVE  /\ Reads(u, Line(key, v), [u EXCEPT ![key] = v])
         /\ Reads(u, LineUnless(key, v, u[key]), [u EXCEPT ![key] = v])
<1> DEFINE line == [key |-> key, value |-> v]
<1>1. line.key = key /\ line.value = v
  OBVIOUS
<1> HIDE DEF line
<1>2. ParseLine(u, line) = [u EXCEPT ![key] = v]
  BY <1>1 DEF ParseLine
<1>3. Reads(u, <<line>>, [u EXCEPT ![key] = v])
  BY <1>2, ReadsLine
<1>4. v = u[key] => [u EXCEPT ![key] = v] = u
  BY DEF Workflows
<1>5. Reads(u, << >>, u)
  BY ReadsNothing
<1>6. QED BY <1>3, <1>4, <1>5 DEF Line, LineUnless, line

LEMMA ReadsArgument ==
  ASSUME NEW w \in Workflows, NEW n \in Nat, n + 1 \in 1 .. Len(w.arguments)
  PROVE  /\ ArgumentLines(w.arguments[n + 1]) \in Seq(Lines)
         /\ Reads(KnownAfter(w, n), ArgumentLines(w.arguments[n + 1]), KnownAfter(w, n + 1))
<1> DEFINE a == w.arguments[n + 1]
           u == KnownAfter(w, n)
<1>1. w.arguments \in Seq(Arguments) /\ Len(w.arguments) \in Nat
  BY DEF Workflows
<1>2. a \in Arguments
  BY <1>1
<1>3. a.name \in Words /\ a.description \in Words /\ a.default_value \in Words
  BY <1>2 DEF Arguments
<1>4. /\ n \in 0 .. Len(w.arguments) /\ n + 1 \in 0 .. Len(w.arguments)
  BY <1>1
<1>5. u \in Workflows /\ KnownAfter(w, n + 1) \in Workflows
  BY <1>4, KnownAfterTyped
<1>6. /\ Line("- name", a.name) \in Seq(Lines)
      /\ LineUnless("description", a.description, "") \in Seq(Lines)
      /\ LineUnless("default_value", a.default_value, "") \in Seq(Lines)
  <2>1. "- name" \in Keys /\ "description" \in Keys /\ "default_value" \in Keys
    BY DEF Keys
  <2>2. QED BY <1>3, <2>1, LineTyped
<1> DEFINE v == [u EXCEPT !.arguments = Append(@, Argument(a.name, "", ""))]
           x == IF a.description = "" THEN v ELSE [v EXCEPT !.description = a.description]
<1> HIDE DEF a
<1>7. Reads(u, Line("- name", a.name), v)
  <2>1. ParseLine(u, [key |-> "- name", value |-> a.name]) = v
    BY DEF ParseLine
  <2> HIDE DEF v
  <2>2. QED BY <2>1, ReadsLine DEF Line
<1>8. Reads(v, LineUnless("description", a.description, ""), x)
  <2>1. ParseLine(v, [key |-> "description", value |-> a.description])
          = [v EXCEPT !.description = a.description]
    BY DEF ParseLine
  <2> HIDE DEF v
  <2>2. QED BY <2>1, ReadsLine, ReadsNothing DEF Line, LineUnless
<1>9. Reads(x, LineUnless("default_value", a.default_value, ""), x)
  <2>1. ParseLine(x, [key |-> "default_value", value |-> a.default_value]) = x
    BY DEF ParseLine
  <2> HIDE DEF x
  <2>2. QED BY <2>1, ReadsLine, ReadsNothing DEF Line, LineUnless
<1>10. x = KnownAfter(w, n + 1)
  <2>1. Named(w, n + 1) = Append(Named(w, n), Argument(a.name, "", ""))
    <3>1. Named(w, n) \in Seq(Arguments) /\ Named(w, n + 1) \in Seq(Arguments)
      BY <1>4, KnownAfterTyped
    <3>2. Len(Named(w, n)) = n /\ Len(Named(w, n + 1)) = n + 1
      <4>1. DOMAIN Named(w, n) = 1 .. n /\ DOMAIN Named(w, n + 1) = 1 .. n + 1
        BY DEF Named
      <4>2. \A q \in Seq(Arguments) : Len(q) \in Nat /\ DOMAIN q = 1 .. Len(q)
        BY LenProperties
      <4>3. \A k \in Nat, j \in Nat : 1 .. k = 1 .. j => k = j
        OBVIOUS
      <4>4. n \in Nat /\ n + 1 \in Nat
        OBVIOUS
      <4> DEFINE s == Named(w, n)
                 t == Named(w, n + 1)
      <4> HIDE DEF s, t
      <4>5. Len(s) = n
        BY <3>1, <4>1, <4>2, <4>3, <4>4 DEF s
      <4>6. Len(t) = n + 1
        BY <3>1, <4>1, <4>2, <4>3, <4>4 DEF t
      <4>7. QED BY <4>5, <4>6 DEF s, t
    <3>3. \A i \in 1 .. n : Named(w, n)[i] = Named(w, n + 1)[i]
      <4>1. \A i \in 1 .. n : i \in 1 .. n + 1
        OBVIOUS
      <4>2. QED BY <4>1, Zenon DEF Named
    <3>4. Named(w, n + 1)[n + 1] = Argument(a.name, "", "")
      BY DEF Named, a
    <3>5. Argument(a.name, "", "") \in Arguments
      BY <1>3, WorkflowsAssumption DEF Argument, Arguments
    <3> DEFINE e == Argument(a.name, "", "")
               s == Named(w, n)
               t == Named(w, n + 1)
    <3> HIDE DEF e, s, t
    <3>6. /\ Append(s, e) \in Seq(Arguments) /\ Len(Append(s, e)) = n + 1
          /\ \A i \in 1 .. n : Append(s, e)[i] = s[i]
          /\ Append(s, e)[n + 1] = e
      <4>1. s \in Seq(Arguments) /\ Len(s) = n /\ e \in Arguments
        BY <3>1, <3>2, <3>5 DEF e, s
      <4>2. QED BY <4>1, AppendProperties
    <3>7. \A i \in 1 .. n + 1 : i \in 1 .. n \/ i = n + 1
      OBVIOUS
    <3>8. \A i \in 1 .. n + 1 : Append(s, e)[i] = t[i]
      BY <3>3, <3>4, <3>6, <3>7 DEF e, s, t
    <3>9. Append(s, e) = t
      BY <3>1, <3>2, <3>6, <3>8, SeqEqual DEF s, t
    <3>10. QED BY <3>9 DEF e, s, t
  <2>2. SaidBy(w, n + 1) = IF a.description = "" THEN SaidBy(w, n) ELSE a.description
    <3> DEFINE said(k) == {i \in 1 .. k : w.arguments[i].description # ""}
    <3>1. CASE a.description = ""
      <4>1. \A i \in 1 .. n + 1 : i \in 1 .. n \/ i = n + 1
        OBVIOUS
      <4>2. said(n + 1) = said(n)
        <5>0. \A i \in 1 .. n : i \in 1 .. n + 1
          OBVIOUS
        <5>1. said(n) \subseteq said(n + 1)
          BY <5>0
        <5>2. ASSUME NEW i \in said(n + 1) PROVE i \in said(n)
          <6>1. i \in 1 .. n + 1 /\ w.arguments[i].description # ""
            OBVIOUS
          <6>2. i # n + 1
            BY <3>1, <6>1 DEF a
          <6>3. i \in 1 .. n
            BY <4>1, <6>1, <6>2
          <6>4. QED BY <6>1, <6>3
        <5>3. QED BY <5>1, <5>2
      <4>3. QED BY <3>1, <4>2 DEF SaidBy
    <3>2. CASE a.description # ""
      <4>0. n + 1 \in 1 .. n + 1
        OBVIOUS
      <4>1. n + 1 \in said(n + 1) /\ said(n + 1) \subseteq 1 .. n + 1
        BY <3>2, <4>0 DEF a
      <4> HIDE DEF said
      <4>2. Max(said(n + 1)) = n + 1
        BY <4>1, LastIsGreatest
      <4>3. QED BY <3>2, <4>1, <4>2 DEF SaidBy, a, said
    <3>3. QED BY <3>1, <3>2
  <2>3. u = [w EXCEPT !.description = SaidBy(w, n), !.arguments = Named(w, n)]
    BY DEF KnownAfter
  <2>4. QED BY <2>1, <2>2, <2>3 DEF KnownAfter, Workflows
<1> HIDE DEF u, v, x
<1>11. Reads(u, Line("- name", a.name) \o LineUnless("description", a.description, ""), x)
  BY <1>6, <1>7, <1>8, ReadsThen
<1>12. Line("- name", a.name) \o LineUnless("description", a.description, "") \in Seq(Lines)
  BY <1>6, ConcatProperties
<1>13. Reads(u, ArgumentLines(a), x)
  BY <1>6, <1>9, <1>11, <1>12, ReadsThen DEF ArgumentLines
<1>14. ArgumentLines(a) \in Seq(Lines)
  BY <1>6, <1>12, ConcatProperties DEF ArgumentLines
<1>15. QED BY <1>10, <1>13, <1>14 DEF a, u

-----------------------------------------------------------------------------
\* A copy of w: what is known when all of its lines are read.
Copied(w) == KnownAfter(w, Len(w.arguments))

LEMMA CopiedTyped ==
  ASSUME NEW w \in Workflows
  PROVE  /\ w.arguments \in Seq(Arguments) /\ Len(w.arguments) \in Nat
         /\ DOMAIN w.arguments = 1 .. Len(w.arguments)
         /\ Copied(w) \in Workflows
<1>1. w.arguments \in Seq(Arguments)
  BY DEF Workflows
<1>2. Len(w.arguments) \in Nat /\ DOMAIN w.arguments = 1 .. Len(w.arguments)
  BY <1>1, LenProperties
<1>3. Len(w.arguments) \in 0 .. Len(w.arguments)
  BY <1>2
<1>4. QED BY <1>1, <1>2, <1>3, KnownAfterTyped DEF Copied

Header(w) ==
  Line("name", w.name) \o Line("command", w.command)
  \o LineUnless("description", w.description, "")
  \o LineUnless("tags", w.tags, << >>)
  \o LineUnless("source_url", w.source_url, "")

LEMMA SameFields ==
  ASSUME NEW u \in Workflows, NEW w \in Workflows,
         u.name = w.name, u.command = w.command, u.description = w.description,
         u.tags = w.tags, u.source_url = w.source_url, u.arguments = w.arguments
  PROVE  u = w
BY DEF Workflows

LEMMA UnreadTyped ==
  /\ Unread \in Workflows
  /\ Unread = [name |-> "", command |-> "", description |-> "", tags |-> << >>,
               source_url |-> "", arguments |-> << >>]
<1>1. Unread = [name |-> "", command |-> "", description |-> "", tags |-> << >>,
                source_url |-> "", arguments |-> << >>]
  BY DEF Unread, Workflow
<1>2. "" \in Words /\ << >> \in Seq(Words) /\ << >> \in Seq(Arguments)
  <2>1. "" \in Words
    BY WorkflowsAssumption
  <2>2. << >> \in Seq(Words) /\ << >> \in Seq(Arguments)
    BY EmptySeq
  <2>3. QED BY <2>1, <2>2
<1>3. \A x \in Words, y \in Seq(Words), z \in Seq(Arguments) :
        [name |-> x, command |-> x, description |-> x, tags |-> y,
         source_url |-> x, arguments |-> z] \in Workflows
  BY DEF Workflows
<1>4. QED BY <1>1, <1>2, <1>3

LEMMA ReadsHeader ==
  ASSUME NEW w \in Workflows
  PROVE  Header(w) \in Seq(Lines) /\ Reads(Unread, Header(w), KnownAfter(w, 0))
<1> DEFINE l1 == Line("name", w.name)
           l2 == Line("command", w.command)
           l3 == LineUnless("description", w.description, "")
           l4 == LineUnless("tags", w.tags, << >>)
           l5 == LineUnless("source_url", w.source_url, "")
           u1 == [Unread EXCEPT !["name"] = w.name]
           u2 == [u1 EXCEPT !["command"] = w.command]
           u3 == [u2 EXCEPT !["description"] = w.description]
           u4 == [u3 EXCEPT !["tags"] = w.tags]
           u5 == [u4 EXCEPT !["source_url"] = w.source_url]
<1>1. /\ w.name \in Words /\ w.command \in Words /\ w.description \in Words
      /\ w.tags \in Seq(Words) /\ w.source_url \in Words
  BY DEF Workflows
<1>2. l1 \in Seq(Lines) /\ l2 \in Seq(Lines)
  <2>1. "name" \in Keys /\ "command" \in Keys
    BY DEF Keys
  <2>2. QED BY <1>1, <2>1, LineTyped
<1>3. l3 \in Seq(Lines) /\ l4 \in Seq(Lines) /\ l5 \in Seq(Lines)
  <2>1. "description" \in Keys /\ "tags" \in Keys /\ "source_url" \in Keys
    BY DEF Keys
  <2>2. w.tags \in Words \cup Seq(Words)
    BY <1>1
  <2>3. QED BY <1>1, <2>1, <2>2, LineTyped
<1>4. u1 \in Workflows /\ u2 \in Workflows /\ u3 \in Workflows /\ u4 \in Workflows
  <2>1. u1 \in Workflows
    BY <1>1, UnreadTyped DEF Workflows
  <2> HIDE DEF u1
  <2>2. u2 \in Workflows
    BY <1>1, <2>1 DEF Workflows
  <2> HIDE DEF u2
  <2>3. u3 \in Workflows
    BY <1>1, <2>2 DEF Workflows
  <2> HIDE DEF u3
  <2>4. u4 \in Workflows
    BY <1>1, <2>3 DEF Workflows
  <2>5. QED BY <2>1, <2>2, <2>3, <2>4
<1>5. u2["description"] = "" /\ u3["tags"] = << >> /\ u4["source_url"] = ""
  BY UnreadTyped
<1>6. u5 = KnownAfter(w, 0)
  <2>1. SaidBy(w, 0) = w.description
    <3>1. {i \in 1 .. 0 : w.arguments[i].description # ""} = {}
      OBVIOUS
    <3>2. QED BY <3>1 DEF SaidBy
  <2>2. Named(w, 0) = << >>
    BY DEF Named
  <2>3. KnownAfter(w, 0) = [w EXCEPT !.description = w.description, !.arguments = << >>]
    BY <2>1, <2>2 DEF KnownAfter
  <2>4. /\ KnownAfter(w, 0) \in Workflows
        /\ KnownAfter(w, 0).name = w.name /\ KnownAfter(w, 0).command = w.command
        /\ KnownAfter(w, 0).description = w.description /\ KnownAfter(w, 0).tags = w.tags
        /\ KnownAfter(w, 0).source_url = w.source_url /\ KnownAfter(w, 0).arguments = << >>
    <3>1. 0 \in 0 .. Len(w.arguments)
      BY CopiedTyped
    <3>2. QED BY <2>3, <3>1, KnownAfterTyped DEF Workflows
  <2>5. u5 \in Workflows
    <3> HIDE DEF u4
    <3>1. QED BY <1>1, <1>4 DEF Workflows
  <2>6. /\ u5.name = w.name /\ u5.command = w.command
        /\ u5.description = w.description /\ u5.tags = w.tags
        /\ u5.source_url = w.source_url /\ u5.arguments = << >>
    BY UnreadTyped
  <2> HIDE DEF u5
  <2>7. QED BY <2>4, <2>5, <2>6, SameFields
<1> HIDE DEF l1, l2, l3, l4, l5, u1, u2, u3, u4, u5
<1>7. Reads(Unread, l1, u1)
  BY UnreadTyped, ReadsField DEF l1, u1
<1>8. Reads(u1, l2, u2)
  BY <1>4, ReadsField DEF l2, u2
<1>9. Reads(u2, l3, u3)
  BY <1>4, <1>5, ReadsField DEF l3, u3
<1>10. Reads(u3, l4, u4)
  BY <1>4, <1>5, ReadsField DEF l4, u4
<1>11. Reads(u4, l5, u5)
  BY <1>4, <1>5, ReadsField DEF l5, u5
<1>12. l1 \o l2 \in Seq(Lines) /\ Reads(Unread, l1 \o l2, u2)
  BY <1>2, <1>7, <1>8, ConcatProperties, ReadsThen
<1>13. l1 \o l2 \o l3 \in Seq(Lines) /\ Reads(Unread, l1 \o l2 \o l3, u3)
  BY <1>3, <1>9, <1>12, ConcatProperties, ReadsThen
<1>14. l1 \o l2 \o l3 \o l4 \in Seq(Lines) /\ Reads(Unread, l1 \o l2 \o l3 \o l4, u4)
  BY <1>3, <1>10, <1>13, ConcatProperties, ReadsThen
<1>15. /\ l1 \o l2 \o l3 \o l4 \o l5 \in Seq(Lines)
       /\ Reads(Unread, l1 \o l2 \o l3 \o l4 \o l5, u5)
  BY <1>3, <1>11, <1>14, ConcatProperties, ReadsThen
<1>16. Header(w) = l1 \o l2 \o l3 \o l4 \o l5
  BY DEF Header, l1, l2, l3, l4, l5
<1>17. QED BY <1>6, <1>15, <1>16

\* What is read from a generated text is a copy.
LEMMA ParseGenerated ==
  ASSUME NEW w \in Workflows
  PROVE  ParseWorkflow(GenerateWorkflowYaml(w)) = Copied(w)
<1> DEFINE args == w.arguments
           L == Len(args)
           ss == [i \in DOMAIN args |-> ArgumentLines(args[i])]
           rest == IF args = << >> THEN << >> ELSE Line("arguments", "") \o FlattenSeq(ss)
<1>1. args \in Seq(Arguments) /\ L \in Nat /\ DOMAIN args = 1 .. L
  BY CopiedTyped
<1>2. Header(w) \in Seq(Lines) /\ Reads(Unread, Header(w), KnownAfter(w, 0))
  BY ReadsHeader
<1>3. GenerateWorkflowYaml(w) = Header(w) \o rest
  BY DEF GenerateWorkflowYaml, Header
<1>4. rest \in Seq(Lines) /\ Reads(KnownAfter(w, 0), rest, KnownAfter(w, L))
  <2>1. CASE args = << >>
    <3>1. L = 0
      BY <2>1
    <3>2. << >> \in Seq(Lines) /\ rest = << >>
      BY <2>1
    <3>3. Reads(KnownAfter(w, 0), << >>, KnownAfter(w, 0))
      BY ReadsNothing
    <3>4. QED BY <3>1, <3>2, <3>3
  <2>2. CASE args # << >>
    <3>1. L # 0
      BY <1>1, <2>2, EmptySeq
    <3>2. ASSUME NEW n \in Nat, n + 1 \in 1 .. L
          PROVE  /\ ArgumentLines(args[n + 1]) \in Seq(Lines)
                 /\ Reads(KnownAfter(w, n), ArgumentLines(args[n + 1]), KnownAfter(w, n + 1))
      BY <3>2, ReadsArgument
    <3>3. \A i \in 1 .. L : ArgumentLines(args[i]) \in Seq(Lines)
      <4> TAKE i \in 1 .. L
      <4>1. i - 1 \in Nat /\ (i - 1) + 1 = i
        BY <1>1
      <4>2. QED BY <3>2, <4>1
    <3>4. ss \in Seq(Seq(Lines)) /\ Len(ss) = L
      <4>1. ss \in [1 .. L -> Seq(Lines)]
        BY <1>1, <3>3
      <4> HIDE DEF ss, L
      <4>2. ss \in Seq(Seq(Lines))
        BY <1>1, <4>1, SeqDef
      <4>3. 1 .. Len(ss) = 1 .. L /\ Len(ss) \in Nat
        BY <4>1, <4>2, LenProperties
      <4>4. QED BY <1>1, <4>2, <4>3
    <3>5. \A i \in 1 .. L : ss[i] = ArgumentLines(args[i])
      BY <1>1
    <3> HIDE DEF ss, args, L
    <3>6. PICK f \in [1 .. L -> Seq(Lines)] :
            /\ f[1] = ss[1] /\ FlattenSeq(ss) = f[L]
            /\ \A i \in 2 .. L : f[i] = f[i - 1] \o ss[i]
      BY <3>1, <3>4, FlattenRun
    <3> DEFINE S == {n \in Nat : n + 1 <= L => Reads(KnownAfter(w, 0), f[n + 1], KnownAfter(w, n + 1))}
    <3>7. 0 \in S
      <4>1. 1 \in 1 .. L /\ 0 + 1 = 1 /\ 0 \in Nat
        BY <1>1, <3>1
      <4>2. Reads(KnownAfter(w, 0), ArgumentLines(args[0 + 1]), KnownAfter(w, 0 + 1))
        BY <3>2, <4>1
      <4>3. QED BY <3>5, <3>6, <4>1, <4>2
    <3>8. ASSUME NEW n \in Nat, n \in S PROVE n + 1 \in S
      <4> DEFINE m == n + 1
      <4>1. SUFFICES ASSUME m + 1 <= L PROVE Reads(KnownAfter(w, 0), f[m + 1], KnownAfter(w, m + 1))
        OBVIOUS
      <4>2. /\ m \in Nat /\ m + 1 \in 1 .. L /\ m + 1 \in 2 .. L /\ (m + 1) - 1 = m
            /\ m \in 1 .. L /\ n + 1 <= L
        BY <1>1, <4>1
      <4>3. Reads(KnownAfter(w, 0), f[m], KnownAfter(w, m))
        BY <3>8, <4>2
      <4> HIDE DEF m, S
      <4>4. f[m + 1] = f[m] \o ss[m + 1]
        BY <3>6, <4>2
      <4>5. /\ ss[m + 1] \in Seq(Lines)
            /\ Reads(KnownAfter(w, m), ss[m + 1], KnownAfter(w, m + 1))
        BY <3>2, <3>5, <4>2
      <4>6. f[m] \in Seq(Lines)
        BY <4>2
      <4>7. Reads(KnownAfter(w, 0), f[m] \o ss[m + 1], KnownAfter(w, m + 1))
        BY <4>3, <4>5, <4>6, ReadsThen
      <4>8. QED BY <4>4, <4>7
    <3> HIDE DEF S
    <3>9. Nat \subseteq S
      BY <3>7, <3>8, SetInduction
    <3>10. Reads(KnownAfter(w, 0), f[L], KnownAfter(w, L))
      <4>1. L - 1 \in Nat /\ (L - 1) + 1 = L /\ L <= L
        BY <1>1, <3>1
      <4>2. L - 1 \in S
        BY <3>9, <4>1
      <4>3. (L - 1) + 1 <= L => Reads(KnownAfter(w, 0), f[(L - 1) + 1], KnownAfter(w, (L - 1) + 1))
        BY <4>2 DEF S
      <4>4. QED BY <4>1, <4>3
    <3>11. f[L] \in Seq(Lines)
      <4>1. L \in 1 .. L
        BY <1>1, <3>1
      <4>2. QED BY <4>1
    <3>12. Line("arguments", "") \in Seq(Lines)
      <4>1. "arguments" \in Keys /\ "" \in Words \cup Seq(Words)
        BY WorkflowsAssumption DEF Keys
      <4>2. QED BY <4>1, LineTyped
    <3>13. Reads(KnownAfter(w, 0), Line("arguments", ""), KnownAfter(w, 0))
      <4>1. ParseLine(KnownAfter(w, 0), [key |-> "arguments", value |-> ""]) = KnownAfter(w, 0)
        BY DEF ParseLine
      <4>2. QED BY <4>1, ReadsLine DEF Line
    <3>14. Reads(KnownAfter(w, 0), Line("arguments", "") \o f[L], KnownAfter(w, L))
      BY <3>10, <3>11, <3>12, <3>13, ReadsThen
    <3>15. Line("arguments", "") \o f[L] \in Seq(Lines)
      BY <3>11, <3>12, ConcatProperties
    <3>16. rest = Line("arguments", "") \o f[L]
      BY <2>2, <3>6
    <3>17. QED BY <3>14, <3>15, <3>16
  <2>3. QED BY <2>1, <2>2
<1> HIDE DEF rest, L, args, ss
<1>5. Header(w) \o rest \in Seq(Lines)
  BY <1>2, <1>4, ConcatProperties
<1>6. Reads(Unread, Header(w) \o rest, KnownAfter(w, L))
  BY <1>2, <1>4, ReadsThen
<1>7. ParseWorkflow(Header(w) \o rest) = KnownAfter(w, L)
  BY <1>5, <1>6, ReadsAll
<1>8. QED BY <1>3, <1>7 DEF Copied, L, args

\* A copy of a copy is the copy.
LEMMA CopiedTwice ==
  ASSUME NEW w \in Workflows
  PROVE  Copied(Copied(w)) = Copied(w)
<1> DEFINE u == Copied(w)
           L == Len(w.arguments)
<1>1. L \in Nat /\ u \in Workflows /\ L \in 0 .. L
  BY CopiedTyped
<1>2. u.arguments = Named(w, L) /\ Named(w, L) \in Seq(Arguments)
  BY <1>1, KnownAfterTyped DEF Copied, KnownAfter, Workflows
<1>3. Len(Named(w, L)) = L
  <2>1. DOMAIN Named(w, L) = 1 .. L
    BY DEF Named
  <2> HIDE DEF L, u
  <2>2. 1 .. Len(Named(w, L)) = 1 .. L /\ Len(Named(w, L)) \in Nat
    BY <1>2, <2>1, LenProperties
  <2>3. QED BY <1>1, <2>2
<1>4. \A i \in 1 .. L : /\ Named(w, L)[i].name = w.arguments[i].name
                        /\ Named(w, L)[i].description = ""
  BY DEF Named, Argument
<1> HIDE DEF u
<1>5. SaidBy(u, L) = u.description
  <2>1. {i \in 1 .. L : u.arguments[i].description # ""} = {}
    BY <1>2, <1>4
  <2>2. QED BY <2>1 DEF SaidBy
<1>6. Named(u, L) = Named(w, L)
  <2>1. \A i \in 1 .. L : Argument(u.arguments[i].name, "", "") = Argument(w.arguments[i].name, "", "")
    BY <1>2, <1>4
  <2>2. QED BY <2>1 DEF Named
<1>7. KnownAfter(u, L) = [u EXCEPT !.description = u.description, !.arguments = u.arguments]
  BY <1>2, <1>5, <1>6 DEF KnownAfter
<1>8. KnownAfter(u, L) = u
  BY <1>1, <1>7 DEF Workflows
<1>9. Copied(u) = KnownAfter(u, L)
  BY <1>2, <1>3 DEF Copied
<1>10. QED BY <1>8, <1>9 DEF u

-----------------------------------------------------------------------------
\* A device holds nothing but the workflow as it was registered or a copy of it.
WorkflowsInv ==
  /\ WorkflowsTypeOK
  /\ \A d \in Devices : \A n \in Holds(d) :
       n = original.name /\ workflows[d][n] \in {original, Copied(original)}

LEMMA WorkflowsInvInit == WorkflowsInit => WorkflowsInv
<1> SUFFICES ASSUME WorkflowsInit PROVE WorkflowsInv
  OBVIOUS
<1>1. original \in Workflows
  BY WorkflowsAssumption DEF WorkflowsInit
<1>2. DOMAIN workflows = Devices /\ \A d \in Devices : DOMAIN workflows[d] = {}
  BY DEF WorkflowsInit
<1>3. QED BY <1>1, <1>2 DEF WorkflowsInv, WorkflowsTypeOK, Holds

LEMMA WorkflowsInvNext == WorkflowsInv /\ [WorkflowsNext]_workflowVars => WorkflowsInv'
<1> SUFFICES ASSUME WorkflowsInv, [WorkflowsNext]_workflowVars PROVE WorkflowsInv'
  OBVIOUS
<1>1. /\ original \in Workflows /\ DOMAIN workflows = Devices
      /\ \A d \in Devices : \A n \in Holds(d) :
           n = original.name /\ workflows[d][n] \in {original, Copied(original)}
  BY DEF WorkflowsInv, WorkflowsTypeOK
<1>2. Copied(original) \in Workflows /\ Copied(original).name = original.name
  BY <1>1, CopiedTyped DEF Copied, KnownAfter, Workflows
<1>3. ASSUME NEW d \in Devices, NEW w \in {original, Copied(original)},
             RegisterWorkflow(d, w), original' = original
      PROVE  WorkflowsInv'
  <2> DEFINE new == [n \in Holds(d) \cup {w.name} |-> IF n = w.name THEN w ELSE workflows[d][n]]
  <2>1. w.name = original.name
    BY <1>2
  <2>2. workflows' = [workflows EXCEPT ![d] = new]
    BY <1>3 DEF RegisterWorkflow
  <2>3. \A n \in DOMAIN new : n = original.name /\ new[n] \in {original, Copied(original)}
    BY <1>1, <2>1 DEF Holds
  <2> HIDE DEF new
  <2>4. /\ DOMAIN workflows' = Devices /\ workflows'[d] = new
        /\ \A e \in Devices \ {d} : workflows'[e] = workflows[e]
    BY <1>1, <2>2
  <2>5. \A e \in Devices : \A n \in DOMAIN workflows'[e] :
          n = original.name /\ workflows'[e][n] \in {original, Copied(original)}
    BY <1>1, <2>3, <2>4 DEF Holds
  <2>6. QED BY <1>1, <1>2, <1>3, <2>4, <2>5 DEF WorkflowsInv, WorkflowsTypeOK, Holds
<1>4. ASSUME NEW d \in Devices, Import(d) PROVE WorkflowsInv'
  BY <1>3, <1>4 DEF Import
<1>5. ASSUME NEW d \in Devices, NEW e \in Devices, NEW n \in Holds(d), Copy(d, e, n)
      PROVE  WorkflowsInv'
  <2>1. workflows[d][n] \in {original, Copied(original)}
    BY <1>1
  <2>2. ParseWorkflow(GenerateWorkflowYaml(workflows[d][n])) = Copied(original)
    BY <1>1, <1>2, <2>1, ParseGenerated, CopiedTwice
  <2>3. RegisterWorkflow(e, Copied(original)) /\ original' = original
    BY <1>5, <2>2 DEF Copy
  <2>4. QED BY <1>3, <2>3
<1>6. ASSUME UNCHANGED workflowVars PROVE WorkflowsInv'
  BY <1>1, <1>6 DEF WorkflowsInv, WorkflowsTypeOK, Holds, workflowVars
<1>7. QED BY <1>4, <1>5, <1>6 DEF WorkflowsNext

LEMMA WorkflowsInvImplies == WorkflowsInv => WorkflowsTypeOK /\ CopiesKeepTheWorkflow
<1> SUFFICES ASSUME WorkflowsInv PROVE CopiesKeepTheWorkflow
  BY DEF WorkflowsInv
<1> DEFINE c == Copied(original)
           L == Len(original.arguments)
<1>1. original \in Workflows
  BY DEF WorkflowsInv, WorkflowsTypeOK
<1>2. /\ L \in Nat /\ DOMAIN original.arguments = 1 .. L /\ c \in Workflows
  BY <1>1, CopiedTyped
<1>3. /\ c.name = original.name /\ c.command = original.command /\ c.tags = original.tags
      /\ c.source_url = original.source_url
      /\ c.description = SaidBy(original, L) /\ c.arguments = Named(original, L)
  BY <1>1 DEF Copied, KnownAfter, Workflows
<1>4. SaidBy(original, L) = Described(original)
  BY <1>2 DEF SaidBy, Described
<1>5. /\ DOMAIN Named(original, L) = 1 .. L
      /\ \A i \in 1 .. L : /\ Named(original, L)[i].name = original.arguments[i].name
                           /\ Named(original, L)[i].description = ""
                           /\ Named(original, L)[i].default_value = ""
  BY DEF Named, Argument
<1> HIDE DEF c, L
<1>6. ArgumentNames(c.arguments) = ArgumentNames(original.arguments)
  BY <1>2, <1>3, <1>5 DEF ArgumentNames
<1>7. ASSUME NEW d \in Devices, NEW n \in Holds(d)
      PROVE  /\ n = original.name
             /\ workflows[d][n] = original \/ workflows[d][n] = c
  BY DEF WorkflowsInv, c
<1>8. QED BY <1>3, <1>4, <1>5, <1>6, <1>7 DEF CopiesKeepTheWorkflow

\* What a device holds under a name is a workflow, however it came there.
THEOREM WorkflowsTypeCorrect ==
  WorkflowsSpec => []WorkflowsTypeOK
<1>1. QED BY WorkflowsInvInit, WorkflowsInvNext, WorkflowsInvImplies, PTL DEF WorkflowsSpec

\* However many devices a workflow has gone through, each holds it under its one
\* name with its command, tags, source and argument names, and what is lost is
\* lost on the first copy (warp.ts:53-85, 90-121).
THEOREM CopiesKeep ==
  WorkflowsSpec => []CopiesKeepTheWorkflow
<1>1. QED BY WorkflowsInvInit, WorkflowsInvNext, WorkflowsInvImplies, PTL DEF WorkflowsSpec

-----------------------------------------------------------------------------
(* The places of a document.                                                *)

\* The first keys of a path are a path that has just them.
LEMMA PrefixIs ==
  ASSUME NEW T, NEW p \in Seq(T), NEW q \in Seq(T), Len(p) <= Len(q),
         \A n \in 1 .. Len(p) : q[n] = p[n]
  PROVE  SubSeq(q, 1, Len(p)) = p
<1>1. Len(p) \in Nat /\ Len(q) \in Nat
  BY LenProperties
<1>2. \A n \in 1 .. Len(p) : n \in 1 .. Len(q)
  BY <1>1
<1> DEFINE c == SubSeq(q, 1, Len(p))
<1>3. c = [n \in 1 .. Len(p) |-> q[n]]
  BY <1>1
<1>4. DOMAIN p = 1 .. Len(p) /\ p = [n \in 1 .. Len(p) |-> p[n]]
  BY LenProperties
<1>5. QED BY <1>3, <1>4

\* what stands at p and below it
Under(d, p) == {q \in DOMAIN d : Len(p) <= Len(q) /\ \A n \in 1 .. Len(p) : q[n] = p[n]}

\* a list's items are looked at in another way than what is not in a list
IsItem(d, p) == ListsAbove(d, p) % 2 = 1

Wrong(d, p) == \E q \in Under(d, p) : d[q].kind = "null" /\ IsItem(d, q)

Pair(d, q) == [path |-> q, value |-> d[q].value]

Pairs(d, p) == {Pair(d, q) : q \in {x \in Under(d, p) : d[x].kind = "leaf"}}

AllPairs(d) == {Pair(d, q) : q \in DOMAIN d}

\* r is what is to be written of what stands at p and below
Right(d, p, r) ==
  /\ r.throws <=> Wrong(d, p)
  /\ ~r.throws => /\ r.params \in Seq(AllPairs(d))
                  /\ IsInjective(r.params) /\ Range(r.params) = Pairs(d, p)

\* An entry of a place is a place one longer,
LEMMA EntryIsPlace ==
  ASSUME NEW d, IsDocument(d), NEW p \in DOMAIN d, NEW i \in DOMAIN d[p].keys
  PROVE  /\ Entry(d, p, i) \in DOMAIN d /\ Entry(d, p, i) \in Seq(EntryKeys)
         /\ Len(Entry(d, p, i)) = Len(p) + 1
         /\ Entry(d, p, i)[Len(p) + 1] = d[p].keys[i]
         /\ \A n \in 1 .. Len(p) : Entry(d, p, i)[n] = p[n]
         /\ Len(p) \in Nat /\ p \in Seq(EntryKeys)
         /\ d[p].keys[i] \in EntryKeys
<1>1. /\ p \in Seq(EntryKeys) /\ d[p].keys \in Seq(EntryKeys)
      /\ \A k \in Range(d[p].keys) : Append(p, k) \in DOMAIN d
  BY DEF IsDocument, IsPlace
<1>2. d[p].keys[i] \in Range(d[p].keys) /\ d[p].keys[i] \in EntryKeys
  BY <1>1 DEF Range
<1>3. Len(p) \in Nat
  BY <1>1, LenProperties
<1>4. QED BY <1>1, <1>2, <1>3, AppendProperties DEF Entry

\* what stands below a place stands at or below one of its entries,
LEMMA UnderEntries ==
  ASSUME NEW d, IsDocument(d), NEW p \in DOMAIN d
  PROVE  /\ p \in Under(d, p)
         /\ \A i \in DOMAIN d[p].keys : Under(d, Entry(d, p, i)) \subseteq Under(d, p)
         /\ \A q \in Under(d, p) :
              q = p \/ \E i \in DOMAIN d[p].keys : q \in Under(d, Entry(d, p, i))
<1>1. p \in Seq(EntryKeys) /\ Len(p) \in Nat
  BY LenProperties DEF IsDocument, IsPlace
<1>2. p \in Under(d, p)
  BY <1>1 DEF Under
<1>3. ASSUME NEW i \in DOMAIN d[p].keys, NEW q \in Under(d, Entry(d, p, i))
      PROVE  q \in Under(d, p)
  <2> DEFINE e == Entry(d, p, i)
  <2>1. Len(e) = Len(p) + 1 /\ \A n \in 1 .. Len(p) : e[n] = p[n]
    BY EntryIsPlace
  <2>2. /\ q \in DOMAIN d /\ Len(e) <= Len(q)
        /\ \A n \in 1 .. Len(e) : q[n] = e[n]
    BY DEF Under
  <2>3. q \in Seq(EntryKeys) /\ Len(q) \in Nat
    BY <2>2, LenProperties DEF IsDocument, IsPlace
  <2> HIDE DEF e
  <2>4. Len(p) <= Len(q) /\ \A n \in 1 .. Len(p) : n \in 1 .. Len(e)
    BY <1>1, <2>1, <2>2, <2>3
  <2>5. QED BY <2>1, <2>2, <2>4 DEF Under
<1>4. ASSUME NEW q \in Under(d, p), q # p
      PROVE  \E i \in DOMAIN d[p].keys : q \in Under(d, Entry(d, p, i))
  <2>1. /\ q \in DOMAIN d /\ Len(p) <= Len(q) /\ \A n \in 1 .. Len(p) : q[n] = p[n]
    BY DEF Under
  <2>2. /\ q \in Seq(EntryKeys)
        /\ \A n \in 0 .. Len(q) - 1 : /\ SubSeq(q, 1, n) \in DOMAIN d
                                      /\ q[n + 1] \in Range(d[SubSeq(q, 1, n)].keys)
    BY <2>1 DEF IsDocument, IsPlace
  <2>3. Len(q) \in Nat
    BY <2>2, LenProperties
  <2>4. Len(q) # Len(p)
    <3> SUFFICES ASSUME Len(q) = Len(p) PROVE FALSE
      OBVIOUS
    <3>1. q = p
      BY <1>1, <2>1, <2>2, SeqEqual
    <3>2. QED BY <1>4, <3>1
  <2>5. Len(p) \in 0 .. Len(q) - 1
    BY <1>1, <2>1, <2>3, <2>4
  <2>6. SubSeq(q, 1, Len(p)) = p
    BY <1>1, <2>1, <2>2, <2>3, PrefixIs
  <2>7. PICK i \in DOMAIN d[p].keys : q[Len(p) + 1] = d[p].keys[i]
    BY <2>2, <2>5, <2>6 DEF Range
  <2> DEFINE e == Entry(d, p, i)
  <2>8. /\ Len(e) = Len(p) + 1 /\ e[Len(p) + 1] = d[p].keys[i]
        /\ \A n \in 1 .. Len(p) : e[n] = p[n]
    BY EntryIsPlace
  <2> HIDE DEF e
  <2>9. Len(e) <= Len(q) /\ \A n \in 1 .. Len(e) : n \in 1 .. Len(p) \/ n = Len(p) + 1
    BY <1>1, <2>3, <2>5, <2>8
  <2>10. \A n \in 1 .. Len(e) : q[n] = e[n]
    BY <2>1, <2>7, <2>8, <2>9
  <2>11. q \in Under(d, e)
    BY <2>1, <2>9, <2>10 DEF Under
  <2>12. QED BY <2>11 DEF e
<1>5. QED BY <1>2, <1>3, <1>4

\* and of one only.
LEMMA UnderOneEntry ==
  ASSUME NEW d, IsDocument(d), NEW p \in DOMAIN d,
         NEW i \in DOMAIN d[p].keys, NEW j \in DOMAIN d[p].keys, NEW q,
         q \in Under(d, Entry(d, p, i)), q \in Under(d, Entry(d, p, j))
  PROVE  i = j
<1>1. IsInjective(d[p].keys) /\ Len(p) \in Nat
  BY LenProperties DEF IsDocument, IsPlace
<1>2. \A k \in DOMAIN d[p].keys : q \in Under(d, Entry(d, p, k)) => q[Len(p) + 1] = d[p].keys[k]
  <2> SUFFICES ASSUME NEW k \in DOMAIN d[p].keys, q \in Under(d, Entry(d, p, k))
               PROVE  q[Len(p) + 1] = d[p].keys[k]
    OBVIOUS
  <2>1. Len(Entry(d, p, k)) = Len(p) + 1 /\ Entry(d, p, k)[Len(p) + 1] = d[p].keys[k]
    BY EntryIsPlace
  <2>2. Len(p) + 1 \in 1 .. Len(p) + 1
    BY <1>1
  <2>3. QED BY <2>1, <2>2 DEF Under
<1>3. QED BY <1>1, <1>2 DEF IsInjective

-----------------------------------------------------------------------------
(* Lists above lists.                                                       *)

Above(d, p) ==
  {n \in 0 .. Len(p) - 1 : \A m \in n .. Len(p) - 1 : d[SubSeq(p, 1, m)].kind = "list"}

LEMMA AboveIsFinite ==
  ASSUME NEW d, NEW T, NEW p \in Seq(T)
  PROVE  IsFiniteSet(Above(d, p)) /\ Cardinality(Above(d, p)) \in Nat
<1>1. Len(p) \in Nat
  BY LenProperties
<1>2. Above(d, p) \in SUBSET Nat
  BY DEF Above
<1>3. \A n \in Above(d, p) : n <= Len(p)
  BY <1>1 DEF Above
<1>4. IsFiniteSet(Above(d, p))
  BY <1>1, <1>2, <1>3, FS_BoundedSetOfNaturals
<1>5. QED BY <1>4, FS_CardinalityType

\* An entry of a list has one more list above it, one of an object none.
LEMMA ListsAboveEntry ==
  ASSUME NEW d, IsDocument(d), NEW p \in DOMAIN d, NEW i \in DOMAIN d[p].keys
  PROVE  /\ ListsAbove(d, p) \in Nat
         /\ ListsAbove(d, Entry(d, p, i)) =
              IF d[p].kind = "list" THEN ListsAbove(d, p) + 1 ELSE 0
<1> DEFINE e == Entry(d, p, i)
           L == Len(p)
<1>1. /\ e \in Seq(EntryKeys) /\ Len(e) = L + 1 /\ \A n \in 1 .. L : e[n] = p[n]
      /\ p \in Seq(EntryKeys) /\ L \in Nat
  BY EntryIsPlace
<1> HIDE DEF e
<1>2. /\ IsFiniteSet(Above(d, p)) /\ Cardinality(Above(d, p)) \in Nat
      /\ ListsAbove(d, p) = Cardinality(Above(d, p))
      /\ ListsAbove(d, e) = Cardinality(Above(d, e))
  <2>1. \A q : ListsAbove(d, q) = Cardinality(Above(d, q))
    BY Zenon DEF ListsAbove, Above
  <2>2. QED BY <1>1, <2>1, AboveIsFinite
<1>3. \A m \in 0 .. L : SubSeq(e, 1, m) = SubSeq(p, 1, m)
  <2> TAKE m \in 0 .. L
  <2>1. SubSeq(e, 1, m) = [n \in 1 .. m |-> e[n]]
    BY <1>1
  <2>2. SubSeq(p, 1, m) = [n \in 1 .. m |-> p[n]]
    BY <1>1
  <2>3. \A n \in 1 .. m : e[n] = p[n]
    BY <1>1
  <2>4. QED BY <2>1, <2>2, <2>3
<1>4. SubSeq(p, 1, L) = p
  BY <1>1, PrefixIs
<1> DEFINE list(m) == d[SubSeq(p, 1, m)].kind = "list"
<1>5. list(L) <=> d[p].kind = "list"
  BY <1>4
<1>6. Above(d, p) = {n \in 0 .. L - 1 : \A m \in n .. L - 1 : list(m)}
  BY DEF Above
<1>7. Above(d, e) = {n \in 0 .. L : \A m \in n .. L : list(m)}
  <2>1. (L + 1) - 1 = L
    BY <1>1
  <2>2. Above(d, e) = {n \in 0 .. L : \A m \in n .. L : d[SubSeq(e, 1, m)].kind = "list"}
    BY <1>1, <2>1 DEF Above
  <2>3. \A n \in 0 .. L : \A m \in n .. L : m \in 0 .. L
    BY <1>1
  <2>4. \A n \in 0 .. L : \A m \in n .. L : d[SubSeq(e, 1, m)].kind = "list" <=> list(m)
    BY <1>3, <2>3
  <2> HIDE DEF list
  <2>5. QED BY <2>2, <2>4
<1> HIDE DEF list, L
<1>8. CASE list(L)
  <2>1. \A n \in 0 .. L - 1 : n \in 0 .. L /\ n .. L = (n .. L - 1) \cup {L}
    BY <1>1 DEF L
  <2>2. L \in 0 .. L /\ L .. L = {L} /\ L \notin 0 .. L - 1
    BY <1>1 DEF L
  <2>3. \A n \in 0 .. L : n \in 0 .. L - 1 \/ n = L
    BY <1>1 DEF L
  <2>4. Above(d, e) = Above(d, p) \cup {L}
    BY <1>6, <1>7, <1>8, <2>1, <2>2, <2>3
  <2>5. L \notin Above(d, p)
    BY <1>6, <2>2
  <2>6. Cardinality(Above(d, e)) = Cardinality(Above(d, p)) + 1
    BY <1>2, <2>4, <2>5, FS_AddElement
  <2>7. QED BY <1>2, <1>5, <1>8, <2>6 DEF e
<1>9. CASE ~list(L)
  <2>1. \A n \in 0 .. L : L \in n .. L
    BY <1>1 DEF L
  <2>2. Above(d, e) = {}
    BY <1>7, <1>9, <2>1
  <2>3. Cardinality(Above(d, e)) = 0
    BY <2>2, FS_EmptySet
  <2>4. QED BY <1>2, <1>5, <1>9, <2>3 DEF e
<1>10. QED BY <1>8, <1>9

\* The items of a list are looked at as items unless the list is one itself.
LEMMA EntryIsItem ==
  ASSUME NEW d, IsDocument(d), NEW p \in DOMAIN d, NEW i \in DOMAIN d[p].keys
  PROVE  IsItem(d, Entry(d, p, i)) <=> d[p].kind = "list" /\ ~IsItem(d, p)
<1>1. /\ ListsAbove(d, p) \in Nat
      /\ ListsAbove(d, Entry(d, p, i)) =
           IF d[p].kind = "list" THEN ListsAbove(d, p) + 1 ELSE 0
  BY ListsAboveEntry
<1>2. \A n \in Nat : (n + 1) % 2 = 1 <=> ~(n % 2 = 1)
  OBVIOUS
<1>3. ~(0 % 2 = 1)
  OBVIOUS
<1>4. QED BY <1>1, <1>2, <1>3 DEF IsItem

-----------------------------------------------------------------------------
(* What is written.                                                         *)

\* A leaf is written as one parameter, and a null that is not an item as none.
LEMMA NothingBelow ==
  ASSUME NEW d, IsDocument(d), NEW p \in DOMAIN d, d[p].kind \in {"leaf", "null"}
  PROVE  Under(d, p) = {p}
<1>1. d[p].keys = << >>
  BY DEF IsDocument, IsPlace
<1>2. DOMAIN d[p].keys = {}
  BY <1>1
<1>3. QED BY <1>2, UnderEntries

LEMMA LeafIsRight ==
  ASSUME NEW d, IsDocument(d), NEW p \in DOMAIN d, d[p].kind = "leaf"
  PROVE  Right(d, p, Param(p, d[p].value))
<1> DEFINE r == Param(p, d[p].value)
<1>1. Under(d, p) = {p}
  BY NothingBelow
<1>2. ~Wrong(d, p)
  BY <1>1 DEF Wrong
<1>3. Pairs(d, p) = {Pair(d, p)}
  BY <1>1 DEF Pairs
<1>4. r.throws = FALSE /\ r.params = <<Pair(d, p)>>
  BY DEF Param, Params, Pair
<1>5. Pair(d, p) \in AllPairs(d)
  BY DEF AllPairs
<1>6. \A x \in AllPairs(d) : /\ <<x>> \in Seq(AllPairs(d))
                             /\ IsInjective(<<x>>) /\ Range(<<x>>) = {x}
  BY DEF IsInjective, Range
<1> HIDE DEF r
<1>7. QED BY <1>2, <1>3, <1>4, <1>5, <1>6 DEF Right, r

LEMMA NullIsRight ==
  ASSUME NEW d, IsDocument(d), NEW p \in DOMAIN d, d[p].kind = "null"
  PROVE  /\ IsItem(d, p) => Right(d, p, Throws)
         /\ ~IsItem(d, p) => Right(d, p, Params(<< >>))
<1>1. Under(d, p) = {p}
  BY NothingBelow
<1>2. Wrong(d, p) <=> IsItem(d, p)
  BY <1>1 DEF Wrong
<1>3. Pairs(d, p) = {}
  BY <1>1 DEF Pairs
<1>4. Throws.throws = TRUE /\ Params(<< >>).throws = FALSE /\ Params(<< >>).params = << >>
  BY DEF Throws, Params
<1>5. /\ << >> \in Seq(AllPairs(d))
      /\ IsInjective(<< >>) /\ Range(<< >>) = {}
  BY EmptySeq DEF IsInjective, Range
<1>6. QED BY <1>2, <1>3, <1>4, <1>5 DEF Right

\* When every entry is written right, so is the whole.
LEMMA JoinedIsRight ==
  ASSUME NEW d, IsDocument(d), NEW p \in DOMAIN d, d[p].kind \in {"list", "object"},
         NEW pieces, DOMAIN pieces = DOMAIN d[p].keys,
         \A i \in DOMAIN pieces : Right(d, Entry(d, p, i), pieces[i])
  PROVE  Right(d, p, Joined(pieces))
<1> DEFINE E(i) == Entry(d, p, i)
           ss == [i \in DOMAIN pieces |-> pieces[i].params]
<1>1. /\ DOMAIN d[p].keys = 1 .. Len(d[p].keys) /\ Len(d[p].keys) \in Nat
  BY LenProperties DEF IsDocument, IsPlace
<1>2. \A q \in Under(d, p) : q = p \/ \E i \in DOMAIN pieces : q \in Under(d, E(i))
  BY UnderEntries
<1>3. \A i \in DOMAIN pieces : Under(d, E(i)) \subseteq Under(d, p)
  BY UnderEntries
<1>4. Wrong(d, p) <=> \E i \in DOMAIN pieces : Wrong(d, E(i))
  <2> HIDE DEF E
  <2>1. QED BY <1>2, <1>3 DEF Wrong
<1>5. CASE \E i \in DOMAIN pieces : pieces[i].throws
  <2>1. Joined(pieces).throws = TRUE
    BY <1>5 DEF Joined, Throws
  <2>2. Wrong(d, p)
    BY <1>4, <1>5 DEF Right
  <2>3. QED BY <2>1, <2>2 DEF Right
<1>6. CASE \A i \in DOMAIN pieces : ~pieces[i].throws
  <2>1. Joined(pieces).throws = FALSE /\ Joined(pieces).params = FlattenSeq(ss)
    BY <1>6 DEF Joined, Params
  <2>2. ~Wrong(d, p)
    BY <1>4, <1>6 DEF Right
  <2>3. \A i \in DOMAIN pieces :
          /\ pieces[i].params \in Seq(AllPairs(d))
          /\ IsInjective(pieces[i].params) /\ Range(pieces[i].params) = Pairs(d, E(i))
    BY <1>6 DEF Right
  <2>4. DOMAIN ss = DOMAIN pieces /\ \A i \in DOMAIN ss : ss[i] = pieces[i].params
    OBVIOUS
  <2>5. ss \in Seq(Seq(AllPairs(d)))
    <3>1. ss \in [1 .. Len(d[p].keys) -> Seq(AllPairs(d))]
      BY <1>1, <2>3
    <3>2. QED BY <1>1, <3>1, SeqDef
  <2> HIDE DEF ss, E
  <2>6. ASSUME NEW i \in DOMAIN ss, NEW j \in DOMAIN ss, i # j
        PROVE  Range(ss[i]) \cap Range(ss[j]) = {}
    <3> SUFFICES ASSUME NEW x, x \in Range(ss[i]), x \in Range(ss[j]) PROVE FALSE
      OBVIOUS
    <3>1. x \in Pairs(d, E(i)) /\ x \in Pairs(d, E(j))
      BY <2>3, <2>4
    <3>2. x.path \in Under(d, E(i)) /\ x.path \in Under(d, E(j))
      BY <3>1 DEF Pairs, Pair
    <3>3. i = j
      BY <2>4, <3>2, UnderOneEntry DEF E
    <3>4. QED BY <2>6, <3>3
  <2>7. /\ FlattenSeq(ss) \in Seq(AllPairs(d)) /\ IsInjective(FlattenSeq(ss))
        /\ Range(FlattenSeq(ss)) = UNION {Range(ss[i]) : i \in DOMAIN ss}
    <3>1. \A i \in DOMAIN ss : IsInjective(ss[i])
      BY <2>3, <2>4
    <3>2. QED BY <2>5, <2>6, <3>1, FlattenInjective
  <2>8. UNION {Range(ss[i]) : i \in DOMAIN ss} = Pairs(d, p)
    <3>1. ASSUME NEW i \in DOMAIN ss, NEW x \in Range(ss[i]) PROVE x \in Pairs(d, p)
      <4>1. x \in Pairs(d, E(i))
        BY <2>3, <2>4
      <4>2. QED BY <1>3, <2>4, <4>1 DEF Pairs
    <3>2. ASSUME NEW x \in Pairs(d, p) PROVE \E i \in DOMAIN ss : x \in Range(ss[i])
      <4>1. PICK q \in Under(d, p) : d[q].kind = "leaf" /\ x = Pair(d, q)
        BY DEF Pairs
      <4>2. q # p
        BY <4>1
      <4>3. PICK i \in DOMAIN pieces : q \in Under(d, E(i))
        BY <1>2, <4>2
      <4>4. x \in Pairs(d, E(i))
        BY <4>1, <4>3 DEF Pairs
      <4>5. QED BY <2>3, <2>4, <4>3, <4>4
    <3>3. QED BY <3>1, <3>2
  <2>9. QED BY <2>1, <2>2, <2>7, <2>8 DEF Right
<1>7. QED BY <1>5, <1>6

-----------------------------------------------------------------------------
(* The calls.                                                               *)

\* What a call makes of what stands at p, given what the calls it makes do.
CallAt(d, calls, p) ==
  [prefix \in Seq(EntryKeys) |->
    IF d[p].kind = "null" THEN Throws
    ELSE Joined([i \in DOMAIN d[p].keys |->
           Piece(d, calls, Entry(d, p, i), Append(prefix, d[p].keys[i]))])]

Longer(d, p) == {q \in DOMAIN d : Len(q) > Len(p)}

\* A call depends on calls for longer places alone.
LEMMA CallsLonger ==
  ASSUME NEW d, IsDocument(d), NEW p \in DOMAIN d, NEW f, NEW g,
         \A q \in Longer(d, p) : f[q] = g[q]
  PROVE  CallAt(d, f, p) = CallAt(d, g, p)
<1>1. ASSUME NEW i \in DOMAIN d[p].keys, NEW path
      PROVE  Piece(d, f, Entry(d, p, i), path) = Piece(d, g, Entry(d, p, i), path)
  <2> DEFINE e == Entry(d, p, i)
  <2>1. e \in DOMAIN d /\ Len(e) = Len(p) + 1 /\ Len(p) \in Nat
    BY EntryIsPlace
  <2>2. e \in Longer(d, p)
    BY <2>1 DEF Longer
  <2> HIDE DEF e
  <2>3. \A j \in DOMAIN d[e].keys : Entry(d, e, j) \in Longer(d, p)
    <3> TAKE j \in DOMAIN d[e].keys
    <3>1. Entry(d, e, j) \in DOMAIN d /\ Len(Entry(d, e, j)) = Len(e) + 1
      BY <2>1, EntryIsPlace
    <3>2. QED BY <2>1, <3>1 DEF Longer
  <2>4. \A j \in DOMAIN d[e].keys : \A x : Item(d, f, Entry(d, e, j), x) = Item(d, g, Entry(d, e, j), x)
    BY <2>3 DEF Item
  <2>5. [j \in DOMAIN d[e].keys |-> Item(d, f, Entry(d, e, j), ItemPath(path, j))]
          = [j \in DOMAIN d[e].keys |-> Item(d, g, Entry(d, e, j), ItemPath(path, j))]
    BY <2>4
  <2>6. f[e] = g[e]
    BY <2>2
  <2>7. QED BY <2>5, <2>6 DEF Piece, e
<1>2. \A prefix :
        [i \in DOMAIN d[p].keys |-> Piece(d, f, Entry(d, p, i), Append(prefix, d[p].keys[i]))]
          = [i \in DOMAIN d[p].keys |-> Piece(d, g, Entry(d, p, i), Append(prefix, d[p].keys[i]))]
  BY <1>1
<1>3. QED BY <1>2 DEF CallAt

\* There is a function of all calls: the places are of bounded length.
LEMMA CallsExist ==
  ASSUME NEW d, IsDocument(d)
  PROVE  \E f : f = [p \in DOMAIN d |-> CallAt(d, f, p)]
<1> DEFINE Deep(n) == {p \in DOMAIN d : MaxDepth - Len(p) < n}
           Some(n) == \E f : f = [p \in Deep(n) |-> CallAt(d, f, p)]
           S == {n \in Nat : Some(n)}
<1>1. MaxDepth \in Nat /\ \A p \in DOMAIN d : Len(p) \in Nat /\ Len(p) <= MaxDepth
  <2>1. \A p \in DOMAIN d : p \in Seq(EntryKeys) /\ Len(p) <= MaxDepth
    BY DEF IsDocument, IsPlace
  <2>2. QED BY <2>1, FormAssumption, LenProperties
<1>2. 0 \in S
  <2>1. Deep(0) = {}
    BY <1>1
  <2> DEFINE f == [p \in {} |-> p]
  <2>2. f = [p \in Deep(0) |-> CallAt(d, f, p)]
    BY <2>1
  <2>3. Some(0)
    BY <2>2
  <2>4. QED BY <2>3
<1>3. ASSUME NEW n \in Nat, n \in S PROVE n + 1 \in S
  <2> HIDE DEF Deep
  <2>1. PICK f : f = [p \in Deep(n) |-> CallAt(d, f, p)]
    BY <1>3
  <2> DEFINE g == [p \in Deep(n + 1) |-> IF p \in Deep(n) THEN f[p] ELSE CallAt(d, f, p)]
  <2>2. Deep(n) \subseteq Deep(n + 1)
    BY <1>1 DEF Deep
  <2>3. \A p \in Deep(n) : g[p] = f[p]
    BY <2>2
  <2>4. \A p \in Deep(n) : f[p] = CallAt(d, f, p)
    <3> TAKE p \in Deep(n)
    <3> DEFINE F(h) == [q \in Deep(n) |-> CallAt(d, h, q)]
    <3>1. F(f)[p] = CallAt(d, f, p)
      OBVIOUS
    <3>2. f = F(f)
      BY <2>1
    <3> HIDE DEF F
    <3>3. QED BY <3>1, <3>2
  <2>5. ASSUME NEW p \in Deep(n + 1) PROVE CallAt(d, g, p) = CallAt(d, f, p)
    <3>1. p \in DOMAIN d /\ Longer(d, p) \subseteq Deep(n)
      BY <1>1 DEF Deep, Longer
    <3>2. \A q \in Longer(d, p) : g[q] = f[q]
      BY <2>3, <3>1
    <3> HIDE DEF g
    <3>3. QED BY <3>1, <3>2, CallsLonger
  <2>6. \A p \in Deep(n + 1) : (IF p \in Deep(n) THEN f[p] ELSE CallAt(d, f, p)) = CallAt(d, g, p)
    BY <2>4, <2>5
  <2>7. g = [p \in Deep(n + 1) |-> CallAt(d, g, p)]
    BY <2>6
  <2> HIDE DEF g
  <2>8. Some(n + 1)
    BY <2>7
  <2>9. QED BY <2>8
<1> HIDE DEF S, Some
<1>4. Nat \subseteq S
  BY <1>2, <1>3, SetInduction
<1>5. Some(MaxDepth + 1)
  BY <1>1, <1>4 DEF S
<1>6. Deep(MaxDepth + 1) = DOMAIN d
  <2>1. \A p \in DOMAIN d : MaxDepth - Len(p) < MaxDepth + 1
    BY <1>1
  <2>2. QED BY <2>1
<1> HIDE DEF Deep
<1>7. QED BY <1>5, <1>6 DEF Some

\* the function the encoder recurs with is one of them.
LEMMA EncodeIsCall ==
  ASSUME NEW d, IsDocument(d)
  PROVE  \E f : /\ EncodeFormData(d) = f[<< >>][<< >>]
                /\ \A p \in DOMAIN d : f[p] = CallAt(d, f, p)
<1> DEFINE Is(f) == f = [p \in DOMAIN d |-> CallAt(d, f, p)]
           calls == CHOOSE f : Is(f)
<1>1. Is(calls)
  <2>1. \E f : Is(f)
    BY CallsExist
  <2> HIDE DEF Is
  <2>2. QED BY <2>1
<1>2. EncodeFormData(d) = calls[<< >>][<< >>]
  BY Zenon DEF EncodeFormData, CallAt
<1> HIDE DEF calls
<1>3. ASSUME NEW p \in DOMAIN d PROVE calls[p] = CallAt(d, calls, p)
  <2> DEFINE F(h) == [q \in DOMAIN d |-> CallAt(d, h, q)]
  <2>1. F(calls)[p] = CallAt(d, calls, p)
    OBVIOUS
  <2>2. calls = F(calls)
    BY <1>1
  <2> HIDE DEF F
  <2>3. QED BY <2>1, <2>2
<1>4. QED BY <1>2, <1>3

\* What the encoder calls itself for: objects, and items that are no leaf.
Called(d, p) ==
  p \in DOMAIN d /\ (d[p].kind = "object" \/ (IsItem(d, p) /\ d[p].kind # "leaf"))

LEMMA Kinds ==
  ASSUME NEW d, IsDocument(d), NEW p \in DOMAIN d
  PROVE  d[p].kind \in {"leaf", "null", "list", "object"}
BY DEF IsDocument, IsPlace

\* The path an item is written under is its own.
LEMMA ItemPathIsPlace ==
  ASSUME NEW d, IsDocument(d), NEW p \in DOMAIN d, d[p].kind = "list",
         NEW i \in DOMAIN d[p].keys
  PROVE  ItemPath(p, i) = Entry(d, p, i)
<1>1. d[p].keys = SubSeq(Digits, 1, Len(d[p].keys)) /\ d[p].keys \in Seq(EntryKeys)
  BY DEF IsDocument, IsPlace
<1>2. i \in 1 .. Len(d[p].keys) /\ Len(d[p].keys) \in Nat
  BY <1>1, LenProperties
<1> DEFINE L == Len(d[p].keys)
<1>3. SubSeq(Digits, 1, L)[i] = Digits[i]
  BY <1>2
<1> HIDE DEF L
<1>4. d[p].keys[i] = Digits[i]
  BY <1>1, <1>3 DEF L
<1>5. QED BY <1>4 DEF ItemPath, Entry

\* An entry that is no item is written right if the calls for it are right,
LEMMA PieceIsRight ==
  ASSUME NEW d, IsDocument(d), NEW p \in DOMAIN d, ~IsItem(d, p), NEW f,
         Called(d, p) => Right(d, p, f[p][p]),
         \A i \in DOMAIN d[p].keys :
           Called(d, Entry(d, p, i)) => Right(d, Entry(d, p, i), f[Entry(d, p, i)][Entry(d, p, i)])
  PROVE  Right(d, p, Piece(d, f, p, p))
<1>1. CASE d[p].kind = "leaf"
  <2>1. Piece(d, f, p, p) = Param(p, d[p].value)
    BY <1>1 DEF Piece
  <2>2. QED BY <1>1, <2>1, LeafIsRight
<1>2. CASE d[p].kind = "null"
  <2>1. Piece(d, f, p, p) = Params(<< >>)
    BY <1>2 DEF Piece
  <2>2. QED BY <1>2, <2>1, NullIsRight
<1>3. CASE d[p].kind = "object"
  <2>1. Piece(d, f, p, p) = f[p][p]
    BY <1>3 DEF Piece
  <2>2. QED BY <1>3, <2>1 DEF Called
<1>4. CASE d[p].kind = "list"
  <2> DEFINE items == [i \in DOMAIN d[p].keys |-> Item(d, f, Entry(d, p, i), ItemPath(p, i))]
  <2>1. Piece(d, f, p, p) = Joined(items)
    BY <1>4 DEF Piece
  <2>2. ASSUME NEW i \in DOMAIN d[p].keys
        PROVE  Right(d, Entry(d, p, i), Item(d, f, Entry(d, p, i), ItemPath(p, i)))
    <3> DEFINE e == Entry(d, p, i)
    <3>1. e \in DOMAIN d /\ IsItem(d, e)
      BY <1>4, EntryIsPlace, EntryIsItem
    <3>2. ItemPath(p, i) = e
      BY <1>4, ItemPathIsPlace
    <3>3. Called(d, e) => Right(d, e, f[e][e])
      OBVIOUS
    <3> HIDE DEF e
    <3>4. CASE d[e].kind = "leaf"
      <4>1. Item(d, f, e, e) = Param(e, d[e].value)
        BY <3>4 DEF Item
      <4>2. Right(d, e, Item(d, f, e, e))
        BY <3>1, <3>4, <4>1, LeafIsRight
      <4>3. QED BY <3>2, <4>2 DEF e
    <3>5. CASE d[e].kind # "leaf"
      <4>1. Item(d, f, e, e) = f[e][e]
        BY <3>5 DEF Item
      <4>2. Right(d, e, Item(d, f, e, e))
        BY <3>1, <3>3, <3>5, <4>1 DEF Called
      <4>3. QED BY <3>2, <4>2 DEF e
    <3>6. QED BY <3>4, <3>5
  <2>3. /\ DOMAIN items = DOMAIN d[p].keys
        /\ \A i \in DOMAIN items : Right(d, Entry(d, p, i), items[i])
    BY <2>2
  <2> HIDE DEF items
  <2>4. QED BY <1>4, <2>1, <2>3, JoinedIsRight
<1>5. QED BY <1>1, <1>2, <1>3, <1>4, Kinds

\* and a call is right if all calls for longer places are.
LEMMA CallIsRight ==
  ASSUME NEW d, IsDocument(d), NEW p, Called(d, p), NEW f, f[p] = CallAt(d, f, p),
         \A q \in Longer(d, p) : Called(d, q) => Right(d, q, f[q][q])
  PROVE  Right(d, p, f[p][p])
<1>1. p \in DOMAIN d /\ p \in Seq(EntryKeys) /\ Len(p) \in Nat
  BY LenProperties DEF Called, IsDocument, IsPlace
<1> DEFINE pieces == [i \in DOMAIN d[p].keys |-> Piece(d, f, Entry(d, p, i), Append(p, d[p].keys[i]))]
<1>2. f[p][p] = IF d[p].kind = "null" THEN Throws ELSE Joined(pieces)
  BY <1>1 DEF CallAt
<1>3. CASE d[p].kind = "null"
  <2>1. IsItem(d, p)
    BY <1>3 DEF Called
  <2>2. QED BY <1>1, <1>2, <1>3, <2>1, NullIsRight
<1>4. CASE d[p].kind \in {"list", "object"}
  <2>1. ASSUME NEW i \in DOMAIN d[p].keys
        PROVE  Right(d, Entry(d, p, i), Piece(d, f, Entry(d, p, i), Append(p, d[p].keys[i])))
    <3> DEFINE e == Entry(d, p, i)
    <3>1. e \in DOMAIN d /\ Len(e) = Len(p) + 1 /\ e = Append(p, d[p].keys[i])
      BY <1>1, EntryIsPlace DEF Entry
    <3>2. ~IsItem(d, e)
      BY <1>1, <1>4, EntryIsItem DEF Called
    <3> HIDE DEF e
    <3>3. e \in Longer(d, p)
      BY <1>1, <3>1 DEF Longer
    <3>4. \A j \in DOMAIN d[e].keys : Entry(d, e, j) \in Longer(d, p)
      <4> TAKE j \in DOMAIN d[e].keys
      <4>1. Entry(d, e, j) \in DOMAIN d /\ Len(Entry(d, e, j)) = Len(e) + 1
        BY <3>1, EntryIsPlace
      <4>2. QED BY <1>1, <3>1, <4>1 DEF Longer
    <3>5. Right(d, e, Piece(d, f, e, e))
      BY <3>1, <3>2, <3>3, <3>4, PieceIsRight
    <3>6. QED BY <3>1, <3>5 DEF e
  <2>2. /\ DOMAIN pieces = DOMAIN d[p].keys
        /\ \A i \in DOMAIN pieces : Right(d, Entry(d, p, i), pieces[i])
    BY <2>1
  <2> HIDE DEF pieces
  <2>3. Right(d, p, Joined(pieces))
    BY <1>1, <1>4, <2>2, JoinedIsRight
  <2>4. QED BY <1>2, <1>4, <2>3
<1>5. d[p].kind # "leaf"
  BY DEF Called
<1>6. QED BY <1>1, <1>3, <1>4, <1>5, Kinds

\* So the encoder writes what is to be written.
LEMMA EncodeIsRight ==
  ASSUME NEW d, IsDocument(d)
  PROVE  Right(d, << >>, EncodeFormData(d))
<1>1. PICK f : /\ EncodeFormData(d) = f[<< >>][<< >>]
               /\ \A p \in DOMAIN d : f[p] = CallAt(d, f, p)
  BY EncodeIsCall
<1> DEFINE S == {n \in Nat : \A p \in DOMAIN d :
                   Called(d, p) /\ MaxDepth - Len(p) < n => Right(d, p, f[p][p])}
<1>2. MaxDepth \in Nat /\ \A p \in DOMAIN d : Len(p) \in Nat /\ Len(p) <= MaxDepth
  <2>1. \A p \in DOMAIN d : p \in Seq(EntryKeys) /\ Len(p) <= MaxDepth
    BY DEF IsDocument, IsPlace
  <2>2. QED BY <2>1, FormAssumption, LenProperties
<1>3. 0 \in S
  BY <1>2
<1>4. ASSUME NEW n \in Nat, n \in S PROVE n + 1 \in S
  <2> SUFFICES ASSUME NEW p \in DOMAIN d, Called(d, p), MaxDepth - Len(p) < n + 1
               PROVE  Right(d, p, f[p][p])
    OBVIOUS
  <2>1. \A q \in Longer(d, p) : q \in DOMAIN d /\ MaxDepth - Len(q) < n
    BY <1>2 DEF Longer
  <2>2. \A q \in Longer(d, p) : Called(d, q) => Right(d, q, f[q][q])
    BY <1>4, <2>1
  <2>3. QED BY <1>1, <2>2, CallIsRight
<1> HIDE DEF S
<1>5. Nat \subseteq S
  BY <1>3, <1>4, SetInduction
<1>6. Called(d, << >>) /\ << >> \in DOMAIN d /\ Len(<< >>) = 0
  BY DEF IsDocument, Called
<1>7. MaxDepth + 1 \in S /\ MaxDepth - 0 < MaxDepth + 1
  BY <1>2, <1>5
<1>8. Right(d, << >>, f[<< >>][<< >>])
  BY <1>6, <1>7 DEF S
<1>9. QED BY <1>1, <1>8

-----------------------------------------------------------------------------
\* The form is the empty one or what the encoder made of one of the documents.
FormInv ==
  \/ document = NoDocument /\ form = Params(<< >>)
  \/ document \in Documents /\ form = EncodeFormData(document)

LEMMA FormInvImplies == FormInv => FormListsLeaves
<1> SUFFICES ASSUME document \in Documents, form = EncodeFormData(document)
             PROVE  FormListsLeaves
  BY DEF FormInv, FormListsLeaves
<1> DEFINE d == document
           leaves == {p \in DOMAIN d : d[p].kind = "leaf"}
<1>1. IsDocument(d)
  BY FormAssumption
<1>2. Right(d, << >>, form)
  BY <1>1, EncodeIsRight
<1> HIDE DEF d
<1>3. Under(d, << >>) = DOMAIN d
  <2> DEFINE root == << >>
  <2>1. Len(root) = 0
    OBVIOUS
  <2> HIDE DEF root
  <2>2. \A q \in DOMAIN d : Len(q) \in Nat
    BY <1>1, LenProperties DEF IsDocument, IsPlace
  <2>3. \A q \in DOMAIN d : Len(root) <= Len(q)
    BY <2>1, <2>2
  <2>4. 1 .. Len(root) = {}
    BY <2>1
  <2>5. Under(d, root) = DOMAIN d
    BY <2>3, <2>4 DEF Under
  <2>6. QED BY <2>5 DEF root
<1>4. form.throws <=> \E p \in DOMAIN d : d[p].kind = "null" /\ ListsAbove(d, p) % 2 = 1
  BY <1>2, <1>3 DEF Right, Wrong, IsItem
<1>5. ASSUME ~form.throws
      PROVE  /\ ToSet(form.params) = {[path |-> p, value |-> d[p].value] : p \in leaves}
             /\ Len(form.params) = Cardinality(leaves)
  <2> DEFINE s == form.params
  <2>1. s \in Seq(AllPairs(d)) /\ IsInjective(s) /\ Range(s) = Pairs(d, << >>)
    BY <1>2, <1>5 DEF Right
  <2> HIDE DEF s
  <2>2. Pairs(d, << >>) = {Pair(d, p) : p \in leaves}
    BY <1>3 DEF Pairs
  <2>3. ToSet(s) = {Pair(d, p) : p \in leaves}
    BY <2>1, <2>2 DEF ToSet, Range
  <2>4. Len(s) \in Nat /\ DOMAIN s = 1 .. Len(s)
    BY <2>1, LenProperties
  <2> DEFINE g == [i \in 1 .. Len(s) |-> s[i].path]
  <2>5. \A i \in 1 .. Len(s) : s[i].path \in leaves /\ s[i] = Pair(d, s[i].path)
    <3> TAKE i \in 1 .. Len(s)
    <3>1. PICK p \in leaves : s[i] = Pair(d, p)
      BY <2>1, <2>2, <2>4 DEF Range
    <3>2. Pair(d, p).path = p
      BY DEF Pair
    <3>3. QED BY <3>1, <3>2
  <2> HIDE DEF leaves
  <2>6. g \in [1 .. Len(s) -> leaves]
    BY <2>5
  <2>7. \A i, j \in 1 .. Len(s) : g[i] = g[j] => i = j
    <3> SUFFICES ASSUME NEW i \in 1 .. Len(s), NEW j \in 1 .. Len(s), s[i].path = s[j].path
                 PROVE  i = j
      OBVIOUS
    <3>1. s[i] = s[j]
      BY <2>5
    <3>2. QED BY <2>1, <2>4, <3>1 DEF IsInjective
  <2>8. \A p \in leaves : \E i \in 1 .. Len(s) : g[i] = p
    <3> TAKE p \in leaves
    <3>1. Pair(d, p) \in Range(s) /\ Pair(d, p).path = p
      BY <2>1, <2>2 DEF Pair
    <3>2. PICK i \in 1 .. Len(s) : s[i] = Pair(d, p)
      BY <2>4, <3>1 DEF Range
    <3>3. g[i] = p
      BY <3>1, <3>2
    <3>4. QED BY <3>3
  <2> HIDE DEF g
  <2>9. ExistsBijection(1 .. Len(s), leaves)
    <3>1. g \in Injection(1 .. Len(s), leaves)
      BY <2>6, <2>7 DEF Injection, IsInjective
    <3>2. g \in Surjection(1 .. Len(s), leaves)
      BY <2>6, <2>8 DEF Surjection
    <3>3. QED BY <3>1, <3>2 DEF ExistsBijection, Bijection
  <2>10. Cardinality(leaves) = Len(s)
    BY <2>4, <2>9, FS_CountingElements
  <2>11. QED BY <2>3, <2>10 DEF s, Pair
<1>6. QED BY <1>4, <1>5 DEF FormListsLeaves, d

\* Of every document, nested in whatever way, the form lists each leaf once
\* under its own path, and there is no form exactly when a null is an item
\* (stripe.ts:129-153).
THEOREM FormsListLeaves == FormSpec => []FormListsLeaves
<1>1. FormInit => FormInv
  BY DEF FormInit, FormInv
<1>2. FormInv /\ [FormNext]_formVars => FormInv'
  <2>1. FormNext => FormInv'
    BY DEF FormNext, Encode, FormInv
  <2>2. FormInv /\ UNCHANGED formVars => FormInv'
    BY DEF formVars, FormInv
  <2>3. QED BY <2>1, <2>2
<1>3. QED BY <1>1, <1>2, FormInvImplies, PTL DEF FormSpec
=============================================================================
