--------------------------- MODULE SequenceLemmas ---------------------------
(***************************************************************************)
(* Induction over data, from the well-foundedness of the natural numbers,  *)
(* and what the recursive functions of the community modules compute.      *)
(***************************************************************************)
EXTENDS Integers, Sequences, SequencesExt, SequenceTheorems,
        WellFoundedInduction, TLAPS

-----------------------------------------------------------------------------
(* Induction, with the property as the set of numbers that have it *)

\* A set of numbers that is not empty has a least one.
LEMMA LeastNatural ==
  ASSUME NEW T, T \subseteq Nat, T # {}
  PROVE  \E m \in T : \A k \in T : m <= k
<1> DEFINE R == {ss \in Nat \X Nat : ss[1] < ss[2]}
<1>1. IsWellFoundedOn(R, Nat)
  BY NatLessThanWellFounded DEF OpToRel
<1> HIDE DEF R
<1>2. PICK m \in T : \A k \in T : <<k, m>> \notin R
  BY <1>1, WFMin
<1>3. \A k \in T : ~ (k < m)
  BY <1>2 DEF R
<1> QED BY <1>3

\* The least member that is chosen is the least.
LEMMA LeastIsChosen ==
  ASSUME NEW T, NEW m \in T, T \subseteq Nat, \A k \in T : m <= k
  PROVE  (CHOOSE i \in T : \A k \in T : i <= k) = m
<1>1. \A i \in T : (\A k \in T : i <= k) => i = m
  OBVIOUS
<1> QED BY <1>1

\* A set that has 0, and each next number with the one before, has them all.
LEMMA SetInduction ==
  ASSUME NEW T, 0 \in T, \A n \in Nat : n \in T => n + 1 \in T
  PROVE  Nat \subseteq T
<1> SUFFICES ASSUME Nat \ T # {} PROVE FALSE
  OBVIOUS
<1>1. PICK m \in Nat \ T : \A k \in Nat \ T : m <= k
  <2> DEFINE U == Nat \ T
  <2>1. U \subseteq Nat /\ U # {}
    OBVIOUS
  <2> HIDE DEF U
  <2>2. \E m \in U : \A k \in U : m <= k
    BY <2>1, LeastNatural
  <2> QED BY <2>2 DEF U
<1>2. m - 1 \in Nat /\ m - 1 \in T
  BY <1>1
<1>3. m - 1 + 1 \in T
  BY <1>2
<1> QED BY <1>1, <1>3

-----------------------------------------------------------------------------
(* Recursive functions over the first numbers *)

\* A function that is defined on each number by its value on the one before.
Iterates(f, S, base, F, n) ==
  /\ f \in [0..n -> S]
  /\ f[0] = base
  /\ \A i \in 1..n : f[i] = F[<<i, f[i - 1]>>]

\* There is one, whatever the step.
LEMMA IterationExists ==
  ASSUME NEW S, NEW base \in S, NEW n \in Nat, NEW F \in [(1..n) \X S -> S]
  PROVE  \E f : Iterates(f, S, base, F, n)
<1> DEFINE T == {m \in Nat : m <= n => \E f : Iterates(f, S, base, F, m)}
<1>1. 0 \in T
  <2>1. PICK f : f = [i \in 0..0 |-> base]
    OBVIOUS
  <2>2. Iterates(f, S, base, F, 0)
    BY <2>1 DEF Iterates
  <2> QED BY <2>2
<1>2. ASSUME NEW m \in Nat, m \in T PROVE m + 1 \in T
  <2>1. SUFFICES ASSUME m + 1 <= n
                 PROVE  \E g : Iterates(g, S, base, F, m + 1)
    OBVIOUS
  <2>2. PICK f : Iterates(f, S, base, F, m)
    BY <1>2, <2>1
  <2>3. /\ f \in [0..m -> S] /\ f[0] = base
        /\ \A i \in 1..m : f[i] = F[<<i, f[i - 1]>>]
    BY <2>2 DEF Iterates
  <2>4. PICK x : x = F[<<m + 1, f[m]>>]
    OBVIOUS
  <2>5. x \in S
    <3>1. m + 1 \in 1..n /\ f[m] \in S
      BY <2>1, <2>3
    <3> QED BY <2>4, <3>1
  <2>6. PICK g : g = [i \in 0..(m + 1) |-> IF i = m + 1 THEN x ELSE f[i]]
    OBVIOUS
  <2>7. g \in [0..(m + 1) -> S] /\ g[0] = base
    BY <2>3, <2>5, <2>6
  <2>8. g[m + 1] = x /\ \A i \in 0..m : g[i] = f[i]
    BY <2>6
  <2>9. ASSUME NEW i \in 1..(m + 1) PROVE g[i] = F[<<i, g[i - 1]>>]
    <3>1. CASE i = m + 1
      <4>1. i - 1 = m /\ m \in 0..m
        BY <3>1
      <4> QED BY <2>4, <2>8, <3>1, <4>1
    <3>2. CASE i # m + 1
      <4>1. i \in 1..m /\ i \in 0..m /\ i - 1 \in 0..m
        BY <3>2
      <4> QED BY <2>3, <2>8, <4>1
    <3> QED BY <3>1, <3>2
  <2>10. Iterates(g, S, base, F, m + 1)
    BY <2>7, <2>9 DEF Iterates
  <2> QED BY <2>10
<1> HIDE DEF T
<1>3. n \in T
  BY <1>1, <1>2, SetInduction
<1> QED BY <1>3 DEF T

\* One that takes the step wherever it has a value of the set has them all.
LEMMA IterationStays ==
  ASSUME NEW S, NEW base \in S, NEW n \in Nat, NEW F \in [(1..n) \X S -> S],
         NEW f, f = [i \in 0..n |-> f[i]], f[0] = base,
         \A i \in 1..n : f[i - 1] \in S => f[i] = F[<<i, f[i - 1]>>]
  PROVE  Iterates(f, S, base, F, n)
<1> DEFINE T == {m \in Nat : m \in 0..n => f[m] \in S}
<1>1. 0 \in T
  OBVIOUS
<1>2. ASSUME NEW m \in Nat, m \in T PROVE m + 1 \in T
  <2>1. ASSUME NEW j \in 1..n, j = m + 1 PROVE f[j] \in S
    <3>1. j - 1 = m /\ m \in 0..n
      BY <2>1
    <3>2. f[j - 1] \in S
      BY <1>2, <3>1
    <3> QED BY <3>2
  <2>2. m + 1 \in 0..n => m + 1 \in 1..n
    OBVIOUS
  <2> QED BY <2>1, <2>2
<1>3. \A m \in Nat : m \in T => (m \in 0..n => f[m] \in S)
  OBVIOUS
<1> HIDE DEF T
<1>4. ASSUME NEW i \in 0..n PROVE f[i] \in S
  <2>1. i \in T
    BY <1>1, <1>2, SetInduction
  <2> QED BY <1>3, <2>1
<1>5. f \in [0..n -> S]
  BY <1>4
<1>6. ASSUME NEW i \in 1..n PROVE f[i] = F[<<i, f[i - 1]>>]
  <2>1. i - 1 \in 0..n
    OBVIOUS
  <2> QED BY <1>4, <2>1
<1> QED BY <1>5, <1>6 DEF Iterates

-----------------------------------------------------------------------------
(* The value of bytes, the most significant first *)

\* The values of the first bytes of b.
Horner256(v, b) ==
  /\ v \in [0..Len(b) -> Nat]
  /\ v[0] = 0
  /\ \A i \in 1..Len(b) : v[i] = 256 * v[i - 1] + b[i]

\* Bytes have values.
LEMMA ValueExists ==
  ASSUME NEW b \in Seq(0..255)
  PROVE  \E v : Horner256(v, b)
<1>1. PICK n \in Nat : n = Len(b)
  BY LenProperties
<1>2. \A i \in 1..n : b[i] \in 0..255
  BY <1>1, ElementOfSeq
<1>3. PICK F : F = [q \in (1..n) \X Nat |-> 256 * q[2] + b[q[1]]]
  OBVIOUS
<1>4. \A i \in 1..n, v \in Nat : F[<<i, v>>] = 256 * v + b[i]
  BY <1>3
<1>5. F \in [(1..n) \X Nat -> Nat]
  <2>1. ASSUME NEW q \in (1..n) \X Nat PROVE F[q] \in Nat
    <3>1. PICK i \in 1..n, v \in Nat : q = <<i, v>>
      OBVIOUS
    <3>2. PICK g \in 0..255 : g = b[i]
      BY <1>2
    <3>3. PICK w \in Nat : w = 256 * v + g
      OBVIOUS
    <3>4. F[<<i, v>>] = w
      BY <1>4, <3>2, <3>3
    <3> QED BY <3>1, <3>4
  <2>2. F = [q \in (1..n) \X Nat |-> F[q]]
    BY <1>3
  <2> QED BY <2>1, <2>2
<1>6. PICK f : Iterates(f, Nat, 0, F, n)
  BY <1>5, IterationExists
<1>7. /\ f \in [0..n -> Nat] /\ f[0] = 0
      /\ \A i \in 1..n : f[i] = F[<<i, f[i - 1]>>]
  BY <1>6 DEF Iterates
<1>8. ASSUME NEW i \in 1..n PROVE f[i] = 256 * f[i - 1] + b[i]
  <2>1. i - 1 \in 0..n
    OBVIOUS
  <2>2. f[i - 1] \in Nat
    BY <1>7, <2>1
  <2>3. f[i] = F[<<i, f[i - 1]>>]
    BY <1>7
  <2> QED BY <1>4, <2>2, <2>3
<1>9. Horner256(f, b)
  BY <1>1, <1>7, <1>8 DEF Horner256
<1> QED BY <1>9

-----------------------------------------------------------------------------
(* FlattenSeq *)

\* The partial concatenations of the first n members of s.
IsFlattening(f, s, n) ==
  f = [i \in 1..n |-> IF i = 1 THEN s[i] ELSE f[i-1] \o s[i]]

\* There are partial concatenations of any sequence.
LEMMA FlatteningExists ==
  ASSUME NEW s, NEW n \in Nat
  PROVE  \E f : IsFlattening(f, s, n)
<1> DEFINE T == {m \in Nat : \E f : IsFlattening(f, s, m)}
<1>1. 0 \in T
  <2>1. IsFlattening([i \in 1..0 |-> 0], s, 0)
    BY DEF IsFlattening
  <2> QED BY <2>1
<1>2. ASSUME NEW m \in Nat, m \in T PROVE m + 1 \in T
  <2>1. PICK f : IsFlattening(f, s, m)
    BY <1>2
  <2> DEFINE g == [i \in 1..(m + 1) |->
                     IF i <= m THEN f[i]
                     ELSE IF i = 1 THEN s[i] ELSE f[i-1] \o s[i]]
  <2>2. \A i \in 1..m : f[i] = IF i = 1 THEN s[i] ELSE f[i-1] \o s[i]
    BY <2>1 DEF IsFlattening
  <2>3. \A i \in 1..(m + 1) : g[i] = IF i = 1 THEN s[i] ELSE g[i-1] \o s[i]
    BY <2>2
  <2>4. g = [i \in 1..(m + 1) |-> g[i]]
    OBVIOUS
  <2> HIDE DEF g
  <2>5. IsFlattening(g, s, m + 1)
    BY <2>3, <2>4 DEF IsFlattening
  <2> QED BY <2>5
<1> HIDE DEF T
<1>3. n \in T
  BY <1>1, <1>2, SetInduction
<1> QED BY <1>3 DEF T

\* FlattenSeq is the last of them.
LEMMA FlattenSeqIs ==
  ASSUME NEW s, Len(s) \in Nat, Len(s) # 0
  PROVE  \E f : IsFlattening(f, s, Len(s)) /\ FlattenSeq(s) = f[Len(s)]
<1> DEFINE f == CHOOSE f : f = [i \in 1..Len(s) |->
                                  IF i = 1 THEN s[i] ELSE f[i-1] \o s[i]]
<1>1. FlattenSeq(s) = f[Len(s)]
  BY DEF FlattenSeq
<1>2. IsFlattening(f, s, Len(s))
  <2>1. \E g : g = [i \in 1..Len(s) |->
                      IF i = 1 THEN s[i] ELSE g[i-1] \o s[i]]
    BY FlatteningExists DEF IsFlattening
  <2> QED BY <2>1, Zenon DEF IsFlattening
<1> QED BY <1>1, <1>2

\* It depends on the first n members only.
LEMMA FlatteningAgrees ==
  ASSUME NEW s, NEW t, NEW f, NEW g, NEW n \in Nat, NEW m \in Nat, n <= m,
         IsFlattening(f, s, n), IsFlattening(g, t, m),
         \A i \in 1..n : s[i] = t[i]
  PROVE  \A i \in 1..n : f[i] = g[i]
<1> DEFINE T == {i \in Nat : i \in 1..n => f[i] = g[i]}
<1>0. /\ \A i \in 1..n : f[i] = IF i = 1 THEN s[i] ELSE f[i-1] \o s[i]
      /\ \A i \in 1..m : g[i] = IF i = 1 THEN t[i] ELSE g[i-1] \o t[i]
  BY DEF IsFlattening
<1>1. 0 \in T
  OBVIOUS
<1>2. ASSUME NEW i \in Nat, i \in T PROVE i + 1 \in T
  <2>1. ASSUME NEW j \in 1..n, j = i + 1 PROVE f[j] = g[j]
    <3>1. j \in 1..m /\ s[j] = t[j]
      BY <2>1
    <3>2. CASE j = 1
      BY <1>0, <3>1, <3>2
    <3>3. CASE j # 1
      <4>1. j - 1 = i /\ f[i] = g[i]
        BY <1>2, <2>1, <3>3
      <4>2. f[j - 1] = g[j - 1]
        BY <4>1
      <4>3. f[j] = f[j-1] \o s[j] /\ g[j] = g[j-1] \o t[j]
        BY <1>0, <3>1, <3>3
      <4> QED BY <3>1, <4>2, <4>3
    <3> QED BY <3>2, <3>3
  <2> QED BY <2>1
<1> HIDE DEF T
<1>3. \A i \in 1..n : i \in T
  BY <1>1, <1>2, SetInduction
<1> QED BY <1>3 DEF T

\* Nothing is the concatenation of nothing.
LEMMA FlattenEmpty == FlattenSeq(<<>>) = <<>>
BY DEF FlattenSeq

\* One more member is appended to the whole.
LEMMA FlattenAppend ==
  ASSUME NEW B, NEW s \in Seq(B), NEW x \in B, \A y \in B : <<>> \o y = y
  PROVE  FlattenSeq(Append(s, x)) = FlattenSeq(s) \o x
<1> DEFINE t == Append(s, x)
<1>1. /\ t \in Seq(B) /\ Len(t) = Len(s) + 1 /\ t[Len(s) + 1] = x
      /\ \A i \in 1..Len(s) : t[i] = s[i]
      /\ Len(s) \in Nat
  BY AppendProperties, LenProperties
<1> HIDE DEF t
<1>2. PICK g : IsFlattening(g, t, Len(t)) /\ FlattenSeq(t) = g[Len(t)]
  BY <1>1, FlattenSeqIs
<1>3. \A i \in 1..Len(t) : g[i] = IF i = 1 THEN t[i] ELSE g[i-1] \o t[i]
  BY <1>2 DEF IsFlattening
<1>4. CASE Len(s) = 0
  <2>1. s = <<>> /\ FlattenSeq(s) = <<>>
    BY <1>4, EmptySeq, FlattenEmpty
  <2>2. FlattenSeq(t) = x
    BY <1>1, <1>2, <1>3, <1>4
  <2> QED BY <2>1, <2>2 DEF t
<1>5. CASE Len(s) # 0
  <2>1. PICK f : IsFlattening(f, s, Len(s)) /\ FlattenSeq(s) = f[Len(s)]
    BY <1>1, <1>5, FlattenSeqIs
  <2>2. f[Len(s)] = g[Len(s)]
    <3>1. \A i \in 1..Len(s) : f[i] = g[i]
      BY <1>1, <1>2, <2>1, FlatteningAgrees
    <3> QED BY <1>1, <1>5, <3>1
  <2>3. g[Len(t)] = g[Len(s)] \o x
    <3>1. Len(t) \in 1..Len(t) /\ Len(t) # 1 /\ Len(t) - 1 = Len(s)
      BY <1>1, <1>5
    <3> QED BY <1>1, <1>3, <3>1
  <2> QED BY <1>2, <2>1, <2>2, <2>3 DEF t
<1> QED BY <1>4, <1>5

\* The first m members of s lie in the whole of them one behind the other,
\* member k from at[k-1] to at[k].
IsPlaced(C, s, whole, at, m) ==
  /\ whole \in Seq(C)
  /\ at[m] = Len(whole)
  /\ \A k \in 1..m :
       /\ at[k] \in Nat /\ at[k - 1] \in Nat
       /\ at[k] = at[k - 1] + Len(s[k])
       /\ at[k] <= Len(whole)
       /\ \A i \in 1..Len(s[k]) : whole[at[k - 1] + i] = s[k][i]

\* So they do with one more member behind them.
LEMMA OneMorePlaced ==
  ASSUME NEW C, NEW s \in Seq(Seq(C)), NEW whole, NEW at, NEW m \in Nat,
         NEW j \in 1..Len(s), j = m + 1, IsPlaced(C, s, whole, at, m),
         at[j] = Len(whole) + Len(s[j])
  PROVE  IsPlaced(C, s, whole \o s[j], at, j)
<1>1. /\ Len(s) \in Nat /\ s[j] \in Seq(C) /\ Len(s[j]) \in Nat
      /\ \A k \in 1..Len(s) : Len(s[k]) \in Nat
      /\ whole \in Seq(C) /\ Len(whole) \in Nat /\ at[m] = Len(whole)
  BY LenProperties, ElementOfSeq DEF IsPlaced
<1>2. PICK more : more = whole \o s[j]
  OBVIOUS
<1>3. PICK len \in Nat : len = Len(whole) + Len(s[j])
  BY <1>1
<1>4. /\ more \in Seq(C) /\ Len(more) = len
      /\ \A i \in 1..len :
           more[i] = IF i <= Len(whole) THEN whole[i] ELSE s[j][i - Len(whole)]
  BY <1>1, <1>2, <1>3, ConcatProperties
<1>5. ASSUME NEW k \in 1..j
      PROVE  /\ at[k] \in Nat /\ at[k - 1] \in Nat
             /\ at[k] = at[k - 1] + Len(s[k])
             /\ at[k] <= Len(more)
             /\ \A i \in 1..Len(s[k]) : more[at[k - 1] + i] = s[k][i]
  <2>1. CASE k = j
    <3>1. k - 1 = m
      BY <2>1
    <3>2. ASSUME NEW i \in 1..Len(s[k]) PROVE more[at[k - 1] + i] = s[k][i]
      <4>0. PICK n \in Nat, size \in Nat : n = Len(whole) /\ size = Len(s[j])
        BY <1>1
      <4>1. PICK l \in 1..len : l = Len(whole) + i
        <5>1. i \in 1..size /\ len = n + size
          BY <1>3, <2>1, <4>0
        <5>2. n + i \in 1..len
          BY <5>1
        <5> QED BY <4>0, <5>2
      <4>2. ~ (l <= Len(whole)) /\ l - Len(whole) = i
        BY <1>1, <2>1, <4>1
      <4>3. more[l] = s[j][i]
        BY <1>4, <4>2
      <4> QED BY <1>1, <2>1, <3>1, <4>1, <4>3
    <3>3. at[k - 1] = Len(whole) /\ at[k] = Len(more) /\ Len(more) = len
      BY <1>1, <1>3, <1>4, <2>1, <3>1
    <3>4. at[k] = at[k - 1] + Len(s[k])
      BY <1>3, <1>4, <2>1, <3>3
    <3> QED BY <1>1, <3>2, <3>3, <3>4
  <2>2. CASE k # j
    <3>1. k \in 1..m /\ k \in 1..Len(s)
      BY <1>1, <2>2
    <3>2. /\ at[k] \in Nat /\ at[k - 1] \in Nat
          /\ at[k] = at[k - 1] + Len(s[k]) /\ at[k] <= Len(whole)
          /\ \A i \in 1..Len(s[k]) : whole[at[k - 1] + i] = s[k][i]
          /\ Len(s[k]) \in Nat
      BY <1>1, <3>1 DEF IsPlaced
    <3>3. ASSUME NEW i \in 1..Len(s[k]) PROVE more[at[k - 1] + i] = s[k][i]
      <4>1. PICK l \in 1..len : l = at[k - 1] + i /\ l <= Len(whole)
        <5>1. PICK n \in Nat : n = Len(whole)
          BY <1>1
        <5>2. PICK size \in Nat : size = Len(s[k])
          BY <3>2
        <5>3. PICK a \in Nat : a = at[k - 1]
          BY <3>2
        <5>4. n <= len
          BY <1>1, <1>3, <5>1
        <5>5. a + size <= n
          BY <3>2, <5>1, <5>2, <5>3
        <5>6. i \in 1..size
          BY <5>2
        <5>7. a + i \in 1..len /\ a + i <= n
          BY <5>4, <5>5, <5>6
        <5> QED BY <5>1, <5>3, <5>7
      <4>2. more[l] = whole[l]
        BY <1>4, <4>1
      <4> QED BY <3>2, <4>1, <4>2
    <3> QED BY <1>1, <1>3, <1>4, <3>2, <3>3
  <2> QED BY <2>1, <2>2
<1>6. at[j] = Len(more)
  BY <1>3, <1>4
<1> QED BY <1>2, <1>4, <1>5, <1>6 DEF IsPlaced

\* Each member has its place in the concatenation of all.
LEMMA FlattenPlaces ==
  ASSUME NEW C, NEW s \in Seq(Seq(C))
  PROVE  \E at \in [0..Len(s) -> Nat] :
           at[0] = 0 /\ IsPlaced(C, s, FlattenSeq(s), at, Len(s))
<1>0. Len(s) \in Nat /\ \A k \in 1..Len(s) : s[k] \in Seq(C) /\ Len(s[k]) \in Nat
  BY LenProperties, ElementOfSeq
<1>1. CASE Len(s) = 0
  <2>1. s = <<>> /\ FlattenSeq(s) = <<>>
    BY <1>1, EmptySeq, FlattenEmpty
  <2>2. <<>> \in Seq(C) /\ Len(<<>>) = 0
    BY EmptySeq
  <2>3. PICK at : at = [k \in 0..Len(s) |-> 0]
    OBVIOUS
  <2>4. at \in [0..Len(s) -> Nat] /\ at[0] = 0
    BY <1>1, <2>3
  <2>5. IsPlaced(C, s, <<>>, at, 0)
    BY <2>2, <2>4 DEF IsPlaced
  <2> QED BY <1>1, <2>1, <2>4, <2>5
<1>2. CASE Len(s) # 0
  <2>1. PICK f : IsFlattening(f, s, Len(s)) /\ FlattenSeq(s) = f[Len(s)]
    BY <1>0, <1>2, FlattenSeqIs
  <2>2. \A i \in 1..Len(s) : f[i] = IF i = 1 THEN s[i] ELSE f[i-1] \o s[i]
    BY <2>1 DEF IsFlattening
  <2>3. PICK at : at = [k \in 0..Len(s) |-> IF k = 0 THEN 0 ELSE Len(f[k])]
    OBVIOUS
  <2>4. at[0] = 0 /\ \A k \in 1..Len(s) : at[k] = Len(f[k])
    BY <1>0, <2>3
  <2> DEFINE T == {m \in Nat : m \in 1..Len(s) => IsPlaced(C, s, f[m], at, m)}
  <2>5. 0 \in T
    OBVIOUS
  <2>6. ASSUME NEW m \in Nat, m \in T PROVE m + 1 \in T
    <3>1. PICK j \in Nat : j = m + 1
      OBVIOUS
    <3>2. ASSUME j \in 1..Len(s) PROVE IsPlaced(C, s, f[j], at, j)
      <4>1. CASE m = 0
        <5>1. j = 1 /\ f[j] = s[1] /\ s[1] \in Seq(C) /\ <<>> \o s[1] = s[1]
              /\ Len(s[1]) \in Nat
          <6>1. j = 1 /\ 1 \in 1..Len(s)
            BY <3>1, <3>2, <4>1
          <6>2. s[1] \in Seq(C) /\ Len(s[1]) \in Nat
            BY <1>0, <6>1
          <6>3. f[1] = s[1]
            BY <2>2, <6>1
          <6>4. <<>> \o s[1] = s[1]
            BY <6>2, ConcatEmptySeq
          <6> QED BY <6>1, <6>2, <6>3, <6>4
        <5>2. <<>> \in Seq(C) /\ Len(<<>>) = 0
          BY EmptySeq
        <5>3. IsPlaced(C, s, <<>>, at, m)
          BY <2>4, <4>1, <5>2 DEF IsPlaced
        <5>4. at[j] = Len(<<>>) + Len(s[j])
          BY <2>4, <3>2, <5>1, <5>2
        <5>5. IsPlaced(C, s, <<>> \o s[j], at, j)
          BY <3>1, <3>2, <5>3, <5>4, OneMorePlaced
        <5> QED BY <5>1, <5>5
      <4>2. CASE m # 0
        <5>1. m \in 1..Len(s) /\ j # 1 /\ j - 1 = m
          BY <1>0, <3>1, <3>2, <4>2
        <5>2. IsPlaced(C, s, f[m], at, m)
          BY <2>6, <5>1
        <5>3. f[j] = f[m] \o s[j]
          BY <2>2, <3>2, <5>1
        <5>4. f[m] \in Seq(C) /\ s[j] \in Seq(C)
          BY <1>0, <3>2, <5>2 DEF IsPlaced
        <5>5. at[j] = Len(f[m]) + Len(s[j])
          <6>1. Len(f[m] \o s[j]) = Len(f[m]) + Len(s[j])
            BY <5>4, ConcatProperties
          <6>2. at[j] = Len(f[j])
            BY <2>4, <3>2
          <6> QED BY <5>3, <6>1, <6>2, Zenon
        <5>6. IsPlaced(C, s, f[m] \o s[j], at, j)
          BY <3>1, <3>2, <5>2, <5>5, OneMorePlaced
        <5> QED BY <5>3, <5>6
      <4> QED BY <4>1, <4>2
    <3>3. j \in T
      BY <3>2
    <3> QED BY <3>1, <3>3
  <2> HIDE DEF T
  <2>7. Len(s) \in T
    BY <1>0, <2>5, <2>6, SetInduction
  <2>8. IsPlaced(C, s, f[Len(s)], at, Len(s))
    BY <1>0, <1>2, <2>7 DEF T
  <2>9. at \in [0..Len(s) -> Nat]
    <3>1. ASSUME NEW k \in 0..Len(s) PROVE at[k] \in Nat
      <4>1. CASE k = 0
        BY <2>4, <4>1
      <4>2. CASE k # 0
        <5>1. k \in 1..Len(s)
          BY <1>0, <4>2
        <5> QED BY <2>8, <5>1 DEF IsPlaced
      <4> QED BY <4>1, <4>2
    <3>2. at = [k \in 0..Len(s) |-> at[k]]
      BY <2>3
    <3> QED BY <3>1, <3>2
  <2> QED BY <2>1, <2>4, <2>8, <2>9
<1> QED BY <1>1, <1>2
=============================================================================
