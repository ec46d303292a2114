------------------------- MODULE DecimalTextProofs -------------------------
(***************************************************************************)
(* Proofs about the numbers of ScreenTexts: that the division of the code  *)
(* and Horner's rule of the reference write the same digits, and that the  *)
(* line of an amount is those digits with the point in its place.          *)
(***************************************************************************)
EXTENDS ScreenTexts, SequenceLemmas

-----------------------------------------------------------------------------
(* The digits of a number, most significant first *)

\* The values of the first digits of e.
Horner(u, e) ==
  /\ u \in [0..Len(e) -> Nat]
  /\ u[0] = 0
  /\ \A i \in 1..Len(e) : u[i] = 10 * u[i - 1] + e[i]

\* e writes n, without zeros in front.
Spells(e, n) ==
  /\ e \in Seq(0..9)
  /\ e # <<>> => e[1] # 0
  /\ \E u : Horner(u, e) /\ u[Len(e)] = n

\* No digits write 0.
LEMMA NothingSpellsZero == Spells(<<>>, 0)
<1>1. <<>> \in Seq(0..9) /\ Len(<<>>) = 0
  BY EmptySeq
<1>2. PICK u : u = [i \in 0..0 |-> 0]
  OBVIOUS
<1>3. Horner(u, <<>>) /\ u[Len(<<>>)] = 0
  BY <1>1, <1>2 DEF Horner
<1> QED BY <1>1, <1>3 DEF Spells

\* Digits without zeros in front write a number greater than 0.
LEMMA SomethingSpellsMore ==
  ASSUME NEW e, NEW n, Spells(e, n)
  PROVE  /\ n \in Nat
         /\ e = <<>> => n = 0
         /\ e # <<>> => n # 0
<1>1. PICK u : Horner(u, e) /\ u[Len(e)] = n
  BY DEF Spells
<1>2. PICK len \in Nat : len = Len(e)
  BY LenProperties DEF Spells
<1>3. /\ u \in [0..len -> Nat] /\ u[0] = 0
      /\ \A i \in 1..len : u[i] = 10 * u[i - 1] + e[i]
      /\ \A i \in 1..len : e[i] \in 0..9
  BY <1>1, <1>2, ElementOfSeq DEF Horner, Spells
<1>4. n \in Nat
  BY <1>1, <1>2, <1>3
<1>5. e = <<>> => n = 0
  BY <1>1, <1>3, EmptySeq
<1>6. ASSUME e # <<>> PROVE n # 0
  <2>1. len # 0
    BY <1>2, <1>6, EmptySeq DEF Spells
  <2>2. e[1] # 0
    BY <1>6 DEF Spells
  <2> DEFINE T == {k \in Nat : k + 1 \in 1..len => u[k + 1] # 0}
  <2>3. 0 \in T
    <3>1. u[1] = 10 * u[0] + e[1] /\ e[1] \in 0..9
      BY <1>3, <2>1
    <3> QED BY <1>3, <2>2, <3>1
  <2>4. ASSUME NEW k \in Nat, k \in T PROVE k + 1 \in T
    <3>1. ASSUME NEW j \in 1..len, j = k + 2 PROVE u[j] # 0
      <4>1. j - 1 = k + 1 /\ j - 1 \in 1..len /\ j - 1 \in 0..len
        BY <3>1
      <4>2. PICK v \in Nat : v = u[j - 1]
        BY <1>3, <4>1
      <4>3. v # 0
        BY <2>4, <4>1, <4>2
      <4>4. u[j] = 10 * v + e[j] /\ e[j] \in 0..9
        BY <1>3, <4>2
      <4> QED BY <4>3, <4>4
    <3>2. k + 1 + 1 = k + 2
      OBVIOUS
    <3> QED BY <3>1, <3>2
  <2> HIDE DEF T
  <2>5. PICK k \in Nat : len = k + 1
    <3>1. len - 1 \in Nat /\ len = (len - 1) + 1
      BY <2>1
    <3> QED BY <3>1
  <2>6. k \in T
    BY <2>3, <2>4, SetInduction
  <2> QED BY <1>1, <1>2, <2>5, <2>6 DEF T
<1> QED BY <1>4, <1>5, <1>6

\* One more digit.
LEMMA OneMoreDigit ==
  ASSUME NEW e, NEW n, Spells(e, n), NEW a \in 0..9, e # <<>> \/ a # 0
  PROVE  Spells(Append(e, a), 10 * n + a)
<1>1. PICK u : Horner(u, e) /\ u[Len(e)] = n
  BY DEF Spells
<1>2. PICK len \in Nat : len = Len(e)
  BY LenProperties DEF Spells
<1>3. /\ u \in [0..len -> Nat] /\ u[0] = 0 /\ u[len] = n
      /\ \A i \in 1..len : u[i] = 10 * u[i - 1] + e[i]
  BY <1>1, <1>2 DEF Horner
<1>4. PICK f : f = Append(e, a)
  OBVIOUS
<1>5. PICK more \in Nat : more = len + 1
  OBVIOUS
<1>6. /\ f \in Seq(0..9) /\ Len(f) = more /\ f[more] = a
      /\ \A i \in 1..len : f[i] = e[i]
  BY <1>2, <1>4, <1>5, AppendProperties DEF Spells
<1>7. n \in Nat
  BY <1>3
<1>8. PICK v : v = [i \in 0..more |-> IF i = more THEN 10 * n + a ELSE u[i]]
  OBVIOUS
<1>9. /\ v \in [0..more -> Nat] /\ v[0] = 0 /\ v[more] = 10 * n + a
      /\ \A i \in 0..len : v[i] = u[i]
  BY <1>3, <1>5, <1>7, <1>8
<1>10. ASSUME NEW i \in 1..more PROVE v[i] = 10 * v[i - 1] + f[i]
  <2>1. CASE i = more
    <3>1. i - 1 = len /\ len \in 0..len
      BY <1>5, <2>1
    <3>2. v[i - 1] = n
      BY <1>3, <1>9, <3>1
    <3> QED BY <1>6, <1>9, <2>1, <3>2
  <2>2. CASE i # more
    <3>1. i \in 1..len /\ i \in 0..len /\ i - 1 \in 0..len
      BY <1>5, <2>2
    <3>2. v[i] = u[i] /\ v[i - 1] = u[i - 1] /\ f[i] = e[i]
      BY <1>6, <1>9, <3>1
    <3> QED BY <1>3, <3>1, <3>2
  <2> QED BY <2>1, <2>2
<1>11. Horner(v, f) /\ v[Len(f)] = 10 * n + a
  BY <1>6, <1>9, <1>10 DEF Horner
<1>12. f[1] # 0
  <2>1. CASE e = <<>>
    <3>1. len = 0 /\ a # 0
      BY <1>2, <2>1
    <3> QED BY <1>5, <1>6, <3>1
  <2>2. CASE e # <<>>
    <3>1. len # 0
      BY <1>2, <2>2, EmptySeq DEF Spells
    <3>2. 1 \in 1..len /\ e[1] # 0
      BY <2>2, <3>1 DEF Spells
    <3> QED BY <1>6, <3>2
  <2> QED BY <2>1, <2>2
<1> QED BY <1>4, <1>6, <1>11, <1>12 DEF Spells

\* One digit less.
LEMMA OneDigitLess ==
  ASSUME NEW e, NEW n, Spells(e, n), e # <<>>
  PROVE  \E f, m, a : /\ Spells(f, m) /\ a \in 0..9 /\ n = 10 * m + a
                      /\ e = Append(f, a) /\ f \in Seq(0..9)
                      /\ Len(e) = Len(f) + 1
<1>1. PICK u : Horner(u, e) /\ u[Len(e)] = n
  BY DEF Spells
<1>2. PICK f \in Seq(0..9), a \in 0..9 : e = Append(f, a)
  BY SequenceEmptyOrAppend DEF Spells
<1>3. PICK len \in Nat : len = Len(f)
  BY LenProperties
<1>4. PICK more \in Nat : more = len + 1
  OBVIOUS
<1>5. /\ Len(e) = more /\ e[more] = a
      /\ \A i \in 1..len : e[i] = f[i]
  BY <1>2, <1>3, <1>4, AppendProperties
<1>6. /\ u \in [0..more -> Nat] /\ u[0] = 0 /\ u[more] = n
      /\ \A i \in 1..more : u[i] = 10 * u[i - 1] + e[i]
  BY <1>1, <1>5 DEF Horner
<1>7. PICK v : v = [i \in 0..len |-> u[i]]
  OBVIOUS
<1>8. /\ v \in [0..len -> Nat] /\ v[0] = 0
      /\ \A i \in 0..len : v[i] = u[i]
  BY <1>4, <1>6, <1>7
<1>9. ASSUME NEW i \in 1..len PROVE v[i] = 10 * v[i - 1] + f[i]
  <2>1. i \in 1..more /\ i \in 0..len /\ i - 1 \in 0..len
    BY <1>4
  <2> QED BY <1>5, <1>6, <1>8, <2>1
<1>10. Horner(v, f)
  BY <1>3, <1>8, <1>9 DEF Horner
<1>11. ASSUME f # <<>> PROVE f[1] # 0
  <2>1. len # 0
    BY <1>3, <1>11, EmptySeq
  <2>2. 1 \in 1..len /\ e[1] # 0
    BY <2>1 DEF Spells
  <2> QED BY <1>5, <2>2
<1>12. Spells(f, v[len])
  BY <1>3, <1>10, <1>11 DEF Spells
<1>13. n = 10 * v[len] + a
  <2>1. more \in 1..more /\ more - 1 = len /\ len \in 0..len
    BY <1>4
  <2>2. u[more] = 10 * u[len] + e[more]
    BY <1>6, <2>1
  <2> QED BY <1>5, <1>6, <1>8, <2>1, <2>2
<1>14. Len(e) = Len(f) + 1
  BY <1>3, <1>4, <1>5
<1> QED BY <1>2, <1>12, <1>13, <1>14

\* A number has one spelling.
LEMMA SpellingIsUnique ==
  ASSUME NEW e, NEW f, NEW n, Spells(e, n), Spells(f, n)
  PROVE  e = f
<1> DEFINE T == {k \in Nat : \A x, y, m : Spells(x, m) /\ Spells(y, m) /\ Len(x) = k
                                            => x = y}
<1>1. 0 \in T
  <2>1. SUFFICES ASSUME NEW x, NEW y, NEW m, Spells(x, m), Spells(y, m), Len(x) = 0
                 PROVE  x = y
    OBVIOUS
  <2>2. x = <<>>
    BY <2>1, EmptySeq DEF Spells
  <2>3. m = 0
    BY <2>1, <2>2, SomethingSpellsMore
  <2>4. y = <<>>
    BY <2>1, <2>3, SomethingSpellsMore
  <2> QED BY <2>2, <2>4
<1>2. ASSUME NEW k \in Nat, k \in T PROVE k + 1 \in T
  <2>1. SUFFICES ASSUME NEW x, NEW y, NEW m, Spells(x, m), Spells(y, m), Len(x) = k + 1
                 PROVE  x = y
    OBVIOUS
  <2>2. x # <<>>
    BY <2>1, EmptySeq DEF Spells
  <2>3. y # <<>>
    <3>1. m # 0
      BY <2>1, <2>2, SomethingSpellsMore
    <3> QED BY <2>1, <3>1, SomethingSpellsMore
  <2> HIDE DEF T
  <2>4. PICK x1, mx, a : /\ Spells(x1, mx) /\ a \in 0..9 /\ m = 10 * mx + a
                         /\ x = Append(x1, a) /\ x1 \in Seq(0..9)
                         /\ Len(x) = Len(x1) + 1
    <3>1. Spells(x, m)
      BY <2>1
    <3> QED BY ONLY <2>2, <3>1, OneDigitLess
  <2>5. PICK y1, my, c : /\ Spells(y1, my) /\ c \in 0..9 /\ m = 10 * my + c
                         /\ y = Append(y1, c) /\ y1 \in Seq(0..9)
                         /\ Len(y) = Len(y1) + 1
    <3>1. Spells(y, m)
      BY <2>1
    <3> QED BY ONLY <2>3, <3>1, OneDigitLess
  <2>6. mx = my /\ a = c
    <3>1. mx \in Nat /\ my \in Nat
      BY <2>4, <2>5, SomethingSpellsMore
    <3> QED BY <2>4, <2>5, <3>1
  <2>7. Len(x1) = k
    <3>1. Len(x1) \in Nat
      BY <2>4, LenProperties
    <3> QED BY <2>1, <2>4, <3>1
  <2>8. x1 = y1
    BY <1>2, <2>4, <2>5, <2>6, <2>7 DEF T
  <2> QED BY <2>4, <2>5, <2>6, <2>8
<1>3. Len(e) \in Nat
  BY LenProperties DEF Spells
<1> HIDE DEF T
<1>4. Len(e) \in T
  BY <1>1, <1>2, <1>3, SetInduction
<1> QED BY <1>4 DEF T

-----------------------------------------------------------------------------
(* The digits of a number, least significant first *)

\* The values of the last digits of d.
Backward(x, d) ==
  /\ x \in [1..(Len(d) + 1) -> Nat]
  /\ x[Len(d) + 1] = 0
  /\ \A i \in 1..Len(d) : x[i] = d[i] + 10 * x[i + 1]

\* d reads n, with as many zeros behind as it likes.
Reads(d, n) ==
  /\ d \in Seq(0..9)
  /\ \E x : Backward(x, d) /\ x[1] = n

\* The carries of a multiplication by 256.
Carries(c, long, b) ==
  /\ c \in [0..Len(long) -> 0..255]
  /\ c[0] = b
  /\ \A i \in 1..Len(long) : c[i] = (256 * long[i] + c[i - 1]) \div 10

\* What the carries leave.
Product(c, long) == [i \in 1..Len(long) |-> (256 * long[i] + c[i - 1]) % 10]

\* The digits of the product, by its carries.
LEMMA TimesPlusIs ==
  ASSUME NEW d \in Seq(0..9), NEW b \in 0..255, NEW long, long = d \o <<0, 0, 0>>
  PROVE  \E c : Carries(c, long, b) /\ Number!TimesPlus(d, b) = Product(c, long)
<1>1. <<0, 0, 0>> \in Seq(0..9)
  OBVIOUS
<1>2. long \in Seq(0..9)
  BY <1>1, ConcatProperties
<1>3. PICK n \in Nat : n = Len(long)
  BY <1>2, LenProperties
<1>4. \A i \in 1..n : long[i] \in 0..9
  BY <1>2, <1>3, ElementOfSeq
<1>5. ASSUME NEW i \in 1..n, NEW v \in 0..255
      PROVE  (256 * long[i] + v) \div 10 \in 0..255
  <2>1. PICK g \in 0..9 : g = long[i]
    BY <1>4
  <2>2. (256 * g + v) \div 10 \in 0..255
    OBVIOUS
  <2> QED BY <2>1, <2>2
<1>6. PICK F : F = [q \in (1..n) \X (0..255) |-> (256 * long[q[1]] + q[2]) \div 10]
  OBVIOUS
<1>7. \A i \in 1..n, v \in 0..255 : F[<<i, v>>] = (256 * long[i] + v) \div 10
  BY <1>6
<1>8. F \in [(1..n) \X (0..255) -> 0..255]
  <2>1. ASSUME NEW q \in (1..n) \X (0..255) PROVE F[q] \in 0..255
    <3>1. PICK i \in 1..n, v \in 0..255 : q = <<i, v>>
      OBVIOUS
    <3>2. F[<<i, v>>] = (256 * long[i] + v) \div 10
      BY <1>7
    <3>3. PICK w \in 0..255 : w = (256 * long[i] + v) \div 10
      BY <1>5
    <3>4. F[<<i, v>>] = w
      BY <3>2, <3>3, Zenon
    <3> QED BY <3>1, <3>4
  <2>2. F = [q \in (1..n) \X (0..255) |-> F[q]]
    BY <1>6
  <2> QED BY <2>1, <2>2
<1>9. PICK f : Iterates(f, 0..255, b, F, n)
  BY <1>8, IterationExists
<1>10. f = [i \in 0..n |-> IF i = 0 THEN b ELSE (256 * long[i] + f[i - 1]) \div 10]
  <2>1. /\ f \in [0..n -> 0..255] /\ f[0] = b
        /\ \A i \in 1..n : f[i] = F[<<i, f[i - 1]>>]
    BY <1>9 DEF Iterates
  <2>2. ASSUME NEW i \in 0..n
        PROVE  f[i] = IF i = 0 THEN b ELSE (256 * long[i] + f[i - 1]) \div 10
    <3>1. CASE i = 0
      BY <2>1, <3>1
    <3>2. CASE i # 0
      <4>1. i \in 1..n /\ i - 1 \in 0..n
        BY <3>2
      <4>2. f[i - 1] \in 0..255
        BY <2>1, <4>1
      <4>3. f[i] = F[<<i, f[i - 1]>>]
        BY <2>1, <4>1
      <4> QED BY <1>7, <3>2, <4>1, <4>2, <4>3
    <3> QED BY <3>1, <3>2
  <2> QED BY <2>1, <2>2
<1> DEFINE c == CHOOSE carry :
                  carry = [i \in 0..Len(long) |->
                             IF i = 0 THEN b
                             ELSE (256 * long[i] + carry[i - 1]) \div 10]
<1>11. Number!TimesPlus(d, b) = Product(c, long)
  BY DEF Number!TimesPlus, Product
<1>12. c = [i \in 0..Len(long) |-> IF i = 0 THEN b
                                   ELSE (256 * long[i] + c[i - 1]) \div 10]
  <2>1. f = [i \in 0..Len(long) |-> IF i = 0 THEN b
                                   ELSE (256 * long[i] + f[i - 1]) \div 10]
    BY <1>3, <1>10, Zenon
  <2>2. \E g : g = [i \in 0..Len(long) |-> IF i = 0 THEN b
                                           ELSE (256 * long[i] + g[i - 1]) \div 10]
    BY ONLY <2>1, Zenon
  <2> QED BY ONLY <2>2, Zenon
<1> HIDE DEF c
<1>13. \A i \in 0..n : c[i] = IF i = 0 THEN b ELSE (256 * long[i] + c[i - 1]) \div 10
  BY <1>3, <1>12
<1>14. Iterates(c, 0..255, b, F, n)
  <2>1. c = [i \in 0..n |-> c[i]]
    BY <1>3, <1>12
  <2>2. c[0] = b
    BY <1>13
  <2>3. ASSUME NEW i \in 1..n, c[i - 1] \in 0..255 PROVE c[i] = F[<<i, c[i - 1]>>]
    <3>1. i \in 0..n /\ i # 0
      OBVIOUS
    <3>2. c[i] = (256 * long[i] + c[i - 1]) \div 10
      BY <1>13, <3>1
    <3> QED BY <1>7, <2>3, <3>2
  <2> QED BY <1>8, <2>1, <2>2, <2>3, IterationStays
<1>15. Carries(c, long, b)
  <2>1. c \in [0..n -> 0..255] /\ c[0] = b
    BY <1>14 DEF Iterates
  <2>2. ASSUME NEW i \in 1..n PROVE c[i] = (256 * long[i] + c[i - 1]) \div 10
    <3>1. i \in 0..n /\ i # 0
      OBVIOUS
    <3> QED BY <1>13, <3>1
  <2> QED BY <1>3, <2>1, <2>2 DEF Carries
<1> QED BY <1>11, <1>15

\* They are the digits of 256 times the number and one byte more.
LEMMA TimesPlusReads ==
  ASSUME NEW d, NEW n, Reads(d, n), NEW b \in 0..255
  PROVE  Reads(Number!TimesPlus(d, b), 256 * n + b)
<1>1. PICK x : Backward(x, d) /\ x[1] = n
  BY DEF Reads
<1>2. PICK len \in Nat : len = Len(d)
  BY LenProperties DEF Reads
<1>3. /\ x \in [1..(len + 1) -> Nat] /\ x[len + 1] = 0
      /\ \A i \in 1..len : x[i] = d[i] + 10 * x[i + 1]
  BY <1>1, <1>2 DEF Backward
<1>4. PICK long : long = d \o <<0, 0, 0>>
  OBVIOUS
<1>5. PICK size \in Nat : size = len + 3
  OBVIOUS
<1>6. /\ long \in Seq(0..9) /\ Len(long) = size
      /\ \A i \in 1..size : long[i] \in 0..9
      /\ \A i \in 1..size : long[i] = IF i <= len THEN d[i] ELSE 0
  <2>1. /\ <<0, 0, 0>> \in Seq(0..9) /\ Len(<<0, 0, 0>>) = 3
        /\ \A i \in 1..3 : <<0, 0, 0>>[i] = 0
    OBVIOUS
  <2>2. PICK t : t = <<0, 0, 0>>
    OBVIOUS
  <2>3. /\ long \in Seq(0..9) /\ Len(long) = Len(d) + Len(t)
        /\ \A i \in 1..(Len(d) + Len(t)) :
             long[i] = IF i <= Len(d) THEN d[i] ELSE t[i - Len(d)]
    BY <1>4, <2>1, <2>2, ConcatProperties DEF Reads
  <2>4. Len(t) = 3 /\ \A i \in 1..3 : t[i] = 0
    BY <2>1, <2>2
  <2>5. ASSUME NEW i \in 1..size PROVE long[i] = IF i <= len THEN d[i] ELSE 0
    <3>1. i \in 1..(Len(d) + Len(t))
      BY <1>2, <1>5, <2>4
    <3>2. ~ (i <= len) => i - len \in 1..3
      BY <1>5
    <3> QED BY <1>2, <2>3, <2>4, <3>1, <3>2
  <2>6. Len(long) = size
    BY <1>2, <1>5, <2>3, <2>4
  <2> QED BY <2>3, <2>5, <2>6, ElementOfSeq
<1>7. PICK c : Carries(c, long, b) /\ Number!TimesPlus(d, b) = Product(c, long)
  <2>1. d \in Seq(0..9)
    BY DEF Reads
  <2> QED BY <1>4, <2>1, TimesPlusIs
<1>8. /\ c \in [0..size -> 0..255] /\ c[0] = b
      /\ \A i \in 1..size : c[i] = (256 * long[i] + c[i - 1]) \div 10
  BY <1>6, <1>7 DEF Carries
<1>9. PICK e : e = [i \in 1..size |-> (256 * long[i] + c[i - 1]) % 10]
  OBVIOUS
<1>10. ASSUME NEW i \in 1..size
       PROVE  /\ e[i] \in 0..9
              /\ 256 * long[i] + c[i - 1] = 10 * c[i] + e[i]
  <2>1. PICK g \in 0..9 : g = long[i]
    BY <1>6
  <2>2. i - 1 \in 0..size
    OBVIOUS
  <2>3. PICK v \in 0..255 : v = c[i - 1]
    BY <1>8, <2>2
  <2>4. c[i] = (256 * g + v) \div 10 /\ e[i] = (256 * g + v) % 10
    BY <1>8, <1>9, <2>1, <2>3
  <2>5. PICK t \in Nat : t = 256 * g + v
    OBVIOUS
  <2>6. t = 10 * (t \div 10) + (t % 10) /\ t % 10 \in 0..9
    OBVIOUS
  <2> QED BY <2>1, <2>3, <2>4, <2>5, <2>6
<1>11. e \in Seq(0..9) /\ Len(e) = size
  <2>1. e \in [1..size -> 0..9]
    BY <1>9, <1>10
  <2> QED BY <2>1
\* The last carry is 0, for three more digits use it up.
<1>12. c[size] = 0
  <2>1. PICK i \in 1..size : i = len + 1 /\ i - 1 = len
    BY <1>5
  <2>2. PICK j \in 1..size : j = len + 2 /\ j - 1 = i
    BY <1>5, <2>1
  <2>3. size \in 1..size /\ size - 1 = j
    BY <1>5, <2>2
  <2>4. long[i] = 0 /\ long[j] = 0 /\ long[size] = 0
    BY <1>5, <1>6, <2>1, <2>2, <2>3
  <2>5. PICK v \in 0..255 : v = c[len]
    <3>1. len \in 0..size
      BY <1>5
    <3>2. c[len] \in 0..255
      BY <1>8, <3>1
    <3> QED BY <3>2
  <2>6. c[i] = v \div 10
    BY <1>8, <2>1, <2>4, <2>5
  <2>7. PICK w \in 0..25 : w = c[i]
    BY <2>6
  <2>8. c[j] = w \div 10
    BY <1>8, <2>2, <2>4, <2>7
  <2>9. PICK z \in 0..2 : z = c[j]
    BY <2>8
  <2>10. c[size] = z \div 10
    BY <1>8, <2>3, <2>4, <2>9
  <2> QED BY <2>10
\* The value of the digits of the product.
<1>13. PICK all \in Nat : all = size + 1
  OBVIOUS
<1>14. PICK X : X = [i \in 1..all |-> IF i <= len THEN x[i] ELSE 0]
  OBVIOUS
<1>15. /\ X \in [1..all -> Nat] /\ X[all] = 0 /\ X[1] = n
       /\ \A i \in 1..size : X[i] = long[i] + 10 * X[i + 1]
  <2>1. X \in [1..all -> Nat] /\ \A i \in 1..all : X[i] = IF i <= len THEN x[i] ELSE 0
    BY <1>3, <1>14
  <2>2. X[all] = 0 /\ X[1] = n
    <3>1. all \in 1..all /\ 1 \in 1..all /\ ~ (all <= len)
      BY <1>5, <1>13
    <3>2. ~ (1 <= len) => len + 1 = 1
      OBVIOUS
    <3> QED BY <1>1, <1>3, <2>1, <3>1, <3>2
  <2>3. ASSUME NEW i \in 1..size PROVE X[i] = long[i] + 10 * X[i + 1]
    <3>1. PICK j \in 1..all : j = i + 1
      BY <1>13
    <3>2. X[i] = (IF i <= len THEN x[i] ELSE 0) /\ X[j] = IF j <= len THEN x[j] ELSE 0
      BY <1>13, <2>1
    <3>3. CASE i < len
      <4>1. i \in 1..len /\ j <= len
        BY <3>1, <3>3
      <4>2. x[i] = d[i] + 10 * x[j]
        BY <1>3, <3>1, <4>1
      <4>3. X[i] = x[i] /\ X[j] = x[j]
        BY <3>2, <4>1
      <4>4. long[i] = d[i]
        BY <1>6, <4>1
      <4> QED BY <3>1, <4>2, <4>3, <4>4
    <3>4. CASE i = len
      <4>1. i \in 1..len /\ ~ (j <= len) /\ x[j] = 0
        BY <1>3, <3>1, <3>4
      <4>2. x[i] = d[i] + 10 * x[j]
        BY <1>3, <3>1, <4>1
      <4>3. X[i] = x[i] /\ X[j] = 0 /\ long[i] = d[i] /\ long[i] \in 0..9
        BY <1>6, <3>2, <3>4, <4>1
      <4> QED BY <3>1, <4>1, <4>2, <4>3
    <3>5. CASE i > len
      <4>1. ~ (i <= len) /\ ~ (j <= len)
        BY <3>1, <3>5
      <4>2. X[i] = 0 /\ X[j] = 0
        BY <3>2, <4>1
      <4>3. long[i] = 0
        BY <1>6, <4>1
      <4>4. i + 1 = j
        BY <3>1
      <4> QED BY <4>2, <4>3, <4>4
    <3> QED BY <3>3, <3>4, <3>5
  <2> QED BY <2>1, <2>2, <2>3
<1>16. PICK y : y = [i \in 1..all |-> 256 * X[i] + c[i - 1]]
  OBVIOUS
<1>17. y \in [1..all -> Nat] /\ \A i \in 1..all : y[i] = 256 * X[i] + c[i - 1]
  <2>1. ASSUME NEW i \in 1..all PROVE 256 * X[i] + c[i - 1] \in Nat
    <3>1. i - 1 \in 0..size
      BY <1>13
    <3>2. c[i - 1] \in 0..255 /\ X[i] \in Nat
      BY <1>8, <1>15, <3>1
    <3> QED BY <3>2
  <2> QED BY <1>16, <2>1
<1>18. y[all] = 0 /\ y[1] = 256 * n + b
  <2>1. all \in 1..all /\ all - 1 = size /\ 1 \in 1..all
    BY <1>13
  <2>2. y[all] = 256 * X[all] + c[size]
    BY <1>17, <2>1
  <2>3. y[1] = 256 * X[1] + c[0]
    BY <1>17, <2>1
  <2> QED BY <1>8, <1>12, <1>15, <2>2, <2>3
<1>19. ASSUME NEW i \in 1..size PROVE y[i] = e[i] + 10 * y[i + 1]
  <2>1. PICK j \in 1..all : j = i + 1 /\ j - 1 = i
    BY <1>13
  <2>2. i \in 1..all /\ i - 1 \in 0..size /\ i \in 0..size
    BY <1>13
  <2>3. PICK v \in 0..255 : v = c[i - 1]
    BY <1>8, <2>2
  <2>4. PICK w \in 0..255 : w = c[i]
    BY <1>8, <2>2
  <2>5. PICK g \in 0..9 : g = long[i]
    BY <1>6
  <2>6. PICK h \in Nat : h = X[j]
    BY <1>15
  <2>7. PICK z \in 0..9 : z = e[i] /\ 256 * g + v = 10 * w + z
    BY <1>10, <2>3, <2>4, <2>5
  <2>8. X[i] = g + 10 * h
    BY <1>15, <2>1, <2>5, <2>6
  <2>9. y[i] = 256 * (g + 10 * h) + v
    <3>1. y[i] = 256 * X[i] + c[i - 1]
      BY <1>17, <2>2
    <3> QED BY ONLY <2>3, <2>8, <3>1
  <2>10. y[j] = 256 * h + w
    <3>1. y[j] = 256 * X[j] + c[j - 1]
      BY <1>17
    <3>2. c[j - 1] = w
      BY ONLY <2>1, <2>4
    <3> QED BY ONLY <2>6, <3>1, <3>2
  <2>11. 256 * (g + 10 * h) + v = z + 10 * (256 * h + w)
    BY ONLY g \in 0..9, h \in Nat, v \in 0..255, w \in 0..255, z \in 0..9, <2>7
  <2>12. y[i] = z + 10 * y[j]
    BY ONLY <2>9, <2>10, <2>11
  <2> QED BY ONLY <2>1, <2>7, <2>12
<1>20. Backward(y, e)
  BY <1>11, <1>13, <1>17, <1>18, <1>19 DEF Backward
<1>21. Reads(e, 256 * n + b)
  BY <1>11, <1>18, <1>20 DEF Reads
<1> QED BY <1>6, <1>7, <1>9, <1>21 DEF Product

\* Where the digits end that are not zeros behind.
Ending(d, k, zero) ==
  /\ k > 0 => d[k] # zero
  /\ \A j \in (k + 1)..Len(d) : d[j] = zero

\* Digits have such an end.
LEMMA EndingExists ==
  ASSUME NEW C, NEW zero, NEW d \in Seq(C)
  PROVE  \E k \in 0..Len(d) : Ending(d, k, zero)
<1>1. PICK len \in Nat : len = Len(d)
  BY LenProperties
<1> DEFINE T == {k \in 0..len : \A j \in (k + 1)..len : d[j] = zero}
<1>2. len \in T /\ T \subseteq Nat
  BY <1>1
<1>3. \A k : k \in T <=> k \in 0..len /\ \A j \in (k + 1)..len : d[j] = zero
  OBVIOUS
<1> HIDE DEF T
<1>4. PICK m \in T : \A k \in T : m <= k
  <2>1. T # {}
    BY <1>2
  <2> QED BY <1>2, <2>1, LeastNatural
<1>5. ASSUME m > 0 PROVE d[m] # zero
  <2>1. SUFFICES ASSUME d[m] = zero PROVE FALSE
    OBVIOUS
  <2>2. m \in 1..len
    BY <1>3, <1>5
  <2>3. PICK k \in 0..len : k = m - 1
    BY <2>2
  <2>4. ASSUME NEW j \in (k + 1)..len PROVE d[j] = zero
    <3>1. j = m \/ j \in (m + 1)..len
      BY <2>2, <2>3
    <3> QED BY <1>3, <2>1, <3>1
  <2>5. k \in T
    BY <1>3, <2>4
  <2> QED BY <1>4, <2>2, <2>3, <2>5
<1> QED BY <1>1, <1>3, <1>5 DEF Ending

\* The digits up to there, backwards.
Turned(d, k) == [i \in 1..k |-> d[k + 1 - i]]

\* They spell the number that the digits read.
LEMMA TurnedSpells ==
  ASSUME NEW d, NEW n, Reads(d, n), NEW k \in 0..Len(d), Ending(d, k, 0)
  PROVE  Spells(Turned(d, k), n) /\ Len(Turned(d, k)) = k
<1>1. PICK x : Backward(x, d) /\ x[1] = n
  BY DEF Reads
<1>2. PICK len \in Nat : len = Len(d)
  BY LenProperties DEF Reads
<1>3. /\ x \in [1..(len + 1) -> Nat] /\ x[len + 1] = 0
      /\ \A i \in 1..len : x[i] = d[i] + 10 * x[i + 1]
      /\ \A i \in 1..len : d[i] \in 0..9
  BY <1>1, <1>2, ElementOfSeq DEF Backward, Reads
<1>4. /\ k \in Nat /\ k <= len
      /\ k > 0 => d[k] # 0
      /\ \A j \in (k + 1)..len : d[j] = 0
  BY <1>2 DEF Ending
<1>5. x[k + 1] = 0
  <2> DEFINE T == {m \in Nat : m <= len - k => x[len + 1 - m] = 0}
  <2>1. 0 \in T
    BY <1>3
  <2>2. ASSUME NEW m \in Nat, m \in T PROVE m + 1 \in T
    <3>1. SUFFICES ASSUME m + 1 <= len - k PROVE x[len + 1 - (m + 1)] = 0
      OBVIOUS
    <3>2. PICK j \in 1..len : j = len - m /\ j \in (k + 1)..len
      BY <1>4, <3>1
    <3>3. j + 1 = len + 1 - m /\ j = len + 1 - (m + 1) /\ m <= len - k
      BY <1>4, <3>1, <3>2
    <3>4. x[j + 1] = 0
      BY <2>2, <3>3
    <3>5. d[j] = 0
      BY <1>4, <3>2
    <3>6. x[j] = d[j] + 10 * x[j + 1]
      BY <1>3
    <3>7. x[j] = 0
      BY <3>4, <3>5, <3>6
    <3> QED BY <3>3, <3>7
  <2> HIDE DEF T
  <2>3. PICK m \in Nat : m = len - k /\ len + 1 - m = k + 1
    BY <1>4
  <2>4. m \in T
    BY <2>1, <2>2, SetInduction
  <2>5. x[len + 1 - m] = 0
    BY <1>4, <2>3, <2>4 DEF T
  <2> QED BY <2>3, <2>5
<1>6. PICK e : e = Turned(d, k)
  OBVIOUS
<1>7. e = [i \in 1..k |-> d[k + 1 - i]]
  BY <1>6 DEF Turned
<1>8. e \in Seq(0..9) /\ Len(e) = k /\ \A i \in 1..k : e[i] = d[k + 1 - i]
  <2>1. ASSUME NEW i \in 1..k PROVE d[k + 1 - i] \in 0..9
    <3>1. k + 1 - i \in 1..len
      BY <1>4
    <3> QED BY <1>3, <3>1
  <2>2. e \in [1..k -> 0..9]
    BY <1>7, <2>1
  <2> QED BY <1>4, <1>7, <2>2
<1>9. PICK u : u = [i \in 0..k |-> x[k + 1 - i]]
  OBVIOUS
<1>10. u \in [0..k -> Nat] /\ \A i \in 0..k : u[i] = x[k + 1 - i]
  <2>1. ASSUME NEW i \in 0..k PROVE x[k + 1 - i] \in Nat
    <3>1. k + 1 - i \in 1..(len + 1)
      BY <1>4
    <3> QED BY <1>3, <3>1
  <2> QED BY <1>9, <2>1
<1>11. u[0] = 0 /\ u[k] = n
  <2>1. 0 \in 0..k /\ k \in 0..k /\ k + 1 - 0 = k + 1 /\ k + 1 - k = 1
    BY <1>4
  <2>2. u[0] = x[k + 1 - 0] /\ u[k] = x[k + 1 - k]
    BY <1>10, <2>1
  <2> QED BY <1>1, <1>5, <2>1, <2>2
<1>12. ASSUME NEW i \in 1..k PROVE u[i] = 10 * u[i - 1] + e[i]
  <2>1. PICK j \in 1..len : j = k + 1 - i
    BY <1>4
  <2>2. i \in 0..k /\ i - 1 \in 0..k /\ k + 1 - (i - 1) = j + 1
    BY <1>4, <2>1
  <2>3. u[i] = x[j] /\ e[i] = d[j]
    BY <1>8, <1>10, <2>1, <2>2
  <2>4. u[i - 1] = x[j + 1]
    BY <1>10, <2>2
  <2>5. x[j] = d[j] + 10 * x[j + 1]
    BY <1>3
  <2>6. d[j] \in 0..9
    BY <1>3
  <2>7. PICK h \in Nat : h = x[j + 1]
    <3>1. j + 1 \in 1..(len + 1)
      OBVIOUS
    <3> QED BY <1>3, <3>1
  <2> QED BY <2>3, <2>4, <2>5, <2>6, <2>7
<1>13. Horner(u, e)
  BY <1>8, <1>10, <1>11, <1>12 DEF Horner
<1>14. ASSUME e # <<>> PROVE e[1] # 0
  <2>1. k # 0
    BY <1>8, <1>14, EmptySeq
  <2>2. 1 \in 1..k /\ k + 1 - 1 = k /\ k > 0
    BY <1>4, <2>1
  <2>3. e[1] = d[k]
    BY <1>8, <2>2
  <2> QED BY <1>4, <2>2, <2>3
<1>15. Spells(e, n)
  BY <1>8, <1>11, <1>13, <1>14 DEF Spells
<1> QED BY <1>6, <1>8, <1>15

-----------------------------------------------------------------------------
(* The value of bytes *)

\* Bytes are worth nothing if each of them is zero, and only then.
LEMMA ZeroIsWorthNothing ==
  ASSUME NEW b \in Seq(0..255), NEW v, Horner256(v, b)
  PROVE  Number!IsZero(b) <=> v[Len(b)] = 0
<1>1. PICK n \in Nat : n = Len(b)
  BY LenProperties
<1>2. /\ v \in [0..n -> Nat] /\ v[0] = 0
      /\ \A i \in 1..n : v[i] = 256 * v[i - 1] + b[i]
      /\ \A i \in 1..n : b[i] \in 0..255
  BY <1>1, ElementOfSeq DEF Horner256
<1>3. ASSUME Number!IsZero(b) PROVE v[n] = 0
  <2>1. \A i \in 1..n : b[i] = 0
    BY <1>1, <1>3 DEF Number!IsZero
  <2> DEFINE T == {m \in Nat : m <= n => v[m] = 0}
  <2>2. 0 \in T
    BY <1>2
  <2>3. ASSUME NEW m \in Nat, m \in T PROVE m + 1 \in T
    <3>1. ASSUME NEW j \in 1..n, j = m + 1 PROVE v[j] = 0
      <4>1. j - 1 = m /\ m <= n
        BY <3>1
      <4>2. v[j - 1] = 0
        BY <2>3, <4>1
      <4>3. v[j] = 256 * v[j - 1] + b[j] /\ b[j] = 0
        BY <1>2, <2>1
      <4> QED BY <4>2, <4>3
    <3>2. m + 1 <= n => m + 1 \in 1..n
      OBVIOUS
    <3> QED BY <3>1, <3>2
  <2> HIDE DEF T
  <2>4. n \in T
    BY <2>2, <2>3, SetInduction
  <2> QED BY <2>4 DEF T
<1>4. ASSUME v[n] = 0 PROVE Number!IsZero(b)
  <2> DEFINE T == {m \in Nat : m <= n => v[n - m] = 0}
  <2>1. 0 \in T
    BY <1>4
  <2>2. ASSUME NEW m \in Nat, m \in T PROVE m + 1 \in T
    <3>1. SUFFICES ASSUME m + 1 <= n PROVE v[n - (m + 1)] = 0
      OBVIOUS
    <3>2. PICK j \in 1..n : j = n - m /\ j - 1 = n - (m + 1) /\ m <= n
      BY <3>1
    <3>3. v[j] = 0
      BY <2>2, <3>2
    <3>4. PICK g \in 0..255 : g = b[j] /\ v[j] = 256 * v[j - 1] + g
      <4>1. b[j] \in 0..255 /\ v[j] = 256 * v[j - 1] + b[j]
        BY ONLY <1>2, j \in 1..n
      <4> QED BY ONLY <4>1
    <3>5. j - 1 \in 0..n
      OBVIOUS
    <3>6. PICK w \in Nat : w = v[j - 1]
      BY <1>2, <3>5
    <3>7. 0 = 256 * w + g
      BY <3>3, <3>4, <3>6
    <3>8. w = 0
      BY <3>7
    <3> QED BY <3>2, <3>6, <3>8
  <2>3. \A m \in T : m <= n => v[n - m] = 0
    OBVIOUS
  <2> HIDE DEF T
  <2>4. ASSUME NEW i, i \in 0..n PROVE v[i] = 0
    <3>1. PICK m \in Nat : m = n - i /\ n - m = i /\ m <= n
      BY <2>4
    <3>2. m \in T
      BY <2>1, <2>2, SetInduction
    <3>3. v[n - m] = 0
      BY <2>3, <3>1, <3>2
    <3> QED BY <3>1, <3>3
  <2>5. ASSUME NEW i \in 1..n PROVE b[i] = 0
    <3>0. i \in 0..n /\ i - 1 \in 0..n
      OBVIOUS
    <3>1. v[i] = 0 /\ v[i - 1] = 0
      BY <2>4, <3>0
    <3>2. PICK g \in 0..255 : g = b[i] /\ v[i] = 256 * v[i - 1] + g
      <4>1. b[i] \in 0..255 /\ v[i] = 256 * v[i - 1] + b[i]
        BY ONLY <1>2, i \in 1..n
      <4> QED BY ONLY <4>1
    <3>3. 0 = 256 * 0 + g
      BY <3>1, <3>2
    <3> QED BY <3>2, <3>3
  <2> QED BY <1>1, <2>5 DEF Number!IsZero
<1> QED BY <1>1, <1>3, <1>4

-----------------------------------------------------------------------------
(* What Decimal writes *)

\* The digits of the numbers in front of a byte of b.
AreDigits(f, b) ==
  /\ DOMAIN f = 0..Len(b)
  /\ f[0] = <<>>
  /\ \A i \in 1..Len(b) : f[i] = Number!TimesPlus(f[i - 1], b[i])

\* They read their values.
LEMMA DigitsRead ==
  ASSUME NEW b \in Seq(0..255), NEW v, Horner256(v, b), NEW f, AreDigits(f, b)
  PROVE  Reads(f[Len(b)], v[Len(b)])
<1>1. PICK n \in Nat : n = Len(b)
  BY LenProperties
<1>2. /\ v \in [0..n -> Nat] /\ v[0] = 0
      /\ \A i \in 1..n : v[i] = 256 * v[i - 1] + b[i]
      /\ \A i \in 1..n : b[i] \in 0..255
  BY <1>1, ElementOfSeq DEF Horner256
<1>3. f[0] = <<>> /\ \A i \in 1..n : f[i] = Number!TimesPlus(f[i - 1], b[i])
  BY <1>1 DEF AreDigits
<1> DEFINE T == {m \in Nat : m <= n => Reads(f[m], v[m])}
<1>4. 0 \in T
  <2>1. <<>> \in Seq(0..9) /\ Len(<<>>) = 0
    BY EmptySeq
  <2>2. PICK x : x = [i \in 1..(0 + 1) |-> 0]
    OBVIOUS
  <2>3. Backward(x, <<>>) /\ x[1] = 0
    BY <2>1, <2>2 DEF Backward
  <2>4. Reads(<<>>, 0)
    BY <2>1, <2>3 DEF Reads
  <2> QED BY <1>2, <1>3, <2>4
<1>5. ASSUME NEW m \in Nat, m \in T PROVE m + 1 \in T
  <2>1. ASSUME NEW j \in 1..n, j = m + 1 PROVE Reads(f[j], v[j])
    <3>1. j - 1 = m /\ m <= n
      BY <2>1
    <3>2. Reads(f[m], v[m])
      BY <1>5, <3>1
    <3>3. b[j] \in 0..255
      BY <1>2
    <3>4. Reads(Number!TimesPlus(f[m], b[j]), 256 * v[m] + b[j])
      BY <3>2, <3>3, TimesPlusReads
    <3>5. f[j] = Number!TimesPlus(f[m], b[j]) /\ v[j] = 256 * v[m] + b[j]
      BY <1>2, <1>3, <3>1
    <3> QED BY <3>4, <3>5
  <2>2. m + 1 <= n => m + 1 \in 1..n
    OBVIOUS
  <2> QED BY <2>1, <2>2
<1> HIDE DEF T
<1>6. n \in T
  BY <1>4, <1>5, SetInduction
<1> QED BY <1>1, <1>6 DEF T

\* The digits of the reference, whatever their number.
Readable == {d \in Seq(0..9) : \E n \in Nat : Reads(d, n)}

\* One more byte keeps them digits.
LEMMA TimesPlusReadable ==
  ASSUME NEW d \in Readable, NEW b \in 0..255
  PROVE  Number!TimesPlus(d, b) \in Readable
<1>1. PICK n \in Nat : Reads(d, n)
  BY DEF Readable
<1>2. PICK m \in Nat : m = 256 * n + b
  OBVIOUS
<1>3. Reads(Number!TimesPlus(d, b), m)
  BY <1>1, <1>2, TimesPlusReads
<1>4. Number!TimesPlus(d, b) \in Seq(0..9)
  BY <1>3 DEF Reads
<1> QED BY <1>3, <1>4 DEF Readable

\* The recursive function of the reference has them.
LEMMA DigitsExist ==
  ASSUME NEW b \in Seq(0..255)
  PROVE  \E f : f = [i \in 0..Len(b) |-> IF i = 0 THEN <<>>
                                         ELSE Number!TimesPlus(f[i - 1], b[i])]
<1>1. PICK n \in Nat : n = Len(b)
  BY LenProperties
<1>2. \A i \in 1..n : b[i] \in 0..255
  BY <1>1, ElementOfSeq
<1>3. PICK F : F = [q \in (1..n) \X Readable |-> Number!TimesPlus(q[2], b[q[1]])]
  OBVIOUS
<1>4. \A i \in 1..n, d \in Readable : F[<<i, d>>] = Number!TimesPlus(d, b[i])
  BY <1>3
<1>5. F \in [(1..n) \X Readable -> Readable]
  <2>1. ASSUME NEW q \in (1..n) \X Readable PROVE F[q] \in Readable
    <3>1. PICK i \in 1..n, d \in Readable : q = <<i, d>>
      OBVIOUS
    <3>2. Number!TimesPlus(d, b[i]) \in Readable
      BY <1>2, TimesPlusReadable
    <3>3. F[<<i, d>>] = Number!TimesPlus(d, b[i])
      BY <1>4
    <3> QED BY <3>1, <3>2, <3>3
  <2>2. F = [q \in (1..n) \X Readable |-> F[q]]
    BY <1>3
  <2> QED BY <2>1, <2>2
<1>6. <<>> \in Readable
  <2>1. <<>> \in Seq(0..9) /\ Len(<<>>) = 0
    BY EmptySeq
  <2>2. PICK x : x = [i \in 1..(0 + 1) |-> 0]
    OBVIOUS
  <2>3. Backward(x, <<>>) /\ x[1] = 0
    BY <2>1, <2>2 DEF Backward
  <2>4. Reads(<<>>, 0)
    BY <2>1, <2>3 DEF Reads
  <2> QED BY <2>1, <2>4 DEF Readable
<1>7. PICK f : Iterates(f, Readable, <<>>, F, n)
  BY <1>5, <1>6, IterationExists
<1>8. /\ f \in [0..n -> Readable] /\ f[0] = <<>>
      /\ \A i \in 1..n : f[i] = F[<<i, f[i - 1]>>]
  BY <1>7 DEF Iterates
<1>9. ASSUME NEW i \in 0..n
      PROVE  f[i] = IF i = 0 THEN <<>> ELSE Number!TimesPlus(f[i - 1], b[i])
  <2>1. CASE i = 0
    BY <1>8, <2>1
  <2>2. CASE i # 0
    <3>1. i \in 1..n /\ i - 1 \in 0..n
      BY <2>2
    <3>2. f[i - 1] \in Readable
      BY <1>8, <3>1
    <3>3. f[i] = F[<<i, f[i - 1]>>]
      BY <1>8, <3>1
    <3>4. F[<<i, f[i - 1]>>] = Number!TimesPlus(f[i - 1], b[i])
      BY <1>4, <3>1, <3>2
    <3> QED BY <2>2, <3>3, <3>4
  <2> QED BY <2>1, <2>2
<1>10. f = [i \in 0..n |-> IF i = 0 THEN <<>> ELSE Number!TimesPlus(f[i - 1], b[i])]
  BY <1>8, <1>9
<1> QED BY <1>1, <1>10

\* The characters of digits.
Chars(e) == [i \in 1..Len(e) |-> Number!Digit(e[i])]

\* Decimal is the spelling of the value, in characters.
LEMMA DecimalSpells ==
  ASSUME NEW b \in Seq(0..255), NEW v, Horner256(v, b)
  PROVE  \E e : Spells(e, v[Len(b)]) /\ Number!Decimal(b) = Chars(e)
<1> DEFINE f == CHOOSE digits :
                  digits = [i \in 0..Len(b) |->
                              IF i = 0 THEN <<>>
                              ELSE Number!TimesPlus(digits[i - 1], b[i])]
           d == f[Len(b)]
           k == CHOOSE m \in 0..Len(d) : /\ m > 0 => d[m] # 0
                                         /\ \A j \in (m + 1)..Len(d) : d[j] = 0
<1>1. Number!Decimal(b) = [i \in 1..k |-> Number!Digit(d[k + 1 - i])]
  BY DEF Number!Decimal
<1>2. f = [i \in 0..Len(b) |-> IF i = 0 THEN <<>>
                               ELSE Number!TimesPlus(f[i - 1], b[i])]
  BY DigitsExist, Zenon
<1>3. k = CHOOSE m \in 0..Len(d) : Ending(d, m, 0)
  BY Zenon DEF Ending
<1> HIDE DEF f, k
<1>4. AreDigits(f, b)
  <2>1. Len(b) \in Nat
    BY LenProperties
  <2>2. \A i \in 0..Len(b) : f[i] = IF i = 0 THEN <<>>
                                    ELSE Number!TimesPlus(f[i - 1], b[i])
    BY <1>2
  <2>3. DOMAIN f = 0..Len(b)
    BY <1>2
  <2>4. 0 \in 0..Len(b) /\ \A i \in 1..Len(b) : i \in 0..Len(b) /\ i # 0
    BY <2>1
  <2> QED BY <2>2, <2>3, <2>4 DEF AreDigits
<1>5. Reads(d, v[Len(b)])
  BY <1>4, DigitsRead
<1> HIDE DEF d
<1>6. d \in Seq(0..9)
  BY <1>5 DEF Reads
<1>7. k \in 0..Len(d) /\ Ending(d, k, 0)
  <2>1. \E m \in 0..Len(d) : Ending(d, m, 0)
    BY <1>6, EndingExists
  <2> QED BY <1>3, <2>1
<1>8. PICK e : e = Turned(d, k) /\ Spells(e, v[Len(b)]) /\ Len(e) = k
  BY <1>5, <1>7, TurnedSpells
<1>9. ASSUME NEW i \in 1..k PROVE e[i] = d[k + 1 - i]
  BY <1>8 DEF Turned
<1>10. Number!Decimal(b) = Chars(e)
  BY <1>1, <1>8, <1>9 DEF Chars
<1> QED BY <1>8, <1>10

-----------------------------------------------------------------------------
(* A round of the division *)

\* The remainders of the inner loop are digits.
LEMMA RemaindersAre ==
  ASSUME NEW t \in Seq(0..255)
  PROVE  /\ Number!RemainderAt(t) \in [0..Len(t) -> 0..9]
         /\ Number!RemainderAt(t)[0] = 0
         /\ \A i \in 1..Len(t) :
              Number!RemainderAt(t)[i] = (256 * Number!RemainderAt(t)[i - 1] + t[i]) % 10
<1>1. PICK n \in Nat : n = Len(t)
  BY LenProperties
<1>2. \A i \in 1..n : t[i] \in 0..255
  BY <1>1, ElementOfSeq
<1>3. PICK F : F = [q \in (1..n) \X (0..9) |-> (256 * q[2] + t[q[1]]) % 10]
  OBVIOUS
<1>4. \A i \in 1..n, v \in 0..9 : F[<<i, v>>] = (256 * v + t[i]) % 10
  BY <1>3
<1>5. F \in [(1..n) \X (0..9) -> 0..9]
  <2>1. ASSUME NEW q \in (1..n) \X (0..9) PROVE F[q] \in 0..9
    <3>1. PICK i \in 1..n, v \in 0..9 : q = <<i, v>>
      OBVIOUS
    <3>2. PICK g \in 0..255 : g = t[i]
      BY <1>2
    <3>3. PICK w \in 0..9 : w = (256 * v + g) % 10
      OBVIOUS
    <3>4. F[<<i, v>>] = w
      BY <1>4, <3>2, <3>3
    <3> QED BY <3>1, <3>4
  <2>2. F = [q \in (1..n) \X (0..9) |-> F[q]]
    BY <1>3
  <2> QED BY <2>1, <2>2
<1>6. PICK f : Iterates(f, 0..9, 0, F, n)
  <2>1. 0 \in 0..9
    OBVIOUS
  <2> QED BY <1>5, <2>1, IterationExists
<1>7. f = [i \in 0..n |-> IF i = 0 THEN 0 ELSE (256 * f[i - 1] + t[i]) % 10]
  <2>1. /\ f \in [0..n -> 0..9] /\ f[0] = 0
        /\ \A i \in 1..n : f[i] = F[<<i, f[i - 1]>>]
    BY <1>6 DEF Iterates
  <2>2. ASSUME NEW i \in 0..n
        PROVE  f[i] = IF i = 0 THEN 0 ELSE (256 * f[i - 1] + t[i]) % 10
    <3>1. CASE i = 0
      BY <2>1, <3>1
    <3>2. CASE i # 0
      <4>1. i \in 1..n /\ i - 1 \in 0..n
        BY <3>2
      <4>2. f[i - 1] \in 0..9
        BY <2>1, <4>1
      <4>3. f[i] = F[<<i, f[i - 1]>>]
        BY <2>1, <4>1
      <4> QED BY <1>4, <3>2, <4>1, <4>2, <4>3
    <3> QED BY <3>1, <3>2
  <2> QED BY <2>1, <2>2
<1> DEFINE r == CHOOSE r : r = [i \in 0..Len(t) |->
                                  IF i = 0 THEN 0 ELSE (256 * r[i - 1] + t[i]) % 10]
<1>8. Number!RemainderAt(t) = r
  BY DEF Number!RemainderAt
<1>9. r = [i \in 0..Len(t) |-> IF i = 0 THEN 0 ELSE (256 * r[i - 1] + t[i]) % 10]
  <2>1. \E g : g = [i \in 0..Len(t) |->
                      IF i = 0 THEN 0 ELSE (256 * g[i - 1] + t[i]) % 10]
    BY <1>1, <1>7
  <2> QED BY <2>1, Zenon
<1> HIDE DEF r
<1>10. \A i \in 0..n : r[i] = IF i = 0 THEN 0 ELSE (256 * r[i - 1] + t[i]) % 10
  BY <1>1, <1>9
<1>11. Iterates(r, 0..9, 0, F, n)
  <2>1. r = [i \in 0..n |-> r[i]]
    BY <1>1, <1>9
  <2>2. r[0] = 0
    BY <1>10
  <2>3. ASSUME NEW i \in 1..n, r[i - 1] \in 0..9 PROVE r[i] = F[<<i, r[i - 1]>>]
    <3>1. i \in 0..n /\ i # 0
      OBVIOUS
    <3>2. r[i] = (256 * r[i - 1] + t[i]) % 10
      BY <1>10, <3>1
    <3> QED BY <1>4, <2>3, <3>2
  <2>4. 0 \in 0..9
    OBVIOUS
  <2> QED BY <1>5, <2>1, <2>2, <2>3, <2>4, IterationStays
<1>12. r \in [0..n -> 0..9] /\ r[0] = 0
  BY <1>11 DEF Iterates
<1>13. ASSUME NEW i \in 1..n PROVE r[i] = (256 * r[i - 1] + t[i]) % 10
  <2>1. i \in 0..n /\ i # 0
    OBVIOUS
  <2> QED BY <1>10, <2>1
<1> QED BY <1>1, <1>8, <1>12, <1>13

\* Each byte of the quotient fits a byte, and quotient and remainder make up
\* what was divided.
LEMMA QuotientIs ==
  ASSUME NEW t \in Seq(0..255), NEW q, q = Number!Quotient(t),
         NEW r, r = Number!RemainderAt(t)
  PROVE  /\ q \in Seq(0..255) /\ Len(q) = Len(t)
         /\ \A i \in 1..Len(t) : 256 * r[i - 1] + t[i] = 10 * q[i] + r[i]
<1>1. PICK n \in Nat : n = Len(t)
  BY LenProperties
<1>2. \A i \in 1..n : t[i] \in 0..255
  BY <1>1, ElementOfSeq
<1>3. /\ r \in [0..n -> 0..9]
      /\ \A i \in 1..n : r[i] = (256 * r[i - 1] + t[i]) % 10
  BY <1>1, RemaindersAre
<1>4. q = [i \in 1..n |-> ((256 * r[i - 1] + t[i]) \div 10) % 256]
  BY <1>1 DEF Number!Quotient
<1>5. ASSUME NEW i \in 1..n
      PROVE  /\ q[i] \in 0..255
             /\ 256 * r[i - 1] + t[i] = 10 * q[i] + r[i]
  <2>1. i - 1 \in 0..n
    OBVIOUS
  <2>2. PICK v \in 0..9 : v = r[i - 1]
    BY <1>3, <2>1
  <2>3. PICK g \in 0..255 : g = t[i]
    BY <1>2
  <2>4. PICK s \in 0..2559 : s = 256 * v + g
    OBVIOUS
  <2>5. PICK w \in 0..255 : w = s \div 10
    OBVIOUS
  <2>6. w % 256 = w
    OBVIOUS
  <2>7. q[i] = w /\ r[i] = s % 10
    <3>1. q[i] = ((256 * v + g) \div 10) % 256
      BY <1>4, <2>2, <2>3
    <3>2. q[i] = w % 256
      BY <2>4, <2>5, <3>1
    <3>3. r[i] = (256 * v + g) % 10
      BY <1>3, <2>2, <2>3
    <3> QED BY <2>4, <2>6, <3>2, <3>3
  <2>8. s = 10 * w + (s % 10)
    BY <2>5
  <2>9. 256 * r[i - 1] + t[i] = s
    BY ONLY <2>2, <2>3, <2>4
  <2>10. s = 10 * q[i] + r[i]
    <3>1. PICK e \in Nat : e = s % 10
      OBVIOUS
    <3>2. s = 10 * w + e /\ q[i] = w /\ r[i] = e
      BY ONLY <2>7, <2>8, <3>1
    <3> QED BY ONLY <3>2
  <2>11. q[i] \in 0..255
    BY ONLY w \in 0..255, <2>7
  <2> QED BY ONLY <2>9, <2>10, <2>11
<1>6. q \in Seq(0..255) /\ Len(q) = n
  <2>1. q \in [1..n -> 0..255]
    BY <1>4, <1>5
  <2> QED BY <2>1
<1> QED BY <1>1, <1>5, <1>6

\* The round divides by ten.
LEMMA RoundDivides ==
  ASSUME NEW t \in Seq(0..255), NEW q, q = Number!Quotient(t),
         NEW r, r = Number!RemainderAt(t),
         NEW v, Horner256(v, t), NEW w, Horner256(w, q)
  PROVE  v[Len(t)] = 10 * w[Len(t)] + r[Len(t)]
<1>1. PICK n \in Nat : n = Len(t)
  BY LenProperties
<1>2. /\ q \in Seq(0..255) /\ Len(q) = n
      /\ \A i \in 1..n : 256 * r[i - 1] + t[i] = 10 * q[i] + r[i]
  BY <1>1, QuotientIs
<1>3. \A i \in 1..n : t[i] \in 0..255 /\ q[i] \in 0..255
  BY <1>1, <1>2, ElementOfSeq
<1>4. r \in [0..n -> 0..9] /\ r[0] = 0
  BY <1>1, RemaindersAre
<1>5. /\ v \in [0..n -> Nat] /\ v[0] = 0
      /\ \A i \in 1..n : v[i] = 256 * v[i - 1] + t[i]
  BY <1>1 DEF Horner256
<1>6. /\ w \in [0..n -> Nat] /\ w[0] = 0
      /\ \A i \in 1..n : w[i] = 256 * w[i - 1] + q[i]
  BY <1>2 DEF Horner256
<1> DEFINE T == {m \in Nat : m <= n => v[m] = 10 * w[m] + r[m]}
<1>7. 0 \in T
  BY <1>4, <1>5, <1>6
<1>8. ASSUME NEW m \in Nat, m \in T PROVE m + 1 \in T
  <2>1. ASSUME NEW j \in 1..n, j = m + 1 PROVE v[j] = 10 * w[j] + r[j]
    <3>1. j - 1 = m /\ m \in 0..n /\ j \in 0..n
      BY <2>1
    <3>2. PICK y \in Nat : y = w[m]
      BY <1>6, <3>1
    <3>3. PICK e \in 0..9 : e = r[m]
      BY <1>4, <3>1
    <3>4. v[m] = 10 * y + e
      BY <1>8, <3>1, <3>2, <3>3
    <3>5. PICK g \in 0..255 : g = t[j]
      BY <1>3
    <3>6. PICK h \in 0..255 : h = q[j]
      BY <1>3
    <3>7. PICK z \in 0..9 : z = r[j]
      BY <1>4, <3>1
    <3>8. 256 * e + g = 10 * h + z
      BY <1>2, <3>1, <3>3, <3>5, <3>6, <3>7
    <3>9. v[j] = 256 * (10 * y + e) + g
      BY <1>5, <3>1, <3>4, <3>5
    <3>10. w[j] = 256 * y + h
      BY <1>6, <3>1, <3>2, <3>6
    <3>11. 256 * (10 * y + e) + g = 10 * (256 * y + h) + z
      BY <3>8
    <3> QED BY <3>7, <3>9, <3>10, <3>11
  <2>2. m + 1 <= n => m + 1 \in 1..n
    OBVIOUS
  <2> QED BY <2>1, <2>2
<1> HIDE DEF T
<1>9. n \in T
  BY <1>7, <1>8, SetInduction
<1> QED BY <1>1, <1>9 DEF T

\* Digits are characters.
LEMMA CharsAre ==
  ASSUME NEW e \in Seq(0..9)
  PROVE  /\ Chars(e) \in Seq(Range(Number!Digits))
         /\ Len(Chars(e)) = Len(e)
         /\ \A i \in 1..Len(e) : Chars(e)[i] = Number!Digit(e[i])
<1>1. PICK n \in Nat : n = Len(e)
  BY LenProperties
<1>2. ASSUME NEW i \in 1..n PROVE Number!Digit(e[i]) \in Range(Number!Digits)
  <2>1. PICK g \in 0..9 : g = e[i]
    BY <1>1, ElementOfSeq
  <2>2. DOMAIN Number!Digits = 1..10
    BY DEF Number!Digits
  <2>3. g + 1 \in 1..10
    OBVIOUS
  <2>4. Number!Digits[g + 1] \in Range(Number!Digits)
    BY <2>2, <2>3 DEF Range
  <2> QED BY <2>1, <2>4 DEF Number!Digit
<1>3. Chars(e) = [i \in 1..n |-> Number!Digit(e[i])]
  BY <1>1 DEF Chars
<1>4. Chars(e) \in [1..n -> Range(Number!Digits)]
  BY <1>2, <1>3
<1>5. Chars(e) \in Seq(Range(Number!Digits)) /\ Len(Chars(e)) = n
  BY <1>3, <1>4
<1> QED BY <1>1, <1>3, <1>5

\* What is left over zero digits: nothing.  Otherwise the remainder is the
\* last digit and the quotient has the others.
LEMMA DivideRound ==
  ASSUME NEW t \in Seq(0..255), NEW q, q = Number!Quotient(t),
         NEW r, r = Number!RemainderAt(t)[Len(t)]
  PROVE  /\ q \in Seq(0..255) /\ Len(q) = Len(t)
         /\ r \in 0..9
         /\ Number!IsZero(t) => /\ Number!IsZero(q) /\ r = 0
                                /\ Number!Decimal(t) = <<>>
         /\ ~ Number!IsZero(t) => Number!Decimal(t)
                                    = Number!Decimal(q) \o <<Number!Digit(r)>>
         /\ Number!IsZero(q) => Number!Decimal(q) = <<>>
<1>1. PICK n \in Nat : n = Len(t)
  BY LenProperties
<1>2. q \in Seq(0..255) /\ Len(q) = n
  BY <1>1, QuotientIs
<1>3. r \in 0..9
  <2>1. Number!RemainderAt(t) \in [0..n -> 0..9] /\ n \in 0..n
    BY <1>1, RemaindersAre
  <2> QED BY <1>1, <2>1
<1>4. PICK v : Horner256(v, t)
  BY ValueExists
<1>5. PICK w : Horner256(w, q)
  BY <1>2, ValueExists
<1>6. v[n] = 10 * w[n] + r
  BY <1>1, <1>4, <1>5, RoundDivides
<1>7. v[n] \in Nat /\ w[n] \in Nat
  BY <1>1, <1>2, <1>4, <1>5 DEF Horner256
<1>8. (Number!IsZero(t) <=> v[n] = 0) /\ (Number!IsZero(q) <=> w[n] = 0)
  BY <1>1, <1>2, <1>4, <1>5, ZeroIsWorthNothing
<1>9. PICK e : Spells(e, v[n]) /\ Number!Decimal(t) = Chars(e)
  BY <1>1, <1>4, DecimalSpells
<1>10. PICK f : Spells(f, w[n]) /\ Number!Decimal(q) = Chars(f)
  BY <1>2, <1>5, DecimalSpells
<1>11. e \in Seq(0..9) /\ f \in Seq(0..9)
  BY <1>9, <1>10 DEF Spells
<1>12. Chars(<<>>) = <<>>
  BY DEF Chars
<1>13. ASSUME Number!IsZero(t)
       PROVE  Number!IsZero(q) /\ r = 0 /\ Number!Decimal(t) = <<>>
  <2>1. v[n] = 0 /\ w[n] = 0 /\ r = 0
    BY <1>3, <1>6, <1>7, <1>8, <1>13
  <2>2. e = <<>>
    BY <1>9, <2>1, SomethingSpellsMore
  <2> QED BY <1>8, <1>9, <1>12, <2>1, <2>2
<1>14. ASSUME Number!IsZero(q) PROVE Number!Decimal(q) = <<>>
  <2>1. f = <<>>
    BY <1>8, <1>10, <1>14, SomethingSpellsMore
  <2> QED BY <1>10, <1>12, <2>1
<1>15. ASSUME ~ Number!IsZero(t)
       PROVE  Number!Decimal(t) = Number!Decimal(q) \o <<Number!Digit(r)>>
  <2>1. f # <<>> \/ r # 0
    <3>1. SUFFICES ASSUME f = <<>>, r = 0 PROVE FALSE
      OBVIOUS
    <3>2. w[n] = 0
      BY <1>10, <3>1, SomethingSpellsMore
    <3> QED BY <1>6, <1>8, <1>15, <3>1, <3>2
  <2>2. Spells(Append(f, r), 10 * w[n] + r)
    BY <1>3, <1>10, <2>1, OneMoreDigit
  <2>3. e = Append(f, r)
    BY <1>6, <1>9, <2>2, SpellingIsUnique
  <2>4. PICK m \in Nat : m = Len(f)
    BY <1>11, LenProperties
  <2>5. /\ Len(e) = m + 1 /\ e[m + 1] = r
        /\ \A i \in 1..m : e[i] = f[i]
    BY <1>3, <1>11, <2>3, <2>4, AppendProperties
  <2>6. PICK x : x = Chars(f)
    OBVIOUS
  <2>7. PICK y : y = Number!Digit(r)
    OBVIOUS
  <2>8. /\ x \in Seq(Range(Number!Digits)) /\ Len(x) = m
        /\ \A i \in 1..m : x[i] = Number!Digit(f[i])
    BY <1>11, <2>4, <2>6, CharsAre
  <2>9. /\ Chars(e) \in Seq(Range(Number!Digits)) /\ Len(Chars(e)) = m + 1
        /\ \A i \in 1..(m + 1) : Chars(e)[i] = Number!Digit(e[i])
    BY <1>11, <2>5, CharsAre
  <2>10. y \in Range(Number!Digits)
    <3>1. m + 1 \in 1..(m + 1)
      OBVIOUS
    <3>2. Chars(e)[m + 1] = y
      BY <2>5, <2>7, <2>9, <3>1
    <3> QED BY <2>9, <3>1, <3>2, ElementOfSeq
  <2>11. PICK z : z = x \o <<y>>
    OBVIOUS
  <2>12. Append(x, y) = z
    BY <2>8, <2>10, <2>11, AppendIsConcat
  <2>13. /\ z \in Seq(Range(Number!Digits)) /\ Len(z) = m + 1
         /\ z[m + 1] = y /\ \A i \in 1..m : z[i] = x[i]
    BY <2>8, <2>10, <2>12, AppendProperties
  <2>14. ASSUME NEW i \in 1..(m + 1) PROVE Chars(e)[i] = z[i]
    <3>1. CASE i = m + 1
      BY <2>5, <2>7, <2>9, <2>13, <3>1
    <3>2. CASE i # m + 1
      <4>1. i \in 1..m
        BY <3>2
      <4>2. Chars(e)[i] = Number!Digit(e[i])
        BY <2>9
      <4> QED BY <2>5, <2>8, <2>13, <4>1, <4>2
    <3> QED BY <3>1, <3>2
  <2>15. Chars(e) = z
    BY <2>9, <2>13, <2>14, SeqEqual
  <2> QED BY <1>9, <1>10, <2>6, <2>7, <2>11, <2>15
<1> QED BY <1>1, <1>2, <1>3, <1>13, <1>14, <1>15

-----------------------------------------------------------------------------
(* What the digits of a number look like *)

\* Only the first digit is "0", and none is a point.
LEMMA DigitsAre ==
  /\ Number!Digit(0) = "0" /\ \A n \in 1..9 : Number!Digit(n) # "0"
  /\ "0" \in Range(Number!Digits) /\ "." \notin Range(Number!Digits)
<1>1. DOMAIN Number!Digits = 1..10 /\ Number!Digits[1] = "0"
  BY DEF Number!Digits
<1>2. \A k \in 2..10 : Number!Digits[k] # "0"
  BY DEF Number!Digits
<1>3. \A k \in 1..10 : Number!Digits[k] # "."
  BY DEF Number!Digits
<1>4. Number!Digit(0) = "0"
  BY <1>1 DEF Number!Digit
<1>5. ASSUME NEW n \in 1..9 PROVE Number!Digit(n) # "0"
  <2>1. n + 1 \in 2..10
    OBVIOUS
  <2> QED BY <1>2, <2>1 DEF Number!Digit
<1>6. "0" \in Range(Number!Digits)
  BY <1>1 DEF Range
<1>7. "." \notin Range(Number!Digits)
  BY <1>1, <1>3 DEF Range
<1> QED BY <1>4, <1>5, <1>6, <1>7

\* The digits of a number that is not zero start with another than "0".
LEMMA DecimalIs ==
  ASSUME NEW b \in Seq(0..255)
  PROVE  /\ Number!Decimal(b) \in Seq(Range(Number!Digits))
         /\ Number!IsZero(b) <=> Number!Decimal(b) = <<>>
         /\ Number!Decimal(b) # <<>> => Number!Decimal(b)[1] # "0"
<1>1. PICK n \in Nat : n = Len(b)
  BY LenProperties
<1>2. PICK v : Horner256(v, b)
  BY ValueExists
<1>3. v[n] \in Nat /\ (Number!IsZero(b) <=> v[n] = 0)
  BY <1>1, <1>2, ZeroIsWorthNothing DEF Horner256
<1>4. PICK e : Spells(e, v[n]) /\ Number!Decimal(b) = Chars(e)
  BY <1>1, <1>2, DecimalSpells
<1>5. e \in Seq(0..9) /\ (e # <<>> => e[1] # 0)
  BY <1>4 DEF Spells
<1>6. PICK D : D = Number!Decimal(b)
  OBVIOUS
<1>7. PICK len \in Nat : len = Len(e)
  BY <1>5, LenProperties
<1>8. /\ D \in Seq(Range(Number!Digits)) /\ Len(D) = len
      /\ \A i \in 1..len : D[i] = Number!Digit(e[i])
  BY <1>4, <1>5, <1>6, <1>7, CharsAre
<1>9. D = <<>> <=> e = <<>>
  <2>1. (e = <<>> <=> len = 0) /\ (D = <<>> <=> len = 0)
    BY <1>5, <1>7, <1>8, EmptySeq
  <2> QED BY <2>1
<1>10. e = <<>> <=> v[n] = 0
  BY <1>4, SomethingSpellsMore
<1>11. ASSUME D # <<>> PROVE D[1] # "0"
  <2>1. e # <<>> /\ e[1] # 0
    BY <1>5, <1>9, <1>11
  <2>2. 1 \in 1..len
    <3>1. len # 0
      BY <1>5, <1>7, <2>1, EmptySeq
    <3> QED BY <3>1
  <2>3. PICK g \in 1..9 : g = e[1]
    <3>1. e[1] \in 0..9
      BY <1>5, <1>7, <2>2, ElementOfSeq
    <3> QED BY <2>1, <3>1
  <2>4. D[1] = Number!Digit(g)
    BY <1>8, <2>2, <2>3
  <2> QED BY <2>4, DigitsAre
<1> QED BY <1>3, <1>6, <1>8, <1>9, <1>10, <1>11

-----------------------------------------------------------------------------
(* The line of an amount *)

\* The characters of a line.
Marks == Range(Number!Digits) \cup {".", " ", "Q", "R", "L"}

\* What fits is printed.
LEMMA PrintedFits ==
  ASSUME NEW S, NEW s \in Seq(S), NEW size \in Nat, Len(s) < size
  PROVE  Number!Printed(s, size) = s
BY SubSeqFull DEF Number!Printed

\* The first characters of two texts are those of the first, and then some of
\* the second.
LEMMA FirstOfTwo ==
  ASSUME NEW S, NEW x \in Seq(S), NEW y \in Seq(S), NEW j \in 0..Len(y),
         NEW l \in Nat, l = Len(x) + j
  PROVE  /\ SubSeq(x \o y, 1, l) = x \o SubSeq(y, 1, j)
         /\ SubSeq(y, 1, j) \in Seq(S) /\ Len(SubSeq(y, 1, j)) = j
<1>1. PICK m \in Nat : m = Len(x)
  BY LenProperties
<1>2. PICK n \in Nat : n = Len(y)
  BY LenProperties
<1>3. PICK z : z = x \o y
  OBVIOUS
<1>4. PICK all \in Nat : all = m + n
  OBVIOUS
<1>5. /\ z \in Seq(S) /\ Len(z) = all
      /\ \A i \in 1..all : z[i] = IF i <= m THEN x[i] ELSE y[i - m]
  BY <1>1, <1>2, <1>3, <1>4, ConcatProperties
<1>6. PICK t : t = SubSeq(y, 1, j)
  OBVIOUS
<1>7. t \in Seq(S) /\ Len(t) = j /\ \A i \in 1..j : t[i] = y[i]
  <2>1. j \in Nat /\ j <= n /\ \A i \in 1..j : y[i] \in S
    BY <1>2, ElementOfSeq
  <2>2. /\ t \in Seq(S) /\ Len(t) = IF 1 <= j THEN j - 1 + 1 ELSE 0
        /\ \A i \in 1..(j - 1 + 1) : t[i] = y[1 + i - 1]
    BY <1>6, <2>1, SubSeqProperties
  <2>3. (IF 1 <= j THEN j - 1 + 1 ELSE 0) = j /\ j - 1 + 1 = j
    BY <2>1
  <2> QED BY <2>2, <2>3
<1>8. PICK p : p = SubSeq(z, 1, l)
  OBVIOUS
<1>9. p \in Seq(S) /\ Len(p) = l /\ \A i \in 1..l : p[i] = z[i]
  <2>1. l <= all
    BY <1>1, <1>2, <1>4
  <2>2. \A i \in 1..l : z[i] \in S
    BY <1>5, <2>1, ElementOfSeq
  <2>3. /\ p \in Seq(S) /\ Len(p) = IF 1 <= l THEN l - 1 + 1 ELSE 0
        /\ \A i \in 1..(l - 1 + 1) : p[i] = z[1 + i - 1]
    BY <1>8, <2>2, SubSeqProperties
  <2>4. (IF 1 <= l THEN l - 1 + 1 ELSE 0) = l /\ l - 1 + 1 = l
    OBVIOUS
  <2> QED BY <2>3, <2>4
<1>10. PICK q : q = x \o t
  OBVIOUS
<1>11. /\ q \in Seq(S) /\ Len(q) = l
       /\ \A i \in 1..l : q[i] = IF i <= m THEN x[i] ELSE t[i - m]
  <2>1. /\ q \in Seq(S) /\ Len(q) = Len(x) + Len(t)
        /\ \A i \in 1..(Len(x) + Len(t)) :
             q[i] = IF i <= Len(x) THEN x[i] ELSE t[i - Len(x)]
    BY <1>7, <1>10, ConcatProperties
  <2>2. Len(x) + Len(t) = l
    BY <1>7
  <2> QED BY <1>1, <2>1, <2>2
<1>12. ASSUME NEW i \in 1..l PROVE p[i] = q[i]
  <2>1. i \in 1..all
    BY <1>1, <1>2, <1>4
  <2>2. z[i] = IF i <= m THEN x[i] ELSE y[i - m]
    BY <1>5, <2>1
  <2>3. ~ (i <= m) => i - m \in 1..j
    BY <1>1
  <2> QED BY <1>7, <1>9, <1>11, <2>2, <2>3
<1>13. p = q
  BY <1>9, <1>11, <1>12, SeqEqual
<1> QED BY <1>3, <1>6, <1>7, <1>8, <1>10, <1>13

\* Zeros are characters.
LEMMA ZerosAre ==
  ASSUME NEW n \in Nat
  PROVE  /\ Number!Zeros(n) \in Seq(Range(Number!Digits))
         /\ Len(Number!Zeros(n)) = n
         /\ \A i \in 1..n : Number!Zeros(n)[i] = "0"
<1>1. Number!Zeros(n) = [i \in 1..n |-> "0"]
  BY DEF Number!Zeros
<1>2. Number!Zeros(n) \in [1..n -> Range(Number!Digits)]
  BY <1>1, DigitsAre
<1> QED BY <1>1, <1>2

\* The whole coins and the fraction have the point between them, and the
\* buffer holds them.
LEMMA PointBetween ==
  ASSUME NEW D \in Seq(Range(Number!Digits)), Len(D) <= MAX_DECIMAL_DIGITS,
         NEW W, W = Number!Whole(D), NEW F, F = Number!Fraction(D)
  PROVE  /\ W \in Seq(Range(Number!Digits)) /\ F \in Seq(Range(Number!Digits))
         /\ Len(F) = DECIMALS
         /\ Len(W) \in Nat /\ Len(W) + 3 <= AMOUNT_LEN
         /\ Number!WithPoint(Number!Written(D)) = (W \o <<".">>) \o F
<1> DEFINE C == Range(Number!Digits)
<1>1. PICK L \in Nat : L = Len(D)
  BY LenProperties
<1>2. /\ DECIMALS \in Nat \ {0} /\ MAX_DECIMAL_DIGITS \in Nat \ {0}
      /\ L <= MAX_DECIMAL_DIGITS
      /\ MAX_DECIMAL_DIGITS + 1 < MAX_RESULT_LEN /\ MAX_RESULT_LEN \in Nat
      /\ DECIMALS + 2 < MAX_RESULT_LEN
      /\ MAX_DECIMAL_DIGITS + 3 <= DECIMALS + AMOUNT_LEN /\ AMOUNT_LEN \in Nat
      /\ 4 <= AMOUNT_LEN
  BY <1>1, NumberAssumption
<1>3. C \subseteq Marks /\ <<"0">> \in Seq(C) /\ Len(<<"0">>) = 1
      /\ <<".">> \in Seq(Marks) /\ Len(<<".">>) = 1
      /\ <<"0">> \in Seq(Marks) /\ <<"0">> # <<>>
  <2>1. "0" \in C /\ C \subseteq Marks
    BY DigitsAre DEF Marks
  <2>2. "." \in Marks
    BY DEF Marks
  <2> HIDE DEF C
  <2>3. <<"0">> \in Seq(C) /\ Len(<<"0">>) = 1 /\ <<"0">> # <<>>
    BY <2>1
  <2>4. <<".">> \in Seq(Marks) /\ Len(<<".">>) = 1
    BY <2>2
  <2>5. <<"0">> \in Seq(Marks)
    BY <2>1, <2>3, SeqMonotonic
  <2> QED BY <2>1, <2>3, <2>4, <2>5
<1> HIDE DEF C
<1>4. CASE L <= DECIMALS
  <2>1. PICK k \in Nat : k = DECIMALS - L
    BY <1>2, <1>4
  <2>2. PICK Z : Z = Number!Zeros(k)
    OBVIOUS
  <2>3. Z \in Seq(C) /\ Len(Z) = k /\ \A i \in 1..k : Z[i] = "0"
    BY <2>2, ZerosAre DEF C
  <2>4. F = Z \o D
    BY <1>1, <1>4, <2>1, <2>2 DEF Number!Fraction
  <2>5. F \in Seq(C) /\ Len(F) = DECIMALS
    <3>1. F \in Seq(C) /\ Len(F) = Len(Z) + Len(D)
      BY <2>3, <2>4, ConcatProperties DEF C
    <3> QED BY <1>1, <1>2, <2>1, <2>3, <3>1
  <2>6. W = <<"0">>
    <3>1. L - DECIMALS < 1 /\ L - DECIMALS \in Int
      BY <1>2, <1>4
    <3>2. SubSeq(D, 1, Len(D) - DECIMALS) = <<>>
      BY <1>1, <3>1, SubSeqEmpty
    <3> QED BY <3>2 DEF Number!Whole, Number!Written
  <2>7. PICK raw : raw = Number!Written(D)
    OBVIOUS
  <2>8. PICK j \in Nat : /\ raw \in Seq(C) /\ Len(raw) <= DECIMALS
                         /\ j = DECIMALS - Len(raw)
                         /\ Number!Zeros(j) \o raw = F
    <3>1. CASE D = <<>>
      <4>1. raw = <<"0">> /\ L = 0
        BY <1>1, <2>7, <3>1, EmptySeq DEF Number!Written
      <4>2. PICK j \in Nat : j = DECIMALS - 1
        BY <1>2
      <4>3. PICK Y : Y = Number!Zeros(j)
        OBVIOUS
      <4>4. Y \in Seq(C) /\ Len(Y) = j /\ \A i \in 1..j : Y[i] = "0"
        BY <4>3, ZerosAre DEF C
      <4>5. PICK y : y = <<"0">>
        OBVIOUS
      <4>6. y \in Seq(C) /\ Len(y) = 1 /\ y[1] = "0"
        BY <1>3, <4>5
      <4>7. PICK G : G = Y \o y
        OBVIOUS
      <4>8. G \in Seq(C) /\ Len(G) = DECIMALS
            /\ \A i \in 1..DECIMALS : G[i] = IF i <= j THEN Y[i] ELSE y[i - j]
        <5>1. /\ G \in Seq(C) /\ Len(G) = Len(Y) + Len(y)
              /\ \A i \in 1..(Len(Y) + Len(y)) :
                   G[i] = IF i <= Len(Y) THEN Y[i] ELSE y[i - Len(Y)]
          BY <4>4, <4>6, <4>7, ConcatProperties
        <5>2. Len(Y) + Len(y) = DECIMALS
          BY <1>2, <4>2, <4>4, <4>6
        <5> QED BY <4>4, <5>1, <5>2
      <4>9. ASSUME NEW i \in 1..DECIMALS PROVE G[i] = "0"
        <5>1. CASE i <= j
          <6>1. i \in 1..j
            BY <5>1
          <6> QED BY <4>4, <4>8, <5>1, <6>1
        <5>2. CASE ~ (i <= j)
          <6>1. i - j = 1
            BY <1>2, <4>2, <5>2
          <6> QED BY <4>6, <4>8, <5>2, <6>1
        <5> QED BY <5>1, <5>2
      <4>10. F = Z
        BY <2>3, <2>4, <3>1, ConcatEmptySeq
      <4>11. k = DECIMALS
        BY <1>2, <2>1, <4>1
      <4>12. G = Z
        BY <2>3, <4>8, <4>9, <4>11, SeqEqual
      <4> QED BY <1>2, <1>3, <4>1, <4>2, <4>3, <4>5, <4>7, <4>10, <4>12
    <3>2. CASE D # <<>>
      <4>1. raw = D
        BY <2>7, <3>2 DEF Number!Written
      <4> QED BY <1>1, <1>4, <2>1, <2>2, <2>4, <4>1 DEF C
    <3> QED BY <3>1, <3>2
  <2>9. PICK Y : Y = Number!Zeros(j)
    OBVIOUS
  <2>10. Y \in Seq(Marks) /\ raw \in Seq(Marks) /\ F \in Seq(Marks)
    <3>1. Y \in Seq(C)
      BY <2>9, ZerosAre DEF C
    <3> QED BY <1>3, <2>5, <2>8, <3>1, SeqMonotonic
  <2>11. PICK front : front = <<"0", ".">>
    OBVIOUS
  <2>12. front \in Seq(Marks) /\ Len(front) = 2 /\ front = <<"0">> \o <<".">>
    <3>1. PICK x : x = <<"0">> \o <<".">>
      OBVIOUS
    <3>2. PICK y : y = <<"0">>
      OBVIOUS
    <3>3. PICK z : z = <<".">>
      OBVIOUS
    <3>4. /\ y \in Seq(Marks) /\ Len(y) = 1 /\ y[1] = "0"
          /\ z \in Seq(Marks) /\ Len(z) = 1 /\ z[1] = "."
      BY <1>3, <3>2, <3>3
    <3>5. /\ x \in Seq(Marks) /\ Len(x) = 2
          /\ \A i \in 1..2 : x[i] = IF i <= 1 THEN y[i] ELSE z[i - 1]
      <4>1. /\ x \in Seq(Marks) /\ Len(x) = Len(y) + Len(z)
            /\ \A i \in 1..(Len(y) + Len(z)) :
                 x[i] = IF i <= Len(y) THEN y[i] ELSE z[i - Len(y)]
        BY <3>1, <3>2, <3>3, <3>4, ConcatProperties
      <4>2. Len(y) + Len(z) = 2
        BY <3>4
      <4> QED BY <3>4, <4>1, <4>2
    <3>6. x[1] = "0" /\ x[2] = "."
      BY <3>4, <3>5
    <3>7. front \in Seq(Marks) /\ Len(front) = 2 /\ front[1] = "0" /\ front[2] = "."
      <4>1. "0" \in Marks /\ "." \in Marks
        BY DigitsAre DEF Marks
      <4> QED BY <2>11, <4>1
    <3>8. front = x
      <4>1. \A i \in 1..2 : i = 1 \/ i = 2
        OBVIOUS
      <4>2. \A i \in 1..2 : front[i] = x[i]
        BY <3>6, <3>7, <4>1
      <4>3. front = [i \in 1..2 |-> front[i]] /\ x = [i \in 1..2 |-> x[i]]
        BY <3>5, <3>7, LenProperties
      <4> QED BY <4>2, <4>3
    <3> QED BY <3>1, <3>5, <3>8
  <2>13. (front \o Y) \o raw = front \o F
    <3>1. (front \o Y) \o raw = front \o (Y \o raw)
      BY <2>10, <2>12, ConcatAssociative
    <3>2. Y \o raw = F
      BY <2>8, <2>9
    <3> QED BY <3>1, <3>2
  <2>14. front \o F \in Seq(Marks) /\ Len(front \o F) < MAX_RESULT_LEN
    <3>1. front \o F \in Seq(Marks) /\ Len(front \o F) = Len(front) + Len(F)
      BY <2>10, <2>12, ConcatProperties
    <3> QED BY <1>2, <2>5, <2>12, <3>1
  <2>15. Number!WithPoint(raw) = Number!Printed((front \o Y) \o raw, MAX_RESULT_LEN)
    BY <2>8, <2>9, <2>11 DEF Number!WithPoint
  <2>16. Number!WithPoint(raw) = front \o F
    BY <1>2, <2>13, <2>14, <2>15, PrintedFits
  <2>17. (W \o <<".">>) \o F = front \o F
    BY <2>6, <2>12
  <2>18. W \in Seq(C) /\ Len(W) = 1 /\ Len(W) + 3 <= AMOUNT_LEN
    BY <1>2, <1>3, <2>6
  <2>19. Number!WithPoint(Number!Written(D)) = (W \o <<".">>) \o F
    BY <2>7, <2>16, <2>17
  <2>20. Len(W) \in Nat
    BY <2>18
  <2> QED BY <2>5, <2>18, <2>19, <2>20 DEF C
<1>5. CASE L > DECIMALS
  <2>1. PICK k \in Nat \ {0} : k = L - DECIMALS
    BY <1>2, <1>5
  <2>2. PICK V : V = SubSeq(D, 1, k)
    OBVIOUS
  <2>3. V \in Seq(C) /\ Len(V) = k
    <3>1. k <= L /\ \A i \in 1..k : i \in 1..L
      BY <1>2, <2>1
    <3>2. \A i \in 1..k : D[i] \in C
      BY <1>1, <3>1, ElementOfSeq DEF C
    <3>3. V \in Seq(C) /\ Len(V) = IF 1 <= k THEN k - 1 + 1 ELSE 0
      BY <2>2, <3>2, SubSeqProperties
    <3> QED BY <3>3
  <2>4. V # <<>>
    BY <2>3, EmptySeq
  <2>5. D # <<>> /\ Number!Written(D) = D
    <3>1. L # 0
      BY <1>2, <1>5
    <3>2. D # <<>>
      BY <1>1, <3>1
    <3> QED BY <3>2 DEF Number!Written
  <2>6. W = V
    BY <1>1, <2>1, <2>2, <2>4 DEF Number!Whole, Number!Written
  <2>7. F = SubSeq(D, k + 1, L)
    BY <1>1, <1>2, <1>5, <2>1 DEF Number!Fraction
  <2>8. F \in Seq(C) /\ Len(F) = DECIMALS
    <3>1. k + 1 \in Int /\ L \in Int /\ \A i \in (k + 1)..L : i \in 1..L
      OBVIOUS
    <3>2. \A i \in (k + 1)..L : D[i] \in C
      BY <1>1, <3>1, ElementOfSeq DEF C
    <3>3. F \in Seq(C) /\ Len(F) = IF k + 1 <= L THEN L - (k + 1) + 1 ELSE 0
      BY <2>7, <3>1, <3>2, SubSeqProperties
    <3>4. k + 1 <= L /\ L - (k + 1) + 1 = DECIMALS
      BY <1>2, <2>1
    <3> QED BY <3>3, <3>4
  <2>9. W \in Seq(Marks) /\ F \in Seq(Marks)
    BY <1>3, <2>3, <2>6, <2>8, SeqMonotonic
  <2>10. PICK P : P = (W \o <<".">>) \o F
    OBVIOUS
  <2>11. P \in Seq(Marks) /\ Len(P) < MAX_RESULT_LEN
    <3>1. W \o <<".">> \in Seq(Marks) /\ Len(W \o <<".">>) = Len(W) + Len(<<".">>)
      BY <1>3, <2>9, ConcatProperties
    <3>2. P \in Seq(Marks) /\ Len(P) = Len(W \o <<".">>) + Len(F)
      BY <2>9, <2>10, <3>1, ConcatProperties
    <3>3. Len(P) = k + 1 + DECIMALS
      BY <1>3, <2>3, <2>6, <2>8, <3>1, <3>2
    <3> QED BY <1>2, <2>1, <3>2, <3>3
  <2>12. Number!WithPoint(D) = Number!Printed(P, MAX_RESULT_LEN)
    BY <1>1, <1>2, <1>5, <2>1, <2>2, <2>6, <2>7, <2>10 DEF Number!WithPoint
  <2>13. Number!WithPoint(D) = P
    BY <1>2, <2>11, <2>12, PrintedFits
  <2>14. Len(W) + 3 <= AMOUNT_LEN
    BY <1>2, <2>1, <2>3, <2>6
  <2> QED BY <2>3, <2>5, <2>6, <2>8, <2>10, <2>13, <2>14 DEF C
<1> QED BY <1>2, <1>4, <1>5

\* The last digit of the fraction that is not zero.
LEMMA SignificantIs ==
  ASSUME NEW F \in Seq(Range(Number!Digits)), NEW k, k = Number!Significant(F)
  PROVE  k \in 0..Len(F) /\ Ending(F, k, "0")
<1>1. \E n \in 0..Len(F) : Ending(F, n, "0")
  BY EndingExists
<1>2. k = CHOOSE n \in 0..Len(F) : Ending(F, n, "0")
  BY Zenon DEF Number!Significant, Ending
<1> QED BY <1>1, <1>2

\* A text of whole coins and a fraction.
Pointed(s, W, F) == s = (W \o <<".">>) \o F

\* The characters that are not dropped behind k digits of the fraction.
Kept(W, k) == IF k = 0 THEN Len(W) ELSE Len(W) + 1 + k

\* Behind the point nothing is dropped but the zeros at the end, and the point
\* only with all of them.
LEMMA TrimIs ==
  ASSUME NEW W \in Seq(Range(Number!Digits)), NEW F \in Seq(Range(Number!Digits)),
         W # <<>>, NEW s, Pointed(s, W, F),
         NEW k, k = Number!Significant(F)
  PROVE  Number!Trim(s) = SubSeq(s, 1, Kept(W, k))
<1>1. PICK m \in Nat : m = Len(W)
  BY LenProperties
<1>2. PICK n \in Nat : n = Len(F)
  BY LenProperties
<1>3. /\ k \in 0..n /\ (k > 0 => F[k] # "0")
      /\ \A j \in (k + 1)..n : F[j] = "0"
  BY <1>2, SignificantIs DEF Ending
<1>4. /\ W \in Seq(Marks) /\ F \in Seq(Marks)
      /\ <<".">> \in Seq(Marks) /\ Len(<<".">>) = 1 /\ <<".">>[1] = "."
  <2>1. Range(Number!Digits) \subseteq Marks /\ "." \in Marks
    BY DEF Marks
  <2>2. W \in Seq(Marks) /\ F \in Seq(Marks)
    BY <2>1, SeqMonotonic
  <2> QED BY <2>1, <2>2
<1>5. PICK point : point = <<".">>
  OBVIOUS
<1>6. PICK x : x = W \o point
  OBVIOUS
<1>7. PICK p \in Nat : p = m + 1
  OBVIOUS
<1>8. /\ x \in Seq(Marks) /\ Len(x) = p /\ x[p] = "."
  <2>1. /\ x \in Seq(Marks) /\ Len(x) = Len(W) + Len(point)
        /\ \A i \in 1..(Len(W) + Len(point)) :
             x[i] = IF i <= Len(W) THEN W[i] ELSE point[i - Len(W)]
    BY <1>4, <1>5, <1>6, ConcatProperties
  <2>2. Len(W) + Len(point) = p /\ p \in 1..p /\ ~ (p <= Len(W)) /\ p - Len(W) = 1
    BY <1>1, <1>4, <1>5, <1>7
  <2>3. x[p] = point[1]
    BY <2>1, <2>2
  <2> QED BY <1>4, <1>5, <2>1, <2>2, <2>3
<1>9. PICK all \in Nat : all = p + n
  OBVIOUS
<1>10. /\ s \in Seq(Marks) /\ Len(s) = all
       /\ \A i \in 1..all : s[i] = IF i <= p THEN x[i] ELSE F[i - p]
  <2>1. /\ s \in Seq(Marks) /\ Len(s) = Len(x) + Len(F)
        /\ \A i \in 1..(Len(x) + Len(F)) :
             s[i] = IF i <= Len(x) THEN x[i] ELSE F[i - Len(x)]
    BY <1>4, <1>5, <1>6, <1>8, ConcatProperties DEF Pointed
  <2>2. Len(x) + Len(F) = all
    BY <1>2, <1>8, <1>9
  <2> QED BY <1>8, <2>1, <2>2
<1>11. PICK at \in 1..all : at = p + k
  BY <1>3, <1>7, <1>9
<1>12. s[at] # "0" /\ (s[at] = "." <=> k = 0)
  <2>1. CASE k = 0
    <3>1. at = p
      BY <1>11, <2>1
    <3>2. s[at] = "."
      BY <1>8, <1>10, <3>1
    <3> QED BY <2>1, <3>2
  <2>2. CASE k # 0
    <3>1. ~ (at <= p) /\ at - p = k /\ k > 0 /\ k \in 1..n
      BY <1>3, <1>11, <2>2
    <3>2. s[at] = F[k]
      BY <1>10, <3>1
    <3>3. F[k] \in Range(Number!Digits)
      BY <1>2, <3>1, ElementOfSeq
    <3> QED BY <1>3, <2>2, <3>1, <3>2, <3>3, DigitsAre
  <2> QED BY <2>1, <2>2
<1>13. ASSUME NEW j \in (at + 1)..all PROVE s[j] = "0"
  <2>1. j \in 1..all /\ ~ (j <= p) /\ j - p \in (k + 1)..n
    BY <1>3, <1>9, <1>11
  <2>2. s[j] = F[j - p]
    BY <1>10, <2>1
  <2> QED BY <1>3, <2>1, <2>2
<1> DEFINE IsLast(i) == /\ s[i] # "0" \/ i = 1
                      /\ \A j \in (i + 1)..Len(s) : s[j] = "0"
<1>14. IsLast(at)
  BY <1>10, <1>12, <1>13
<1>15. ASSUME NEW i \in 1..all, IsLast(i) PROVE i = at
  <2>1. CASE i < at
    <3>1. at \in (i + 1)..Len(s)
      BY <1>10, <2>1
    <3> QED BY <1>12, <1>15, <3>1
  <2>2. CASE i > at
    <3>1. i \in (at + 1)..all /\ i # 1
      BY <2>2
    <3> QED BY <1>13, <1>15, <3>1
  <2> QED BY <2>1, <2>2
<1> DEFINE last == CHOOSE i \in 1..Len(s) : IsLast(i)
<1>16. Number!Trim(s) = SubSeq(s, 1, IF s[last] = "." THEN last - 1 ELSE last)
  BY Zenon DEF Number!Trim
<1>17. last = at
  <2>1. 1..Len(s) = 1..all
    BY <1>10
  <2> HIDE DEF IsLast
  <2> QED BY <1>14, <1>15, <2>1
<1> HIDE DEF last
<1>18. (IF s[at] = "." THEN at - 1 ELSE at) = Kept(W, k)
  <2>1. CASE k = 0
    <3>1. at - 1 = m
      BY <1>7, <1>11, <2>1
    <3> QED BY <1>1, <1>12, <2>1, <3>1 DEF Kept
  <2>2. CASE k # 0
    <3>1. at = m + 1 + k
      BY <1>3, <1>7, <1>11
    <3> QED BY <1>1, <1>12, <2>2, <3>1 DEF Kept
  <2> QED BY <2>1, <2>2
<1> QED BY <1>16, <1>17, <1>18

\* The line of an amount or of the fees, from the digits of the number.
LEMMA LineIs ==
  ASSUME NEW D \in Seq(Range(Number!Digits)), Len(D) <= MAX_DECIMAL_DIGITS,
         NEW shorter,
         shorter = Number!Printed(Number!format_with_decimals(Number!Written(D)),
                                  AMOUNT_LEN)
  PROVE  /\ Len(shorter) \in Nat /\ Len(shorter) < AMOUNT_LEN
         /\ Number!Printed(shorter \o Number!Unit, G_AMOUNT_LEN)
              = Number!AmountText(D, AMOUNT_LEN - 1)
         /\ Number!Printed(shorter \o Number!Unit, G_AMOUNT_LEN) = shorter \o Number!Unit
         /\ Len(shorter \o Number!Unit) < G_AMOUNT_LEN
<1>1. PICK W : W = Number!Whole(D)
  OBVIOUS
<1>2. PICK F : F = Number!Fraction(D)
  OBVIOUS
<1>3. /\ W \in Seq(Range(Number!Digits)) /\ F \in Seq(Range(Number!Digits))
      /\ Len(W) \in Nat /\ Len(W) + 3 <= AMOUNT_LEN
      /\ Number!WithPoint(Number!Written(D)) = (W \o <<".">>) \o F
  BY <1>1, <1>2, PointBetween
<1>4. PICK k : k = Number!Significant(F)
  OBVIOUS
<1>5. PICK m \in Nat : m = Len(W)
  BY <1>3
<1>6. AMOUNT_LEN \in Nat /\ G_AMOUNT_LEN \in Nat /\ AMOUNT_LEN + 4 <= G_AMOUNT_LEN
  BY NumberAssumption
<1>7. PICK room \in Nat : room = AMOUNT_LEN - 1 /\ m + 2 <= room
  BY <1>3, <1>5, <1>6
<1>8. PICK n \in Nat : n = Len(F) /\ k \in 0..n
  BY <1>3, <1>4, LenProperties, SignificantIs
<1>9. PICK s : s = (W \o <<".">>) \o F
  OBVIOUS
<1>10. m > 0
  <2>1. W # <<>>
    BY <1>1 DEF Number!Whole, Number!Written
  <2> QED BY <1>3, <1>5, <2>1, EmptySeq
<1>11. PICK l \in Nat : l = IF k = 0 THEN m ELSE m + 1 + k
  BY <1>8
<1>12. Number!format_with_decimals(Number!Written(D)) = SubSeq(s, 1, l)
  <2>1. Number!format_with_decimals(Number!Written(D)) = Number!Trim(s)
    BY <1>3, <1>9 DEF Number!format_with_decimals
  <2>2. Number!Trim(s) = SubSeq(s, 1, l)
    <3>1. W # <<>> /\ l = Kept(W, k)
      BY <1>1, <1>5, <1>11 DEF Kept, Number!Whole, Number!Written
    <3>2. Pointed(s, W, F)
      BY <1>9 DEF Pointed
    <3>3. Number!Trim(s) = SubSeq(s, 1, Kept(W, k))
      BY <1>3, <1>4, <3>1, <3>2, TrimIs
    <3> QED BY <3>1, <3>3
  <2> QED BY <1>5, <1>11, <2>1, <2>2
\* What is cut is cut in the fraction.
<1>13. PICK z \in Nat : z = IF k < room - m - 1 THEN k ELSE room - m - 1
  BY <1>7, <1>8
<1>14. /\ z \in 0..n /\ (z = 0 <=> k = 0)
       /\ z = Number!Least(k, room - Len(W) - 1)
  BY <1>5, <1>7, <1>8, <1>13 DEF Number!Least
<1>15. PICK short \in Nat : short = IF k = 0 THEN m ELSE m + 1 + z
  OBVIOUS
<1>16. short <= room /\ short <= l /\ (l <= room => short = l) /\ (l > room => short = room)
  <2>1. k \in Nat
    BY <1>8
  <2>2. CASE k = 0
    BY <1>7, <1>11, <1>15, <2>2
  <2>3. CASE k # 0 /\ k < room - m - 1
    <3>1. l = m + 1 + k /\ short = m + 1 + k
      BY <1>11, <1>13, <1>15, <2>3
    <3> QED BY <1>7, <2>1, <2>3, <3>1
  <2>4. CASE k # 0 /\ ~ (k < room - m - 1)
    <3>1. l = m + 1 + k /\ short = room
      BY <1>7, <1>11, <1>13, <1>15, <2>4
    <3> QED BY <1>7, <2>1, <2>4, <3>1
  <2> QED BY <2>2, <2>3, <2>4
<1>17. /\ W \in Seq(Marks) /\ F \in Seq(Marks)
       /\ <<".">> \in Seq(Marks) /\ Len(<<".">>) = 1
       /\ Number!Unit \in Seq(Marks) /\ Len(Number!Unit) = 4
  <2>1. Range(Number!Digits) \subseteq Marks /\ "." \in Marks
    BY DEF Marks
  <2>2. W \in Seq(Marks) /\ F \in Seq(Marks)
    BY <1>3, <2>1, SeqMonotonic
  <2>3. <<".">> \in Seq(Marks) /\ Len(<<".">>) = 1
    BY <2>1
  <2>4. " " \in Marks /\ "Q" \in Marks /\ "R" \in Marks /\ "L" \in Marks
    BY DEF Marks
  <2>5. Number!Unit \in Seq(Marks) /\ Len(Number!Unit) = 4
    <3>1. \A S : \A a, b, c, d \in S : <<a, b, c, d>> \in Seq(S) /\ Len(<<a, b, c, d>>) = 4
      OBVIOUS
    <3>2. <<" ", "Q", "R", "L">> \in Seq(Marks) /\ Len(<<" ", "Q", "R", "L">>) = 4
      BY <2>4, <3>1
    <3> QED BY <3>2 DEF Number!Unit
  <2> QED BY <2>2, <2>3, <2>5
<1>18. PICK x : x = W \o <<".">> /\ x \in Seq(Marks) /\ Len(x) = m + 1
  <2>1. PICK y : y = <<".">> /\ y \in Seq(Marks) /\ Len(y) = 1
    BY <1>17
  <2>2. W \o y \in Seq(Marks) /\ Len(W \o y) = Len(W) + Len(y)
    BY <1>17, <2>1, ConcatProperties
  <2> QED BY <1>5, <2>1, <2>2
<1>19. s \in Seq(Marks) /\ Len(s) = m + 1 + n
  <2>1. s = x \o F
    BY <1>9, <1>18
  <2>2. x \o F \in Seq(Marks) /\ Len(x \o F) = Len(x) + Len(F)
    BY <1>17, <1>18, ConcatProperties
  <2> QED BY <1>8, <1>18, <2>1, <2>2
<1>20. l <= m + 1 + n
  BY <1>8, <1>11
<1>21. PICK q : q = SubSeq(s, 1, l)
  OBVIOUS
<1>22. q \in Seq(Marks) /\ Len(q) = l /\ \A i \in 1..l : q[i] = s[i]
  <2>1. \A i \in 1..l : i \in 1..(m + 1 + n)
    BY <1>20
  <2>2. \A i \in 1..l : s[i] \in Marks
    BY <1>19, <2>1, ElementOfSeq
  <2>3. /\ q \in Seq(Marks) /\ Len(q) = IF 1 <= l THEN l - 1 + 1 ELSE 0
        /\ \A i \in 1..(l - 1 + 1) : q[i] = s[1 + i - 1]
    BY <1>21, <2>2, SubSeqProperties
  <2>4. (IF 1 <= l THEN l - 1 + 1 ELSE 0) = l /\ l - 1 + 1 = l
    OBVIOUS
  <2> QED BY <2>3, <2>4
<1>23. shorter = SubSeq(s, 1, short)
  <2>1. shorter = SubSeq(q, 1, IF Len(q) < AMOUNT_LEN THEN Len(q) ELSE AMOUNT_LEN - 1)
    BY <1>12, <1>21 DEF Number!Printed
  <2>2. (IF Len(q) < AMOUNT_LEN THEN Len(q) ELSE AMOUNT_LEN - 1) = short
    BY <1>6, <1>7, <1>16, <1>22
  <2>3. shorter = SubSeq(q, 1, short)
    BY <2>1, <2>2
  <2>4. PICK p : p = SubSeq(s, 1, short)
    OBVIOUS
  <2>5. ASSUME NEW y \in Seq(Marks), short <= Len(y)
        PROVE  /\ SubSeq(y, 1, short) \in Seq(Marks)
               /\ Len(SubSeq(y, 1, short)) = short
               /\ \A i \in 1..short : SubSeq(y, 1, short)[i] = y[i]
    <3>1. Len(y) \in Nat
      BY LenProperties
    <3>2. \A i \in 1..short : i \in 1..Len(y)
      BY <2>5, <3>1
    <3>3. \A i \in 1..short : y[i] \in Marks
      BY <3>2, ElementOfSeq
    <3>4. /\ SubSeq(y, 1, short) \in Seq(Marks)
          /\ Len(SubSeq(y, 1, short)) = IF 1 <= short THEN short - 1 + 1 ELSE 0
          /\ \A i \in 1..(short - 1 + 1) : SubSeq(y, 1, short)[i] = y[1 + i - 1]
      BY <3>3, SubSeqProperties
    <3>5. (IF 1 <= short THEN short - 1 + 1 ELSE 0) = short /\ short - 1 + 1 = short
      OBVIOUS
    <3> QED BY <3>4, <3>5
  <2>6. short <= Len(q) /\ short <= Len(s)
    BY <1>16, <1>19, <1>20, <1>22
  <2>7. /\ shorter \in Seq(Marks) /\ Len(shorter) = short
        /\ \A i \in 1..short : shorter[i] = q[i]
    BY <1>22, <2>3, <2>5, <2>6
  <2>8. /\ p \in Seq(Marks) /\ Len(p) = short
        /\ \A i \in 1..short : p[i] = s[i]
    BY <1>19, <2>4, <2>5, <2>6
  <2>9. \A i \in 1..short : i \in 1..l
    BY <1>16
  <2>10. \A i \in 1..short : shorter[i] = p[i]
    BY <1>22, <2>7, <2>8, <2>9
  <2>11. shorter = p
    BY <2>7, <2>8, <2>10, SeqEqual
  <2> QED BY <2>4, <2>11
<1>24. PICK G : G = IF z = 0 THEN <<>> ELSE <<".">> \o SubSeq(F, 1, z)
  OBVIOUS
<1>25. shorter = W \o G /\ shorter \in Seq(Marks) /\ Len(shorter) = short
  <2>1. CASE k = 0
    <3>1. PICK y : y = <<".">> \o F
      OBVIOUS
    <3>2. y \in Seq(Marks) /\ Len(y) \in Nat
      BY <1>17, <3>1, ConcatProperties, LenProperties
    <3>3. s = W \o y
      BY <1>9, <1>17, <3>1, ConcatAssociative
    <3>4. 0 \in 0..Len(y) /\ short = Len(W) + 0
      BY <1>5, <1>15, <2>1, <3>2
    <3>5. SubSeq(W \o y, 1, short) = W \o SubSeq(y, 1, 0)
      BY <1>17, <3>2, <3>4, FirstOfTwo
    <3>6. SubSeq(y, 1, 0) = <<>>
      BY SubSeqEmpty
    <3>7. G = <<>>
      BY <1>14, <1>24, <2>1
    <3>8. W \o G = W
      BY <1>17, <3>7, ConcatEmptySeq
    <3> QED BY <1>5, <1>15, <1>17, <1>23, <2>1, <3>3, <3>5, <3>6, <3>7, <3>8
  <2>2. CASE k # 0
    <3>1. z \in 0..Len(F) /\ short = Len(x) + z
      BY <1>8, <1>14, <1>15, <1>18, <2>2
    <3>0. short \in Nat
      OBVIOUS
    <3>2. /\ SubSeq(x \o F, 1, short) = x \o SubSeq(F, 1, z)
          /\ SubSeq(F, 1, z) \in Seq(Marks) /\ Len(SubSeq(F, 1, z)) = z
      <4>1. x \in Seq(Marks) /\ F \in Seq(Marks)
        BY <1>17, <1>18
      <4>2. SubSeq(x \o F, 1, short) = x \o SubSeq(F, 1, z)
        BY <3>0, <3>1, <4>1, FirstOfTwo
      <4>3. SubSeq(F, 1, z) \in Seq(Marks) /\ Len(SubSeq(F, 1, z)) = z
        BY <3>0, <3>1, <4>1, FirstOfTwo
      <4> QED BY <4>2, <4>3
    <3>3. PICK y : y = SubSeq(F, 1, z)
      OBVIOUS
    <3>4. x \o y = W \o (<<".">> \o y)
      <4>1. PICK point : point = <<".">>
        OBVIOUS
      <4>2. W \in Seq(Marks) /\ point \in Seq(Marks) /\ y \in Seq(Marks)
        BY <1>17, <3>2, <3>3, <4>1
      <4>3. (W \o point) \o y = W \o (point \o y)
        BY <4>2, ConcatAssociative
      <4> QED BY <1>18, <4>1, <4>3
    <3>5. G = <<".">> \o y
      BY <1>14, <1>24, <2>2, <3>3
    <3>6. x \o y \in Seq(Marks) /\ Len(x \o y) = short
      BY <1>18, <3>1, <3>2, <3>3, ConcatProperties
    <3>7. s = x \o F
      BY <1>9, <1>18
    <3> QED BY <1>23, <3>2, <3>3, <3>4, <3>5, <3>6, <3>7
  <2> QED BY <2>1, <2>2
<1>26. PICK whole : whole = shorter \o Number!Unit
  OBVIOUS
<1>27. whole \in Seq(Marks) /\ Len(whole) = short + 4
  <2>1. PICK y : y = Number!Unit /\ y \in Seq(Marks) /\ Len(y) = 4
    BY <1>17
  <2>2. shorter \o y \in Seq(Marks) /\ Len(shorter \o y) = Len(shorter) + Len(y)
    BY <1>25, <2>1, ConcatProperties
  <2> QED BY <1>25, <1>26, <2>1, <2>2
<1>28. Len(whole) < G_AMOUNT_LEN
  BY <1>6, <1>7, <1>16, <1>27
<1>29. Number!Printed(whole, G_AMOUNT_LEN) = whole
  BY <1>6, <1>27, <1>28, PrintedFits
<1>30. Number!AmountText(D, AMOUNT_LEN - 1) = (W \o G) \o Number!Unit
  BY <1>1, <1>2, <1>4, <1>7, <1>14, <1>24 DEF Number!AmountText
<1>31. Len(shorter) < AMOUNT_LEN
  BY <1>6, <1>7, <1>16, <1>25
<1>32. whole = (W \o G) \o Number!Unit
  BY <1>25, <1>26
<1> QED BY <1>25, <1>26, <1>28, <1>29, <1>30, <1>31, <1>32

-----------------------------------------------------------------------------
(* The behaviour of a number *)

\* What is left to divide is still something, and with the digits behind it
\* the number.
Halfway ==
  /\ ~ Number!IsZero(temp)
  /\ Number!Decimal(temp) \o result = Number!Decimal(bytes)

NumberInv ==
  /\ line \in {"nonce", "amount"}
  /\ bytes \in Seq(0..255)
  /\ temp \in Seq(0..255) /\ Len(temp) = Len(bytes)
  /\ result \in Seq(Range(Number!Digits))
  /\ pc # "overrun" => Len(result) <= MAX_DECIMAL_DIGITS
  /\ pc \in {"divide", "format", "print", "done", "overrun"}
  /\ pc \in {"divide", "overrun", "format"} => text = <<>>
  /\ pc = "divide" => \/ result = <<>> /\ temp = bytes
                      \/ Halfway
  /\ pc = "overrun" => /\ Len(result) = MAX_DECIMAL_DIGITS + 1
                       /\ Number!Decimal(temp) \o result = Number!Decimal(bytes)
  /\ pc \in {"format", "print"} =>
       line = "amount" /\ Len(Number!Decimal(bytes)) <= MAX_DECIMAL_DIGITS
  /\ pc = "format" => result = Number!Written(Number!Decimal(bytes))
  /\ pc = "print" =>
       text = Number!Printed(Number!format_with_decimals(
                               Number!Written(Number!Decimal(bytes))), AMOUNT_LEN)
  /\ pc = "done" =>
       text = IF line = "nonce" THEN Number!Written(Number!Decimal(bytes))
              ELSE Number!AmountText(Number!Decimal(bytes), AMOUNT_LEN - 1)
  /\ line = "amount" => Len(text) < G_AMOUNT_LEN

\* Each starts with the whole number left to divide.
LEMMA NumberStarts == Number!Init => NumberInv
<1> SUFFICES ASSUME Number!Init PROVE NumberInv
  OBVIOUS
<1>1. line \in {"nonce", "amount"} /\ bytes \in Seq(0..255)
  BY NumberAssumption DEF Number!Init
<1>2. temp = bytes /\ result = <<>> /\ text = <<>> /\ pc = "divide"
  BY DEF Number!Init
<1>3. <<>> \in Seq(Range(Number!Digits)) /\ Len(<<>>) = 0
  BY EmptySeq
<1>4. 0 <= MAX_DECIMAL_DIGITS /\ 0 < G_AMOUNT_LEN
  BY NumberAssumption
<1> QED BY <1>1, <1>2, <1>3, <1>4 DEF NumberInv

\* A round keeps the number in what is left and what is written, the one that
\* writes in front of result too; the last one leaves all of its digits written.
LEMMA DivideStep == NumberInv /\ Number!Divide => NumberInv'
<1> SUFFICES ASSUME NumberInv, Number!Divide PROVE NumberInv'
  OBVIOUS
<1>1. /\ pc = "divide" /\ text = <<>> /\ Len(result) <= MAX_DECIMAL_DIGITS
      /\ temp' = Number!Quotient(temp)
      /\ result' = <<Number!Digit(Number!RemainderAt(temp)[Len(temp)])>> \o result
      /\ line' = line /\ bytes' = bytes
      /\ IF Len(result') > MAX_DECIMAL_DIGITS THEN pc' = "overrun" /\ text' = text
         ELSE IF ~ Number!LastRound(temp) THEN text' = text /\ pc' = pc
         ELSE /\ pc' = IF line = "nonce" THEN "done" ELSE "format"
              /\ text' = IF line = "nonce" THEN result' ELSE text
  BY DEF NumberInv, Number!Divide
<1>2. /\ line \in {"nonce", "amount"} /\ bytes \in Seq(0..255)
      /\ temp \in Seq(0..255) /\ Len(temp) = Len(bytes)
      /\ result \in Seq(Range(Number!Digits))
  BY DEF NumberInv
<1>3. PICK q : q = Number!Quotient(temp)
  OBVIOUS
<1>4. PICK r : r = Number!RemainderAt(temp)[Len(temp)]
  OBVIOUS
<1>5. /\ q \in Seq(0..255) /\ Len(q) = Len(temp) /\ r \in 0..9
      /\ Number!IsZero(temp) => Number!IsZero(q) /\ r = 0 /\ Number!Decimal(temp) = <<>>
      /\ ~ Number!IsZero(temp) =>
           Number!Decimal(temp) = Number!Decimal(q) \o <<Number!Digit(r)>>
      /\ Number!IsZero(q) => Number!Decimal(q) = <<>>
  BY <1>2, <1>3, <1>4, DivideRound
<1>6. PICK c : c = Number!Digit(r)
  OBVIOUS
<1>7. PICK y : y = <<c>>
  OBVIOUS
<1>8. y \in Seq(Range(Number!Digits)) /\ Len(y) = 1
  <2>1. PICK e : e = <<r>>
    OBVIOUS
  <2>2. e \in Seq(0..9) /\ Len(e) = 1 /\ e[1] = r
    BY <1>5, <2>1
  <2>3. PICK f : f = Chars(e)
    OBVIOUS
  <2>4. /\ f \in Seq(Range(Number!Digits)) /\ Len(f) = 1
        /\ \A i \in 1..1 : f[i] = Number!Digit(e[i])
    BY <2>2, <2>3, CharsAre
  <2>5. 1 \in 1..1 /\ 1 \in 1..Len(f)
    BY <2>4
  <2>6. c \in Range(Number!Digits)
    BY <1>6, <2>2, <2>4, <2>5, ElementOfSeq
  <2> QED BY <1>7, <2>6
<1>9. result' = y \o result
  BY <1>1, <1>4, <1>6, <1>7
<1>10. /\ result' \in Seq(Range(Number!Digits))
       /\ Len(result') = Len(result) + 1 /\ Len(result) \in Nat
       /\ Len(result') <= MAX_DECIMAL_DIGITS + 1 /\ MAX_DECIMAL_DIGITS \in Nat \ {0}
  <2>1. result' \in Seq(Range(Number!Digits)) /\ Len(result') = Len(y) + Len(result)
    BY <1>2, <1>8, <1>9, ConcatProperties
  <2>2. Len(result) \in Nat /\ MAX_DECIMAL_DIGITS \in Nat \ {0}
    BY <1>2, LenProperties, NumberAssumption
  <2> QED BY <1>1, <1>8, <2>1, <2>2
<1>11. PICK D : D = Number!Decimal(bytes)
  OBVIOUS
<1>12. /\ D \in Seq(Range(Number!Digits))
       /\ Number!Decimal(temp) \in Seq(Range(Number!Digits))
       /\ Number!Decimal(q) \in Seq(Range(Number!Digits))
  BY <1>2, <1>5, <1>11, DecimalIs
\* The number is zero, or not and then what is left and written is its digits.
<1>13. \/ D = <<>> /\ Number!IsZero(q) /\ result' = <<"0">>
       \/ D = Number!Decimal(q) \o result'
  <2>1. CASE Halfway
    <3>1. ~ Number!IsZero(temp) /\ Number!Decimal(temp) \o result = D
      BY <1>11, <2>1 DEF Halfway
    <3>2. PICK x : x = Number!Decimal(q)
      OBVIOUS
    <3>3. D = (x \o y) \o result
      <4>1. Number!Decimal(temp) = x \o y
        BY <1>5, <1>6, <1>7, <3>1, <3>2
      <4> QED BY ONLY <3>1, <4>1
    <3>4. (x \o y) \o result = x \o (y \o result)
      <4>1. /\ x \in Seq(Range(Number!Digits)) /\ y \in Seq(Range(Number!Digits))
            /\ result \in Seq(Range(Number!Digits))
        BY <1>2, <1>8, <1>12, <3>2
      <4> QED BY ONLY <4>1, ConcatAssociative
    <3> QED BY <1>9, <3>2, <3>3, <3>4
  <2>2. CASE result = <<>> /\ temp = bytes
    <3>1. result' = y
      BY <1>8, <1>9, <2>2, ConcatEmptySeq
    <3>2. CASE Number!IsZero(temp)
      <4>1. D = <<>> /\ Number!IsZero(q) /\ r = 0
        BY <1>5, <1>11, <2>2, <3>2
      <4>2. c = "0"
        BY <1>6, <4>1, DigitsAre
      <4> QED BY <1>7, <3>1, <4>1, <4>2
    <3>3. CASE ~ Number!IsZero(temp)
      BY <1>5, <1>6, <1>7, <1>11, <2>2, <3>1, <3>3
    <3> QED BY <3>2, <3>3
  <2> QED BY <1>1, <2>1, <2>2 DEF NumberInv
<1>14. G_AMOUNT_LEN \in Nat /\ 0 < G_AMOUNT_LEN /\ Len(<<>>) = 0
  BY NumberAssumption, EmptySeq
<1>15. CASE Len(result') > MAX_DECIMAL_DIGITS
  <2>1. text' = <<>> /\ pc' = "overrun"
    BY <1>1, <1>15
  <2>2. Len(result') = MAX_DECIMAL_DIGITS + 1
    BY <1>10, <1>15
  <2>3. Number!Decimal(q) \o result' = D
    <3>1. Len(<<"0">>) = 1
      OBVIOUS
    <3>2. result' # <<"0">>
      BY <1>10, <2>2, <3>1
    <3> QED BY <1>13, <3>2
  <2>4. Number!Decimal(temp)' \o result' = Number!Decimal(bytes)'
    BY <1>1, <1>3, <1>11, <2>3
  <2> QED BY <1>1, <1>2, <1>3, <1>5, <1>10, <1>14, <2>1, <2>2, <2>4 DEF NumberInv
<1>16. CASE Len(result') <= MAX_DECIMAL_DIGITS /\ ~ Number!LastRound(temp)
  <2>1. ~ Number!IsZero(q) /\ text' = <<>> /\ pc' = "divide"
    BY <1>1, <1>3, <1>10, <1>16 DEF Number!LastRound
  <2>2. Number!Decimal(q) \o result' = D
    BY <1>13, <2>1
  <2>3. Halfway'
    BY <1>1, <1>3, <1>11, <2>1, <2>2 DEF Halfway
  <2> QED BY <1>1, <1>2, <1>3, <1>5, <1>10, <1>14, <1>16, <2>1, <2>3 DEF NumberInv
<1>17. CASE Len(result') <= MAX_DECIMAL_DIGITS /\ Number!LastRound(temp)
  <2>1. Number!IsZero(q) /\ Number!Decimal(q) = <<>>
    BY <1>3, <1>5, <1>17 DEF Number!LastRound
  <2>2. /\ result' = Number!Written(D) /\ Len(D) <= MAX_DECIMAL_DIGITS
    <3>1. CASE D = <<>> /\ result' = <<"0">>
      <4>1. Len(D) = 0
        BY <3>1
      <4> QED BY <3>1, <4>1, NumberAssumption DEF Number!Written
    <3>2. CASE D = Number!Decimal(q) \o result'
      <4>1. D = result'
        BY <1>10, <2>1, <3>2, ConcatEmptySeq
      <4>2. Len(result') # 0
        BY <1>10
      <4>3. D # <<>>
        BY <4>1, <4>2, EmptySeq
      <4> QED BY <1>17, <4>1, <4>3 DEF Number!Written
    <3> QED BY <1>13, <3>1, <3>2
  <2>3. Number!Decimal(bytes)' = D
    BY <1>1, <1>11
  <2>4. CASE line = "nonce"
    <3>1. pc' = "done" /\ text' = result' /\ line' = "nonce"
      BY <1>1, <1>10, <1>17, <2>4
    <3> QED BY <1>1, <1>2, <1>3, <1>5, <1>10, <1>11, <1>17, <2>2, <3>1 DEF NumberInv
  <2>5. CASE line = "amount"
    <3>1. pc' = "format" /\ text' = <<>> /\ line' = "amount"
      BY <1>1, <1>10, <1>17, <2>5
    <3> QED BY <1>1, <1>2, <1>3, <1>5, <1>10, <1>11, <1>14, <1>17, <2>2, <3>1
            DEF NumberInv
  <2> QED BY <1>2, <2>4, <2>5
<1> QED BY <1>10, <1>15, <1>16, <1>17

\* The digits get their point, in a buffer that is too small for the fraction.
LEMMA FormatStep == NumberInv /\ Number!Format => NumberInv'
<1> SUFFICES ASSUME NumberInv, Number!Format PROVE NumberInv'
  OBVIOUS
<1>1. /\ pc = "format" /\ pc' = "print"
      /\ text' = Number!Printed(Number!format_with_decimals(result), AMOUNT_LEN)
      /\ line' = line /\ bytes' = bytes /\ temp' = temp /\ result' = result
  BY DEF Number!Format
<1>2. PICK D : D = Number!Decimal(bytes)
  OBVIOUS
<1>3. /\ bytes \in Seq(0..255) /\ line = "amount"
      /\ Len(D) <= MAX_DECIMAL_DIGITS /\ result = Number!Written(D)
  BY <1>1, <1>2 DEF NumberInv
<1>4. D \in Seq(Range(Number!Digits))
  BY <1>2, <1>3, DecimalIs
<1>5. text' = Number!Printed(Number!format_with_decimals(Number!Written(D)), AMOUNT_LEN)
  BY <1>1, <1>3
<1>6. Len(text') \in Nat /\ Len(text') < AMOUNT_LEN
  BY <1>3, <1>4, <1>5, LineIs
<1>7. Len(text') < G_AMOUNT_LEN
  BY <1>6, NumberAssumption
<1> QED BY <1>1, <1>2, <1>3, <1>5, <1>7 DEF NumberInv

\* The line gets its unit.
LEMMA PrintStep == NumberInv /\ Number!PrintLine => NumberInv'
<1> SUFFICES ASSUME NumberInv, Number!PrintLine PROVE NumberInv'
  OBVIOUS
<1>1. /\ pc = "print" /\ pc' = "done"
      /\ text' = Number!Printed(text \o Number!Unit, G_AMOUNT_LEN)
      /\ line' = line /\ bytes' = bytes /\ temp' = temp /\ result' = result
  BY DEF Number!PrintLine
<1>2. PICK D : D = Number!Decimal(bytes)
  OBVIOUS
<1>3. /\ bytes \in Seq(0..255) /\ line = "amount"
      /\ Len(D) <= MAX_DECIMAL_DIGITS
      /\ text = Number!Printed(Number!format_with_decimals(Number!Written(D)), AMOUNT_LEN)
  BY <1>1, <1>2 DEF NumberInv
<1>4. D \in Seq(Range(Number!Digits))
  BY <1>2, <1>3, DecimalIs
<1>5. text' = Number!AmountText(D, AMOUNT_LEN - 1) /\ Len(text') < G_AMOUNT_LEN
  <2>1. /\ Number!Printed(text \o Number!Unit, G_AMOUNT_LEN)
             = Number!AmountText(D, AMOUNT_LEN - 1)
        /\ Len(text \o Number!Unit) < G_AMOUNT_LEN
        /\ Number!Printed(text \o Number!Unit, G_AMOUNT_LEN) = text \o Number!Unit
    BY <1>3, <1>4, LineIs
  <2> QED BY <1>1, <2>1
<1> QED BY <1>1, <1>2, <1>3, <1>5 DEF NumberInv

\* Nobody else touches a number, and a finished line stays.
LEMMA NumberInvariance == Spec => [](kind = "number" => NumberInv)
<1>1. Init => (kind = "number" => NumberInv)
  BY NumberStarts DEF Init
<1>2. (kind = "number" => NumberInv) /\ [Next]_vars
        => (kind = "number" => NumberInv)'
  <2> SUFFICES ASSUME kind = "number" => NumberInv, [Next]_vars,
                      kind' = "number"
               PROVE  NumberInv'
    OBVIOUS
  <2>1. CASE WriteNumber
    <3>1. NumberInv
      BY <2>1 DEF WriteNumber
    <3> QED BY <2>1, <3>1, DivideStep, FormatStep, PrintStep
            DEF WriteNumber, Number!Next
  <2>2. CASE WriteAddress \/ WalkCall
    BY <2>2 DEF WriteAddress, WalkCall
  <2>3. CASE UNCHANGED vars
    <3>1. /\ kind' = kind /\ pc' = pc /\ line' = line /\ bytes' = bytes
          /\ temp' = temp /\ result' = result /\ text' = text
      BY <2>3 DEF vars, numberVars
    <3> QED BY <3>1 DEF NumberInv, Halfway
  <2> QED BY <2>1, <2>2, <2>3 DEF Next
<1> QED BY <1>1, <1>2, PTL DEF Spec

\* What is left to divide and the digits already written are the number in
\* every round, and only a number that has more digits than result has room for
\* is written in front of it
\* (nbgl_display_transaction.c:57-74).
THEOREM NoRoundLosesADigit == Spec => []RoundsKeepNumber
<1>1. (kind = "number" => NumberInv) => RoundsKeepNumber
  <2> SUFFICES ASSUME NumberInv PROVE Number!RoundsKeepNumber
    BY DEF RoundsKeepNumber
  <2>1. PICK D : D = Number!Decimal(bytes)
    OBVIOUS
  <2>2. PICK T : T = Number!Decimal(temp)
    OBVIOUS
  <2>3. /\ D \in Seq(Range(Number!Digits)) /\ T \in Seq(Range(Number!Digits))
        /\ result \in Seq(Range(Number!Digits))
        /\ Number!IsZero(temp) <=> T = <<>>
    BY <2>1, <2>2, DecimalIs DEF NumberInv
  <2>4. ASSUME pc \in {"divide", "overrun"} PROVE T \o result = D
    <3>1. CASE Halfway \/ pc = "overrun"
      BY <2>1, <2>2, <3>1 DEF Halfway, NumberInv
    <3>2. CASE result = <<>> /\ temp = bytes
      BY <2>1, <2>2, <2>3, <3>2, ConcatEmptySeq
    <3> QED BY <2>4, <3>1, <3>2 DEF NumberInv
  <2>5. ASSUME pc \in {"divide", "overrun"}
        PROVE  LET written == T \o result
                   zeros == Len(written) - Len(D)
               IN zeros >= 0 /\ written = Number!Zeros(zeros) \o D
    <3>1. Len(T \o result) - Len(D) = 0
      BY <2>3, <2>4, <2>5, LenProperties
    <3>2. Number!Zeros(0) = <<>>
      <4>1. Number!Zeros(0) \in Seq(Range(Number!Digits)) /\ Len(Number!Zeros(0)) = 0
        BY ZerosAre
      <4> QED BY <4>1, EmptySeq
    <3>3. <<>> \o D = D
      BY <2>3, ConcatEmptySeq
    <3>4. PICK z : z = Len(T \o result) - Len(D) /\ z = 0
      BY <3>1
    <3>5. z >= 0
      BY <3>4
    <3>6. T \o result = Number!Zeros(z) \o D
      BY <2>4, <2>5, <3>2, <3>3, <3>4
    <3> QED BY <3>4, <3>5, <3>6, Zenon
  <2>6. ASSUME pc = "overrun" PROVE Len(D) > MAX_DECIMAL_DIGITS
    <3>1. Len(result) = MAX_DECIMAL_DIGITS + 1
      BY <2>6 DEF NumberInv
    <3>2. Len(T) \in Nat
      BY <2>3, LenProperties
    <3>3. Len(D) = Len(T) + Len(result)
      BY <2>3, <2>4, <2>6, ConcatProperties
    <3> QED BY <3>1, <3>2, <3>3, NumberAssumption
  <2> QED BY <2>1, <2>2, <2>5, <2>6 DEF Number!RoundsKeepNumber
<1> QED BY <1>1, NumberInvariance, PTL

\* A number that is not written in front of result is written with exactly its
\* decimal digits, zero as one, and so is a nonce behind it, whether g_nonce has
\* room for them or not (nbgl_display_transaction.c:53-79, 213).
THEOREM DigitsAreExact == Spec => []DecimalIsExact
<1>1. (kind = "number" => NumberInv) => DecimalIsExact
  BY DEF NumberInv, DecimalIsExact, Number!DecimalIsExact
<1> QED BY <1>1, NumberInvariance, PTL

\* The line of an amount or of the fees has the whole coins, as much of the
\* fraction as there is room for, and the unit
\* (nbgl_display_transaction.c:82-125, 236-242).
THEOREM NoAmountIsMisread == Spec => []AmountIsNotMisread
<1>1. (kind = "number" => NumberInv) => AmountIsNotMisread
  BY DEF NumberInv, AmountIsNotMisread, Number!AmountIsNotMisread
<1> QED BY <1>1, NumberInvariance, PTL
=============================================================================
