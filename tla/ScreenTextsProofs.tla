------------------------- MODULE ScreenTextsProofs -------------------------
(***************************************************************************)
(* Proofs about ScreenTexts: that an address shown is its checksummed form *)
(* and nothing is shown before, and that a calldata walk ends behind the   *)
(* last parameter that is kept.                                            *)
(***************************************************************************)
EXTENDS DecimalTextProofs

-----------------------------------------------------------------------------
(* The buffer of an address *)

Letters == Range(Address!Lower) \cup Range(Address!Upper)
Cells == Letters \cup {"Q", "nul"}

\* Half of a byte is the index of a letter.
LEMMA NibbleIsNibble ==
  ASSUME NEW a \in [1..ADDRESS_SIZE -> 0..255], NEW i \in 1..(2 * ADDRESS_SIZE)
  PROVE  Address!Nibble(a, i) \in 0..15
<1>1. (i + 1) \div 2 \in 1..ADDRESS_SIZE
  BY AddressAssumption
<1>2. PICK byte \in 0..255 : byte = a[(i + 1) \div 2]
  BY <1>1
<1>3. Address!Nibble(a, i) = IF i % 2 = 1 THEN byte \div 16 ELSE byte % 16
  BY <1>2 DEF Address!Nibble
<1>4. byte \div 16 \in 0..15 /\ byte % 16 \in 0..15
  OBVIOUS
<1> QED BY <1>3, <1>4

\* No letter is the prefix or ends the text.
LEMMA LettersAreLetters ==
  ASSUME NEW n \in 1..16
  PROVE  /\ Address!Lower[n] \in Letters /\ Address!Upper[n] \in Letters
         /\ Address!Lower[n] # "nul" /\ Address!Upper[n] # "nul"
         /\ Address!Lower[n] # "Q" /\ Address!Upper[n] # "Q"
BY DEF Letters, Address!Lower, Address!Upper, Range

\* A letter is raised to the capital of its own value.
LEMMA RaisedIsUpper ==
  ASSUME NEW n \in 1..16
  PROVE  Address!Raised(Address!Lower[n]) = Address!Upper[n]
<1>1. \A k \in 1..16 : Address!Lower[k] = Address!Lower[n] => k = n
  BY DEF Address!Lower
<1>2. (CHOOSE k \in 1..16 : Address!Lower[k] = Address!Lower[n]) = n
  BY <1>1
<1> QED BY <1>2 DEF Address!Raised

\* Writing the body leaves the cells before and behind it alone.
LEMMA WithBodyCells ==
  ASSUME NEW C, NEW s \in Seq(C), NEW b \in Seq(C),
         Len(b) = 2 * ADDRESS_SIZE, Len(s) >= 2 * ADDRESS_SIZE + 2
  PROVE  /\ Address!WithBody(s, b) \in Seq(C)
         /\ Len(Address!WithBody(s, b)) = Len(s)
         /\ Address!WithBody(s, b)[1] = s[1]
         /\ \A i \in 1..(2 * ADDRESS_SIZE) : Address!WithBody(s, b)[i + 1] = b[i]
         /\ \A i \in (2 * ADDRESS_SIZE + 2)..Len(s) :
              Address!WithBody(s, b)[i] = s[i]
<1> DEFINE n == 2 * ADDRESS_SIZE
           tail == SubSeq(s, n + 2, Len(s))
<1>1. n \in Nat \ {0} /\ Len(s) \in Nat
  BY AddressAssumption, LenProperties
<1>2. /\ tail \in Seq(C) /\ Len(tail) = Len(s) - n - 1
      /\ \A i \in 1..Len(tail) : tail[i] = s[n + 1 + i]
  BY <1>1, SubSeqProperties
<1>3. <<s[1]>> \in Seq(C) /\ Len(<<s[1]>>) = 1 /\ <<s[1]>>[1] = s[1]
  BY <1>1, ElementOfSeq
<1> DEFINE front == <<s[1]>> \o b
<1>4. /\ front \in Seq(C) /\ Len(front) = n + 1
      /\ front[1] = s[1]
      /\ \A i \in 1..n : front[i + 1] = b[i]
  BY <1>1, <1>3, ConcatProperties
<1>5. Address!WithBody(s, b) = front \o tail
  BY DEF Address!WithBody, Address!BodySize
<1> HIDE DEF n, tail, front
<1>6. /\ front \o tail \in Seq(C)
      /\ Len(front \o tail) = Len(s)
      /\ \A i \in 1..(n + 1) : (front \o tail)[i] = front[i]
      /\ \A i \in (n + 2)..Len(s) : (front \o tail)[i] = tail[i - n - 1]
  <2>1. /\ front \o tail \in Seq(C)
        /\ Len(front \o tail) = Len(front) + Len(tail)
        /\ \A i \in 1..(Len(front) + Len(tail)) : (front \o tail)[i] =
             IF i <= Len(front) THEN front[i] ELSE tail[i - Len(front)]
    BY <1>2, <1>4, ConcatProperties
  <2>2. Len(front) + Len(tail) = Len(s)
    BY <1>1, <1>2, <1>4
  <2>3. ASSUME NEW i \in 1..(n + 1) PROVE (front \o tail)[i] = front[i]
    BY <1>1, <1>4, <2>1, <2>2
  <2>4. ASSUME NEW i \in (n + 2)..Len(s)
        PROVE  (front \o tail)[i] = tail[i - n - 1]
    <3>1. i \in 1..Len(s) /\ ~ (i <= n + 1) /\ i - (n + 1) = i - n - 1
      BY <1>1
    <3> QED BY <1>4, <2>1, <2>2, <3>1
  <2> QED BY <2>1, <2>2, <2>3, <2>4
<1>7. \A i \in (n + 2)..Len(s) : (front \o tail)[i] = s[i]
  <2> SUFFICES ASSUME NEW i \in (n + 2)..Len(s)
               PROVE  (front \o tail)[i] = s[i]
    OBVIOUS
  <2>1. PICK j \in 1..Len(tail) : j = i - n - 1
    BY <1>1, <1>2
  <2> QED BY <1>1, <1>2, <1>6, <2>1
<1>8. \A i \in 1..n : (front \o tail)[i + 1] = b[i]
  <2> SUFFICES ASSUME NEW i \in 1..n PROVE (front \o tail)[i + 1] = b[i]
    OBVIOUS
  <2>1. PICK j \in 1..(n + 1) : j = i + 1
    BY <1>1
  <2> QED BY <1>1, <1>4, <1>6, <2>1
<1> QED BY <1>1, <1>4, <1>5, <1>6, <1>7, <1>8 DEF n

HexText(addr) ==
  [i \in 1..(2 * ADDRESS_SIZE) |-> Address!Lower[1 + Address!Nibble(addr, i)]]

ChecksumText(addr) ==
  [i \in 1..(2 * ADDRESS_SIZE) |->
     IF Shake256(HexText(addr))[i] >= 8
       THEN Address!Upper[1 + Address!Nibble(addr, i)]
       ELSE Address!Lower[1 + Address!Nibble(addr, i)]]

\* The first cell is NUL until the text is whole, and between the calls the
\* buffer holds the text that was hashed.
AddressInv ==
  /\ address \in Addresses /\ out_len \in OutLens
  /\ out \in Seq(Cells) /\ Len(out) = out_len
  /\ pc \in {"hex", "hash", "case", "true", "false"}
  /\ pc # "true" /\ out_len > 0 => out[1] = "nul"
  /\ pc \in {"hash", "case", "true"} => out_len >= 2 * ADDRESS_SIZE + 2
  /\ pc \in {"hash", "case"} => Address!Body(out) = HexText(address)
  /\ pc = "case" => mask = Shake256(HexText(address))
  /\ pc = "true" => /\ out[1] = "Q" /\ out[2 * ADDRESS_SIZE + 2] = "nul"
                    /\ Address!Body(out) = ChecksumText(address)

\* Both texts fill the body.
LEMMA TextsFillBody ==
  ASSUME NEW addr \in Addresses
  PROVE  /\ HexText(addr) \in Seq(Cells) /\ Len(HexText(addr)) = 2 * ADDRESS_SIZE
         /\ ChecksumText(addr) \in Seq(Letters)
         /\ ChecksumText(addr) \in Seq(Cells)
         /\ Len(ChecksumText(addr)) = 2 * ADDRESS_SIZE
         /\ \A i \in 1..(2 * ADDRESS_SIZE) :
              /\ Address!Raised(HexText(addr)[i])
                   = Address!Upper[1 + Address!Nibble(addr, i)]
              /\ ChecksumText(addr)[i] # "nul"
<1> DEFINE n == 2 * ADDRESS_SIZE
<1>1. n \in Nat
  BY AddressAssumption
<1>2. ASSUME NEW i \in 1..n
      PROVE  \E k \in 1..16 : k = 1 + Address!Nibble(addr, i)
  <2>1. addr \in [1..ADDRESS_SIZE -> 0..255]
    BY AddressAssumption
  <2>2. Address!Nibble(addr, i) \in 0..15
    BY <2>1, NibbleIsNibble
  <2> QED BY <2>2
<1>3. ASSUME NEW i \in 1..n
      PROVE  /\ HexText(addr)[i] \in Letters
             /\ ChecksumText(addr)[i] \in Letters
             /\ ChecksumText(addr)[i] # "nul"
             /\ Address!Raised(HexText(addr)[i])
                  = Address!Upper[1 + Address!Nibble(addr, i)]
  <2>1. PICK k \in 1..16 : k = 1 + Address!Nibble(addr, i)
    BY <1>2
  <2>2. /\ HexText(addr)[i] = Address!Lower[k]
        /\ \/ ChecksumText(addr)[i] = Address!Lower[k]
           \/ ChecksumText(addr)[i] = Address!Upper[k]
    BY <2>1 DEF HexText, ChecksumText
  <2> QED BY <2>1, <2>2, LettersAreLetters, RaisedIsUpper
<1>4. /\ HexText(addr) = [i \in 1..n |-> HexText(addr)[i]]
      /\ ChecksumText(addr) = [i \in 1..n |-> ChecksumText(addr)[i]]
  BY DEF HexText, ChecksumText
<1>5. Letters \subseteq Cells
  BY DEF Cells
<1> HIDE DEF n
<1>6. /\ HexText(addr) \in [1..n -> Cells]
      /\ ChecksumText(addr) \in [1..n -> Letters]
      /\ ChecksumText(addr) \in [1..n -> Cells]
  BY <1>3, <1>4, <1>5
<1> QED BY <1>1, <1>3, <1>6 DEF n

\* What body points to.
LEMMA BodyCells ==
  ASSUME NEW C, NEW s \in Seq(C), Len(s) >= 2 * ADDRESS_SIZE + 2
  PROVE  /\ Address!Body(s) \in Seq(C)
         /\ Len(Address!Body(s)) = 2 * ADDRESS_SIZE
         /\ \A i \in 1..(2 * ADDRESS_SIZE) : Address!Body(s)[i] = s[i + 1]
<1>1. 2 * ADDRESS_SIZE \in Nat /\ Len(s) \in Nat
  BY AddressAssumption, LenProperties
<1>2. Address!Body(s) = SubSeq(s, 2, 2 * ADDRESS_SIZE + 1)
  BY DEF Address!Body, Address!BodySize
<1> QED BY <1>1, <1>2, SubSeqProperties

\* What is written to the body is read there, whatever the first cell and the
\* cells behind it.
LEMMA BodyIsWritten ==
  ASSUME NEW C, NEW s \in Seq(C), NEW b \in Seq(C),
         Len(b) = 2 * ADDRESS_SIZE, Len(s) >= 2 * ADDRESS_SIZE + 2,
         \A i \in 1..(2 * ADDRESS_SIZE) : s[i + 1] = b[i]
  PROVE  Address!Body(s) = b
<1>1. \A i \in 1..Len(b) : Address!Body(s)[i] = b[i]
  BY BodyCells
<1> QED BY <1>1, BodyCells, SeqEqual

-----------------------------------------------------------------------------
(* Its steps *)

\* The invariant holds of a buffer that was just cleared.
LEMMA AddressInit ==
  ASSUME Address!Init PROVE AddressInv
<1>1. out_len \in Nat
  BY AddressAssumption DEF Address!Init
<1>2. out \in [1..out_len -> Cells]
  BY DEF Address!Init, Address!NUL, Cells
<1>3. out \in Seq(Cells) /\ Len(out) = out_len
  BY <1>1, <1>2
<1>4. out_len > 0 => out[1] = "nul"
  BY <1>1 DEF Address!Init, Address!NUL
<1> QED BY <1>3, <1>4 DEF Address!Init, AddressInv

\* Writing the digits fills the body, or leaves the buffer as it was.
LEMMA HexStep ==
  ASSUME AddressInv, Address!Hex PROVE AddressInv'
<1>1. /\ address \in Addresses /\ out_len \in OutLens
      /\ out \in Seq(Cells) /\ Len(out) = out_len
      /\ out_len > 0 => out[1] = "nul"
      /\ UNCHANGED <<address, out_len, mask>>
      /\ out_len \in Nat /\ ADDRESS_SIZE \in Nat
  BY AddressAssumption DEF AddressInv, Address!Hex
<1>2. CASE out_len < 1 + 2 * ADDRESS_SIZE + 1
  <2>1. pc' = "false" /\ out' = out
    BY <1>2 DEF Address!Hex, Address!BodySize
  <2> QED BY <1>1, <2>1 DEF AddressInv
<1>3. CASE ~ (out_len < 1 + 2 * ADDRESS_SIZE + 1)
  <2>1. pc' = "hash" /\ out' = Address!WithBody(out, HexText(address))
    BY <1>3 DEF Address!Hex, Address!HexBody, Address!BodySize, HexText
  <2>2. out_len >= 2 * ADDRESS_SIZE + 2
    BY <1>1, <1>3
  <2>3. HexText(address) \in Seq(Cells)
        /\ Len(HexText(address)) = 2 * ADDRESS_SIZE
    BY <1>1, TextsFillBody
  <2>4. /\ out' \in Seq(Cells) /\ Len(out') = out_len /\ out'[1] = out[1]
        /\ \A i \in 1..(2 * ADDRESS_SIZE) : out'[i + 1] = HexText(address)[i]
    BY <1>1, <2>1, <2>2, <2>3, WithBodyCells
  <2>5. Address!Body(out') = HexText(address)
    BY <1>1, <2>2, <2>3, <2>4, BodyIsWritten
  <2>6. (Address!Body(out))' = Address!Body(out')
    BY DEF Address!Body, Address!BodySize
  <2>7. HexText(address)' = HexText(address)
    BY <1>1
  <2> QED BY <1>1, <2>1, <2>2, <2>4, <2>5, <2>6, <2>7 DEF AddressInv
<1> QED BY <1>2, <1>3

\* The hash gives the mask, or fails; the buffer is as it was.
LEMMA HashStep ==
  ASSUME AddressInv, Address!Hash PROVE AddressInv'
<1>1. /\ address \in Addresses /\ out_len \in OutLens
      /\ out \in Seq(Cells) /\ Len(out) = out_len
      /\ out_len > 0 => out[1] = "nul"
      /\ out_len >= 2 * ADDRESS_SIZE + 2
      /\ Address!Body(out) = HexText(address)
      /\ UNCHANGED <<address, out, out_len>>
  BY DEF AddressInv, Address!Hash
<1>2. (Address!Body(out))' = Address!Body(out) /\ HexText(address)' = HexText(address)
  BY <1>1
<1>3. CASE pc' = "case" /\ mask' = Shake256(Address!Body(out))
  BY <1>1, <1>2, <1>3 DEF AddressInv
<1>4. CASE pc' = "false"
  BY <1>1, <1>2, <1>4 DEF AddressInv
<1> QED BY <1>3, <1>4 DEF Address!Hash

\* The letters of the body are raised, then the prefix and the end written.
LEMMA CaseStep ==
  ASSUME AddressInv, Address!Case PROVE AddressInv'
<1> DEFINE n == 2 * ADDRESS_SIZE
           raised == [i \in 1..n |->
                        IF Address!MaskAt(i) >= 8
                          THEN Address!Raised(Address!Body(out)[i])
                          ELSE Address!Body(out)[i]]
           written == Address!WithBody(out, raised)
<1>1. /\ address \in Addresses /\ out_len \in OutLens
      /\ out \in Seq(Cells) /\ Len(out) = out_len
      /\ out_len >= n + 2
      /\ Address!Body(out) = HexText(address)
      /\ mask = Shake256(HexText(address))
      /\ UNCHANGED <<address, out_len>>
      /\ pc' = "true"
      /\ out' = [written EXCEPT ![1] = "Q", ![n + 2] = "nul"]
      /\ n \in Nat /\ n > 0 /\ out_len \in Nat
  BY AddressAssumption
     DEF AddressInv, Address!Case, Address!BodySize, Address!NUL
<1>2. raised = ChecksumText(address)
  <2>1. \A i \in 1..n : raised[i] = ChecksumText(address)[i]
    <3> SUFFICES ASSUME NEW i \in 1..n PROVE raised[i] = ChecksumText(address)[i]
      OBVIOUS
    <3>1. Address!Raised(HexText(address)[i])
            = Address!Upper[1 + Address!Nibble(address, i)]
      BY <1>1, TextsFillBody
    <3>2. HexText(address)[i] = Address!Lower[1 + Address!Nibble(address, i)]
      BY DEF HexText
    <3>3. Address!MaskAt(i) = Shake256(HexText(address))[i]
      BY <1>1 DEF Address!MaskAt
    <3> QED BY <1>1, <3>1, <3>2, <3>3 DEF ChecksumText
  <2>2. /\ raised = [i \in 1..n |-> raised[i]]
        /\ ChecksumText(address) = [i \in 1..n |-> ChecksumText(address)[i]]
    BY DEF ChecksumText
  <2> HIDE DEF n, raised
  <2> QED BY <2>1, <2>2
<1>3. ChecksumText(address) \in Seq(Cells) /\ Len(ChecksumText(address)) = n
  BY <1>1, TextsFillBody
<1> HIDE DEF raised
<1>4. /\ written \in Seq(Cells) /\ Len(written) = out_len
      /\ \A i \in 1..n : written[i + 1] = ChecksumText(address)[i]
  BY <1>1, <1>2, <1>3, WithBodyCells
<1> HIDE DEF written, n
<1>5. "Q" \in Cells /\ "nul" \in Cells
  BY DEF Cells
<1>6. /\ out' \in Seq(Cells) /\ Len(out') = out_len
      /\ out'[1] = "Q" /\ out'[n + 2] = "nul"
      /\ \A i \in 1..n : out'[i + 1] = ChecksumText(address)[i]
  <2> DEFINE prefixed == [written EXCEPT ![1] = "Q"]
  <2>1. 1 \in 1..Len(written) /\ n + 2 \in 1..Len(written) /\ n + 2 # 1
    BY <1>1, <1>4
  <2>2. /\ prefixed \in Seq(Cells) /\ Len(prefixed) = out_len
        /\ prefixed[1] = "Q"
        /\ \A i \in 2..out_len : prefixed[i] = written[i]
    BY <1>1, <1>4, <1>5, <2>1, ExceptSeq
  <2>3. out' = [prefixed EXCEPT ![n + 2] = "nul"]
    BY <1>1
  <2> HIDE DEF prefixed
  <2>4. /\ out' \in Seq(Cells) /\ Len(out') = out_len
        /\ \A i \in 1..out_len : out'[i] = IF i = n + 2 THEN "nul" ELSE prefixed[i]
    BY <1>4, <1>5, <2>1, <2>2, <2>3, ExceptSeq
  <2>5. ASSUME NEW i \in 1..n PROVE out'[i + 1] = ChecksumText(address)[i]
    <3>1. i + 1 \in 2..out_len /\ i + 1 # n + 2
      BY <1>1
    <3>2. out'[i + 1] = written[i + 1]
      BY <1>1, <2>2, <2>4, <3>1
    <3> QED BY <1>4, <3>2
  <2> QED BY <1>4, <2>1, <2>2, <2>4, <2>5
<1>7. Address!Body(out') = ChecksumText(address)
  BY <1>1, <1>3, <1>6, BodyIsWritten DEF n
<1>8. (Address!Body(out))' = Address!Body(out')
      /\ ChecksumText(address)' = ChecksumText(address)
  BY <1>1 DEF Address!Body, Address!BodySize
<1> QED BY <1>1, <1>6, <1>7, <1>8 DEF AddressInv, n

\* Nobody else touches the buffer, and a finished line stays.
LEMMA AddressInvariance == Spec => [](kind = "address" => AddressInv)
<1>1. Init => (kind = "address" => AddressInv)
  BY AddressInit DEF Init
<1>2. (kind = "address" => AddressInv) /\ [Next]_vars
        => (kind = "address" => AddressInv)'
  <2> SUFFICES ASSUME kind = "address" => AddressInv, [Next]_vars,
                      kind' = "address"
               PROVE  AddressInv'
    OBVIOUS
  <2>1. CASE WriteAddress
    <3>1. AddressInv
      BY <2>1 DEF WriteAddress
    <3> QED BY <2>1, <3>1, HexStep, HashStep, CaseStep
            DEF WriteAddress, Address!Next
  <2>2. CASE WriteNumber \/ WalkCall
    BY <2>2 DEF WriteNumber, WalkCall
  <2>3. CASE UNCHANGED vars
    BY <2>3 DEF vars, addressVars, AddressInv, Address!Body, Address!BodySize,
                ChecksumText, HexText, Address!Nibble
  <2> QED BY <2>1, <2>2, <2>3 DEF Next
<1> QED BY <1>1, <1>2, PTL DEF Spec

-----------------------------------------------------------------------------
(* What the screen shows of it *)

\* A buffer whose first cell is NUL shows nothing.
LEMMA EndedShowsNothing ==
  ASSUME NEW s \in Seq(Cells), Len(s) > 0 => s[1] = "nul"
  PROVE  Address!Shown(s) = <<>>
<1> DEFINE ends == {i \in 1..Len(s) : s[i] = "nul"}
<1>1. Len(s) \in Nat
  BY LenProperties
<1>2. CASE Len(s) = 0
  BY <1>1, <1>2, EmptySeq DEF Address!Shown, Address!NUL
<1>3. CASE Len(s) > 0
  <2>1. 1 \in ends /\ \A i \in ends : 1 <= i
    BY <1>1, <1>3
  <2>2. \A i \in ends : (\A j \in ends : i <= j) => i = 1
    BY <1>1, <2>1
  <2> HIDE DEF ends
  <2>3. (CHOOSE i \in ends : \A j \in ends : i <= j) = 1
    BY <2>1, <2>2
  <2>4. Address!Shown(s) = SubSeq(s, 1, 1 - 1)
    BY <2>1, <2>3 DEF ends, Address!Shown, Address!NUL
  <2> QED BY <2>4, SubSeqEmpty
<1> QED BY <1>1, <1>2, <1>3

\* A whole line shows the prefix and the body.
LEMMA EndedShowsLine ==
  ASSUME NEW s \in Seq(Cells), NEW b \in Seq(Letters),
         Len(s) >= 2 * ADDRESS_SIZE + 2, Len(b) = 2 * ADDRESS_SIZE,
         Address!Body(s) = b, \A i \in 1..Len(b) : b[i] # "nul",
         s[1] = "Q", s[2 * ADDRESS_SIZE + 2] = "nul"
  PROVE  /\ Address!Shown(s) = <<"Q">> \o b
         /\ Len(Address!Shown(s)) < Len(s)
<1> DEFINE n == 2 * ADDRESS_SIZE
           ends == {i \in 1..Len(s) : s[i] = "nul"}
<1>1. n \in Nat /\ Len(s) \in Nat
  BY AddressAssumption, LenProperties
<1>2. ASSUME NEW i \in 1..(n + 1) PROVE s[i] = (<<"Q">> \o b)[i] /\ s[i] # "nul"
  <2>1. <<"Q">> \in Seq({"Q"} \cup Letters) /\ b \in Seq({"Q"} \cup Letters)
    BY SeqMonotonic
  <2>2. (<<"Q">> \o b)[i] = IF i <= 1 THEN "Q" ELSE b[i - 1]
    BY <1>1, <2>1, ConcatProperties
  <2>3. CASE i = 1
    BY <2>2, <2>3
  <2>4. CASE i # 1
    <3>1. PICK j \in 1..n : j = i - 1
      BY <1>1, <2>4
    <3>2. b[j] = s[j + 1] /\ b[j] # "nul"
      BY <3>1, BodyCells
    <3> QED BY <1>1, <2>2, <2>4, <3>1, <3>2
  <2> QED BY <2>3, <2>4
<1>3. n + 2 \in ends /\ \A i \in ends : n + 2 <= i
  BY <1>1, <1>2
<1>4. \A i \in ends : (\A j \in ends : i <= j) => i = n + 2
  BY <1>1, <1>3
<1> HIDE DEF ends
<1>5. (CHOOSE i \in ends : \A j \in ends : i <= j) = n + 2
  BY <1>3, <1>4
<1>6. Address!Shown(s) = SubSeq(s, 1, n + 2 - 1)
  <2> DEFINE first == CHOOSE i \in ends : \A j \in ends : i <= j
  <2>1. Address!Shown(s) = IF ends = {} THEN s ELSE SubSeq(s, 1, first - 1)
    BY DEF ends, Address!Shown, Address!NUL
  <2>2. first = n + 2
    BY <1>5
  <2> HIDE DEF first
  <2> QED BY <1>3, <2>1, <2>2
<1>7. Address!Shown(s) = SubSeq(s, 1, n + 1)
  BY <1>1, <1>6
<1>8. /\ SubSeq(s, 1, n + 1) \in Seq(Cells)
      /\ Len(SubSeq(s, 1, n + 1)) = n + 1
      /\ \A i \in 1..(n + 1) : SubSeq(s, 1, n + 1)[i] = s[i]
  BY <1>1, SubSeqProperties
<1>9. /\ <<"Q">> \o b \in Seq(Cells) /\ Len(<<"Q">> \o b) = n + 1
  <2>1. Letters \subseteq Cells /\ "Q" \in Cells
    BY DEF Cells
  <2>2. b \in Seq(Cells) /\ <<"Q">> \in Seq(Cells)
    BY <2>1, SeqMonotonic
  <2> QED BY <1>1, <2>2, ConcatProperties
<1>10. SubSeq(s, 1, n + 1) = <<"Q">> \o b
  BY <1>2, <1>8, <1>9, SeqEqual
<1> QED BY <1>1, <1>7, <1>8, <1>10

\* Nothing of a buffer is shown before the checksum is in it, nor when it
\* could not be computed (address.c:117-154).
THEOREM NothingTooEarly == Spec => []NothingBeforeChecksum
<1>1. (kind = "address" => AddressInv) => NothingBeforeChecksum
  BY EndedShowsNothing
     DEF NothingBeforeChecksum, Address!NothingBeforeChecksum, AddressInv
<1> QED BY <1>1, AddressInvariance, PTL

\* An address that the caller is told was formatted is the checksummed form of
\* these bytes, whole and ended, in a buffer of any size (address.c:117-154).
THEOREM AddressIsChecksummed == Spec => []FormattedIsChecksummed
<1>1. (kind = "address" => AddressInv) => FormattedIsChecksummed
  <2> SUFFICES ASSUME kind = "address", AddressInv, pc = "true"
               PROVE  /\ Address!Shown(out) = Address!Checksummed(address)
                      /\ Len(Address!Shown(out)) < out_len
    BY DEF FormattedIsChecksummed, Address!FormattedIsChecksummed
  <2>1. Address!Checksummed(address) = <<"Q">> \o ChecksumText(address)
    <3>1. ChecksumText(address) =
            [i \in 1..(2 * ADDRESS_SIZE) |->
               IF Shake256(HexText(address))[i] >= 8
                 THEN Address!Upper[1 + Address!Nibble(address, i)]
                 ELSE HexText(address)[i]]
      BY DEF ChecksumText, HexText
    <3> QED BY <3>1 DEF Address!Checksummed, Address!BodySize, HexText
  <2> QED BY <2>1, EndedShowsLine, TextsFillBody DEF AddressInv
<1> QED BY <1>1, AddressInvariance, PTL

-----------------------------------------------------------------------------
(* The walk through a call *)

\* A slot is eight groups.
LEMMA Sizes ==
  /\ ABI_SELECTOR_SIZE \in Nat \ {0} /\ ABI_SLOT_SIZE \in Nat \ {0}
  /\ GROUP_SIZE \in Nat \ {0} /\ ABI_MAX_PARAMS \in Nat
  /\ Call!Groups = 8
<1>1. (8 * GROUP_SIZE) \div GROUP_SIZE = 8
  BY CallAssumption
<1> QED BY <1>1, CallAssumption DEF Call!Groups

\* As many slots as there are, or as are kept.
LEMMA KeptSlots ==
  ASSUME NEW d \in Seq(0..255), Call!abi_calldata_parse(d).ok
  PROVE  /\ Len(d) >= ABI_SELECTOR_SIZE
         /\ Call!SlotsIn(d) \in Nat
         /\ Len(d) = ABI_SELECTOR_SIZE + ABI_SLOT_SIZE * Call!SlotsIn(d)
         /\ Call!ParamCount(Len(d)) = Call!Least(Call!SlotsIn(d), ABI_MAX_PARAMS)
         /\ Call!ParamCount(Len(d)) \in 0..Call!SlotsIn(d)
         /\ Call!abi_calldata_parse(d) =
              [ok |-> TRUE,
               selector |-> SubSeq(d, 1, ABI_SELECTOR_SIZE),
               params |-> [i \in 1..Call!ParamCount(Len(d)) |-> Call!Param(d, i)]]
<1>1. /\ Len(d) >= ABI_SELECTOR_SIZE
      /\ (Len(d) - ABI_SELECTOR_SIZE) % ABI_SLOT_SIZE = 0
      /\ Call!abi_calldata_parse(d) =
           [ok |-> TRUE,
            selector |-> SubSeq(d, 1, ABI_SELECTOR_SIZE),
            params |-> [i \in 1..Call!ParamCount(Len(d)) |-> Call!Param(d, i)]]
  <2>1. ~ (\/ Len(d) < ABI_SELECTOR_SIZE
           \/ (Len(d) - ABI_SELECTOR_SIZE) % ABI_SLOT_SIZE # 0)
    BY Zenon DEF Call!abi_calldata_parse, Call!NoCalldata
  <2>2. Len(d) \in Nat /\ ABI_SELECTOR_SIZE \in Nat
    BY CallAssumption, LenProperties
  <2> QED BY <2>1, <2>2 DEF Call!abi_calldata_parse
<1>2. PICK n \in Nat : n = Len(d) - ABI_SELECTOR_SIZE
  BY <1>1, CallAssumption, LenProperties
<1>3. /\ n \div ABI_SLOT_SIZE \in Nat
      /\ n = ABI_SLOT_SIZE * (n \div ABI_SLOT_SIZE) + (n % ABI_SLOT_SIZE)
  BY Sizes
<1>4. Call!SlotsIn(d) = n \div ABI_SLOT_SIZE
  BY <1>2 DEF Call!SlotsIn
<1>5. Call!ParamCount(Len(d)) =
        IF Call!SlotsIn(d) > ABI_MAX_PARAMS THEN ABI_MAX_PARAMS ELSE Call!SlotsIn(d)
  BY DEF Call!ParamCount, Call!SlotsIn
<1>6. Len(d) = ABI_SELECTOR_SIZE + ABI_SLOT_SIZE * Call!SlotsIn(d)
  <2>1. n % ABI_SLOT_SIZE = 0 /\ Len(d) = ABI_SELECTOR_SIZE + n
    BY <1>1, <1>2, Sizes, LenProperties
  <2>2. PICK q \in Nat : q = n \div ABI_SLOT_SIZE
    BY <1>3
  <2>3. n = ABI_SLOT_SIZE * q + (n % ABI_SLOT_SIZE)
    BY <1>3, <2>2
  <2>4. PICK m \in Nat : m = ABI_SLOT_SIZE * q
    BY Sizes
  <2>5. n = m
    BY <2>1, <2>3, <2>4
  <2> QED BY <1>4, <2>1, <2>2, <2>4, <2>5
<1>7. Call!SlotsIn(d) \in Nat
  BY <1>3, <1>4
<1> QED BY <1>1, <1>5, <1>6, <1>7, CallAssumption DEF Call!Least

\* The screens so far, the last of them first in none: the selector, then the
\* parameters in their order.
Screens(n) ==
  [k \in 1..n |-> IF k = 1 THEN Call!format_hex(calldata.selector)
                  ELSE Call!ParameterText(calldata.params[k - 1])]

CallInv ==
  /\ data \in Calldatas
  /\ pc \in {"call", "selector", "param", "review"}
  /\ g_param_index \in Nat
  /\ pc = "call" => calldata = Call!NoCalldata /\ shown = <<>>
  /\ pc # "call" => calldata = Call!abi_calldata_parse(data)
  /\ pc = "selector" => calldata.ok /\ shown = Screens(1)
  /\ pc = "param" => /\ calldata.ok
                     /\ g_param_index < Len(calldata.params)
                     /\ shown = Screens(g_param_index + 2)
  /\ pc = "review" => IF calldata.ok THEN shown = Screens(1 + Len(calldata.params))
                      ELSE shown = <<>>

\* The next screen is one more.
LEMMA OneMoreScreen ==
  ASSUME NEW n \in Nat \ {0}
  PROVE  Append(Screens(n), Call!ParameterText(calldata.params[n])) = Screens(n + 1)
<1> DEFINE S == {Screens(n + 1)[k] : k \in 1..(n + 1)}
<1>1. Screens(n + 1) \in [1..(n + 1) -> S]
  BY DEF Screens
<1>2. Screens(n) \in [1..n -> S]
  <2>1. ASSUME NEW k \in 1..n PROVE Screens(n)[k] = Screens(n + 1)[k] /\ k \in 1..(n + 1)
    BY DEF Screens
  <2>2. Screens(n) = [k \in 1..n |-> Screens(n)[k]]
    BY DEF Screens
  <2> QED BY <2>1, <2>2
<1>3. /\ Screens(n + 1)[n + 1] = Call!ParameterText(calldata.params[n])
      /\ Call!ParameterText(calldata.params[n]) \in S
  <2>1. n + 1 \in 1..(n + 1) /\ n + 1 # 1 /\ n + 1 - 1 = n
    OBVIOUS
  <2>2. Screens(n + 1)[n + 1] = Call!ParameterText(calldata.params[n])
    BY <2>1 DEF Screens
  <2>3. Screens(n + 1)[n + 1] \in S
    BY <2>1
  <2> QED BY <2>2, <2>3
<1>4. \A k \in 1..n : Screens(n)[k] = Screens(n + 1)[k]
  BY DEF Screens
<1> DEFINE t == Call!ParameterText(calldata.params[n])
<1> HIDE DEF S, t
<1>5. /\ Screens(n) \in Seq(S) /\ Len(Screens(n)) = n
      /\ Screens(n + 1) \in Seq(S) /\ Len(Screens(n + 1)) = n + 1
  BY <1>1, <1>2
<1>6. /\ Append(Screens(n), t) \in Seq(S)
      /\ Len(Append(Screens(n), t)) = n + 1
      /\ \A k \in 1..n : Append(Screens(n), t)[k] = Screens(n)[k]
      /\ Append(Screens(n), t)[n + 1] = t
  <2>1. t \in S
    BY <1>3 DEF t
  <2> QED BY <1>5, <2>1, AppendProperties
<1>7. \A k \in 1..(n + 1) : Append(Screens(n), t)[k] = Screens(n + 1)[k]
  BY <1>3, <1>4, <1>6 DEF t
<1>8. Append(Screens(n), t) = Screens(n + 1)
  BY <1>5, <1>6, <1>7, SeqEqual
<1> QED BY <1>8 DEF t

\* A call that was parsed is walked as long as it has parameters.
LEMMA WalkedCall ==
  ASSUME CallInv, pc # "call", calldata.ok
  PROVE  /\ data \in Seq(0..255)
         /\ calldata.selector = SubSeq(data, 1, ABI_SELECTOR_SIZE)
         /\ Len(calldata.params) = Call!ParamCount(Len(data))
         /\ Len(calldata.params) \in 0..Call!SlotsIn(data)
         /\ Call!SlotsIn(data) \in Nat
         /\ \A i \in 1..Len(calldata.params) : calldata.params[i] = Call!Param(data, i)
<1>1. data \in Seq(0..255)
  BY CallAssumption DEF CallInv
<1>2. calldata = Call!abi_calldata_parse(data)
  BY DEF CallInv
<1>3. PICK n : n = Call!ParamCount(Len(data))
  OBVIOUS
<1>4. /\ Call!SlotsIn(data) \in Nat /\ n \in 0..Call!SlotsIn(data)
      /\ calldata = [ok |-> TRUE, selector |-> SubSeq(data, 1, ABI_SELECTOR_SIZE),
                     params |-> [i \in 1..n |-> Call!Param(data, i)]]
  BY <1>1, <1>2, <1>3, KeptSlots
<1>5. n \in Nat
  BY <1>4
<1>6. /\ calldata.selector = SubSeq(data, 1, ABI_SELECTOR_SIZE)
      /\ calldata.params = [i \in 1..n |-> Call!Param(data, i)]
  BY <1>4
<1>7. Len(calldata.params) = n
  BY <1>5, <1>6
<1> QED BY <1>1, <1>3, <1>4, <1>6, <1>7

\* The invariant holds before the call is parsed.
LEMMA CallStarts ==
  ASSUME Call!Init PROVE CallInv
BY DEF Call!Init, CallInv

\* The call is parsed once; one that is none goes to the review as it is.
LEMMA CallStep ==
  ASSUME CallInv, Call!Call PROVE CallInv'
<1>1. /\ pc = "call" /\ data' = data /\ data \in Calldatas
      /\ calldata' = Call!abi_calldata_parse(data)
      /\ g_param_index' = 0 /\ shown = <<>>
  BY DEF Call!Call, CallInv
<1>2. CASE ~calldata'.ok
  <2>1. pc' = "review" /\ shown' = <<>>
    BY <1>1, <1>2 DEF Call!Call, Call!Review
  <2> QED BY <1>1, <1>2, <2>1 DEF CallInv
<1>3. CASE calldata'.ok
  <2>1. /\ pc' = "selector"
        /\ shown' = Append(<<>>, Call!format_hex(calldata'.selector))
    BY <1>1, <1>3 DEF Call!Call
  <2>2. PICK x : x = Call!format_hex(calldata'.selector)
    OBVIOUS
  <2>3. Append(<<>>, x) = <<x>>
    OBVIOUS
  <2>4. Screens(1)' = <<x>>
    <3>1. \A k \in 1..1 : k = 1
      OBVIOUS
    <3>2. Screens(1)' = [k \in 1..1 |-> x]
      BY <2>2, <3>1 DEF Screens
    <3>3. <<x>> = [k \in 1..1 |-> x]
      OBVIOUS
    <3> QED BY <3>2, <3>3
  <2> QED BY <1>1, <1>3, <2>1, <2>2, <2>3, <2>4 DEF CallInv
<1> QED BY <1>2, <1>3

\* A confirmation shows the parameter behind those shown, or the review behind
\* the last.
LEMMA ConfirmStep ==
  ASSUME CallInv, Call!Confirm PROVE CallInv'
<1> DEFINE m == Len(calldata.params)
<1>1. /\ data \in Calldatas /\ pc \in {"selector", "param"}
      /\ calldata = Call!abi_calldata_parse(data) /\ calldata.ok
      /\ UNCHANGED <<data, calldata>>
  BY DEF CallInv, Call!Confirm
<1>2. m \in Nat
  BY <1>1, WalkedCall
<1>3. PICK i \in Nat : /\ i = g_param_index' /\ i <= m
                       /\ shown = Screens(i + 1)
  <2>1. CASE pc = "selector"
    <3>1. g_param_index' = 0 /\ shown = Screens(1)
      BY <2>1 DEF CallInv, Call!Confirm, Call!NextIndex
    <3>2. 0 + 1 = 1
      OBVIOUS
    <3> QED BY <1>2, <3>1, <3>2
  <2>2. CASE pc = "param"
    <3>1. /\ g_param_index' = g_param_index + 1 /\ g_param_index \in Nat
          /\ g_param_index < m /\ shown = Screens(g_param_index + 2)
      BY <2>2 DEF CallInv, Call!Confirm, Call!NextIndex
    <3>2. g_param_index + 2 = (g_param_index + 1) + 1
      BY <3>1
    <3>3. shown = Screens((g_param_index + 1) + 1)
      BY <3>1, <3>2
    <3> QED BY <1>2, <3>1, <3>3
  <2> QED BY <1>1, <2>1, <2>2
<1>4. \A k : Screens(k)' = Screens(k)
  BY <1>1 DEF Screens
<1>5. CASE i < m
  <2>1. /\ pc' = "param"
        /\ shown' = Append(shown, Call!ParameterText(calldata.params[i + 1]))
    BY <1>1, <1>3, <1>5 DEF Call!Confirm, Call!ShowParameter
  <2>2. PICK n \in Nat \ {0} : n = i + 1
    OBVIOUS
  <2>3. shown' = Screens(n + 1)
    BY <1>3, <2>1, <2>2, OneMoreScreen
  <2>4. n + 1 = i + 2
    BY <2>2
  <2>5. shown' = Screens(i + 2)'
    BY <1>4, <2>3, <2>4
  <2> HIDE DEF m
  <2>6. i < m'
    BY <1>1, <1>5 DEF m
  <2> QED BY <1>1, <1>3, <2>1, <2>5, <2>6 DEF CallInv, m
<1>6. CASE ~ (i < m)
  <2>1. pc' = "review" /\ shown' = shown
    BY <1>1, <1>3, <1>6 DEF Call!Confirm, Call!Review
  <2>2. i + 1 = 1 + m
    BY <1>2, <1>3, <1>6
  <2>3. shown' = Screens(1 + m)
    BY <1>3, <2>1, <2>2
  <2>4. shown' = (Screens(1 + m))'
    BY <1>1, <1>4, <2>3
  <2> QED BY <1>1, <1>3, <2>1, <2>4 DEF CallInv
<1> QED BY <1>5, <1>6

\* So it always holds of a walk.
LEMMA CallInvariance == Spec => [](kind = "call" => CallInv)
<1>1. Init => (kind = "call" => CallInv)
  BY CallStarts DEF Init
<1>2. (kind = "call" => CallInv) /\ [Next]_vars => (kind = "call" => CallInv)'
  <2> SUFFICES ASSUME kind = "call" => CallInv, [Next]_vars, kind' = "call"
               PROVE  CallInv'
    OBVIOUS
  <2>1. CASE WalkCall
    <3>1. CallInv
      BY <2>1 DEF WalkCall
    <3> QED BY <2>1, <3>1, CallStep, ConfirmStep DEF WalkCall, Call!Next
  <2>2. CASE WriteNumber \/ WriteAddress
    BY <2>2 DEF WriteNumber, WriteAddress
  <2>3. CASE UNCHANGED vars
    BY <2>3 DEF vars, callVars, CallInv, Screens
  <2> QED BY <2>1, <2>2, <2>3 DEF Next
<1> QED BY <1>1, <1>2, PTL DEF Spec

\* A walk that ends in the review has shown the selector and every parameter
\* that was kept, of a call of whole slots (sign_tx.c:50-65,
\* ui_confirm_parameter_selector.c:84-103).
THEOREM WalkEndsBehindLast == Spec => []WalkIsComplete
<1>1. (kind = "call" => CallInv) => WalkIsComplete
  <2> SUFFICES ASSUME kind = "call", CallInv, pc = "review", calldata.ok
               PROVE  /\ Len(shown) = 1 + Call!Least(Call!SlotsIn(data), ABI_MAX_PARAMS)
                      /\ Len(data) = ABI_SELECTOR_SIZE
                                       + ABI_SLOT_SIZE * Call!SlotsIn(data)
    BY DEF WalkIsComplete, Call!WalkIsComplete
  <2>1. /\ data \in Seq(0..255) /\ Call!abi_calldata_parse(data).ok
        /\ shown = Screens(1 + Len(calldata.params))
    BY WalkedCall DEF CallInv
  <2>2. PICK n \in Nat : n = 1 + Len(calldata.params)
    BY WalkedCall
  <2>3. Len(shown) = n
    BY <2>1, <2>2 DEF Screens
  <2> QED BY <2>1, <2>2, <2>3, WalkedCall, KeptSlots
<1> QED BY <1>1, CallInvariance, PTL

-----------------------------------------------------------------------------
(* Digits *)

HexChars == {Call!HexUpper[n] : n \in 1..16}

\* No digit is a colon.
LEMMA HexCharsAreDigits ==
  ASSUME NEW n \in 1..16
  PROVE  Call!HexUpper[n] \in HexChars /\ Call!HexUpper[n] # ":"
BY DEF HexChars, Call!HexUpper

\* No digit is the colon between two numbers.
LEMMA NoColonInHex == ":" \notin HexChars
BY HexCharsAreDigits DEF HexChars

\* Two digits a byte, the first two of a zero byte zeros.
LEMMA FormatHexIs ==
  ASSUME NEW b \in Seq(0..255)
  PROVE  /\ Call!format_hex(b) \in Seq(HexChars)
         /\ Len(Call!format_hex(b)) = 2 * Len(b)
         /\ \A i \in 1..(2 * Len(b)) :
              /\ (i + 1) \div 2 \in 1..Len(b)
              /\ Call!format_hex(b)[i] =
                   Call!HexUpper[1 + (IF i % 2 = 1 THEN b[(i + 1) \div 2] \div 16
                                      ELSE b[(i + 1) \div 2] % 16)]
              /\ b[(i + 1) \div 2] = 0 => Call!format_hex(b)[i] = "0"
<1>1. Len(b) \in Nat
  BY LenProperties
<1>2. PICK n \in Nat : n = 2 * Len(b)
  BY <1>1
<1>3. Call!format_hex(b) =
        [i \in 1..n |-> Call!HexUpper[1 + (IF i % 2 = 1 THEN b[(i + 1) \div 2] \div 16
                                           ELSE b[(i + 1) \div 2] % 16)]]
  BY <1>2 DEF Call!format_hex
<1>4. ASSUME NEW i \in 1..n
      PROVE  /\ (i + 1) \div 2 \in 1..Len(b)
             /\ Call!format_hex(b)[i] =
                  Call!HexUpper[1 + (IF i % 2 = 1 THEN b[(i + 1) \div 2] \div 16
                                     ELSE b[(i + 1) \div 2] % 16)]
             /\ b[(i + 1) \div 2] = 0 => Call!format_hex(b)[i] = "0"
             /\ Call!format_hex(b)[i] \in HexChars
  <2>1. (i + 1) \div 2 \in 1..Len(b)
    BY <1>1, <1>2
  <2>2. PICK byte \in 0..255 : byte = b[(i + 1) \div 2]
    BY <2>1, ElementOfSeq
  <2>3. PICK k \in 1..16 : k = 1 + (IF i % 2 = 1 THEN byte \div 16 ELSE byte % 16)
    <3>1. byte \div 16 \in 0..15 /\ byte % 16 \in 0..15
      OBVIOUS
    <3> QED BY <3>1
  <2>4. Call!format_hex(b)[i] = Call!HexUpper[k]
    BY <1>3, <2>2, <2>3
  <2>5. byte = 0 => k = 1
    BY <2>3
  <2>6. Call!HexUpper[1] = "0"
    BY DEF Call!HexUpper
  <2>7. Call!HexUpper[k] \in HexChars
    BY HexCharsAreDigits
  <2> QED BY <2>1, <2>2, <2>3, <2>4, <2>5, <2>6, <2>7
<1>5. Call!format_hex(b) \in [1..n -> HexChars]
  BY <1>3, <1>4
<1>6. Call!format_hex(b) \in Seq(HexChars) /\ Len(Call!format_hex(b)) = n
  BY <1>5
<1> QED BY <1>2, <1>4, <1>6

\* Zeros in front of a number say nothing.
LEMMA ZerosSayNothing ==
  ASSUME NEW C, NEW d \in Seq(C), NEW x \in Seq(C), NEW n \in Nat,
         Len(d) = n + Len(x),
         \A i \in 1..n : d[i] = "0",
         \A i \in 1..Len(x) : d[n + i] = x[i]
  PROVE  Call!Significant(d) = Call!Significant(x)
<1> DEFINE D == {i \in 1..Len(d) : d[i] # "0"}
           X == {i \in 1..Len(x) : x[i] # "0"}
<1>1. Len(d) \in Nat /\ Len(x) \in Nat
  BY LenProperties
<1>2. \A i \in D : i - n \in X
  <2> SUFFICES ASSUME NEW i \in D PROVE i - n \in X
    OBVIOUS
  <2>1. i \in 1..Len(d) /\ ~ (i \in 1..n)
    OBVIOUS
  <2>2. PICK j \in 1..Len(x) : j = i - n
    BY <1>1, <2>1
  <2>3. d[n + j] = x[j] /\ n + j = i
    BY <1>1, <2>2
  <2> QED BY <2>2, <2>3
<1>3. \A j \in X : n + j \in D
  BY <1>1
<1>4. D \subseteq Nat /\ X \subseteq Nat
  BY <1>1
<1>5. Call!Significant(d) =
        IF D = {} THEN <<>>
        ELSE SubSeq(d, CHOOSE i \in D : \A j \in D : i <= j, Len(d))
  BY DEF Call!Significant
<1>6. Call!Significant(x) =
        IF X = {} THEN <<>>
        ELSE SubSeq(x, CHOOSE i \in X : \A j \in X : i <= j, Len(x))
  BY DEF Call!Significant
<1>7. \A j \in X : j \in 1..Len(x)
  OBVIOUS
<1> HIDE DEF D, X
<1>8. CASE X = {}
  <2>1. D = {}
    BY <1>2, <1>8
  <2> QED BY <1>5, <1>6, <1>8, <2>1
<1>9. CASE X # {}
  <2>1. PICK m \in X : \A j \in X : m <= j
    BY <1>4, <1>9, LeastNatural
  <2>2. PICK l \in D : l = n + m
    BY <1>3
  <2>3. \A i \in D : l <= i
    <3> SUFFICES ASSUME NEW i \in D PROVE l <= i
      OBVIOUS
    <3>1. m <= i - n
      BY <1>2, <2>1
    <3> QED BY <1>4, <2>2, <3>1
  <2>4. /\ (CHOOSE i \in X : \A j \in X : i <= j) = m
        /\ (CHOOSE i \in D : \A j \in D : i <= j) = l
    BY <1>4, <2>1, <2>3, LeastIsChosen
  <2>5. /\ Call!Significant(x) = SubSeq(x, m, Len(x))
        /\ Call!Significant(d) = SubSeq(d, l, Len(d))
    BY <1>5, <1>6, <1>9, <2>2, <2>4
  <2>6. m \in 1..Len(x) /\ l \in 1..Len(d)
    BY <1>1, <1>7, <2>2
  <2>7. /\ SubSeq(x, m, Len(x)) \in Seq(C)
        /\ Len(SubSeq(x, m, Len(x))) = Len(x) - m + 1
        /\ \A i \in 1..(Len(x) - m + 1) : SubSeq(x, m, Len(x))[i] = x[m + i - 1]
    BY <1>1, <2>6, SubSeqProperties, ElementOfSeq
  <2>8. /\ SubSeq(d, l, Len(d)) \in Seq(C)
        /\ Len(SubSeq(d, l, Len(d))) = Len(d) - l + 1
        /\ \A i \in 1..(Len(d) - l + 1) : SubSeq(d, l, Len(d))[i] = d[l + i - 1]
    BY <1>1, <2>6, SubSeqProperties, ElementOfSeq
  <2>9. Len(d) - l + 1 = Len(x) - m + 1
    BY <1>1, <2>2, <2>6
  <2>10. ASSUME NEW i \in 1..(Len(x) - m + 1)
         PROVE  SubSeq(d, l, Len(d))[i] = SubSeq(x, m, Len(x))[i]
    <3>1. PICK j \in 1..Len(x) : j = m + i - 1
      BY <1>1, <2>6
    <3>2. l + i - 1 = n + j
      BY <1>1, <2>2, <2>6, <3>1
    <3>3. d[n + j] = x[j]
      OBVIOUS
    <3> QED BY <2>7, <2>8, <2>9, <3>1, <3>2, <3>3
  <2>11. SubSeq(d, l, Len(d)) = SubSeq(x, m, Len(x))
    BY <2>7, <2>8, <2>9, <2>10, SeqEqual
  <2> QED BY <2>5, <2>11
<1> QED BY <1>8, <1>9

\* A number of zeros is as good as none.
LEMMA ZerosAreNothing ==
  ASSUME NEW C, NEW d \in Seq(C), \A i \in 1..Len(d) : d[i] = "0"
  PROVE  Call!Significant(d) = <<>>
<1>1. {i \in 1..Len(d) : d[i] # "0"} = {}
  OBVIOUS
<1> QED BY <1>1 DEF Call!Significant

\* A group is shown as its number, without zero bytes in front of it.
LEMMA SplitTells ==
  ASSUME NEW g \in Seq(0..255), Len(g) = GROUP_SIZE
  PROVE  /\ Call!Split(g) \in Seq(HexChars)
         /\ Len(Call!Split(g)) \in 1..(2 * GROUP_SIZE)
         /\ Call!Significant(Call!Split(g)) = Call!Significant(Call!format_hex(g))
<1> DEFINE d == Call!format_hex(g)
<1>1. PICK len \in Nat \ {0} : len = Len(g)
  BY Sizes
<1>2. d \in Seq(HexChars) /\ Len(d) = 2 * len
  BY <1>1, FormatHexIs
<1>3. CASE Call!IsZero(g)
  <2>1. Call!Split(g) = <<"0", "0">>
    BY <1>3 DEF Call!Split
  <2>2. "0" \in HexChars
    <3>1. Call!HexUpper[1] = "0"
      BY DEF Call!HexUpper
    <3> QED BY <3>1, HexCharsAreDigits
  <2>3. <<"0", "0">> \in Seq(HexChars) /\ Len(<<"0", "0">>) = 2
    BY <2>2
  <2>4. \A i \in 1..Len(d) : d[i] = "0"
    <3>1. \A i \in 1..len : g[i] = 0
      BY <1>1, <1>3 DEF Call!IsZero
    <3> QED BY <1>1, <1>2, <3>1, FormatHexIs
  <2> HIDE DEF d
  <2>6. Call!Significant(d) = <<>>
    BY <1>2, <2>4, ZerosAreNothing
  <2>7. Call!Significant(<<"0", "0">>) = <<>>
    <3>1. \A i \in 1..Len(<<"0", "0">>) : <<"0", "0">>[i] = "0"
      OBVIOUS
    <3> QED BY <2>3, <3>1, ZerosAreNothing
  <2> QED BY <1>1, <2>1, <2>3, <2>6, <2>7 DEF d
<1>4. CASE ~ Call!IsZero(g)
  <2> DEFINE N == {i \in 1..len : g[i] # 0}
  <2>1. N # {} /\ N \subseteq Nat
    BY <1>1, <1>4 DEF Call!IsZero
  <2> HIDE DEF N
  <2>2. PICK m \in N : \A i \in N : m <= i
    BY <2>1, LeastNatural
  <2>3. m \in 1..len /\ g[m] # 0 /\ \A i \in 1..(m - 1) : g[i] = 0
    BY <2>2 DEF N
  <2>4. Call!IsZero(SubSeq(g, 1, m - 1))
    <3>1. /\ Len(SubSeq(g, 1, m - 1)) = m - 1
          /\ \A i \in 1..(m - 1) : SubSeq(g, 1, m - 1)[i] = g[i]
      BY <1>1, <2>3, SubSeqProperties, ElementOfSeq
    <3> QED BY <2>3, <3>1 DEF Call!IsZero
  <2>5. PICK f \in 1..len :
          /\ Call!Split(g) = Call!format_hex(SubSeq(g, f, Len(g)))
          /\ Call!IsZero(SubSeq(g, 1, f - 1))
    <3>1. PICK f \in 1..len :
            /\ f = CHOOSE i \in 1..Len(g) :
                     g[i] # 0 /\ Call!IsZero(SubSeq(g, 1, i - 1))
            /\ Call!IsZero(SubSeq(g, 1, f - 1))
      BY <1>1, <2>3, <2>4
    <3>2. Call!Split(g) = Call!format_hex(SubSeq(g, f, Len(g)))
      BY <1>4, <3>1 DEF Call!Split
    <3> QED BY <3>1, <3>2
  <2>6. \A i \in 1..(f - 1) : g[i] = 0
    <3>1. /\ Len(SubSeq(g, 1, f - 1)) = f - 1
          /\ \A i \in 1..(f - 1) : SubSeq(g, 1, f - 1)[i] = g[i]
      BY <1>1, SubSeqProperties, ElementOfSeq
    <3> QED BY <2>5, <3>1 DEF Call!IsZero
  <2> DEFINE h == SubSeq(g, f, Len(g))
             x == Call!format_hex(h)
  <2>7. Call!Split(g) = x
    BY <2>5
  <2>8. /\ h \in Seq(0..255) /\ Len(h) = len - f + 1
        /\ \A i \in 1..(len - f + 1) : h[i] = g[f + i - 1]
    <3>1. /\ Len(g) \in Int /\ f \in Int /\ f <= Len(g)
          /\ \A i \in f..Len(g) : g[i] \in 0..255
      <4>1. Len(g) \in Int /\ f \in Int /\ f <= Len(g) /\ 1 <= f
        BY <1>1
      <4>2. ASSUME NEW i \in f..Len(g) PROVE g[i] \in 0..255
        <5>1. i \in 1..Len(g)
          BY <4>1
        <5> QED BY <5>1, ElementOfSeq
      <4> QED BY <4>1, <4>2
    <3>2. /\ h \in Seq(0..255)
          /\ Len(h) = IF f <= Len(g) THEN Len(g) - f + 1 ELSE 0
          /\ \A i \in 1..(Len(g) - f + 1) : h[i] = g[f + i - 1]
      <4> HIDE DEF h
      <4>1. PICK t : t = SubSeq(g, f, Len(g))
        OBVIOUS
      <4>2. /\ t \in Seq(0..255)
            /\ Len(t) = IF f <= Len(g) THEN Len(g) - f + 1 ELSE 0
            /\ \A i \in 1..(Len(g) - f + 1) : t[i] = g[f + i - 1]
        BY <3>1, <4>1, SubSeqProperties
      <4> QED BY <4>1, <4>2 DEF h
    <3> QED BY <1>1, <3>1, <3>2
  <2> HIDE DEF h
  <2>9. /\ x \in Seq(HexChars) /\ Len(x) = 2 * (len - f + 1)
        /\ \A i \in 1..(2 * (len - f + 1)) :
             /\ (i + 1) \div 2 \in 1..(len - f + 1)
             /\ x[i] = Call!HexUpper[1 + (IF i % 2 = 1 THEN h[(i + 1) \div 2] \div 16
                                          ELSE h[(i + 1) \div 2] % 16)]
    BY <2>8, FormatHexIs
  <2>10. /\ \A i \in 1..(2 * len) :
              /\ (i + 1) \div 2 \in 1..len
              /\ d[i] = Call!HexUpper[1 + (IF i % 2 = 1 THEN g[(i + 1) \div 2] \div 16
                                           ELSE g[(i + 1) \div 2] % 16)]
              /\ g[(i + 1) \div 2] = 0 => d[i] = "0"
    BY <1>1, FormatHexIs
  <2> HIDE DEF d, x
  <2>11. ASSUME NEW i \in 1..(2 * (f - 1)) PROVE d[i] = "0"
    <3>1. i \in 1..(2 * len) /\ (i + 1) \div 2 \in 1..(f - 1)
      BY <2>5
    <3> QED BY <2>6, <2>10, <3>1
  <2>12. ASSUME NEW i \in 1..(2 * (len - f + 1)) PROVE d[2 * (f - 1) + i] = x[i]
    <3>1. PICK k \in 1..(2 * len) : k = 2 * (f - 1) + i
      OBVIOUS
    <3>2. /\ (k + 1) \div 2 = f + ((i + 1) \div 2) - 1
          /\ (k % 2 = 1) <=> (i % 2 = 1)
      BY <3>1
    <3>3. PICK q \in 1..(len - f + 1) : q = (i + 1) \div 2
      BY <2>9
    <3>4. h[q] = g[f + q - 1]
      BY <2>8
    <3>5. h[(i + 1) \div 2] = g[(k + 1) \div 2]
      BY <3>2, <3>3, <3>4
    <3>6. d[k] = x[i]
      BY <2>9, <2>10, <3>2, <3>5
    <3> QED BY <3>1, <3>6
  <2>13. PICK n \in Nat : n = 2 * (f - 1)
    OBVIOUS
  <2>14. Call!Significant(d) = Call!Significant(x)
    <3>1. x \in Seq(HexChars) /\ Len(d) = n + Len(x)
      BY <1>2, <2>9, <2>13
    <3>2. \A i \in 1..n : d[i] = "0"
      BY <2>11, <2>13
    <3>3. \A i \in 1..Len(x) : d[n + i] = x[i]
      BY <2>9, <2>12, <2>13
    <3> QED BY <1>2, <3>1, <3>2, <3>3, ZerosSayNothing
  <2>15. Len(x) \in 1..(2 * GROUP_SIZE)
    BY <1>1, <2>9
  <2> QED BY <2>7, <2>9, <2>14, <2>15 DEF d
<1> QED BY <1>3, <1>4

-----------------------------------------------------------------------------
(* The line of a parameter *)

LineChars == HexChars \cup {":"}

\* A group is GROUP_SIZE bytes of the slot.
LEMMA GroupBytes ==
  ASSUME NEW p \in Seq(0..255), Len(p) = ABI_SLOT_SIZE, NEW k \in 1..8
  PROVE  Call!Group(p, k) \in Seq(0..255) /\ Len(Call!Group(p, k)) = GROUP_SIZE
<1>1. PICK a \in Nat : a = (k - 1) * GROUP_SIZE /\ k * GROUP_SIZE = a + GROUP_SIZE
  BY Sizes
<1>2. a + GROUP_SIZE <= Len(p) /\ Len(p) \in Nat /\ GROUP_SIZE \in Nat \ {0}
  <2>1. k * GROUP_SIZE <= 8 * GROUP_SIZE
    BY Sizes
  <2>2. ABI_SLOT_SIZE = 8 * GROUP_SIZE
    BY CallAssumption
  <2> QED BY <1>1, <2>1, <2>2, Sizes
<1>3. Call!Group(p, k) = SubSeq(p, a + 1, a + GROUP_SIZE)
  BY <1>1 DEF Call!Group
<1>4. ASSUME NEW i \in (a + 1)..(a + GROUP_SIZE) PROVE p[i] \in 0..255
  <2>1. i \in 1..Len(p)
    BY <1>2
  <2> QED BY <2>1, ElementOfSeq
<1>5. PICK l \in Nat : l = a + GROUP_SIZE /\ a + 1 <= l /\ l - (a + 1) + 1 = GROUP_SIZE
  BY <1>2
<1>6. /\ SubSeq(p, a + 1, l) \in Seq(0..255)
      /\ Len(SubSeq(p, a + 1, l)) = IF a + 1 <= l THEN l - (a + 1) + 1 ELSE 0
  BY <1>4, <1>5, SubSeqProperties
<1> QED BY <1>3, <1>5, <1>6

\* A line is the groups' numbers one behind the other, each but the fourth and
\* the last with a colon behind it.
LEMMA LinePlaces ==
  ASSUME NEW p \in Seq(0..255), Len(p) = ABI_SLOT_SIZE
  PROVE  /\ Call!ParameterText(p) \in Seq(LineChars)
         /\ \E at \in [0..8 -> Nat] :
              /\ at[0] = 0
              /\ Len(Call!ParameterText(p)) = at[8] - 1
              /\ \A k \in 1..8 :
                   /\ at[k] = at[k - 1] + Len(Call!Split(Call!Group(p, k)))
                                + (IF k = 4 THEN 0 ELSE 1)
                   /\ at[k - 1] + Len(Call!Split(Call!Group(p, k)))
                        <= Len(Call!ParameterText(p))
                   /\ \A i \in 1..Len(Call!Split(Call!Group(p, k))) :
                        Call!ParameterText(p)[at[k - 1] + i]
                          = Call!Split(Call!Group(p, k))[i]
                   /\ k \notin {4, 8} => Call!ParameterText(p)[at[k]] = ":"
<1> DEFINE g(k) == Call!Split(Call!Group(p, k))
           part(k) == g(k) \o Call!Colon(k)
           parts == [k \in 1..8 |-> part(k)]
           whole == FlattenSeq(parts)
<1>1. ASSUME NEW k \in 1..8
      PROVE  g(k) \in Seq(LineChars) /\ Len(g(k)) \in Nat \ {0}
  <2>1. Call!Group(p, k) \in Seq(0..255) /\ Len(Call!Group(p, k)) = GROUP_SIZE
    BY GroupBytes
  <2>2. g(k) \in Seq(HexChars) /\ Len(g(k)) \in 1..(2 * GROUP_SIZE)
    BY <2>1, SplitTells
  <2>3. HexChars \subseteq LineChars
    BY DEF LineChars
  <2> QED BY <2>2, <2>3, SeqMonotonic, Sizes
<1>2. PICK size : \A k \in 1..8 : size[k] \in Nat \ {0} /\ size[k] = Len(g(k))
  <2> HIDE DEF g
  <2>1. PICK size : size = [k \in 1..8 |-> Len(g(k))]
    OBVIOUS
  <2>2. \A k \in 1..8 : size[k] = Len(g(k))
    BY <2>1
  <2>3. \A k \in 1..8 : size[k] \in Nat \ {0} /\ size[k] = Len(g(k))
    BY <1>1, <2>2
  <2> QED BY <2>3
<1>3. PICK colon : \A k \in 1..8 : colon[k] \in 0..1 /\ colon[k] = IF k = 4 THEN 0 ELSE 1
  <2>1. PICK colon : colon = [k \in 1..8 |-> IF k = 4 THEN 0 ELSE 1]
    OBVIOUS
  <2> QED BY <2>1
<1> HIDE DEF g
<1>4. ASSUME NEW k \in 1..8
      PROVE  /\ part(k) \in Seq(LineChars)
             /\ Len(part(k)) = size[k] + colon[k]
             /\ \A i \in 1..size[k] : part(k)[i] = g(k)[i]
             /\ k # 4 => part(k)[size[k] + 1] = ":"
  <2>1. PICK n \in Nat \ {0} : n = size[k] /\ n = Len(g(k))
    BY <1>2
  <2>2. CASE k = 4
    <3>1. part(k) = g(k)
      BY <1>1, <2>2, ConcatEmptySeq DEF Call!Colon
    <3>2. colon[k] = 0 /\ n + 0 = n
      BY <1>3, <2>2
    <3> QED BY <1>1, <2>1, <2>2, <3>1, <3>2
  <2>3. CASE k # 4
    <3>1. part(k) = g(k) \o <<":">>
      BY <2>3 DEF Call!Colon
    <3>2. <<":">> \in Seq(LineChars) /\ Len(<<":">>) = 1 /\ <<":">>[1] = ":"
      BY DEF LineChars
    <3>3. PICK q : q = g(k) \o <<":">>
      OBVIOUS
    <3>4. /\ q \in Seq(LineChars)
          /\ Len(q) = n + 1
          /\ \A i \in 1..(n + 1) :
               q[i] = IF i <= n THEN g(k)[i] ELSE <<":">>[i - n]
      <4>1. Len(g(k)) = n /\ g(k) \in Seq(LineChars)
        BY <1>1, <2>1
      <4> QED BY <3>2, <3>3, <4>1, ConcatProperties
    <3>5. q[n + 1] = ":"
      <4>1. n + 1 \in 1..(n + 1) /\ ~ (n + 1 <= n) /\ n + 1 - n = 1
        OBVIOUS
      <4> QED BY <3>2, <3>4, <4>1
    <3>6. \A i \in 1..n : q[i] = g(k)[i]
      <4>1. \A i \in 1..n : i \in 1..(n + 1) /\ i <= n
        OBVIOUS
      <4> QED BY <3>4, <4>1
    <3>7. colon[k] = 1
      BY <1>3, <2>3
    <3>8. part(k) = q
      BY <3>1, <3>3
    <3> HIDE DEF part
    <3> QED BY <2>1, <3>4, <3>5, <3>6, <3>7, <3>8
  <2> QED BY <2>2, <2>3
<1> HIDE DEF part
<1>5. parts \in Seq(Seq(LineChars)) /\ Len(parts) = 8 /\ \A k \in 1..8 : parts[k] = part(k)
  <2>1. parts \in [1..8 -> Seq(LineChars)]
    BY <1>4
  <2> QED BY <2>1
<1> HIDE DEF parts
<1>6. PICK at : /\ at \in [0..8 -> Nat] /\ at[0] = 0
                /\ IsPlaced(LineChars, parts, whole, at, 8)
  <2>1. \E at \in [0..Len(parts) -> Nat] :
          at[0] = 0 /\ IsPlaced(LineChars, parts, FlattenSeq(parts), at, Len(parts))
    BY <1>5, FlattenPlaces
  <2> QED BY <1>5, <2>1
<1>7. /\ whole \in Seq(LineChars) /\ at[8] = Len(whole)
      /\ \A k \in 1..8 :
           /\ at[k] = at[k - 1] + Len(parts[k])
           /\ \A i \in 1..Len(parts[k]) : whole[at[k - 1] + i] = parts[k][i]
  BY <1>6 DEF IsPlaced
<1> HIDE DEF whole
<1>at. \A k \in 0..8 : at[k] \in Nat
  BY <1>6
<1>8. ASSUME NEW k \in 1..8
      PROVE  /\ at[k] = at[k - 1] + size[k] + colon[k]
             /\ \A i \in 1..size[k] : whole[at[k - 1] + i] = g(k)[i]
             /\ k # 4 => whole[at[k]] = ":"
  <2>0. PICK n \in Nat \ {0}, c \in 0..1 : n = size[k] /\ c = colon[k]
    BY <1>2, <1>3
  <2>1. PICK a \in Nat, b \in Nat : a = at[k - 1] /\ b = at[k]
    <3>1. k - 1 \in 0..8 /\ k \in 0..8
      OBVIOUS
    <3>2. at[k - 1] \in Nat /\ at[k] \in Nat
      BY <1>at, <3>1
    <3> QED BY <3>2
  <2>2. PICK q : q = parts[k]
    OBVIOUS
  <2>3. /\ Len(q) = n + c
        /\ \A i \in 1..n : q[i] = g(k)[i]
        /\ k # 4 => q[n + 1] = ":"
    BY <1>4, <1>5, <2>0, <2>2
  <2>4. b = a + Len(q) /\ \A i \in 1..Len(q) : whole[a + i] = q[i]
    BY <1>7, <2>1, <2>2
  <2>5. \A i \in 1..n : whole[a + i] = g(k)[i]
    <3>1. \A i \in 1..n : i \in 1..Len(q)
      BY <2>3
    <3> QED BY <2>3, <2>4, <3>1
  <2>6. ASSUME k # 4 PROVE whole[b] = ":"
    <3>1. PICK m \in Nat : m = n + 1
      OBVIOUS
    <3>2. Len(q) = m /\ m \in 1..Len(q)
      <4>1. c = 1
        BY <1>3, <2>0, <2>6
      <4> QED BY <2>3, <3>1, <4>1
    <3>3. b = a + m /\ whole[a + m] = q[m] /\ q[m] = ":"
      BY <2>3, <2>4, <2>6, <3>1, <3>2
    <3> QED BY <3>3
  <2>7. b = a + n + c
    BY <2>3, <2>4
  <2> QED BY <2>0, <2>1, <2>5, <2>6, <2>7
\* The places rise, so that all but the last character are kept.
<1>9. \A k \in 1..8 : at[k] <= at[8] /\ (k # 8 => at[k] < at[8])
  <2>1. \A k \in 1..8 : at[k - 1] < at[k]
    <3> SUFFICES ASSUME NEW k \in 1..8 PROVE at[k - 1] < at[k]
      OBVIOUS
    <3>1. PICK n \in Nat \ {0}, c \in 0..1 : n = size[k] /\ c = colon[k]
      BY <1>2, <1>3
    <3>2. PICK a \in Nat, b \in Nat : a = at[k - 1] /\ b = at[k]
      <4>1. k - 1 \in 0..8 /\ k \in 0..8
        OBVIOUS
      <4>2. at[k - 1] \in Nat /\ at[k] \in Nat
        BY <1>at, <4>1
      <4> QED BY <4>2
    <3>3. b = a + n + c
      BY <1>8, <3>1, <3>2
    <3> QED BY <3>2, <3>3
  <2>2. /\ 1 - 1 = 0 /\ 2 - 1 = 1 /\ 3 - 1 = 2 /\ 4 - 1 = 3
        /\ 5 - 1 = 4 /\ 6 - 1 = 5 /\ 7 - 1 = 6 /\ 8 - 1 = 7
    OBVIOUS
  <2>3. /\ at[1] < at[2] /\ at[2] < at[3] /\ at[3] < at[4] /\ at[4] < at[5]
        /\ at[5] < at[6] /\ at[6] < at[7] /\ at[7] < at[8]
    BY <2>1, <2>2
  <2>4. \A k \in 1..8 : k \in {1, 2, 3, 4, 5, 6, 7, 8}
    OBVIOUS
  <2>5. /\ at[1] \in Nat /\ at[2] \in Nat /\ at[3] \in Nat /\ at[4] \in Nat
        /\ at[5] \in Nat /\ at[6] \in Nat /\ at[7] \in Nat /\ at[8] \in Nat
    BY <1>at
  <2>6. at[6] < at[8] /\ at[5] < at[8] /\ at[4] < at[8]
    BY <2>3, <2>5
  <2>7. at[3] < at[8] /\ at[2] < at[8]
    BY <2>3, <2>5, <2>6
  <2>8. at[1] < at[8]
    BY <2>3, <2>5, <2>7
  <2>9. ASSUME NEW k \in 1..8 PROVE at[k] <= at[8] /\ (k # 8 => at[k] < at[8])
    <3>1. at[k] \in Nat /\ at[8] \in Nat
      <4>1. k \in 0..8 /\ 8 \in 0..8
        OBVIOUS
      <4> QED BY ONLY <4>1, <1>at
    <3>2. CASE k = 8
      BY <3>1, <3>2
    <3>3. CASE k # 8
      <4>1. at[k] < at[8]
        BY <2>3, <2>4, <2>6, <2>7, <2>8, <3>3
      <4> QED BY <3>1, <4>1
    <3> QED BY <3>2, <3>3
  <2> QED BY <2>9
<1>10. PICK n \in Nat : n = at[8] - 1 /\ n + 1 = at[8]
  <2>1. at[1] \in Nat /\ at[8] \in Nat /\ at[1] < at[8]
    BY <1>at, <1>9
  <2>2. PICK m \in Nat : m = at[8] /\ 1 <= m
    BY <2>1
  <2> QED BY <2>2
<1>11. PICK str : str = SubSeq(whole, 1, n)
  OBVIOUS
<1>12. Call!ParameterText(p) = str
  <2>1. Call!BuiltText(p) =
          FlattenSeq([k \in 1..Call!Groups |->
                        Call!Split(Call!Group(p, k)) \o Call!Colon(k)])
    BY DEF Call!BuiltText, Call!FlattenSeq, FlattenSeq
  <2>2. Call!BuiltText(p) = whole
    BY <2>1, Sizes, Zenon DEF whole, parts, part, g
  <2>3. Len(whole) - 1 = n
    BY <1>7, <1>10
  <2>4. Call!ParameterText(p) = SubSeq(whole, 1, Len(whole) - 1)
    BY <2>2 DEF Call!ParameterText, Call!Front
  <2> QED BY <1>11, <2>3, <2>4
<1>13. /\ str \in Seq(LineChars) /\ Len(str) = n
       /\ \A i \in 1..n : str[i] = whole[i]
  <2>1. ASSUME NEW i \in 1..n PROVE whole[i] \in LineChars
    <3>1. i \in 1..Len(whole)
      BY <1>7, <1>10
    <3> QED BY <1>7, <3>1, ElementOfSeq
  <2> QED BY <1>11, <2>1, SubSeqProperties
<1>14. ASSUME NEW k \in 1..8
       PROVE  /\ at[k - 1] + size[k] <= Len(str)
              /\ \A i \in 1..size[k] : str[at[k - 1] + i] = g(k)[i]
              /\ k \notin {4, 8} => str[at[k]] = ":"
  <2>0. PICK m \in Nat \ {0}, c \in 0..1 : m = size[k] /\ c = colon[k]
    BY <1>2, <1>3
  <2>1. PICK a \in Nat, b \in Nat : a = at[k - 1] /\ b = at[k]
    <3>1. k - 1 \in 0..8 /\ k \in 0..8
      OBVIOUS
    <3>2. at[k - 1] \in Nat /\ at[k] \in Nat
      BY <1>at, <3>1
    <3> QED BY <3>2
  <2>2. b = a + m + c /\ b <= n + 1 /\ (k # 8 => b < n + 1)
    <3>1. b = a + m + c
      BY <1>8, <2>0, <2>1
    <3>2. b <= at[8] /\ (k # 8 => b < at[8])
      BY <1>9, <2>1
    <3> QED BY <1>10, <3>1, <3>2
  <2>3. a + m <= n
    <3>1. CASE k = 8
      <4>1. c = 1
        BY <1>3, <2>0, <3>1
      <4> QED BY <2>2, <4>1
    <3>2. CASE k # 8
      BY <2>2, <3>2
    <3> QED BY <3>1, <3>2
  <2>4. ASSUME NEW i \in 1..m PROVE str[a + i] = g(k)[i]
    <3>1. PICK l \in 1..n : l = a + i
      BY <2>3
    <3>2. whole[a + i] = g(k)[i]
      BY <1>8, <2>0, <2>1
    <3> QED BY <1>13, <3>1, <3>2
  <2>5. ASSUME k \notin {4, 8} PROVE str[b] = ":"
    <3>1. b \in 1..n
      <4>1. b < n + 1 /\ a + m + c = b
        BY <2>2, <2>5
      <4> QED BY <4>1
    <3>2. whole[b] = ":"
      BY <1>8, <2>1, <2>5
    <3> QED BY <1>13, <3>1, <3>2
  <2> QED BY <1>13, <2>0, <2>1, <2>3, <2>4, <2>5
<1>15. /\ str \in Seq(LineChars)
       /\ Len(str) = at[8] - 1
       /\ \A k \in 1..8 :
            /\ at[k] = at[k - 1] + Len(g(k)) + (IF k = 4 THEN 0 ELSE 1)
            /\ at[k - 1] + Len(g(k)) <= Len(str)
            /\ \A i \in 1..Len(g(k)) : str[at[k - 1] + i] = g(k)[i]
            /\ k \notin {4, 8} => str[at[k]] = ":"
  <2>1. Len(str) = at[8] - 1 /\ str \in Seq(LineChars)
    BY <1>10, <1>13
  <2>2. \A k \in 1..8 : at[k] = at[k - 1] + Len(g(k)) + (IF k = 4 THEN 0 ELSE 1)
    <3> SUFFICES ASSUME NEW k \in 1..8
                 PROVE  at[k] = at[k - 1] + Len(g(k)) + (IF k = 4 THEN 0 ELSE 1)
      OBVIOUS
    <3>1. Len(g(k)) = size[k] /\ (IF k = 4 THEN 0 ELSE 1) = colon[k]
      BY <1>2, <1>3
    <3>2. at[k] = at[k - 1] + size[k] + colon[k]
      BY <1>8
    <3> QED BY <3>1, <3>2
  <2>3. \A k \in 1..8 : /\ at[k - 1] + Len(g(k)) <= Len(str)
                        /\ \A i \in 1..Len(g(k)) : str[at[k - 1] + i] = g(k)[i]
                        /\ k \notin {4, 8} => str[at[k]] = ":"
    <3> SUFFICES ASSUME NEW k \in 1..8
                 PROVE  /\ at[k - 1] + Len(g(k)) <= Len(str)
                        /\ \A i \in 1..Len(g(k)) : str[at[k - 1] + i] = g(k)[i]
                        /\ k \notin {4, 8} => str[at[k]] = ":"
      OBVIOUS
    <3>1. Len(g(k)) = size[k]
      BY <1>2
    <3> QED BY <1>14, <3>1
  <2> QED BY <2>1, <2>2, <2>3
<1> QED BY <1>6, <1>12, <1>15 DEF g

-----------------------------------------------------------------------------
(* A reader of the line *)

\* The reader comes to the first colon, or to the end.
LEMMA ColonFound ==
  ASSUME NEW C, NEW s \in Seq(C), NEW e \in Nat, NEW b \in Nat, e < b,
         \A j \in Nat : e < j /\ j < b => s[j] # ":",
         b = Len(s) + 1 \/ (b <= Len(s) /\ s[b] = ":")
  PROVE  Call!ColonBehind(s, e) = b
<1> DEFINE behind == {j \in (e + 1)..Len(s) : s[j] = ":"}
<1>1. Len(s) \in Nat
  BY LenProperties
<1>2. Call!ColonBehind(s, e) =
        IF behind = {} THEN Len(s) + 1
        ELSE CHOOSE j \in behind : \A k \in behind : j <= k
  BY DEF Call!ColonBehind
<1>3. behind \subseteq Nat /\ \A j \in behind : b <= j /\ j <= Len(s)
  BY <1>1
<1>4. b <= Len(s) => b \in behind
  BY <1>1
<1> HIDE DEF behind
<1>5. CASE b <= Len(s)
  <2>1. (CHOOSE j \in behind : \A k \in behind : j <= k) = b
    BY <1>3, <1>4, <1>5, LeastIsChosen
  <2> QED BY <1>2, <1>4, <1>5, <2>1
<1>6. CASE ~ (b <= Len(s))
  <2>1. b = Len(s) + 1
    BY <1>6
  <2>2. behind = {}
    BY <1>1, <1>3, <2>1
  <2> QED BY <1>2, <2>1, <2>2
<1> QED BY <1>5, <1>6

ArePieceEnds(f, s, n) ==
  f = [k \in 0..n |-> IF k = 0 THEN 0 ELSE Call!ColonBehind(s, f[k - 1])]

\* The reader goes from colon to colon.
LEMMA PieceEndsExist ==
  ASSUME NEW s, NEW n \in Nat
  PROVE  \E f : ArePieceEnds(f, s, n)
<1> DEFINE T == {m \in Nat : \E f : ArePieceEnds(f, s, m)}
<1>1. 0 \in T
  <2>1. ArePieceEnds([k \in 0..0 |-> 0], s, 0)
    BY DEF ArePieceEnds
  <2> QED BY <2>1
<1>2. ASSUME NEW m \in Nat, m \in T PROVE m + 1 \in T
  <2>1. PICK f : ArePieceEnds(f, s, m)
    BY <1>2
  <2> DEFINE g == [k \in 0..(m + 1) |->
                     IF k <= m THEN f[k] ELSE Call!ColonBehind(s, f[k - 1])]
  <2>2. \A k \in 0..m : f[k] = IF k = 0 THEN 0 ELSE Call!ColonBehind(s, f[k - 1])
    BY <2>1 DEF ArePieceEnds
  <2>3. \A k \in 0..(m + 1) :
          g[k] = IF k = 0 THEN 0 ELSE Call!ColonBehind(s, g[k - 1])
    BY <2>2
  <2>4. g = [k \in 0..(m + 1) |-> g[k]]
    OBVIOUS
  <2> HIDE DEF g
  <2>5. ArePieceEnds(g, s, m + 1)
    BY <2>3, <2>4 DEF ArePieceEnds
  <2> QED BY <2>5
<1> HIDE DEF T
<1>3. n \in T
  BY <1>1, <1>2, SetInduction
<1> QED BY <1>3 DEF T

\* The ends of a line's pieces are the colons, one behind the other.
LEMMA PieceEndsAre ==
  ASSUME NEW s
  PROVE  /\ Call!PieceEnds(s)[0] = 0
         /\ \A k \in 1..8 :
              Call!PieceEnds(s)[k] = Call!ColonBehind(s, Call!PieceEnds(s)[k - 1])
<1> DEFINE f == CHOOSE f : f = [k \in 0..Call!Groups |->
                                  IF k = 0 THEN 0 ELSE Call!ColonBehind(s, f[k - 1])]
<1>1. Call!PieceEnds(s) = f
  BY DEF Call!PieceEnds
<1>2. ArePieceEnds(f, s, Call!Groups)
  <2>1. \E g : g = [k \in 0..Call!Groups |->
                      IF k = 0 THEN 0 ELSE Call!ColonBehind(s, g[k - 1])]
    <3>1. Call!Groups \in Nat
      BY Sizes
    <3>2. \E g : ArePieceEnds(g, s, Call!Groups)
      BY <3>1, PieceEndsExist
    <3> QED BY <3>2, Zenon DEF ArePieceEnds
  <2> QED BY <2>1, Zenon DEF ArePieceEnds
<1> HIDE DEF f
<1>3. ArePieceEnds(f, s, 8)
  BY <1>2, Sizes
<1>4. \A k \in 0..8 : f[k] = IF k = 0 THEN 0 ELSE Call!ColonBehind(s, f[k - 1])
  BY <1>3 DEF ArePieceEnds
<1> QED BY <1>1, <1>4

\* What is read between two places is what was written there.
LEMMA PieceIs ==
  ASSUME NEW C, NEW s \in Seq(C), NEW t \in Seq(C), NEW e \in Nat, NEW l \in Nat,
         l = e + Len(t), l <= Len(s),
         \A i \in 1..Len(t) : s[e + i] = t[i]
  PROVE  SubSeq(s, e + 1, l) = t
<1>1. Len(s) \in Nat /\ Len(t) \in Nat
  BY LenProperties
<1>2. PICK n \in Nat : n = Len(t)
  BY <1>1
<1>3. CASE n = 0
  <2>1. l < e + 1
    BY <1>2, <1>3
  <2>2. SubSeq(s, e + 1, l) = <<>>
    BY <2>1, SubSeqEmpty
  <2> QED BY <1>2, <1>3, <2>2, EmptySeq
<1>4. CASE n # 0
  <2>1. ASSUME NEW i \in (e + 1)..l PROVE s[i] \in C
    <3>1. i \in 1..Len(s)
      BY <1>1
    <3> QED BY <3>1, ElementOfSeq
  <2>2. e + 1 <= l /\ l - (e + 1) + 1 = n
    BY <1>2, <1>4
  <2>3. PICK m \in Nat : m = e + 1
    OBVIOUS
  <2>4. /\ SubSeq(s, m, l) \in Seq(C)
        /\ Len(SubSeq(s, m, l)) = l - m + 1
        /\ \A i \in 1..(l - m + 1) : SubSeq(s, m, l)[i] = s[m + i - 1]
    BY <2>1, <2>2, <2>3, SubSeqProperties
  <2>5. l - m + 1 = n
    BY <2>2, <2>3
  <2>6. ASSUME NEW i \in 1..n PROVE SubSeq(s, m, l)[i] = t[i]
    <3>1. m + i - 1 = e + i
      BY <2>3
    <3> QED BY <1>2, <2>4, <2>5, <3>1
  <2>7. SubSeq(s, m, l) = t
    BY <1>2, <2>4, <2>5, <2>6, SeqEqual
  <2> QED BY <2>3, <2>7
<1> QED BY <1>3, <1>4

\* Whoever reads the line of a parameter reads the numbers of its slot.
LEMMA LineTells ==
  ASSUME NEW p \in Seq(0..255), Len(p) = ABI_SLOT_SIZE
  PROVE  Call!Tells(Call!ParameterText(p), p)
<1> DEFINE g(k) == Call!Split(Call!Group(p, k))
           whole(k) == Call!format_hex(Call!Group(p, k))
           str == Call!ParameterText(p)
<1>1. PICK at \in [0..8 -> Nat] :
        /\ at[0] = 0
        /\ Len(str) = at[8] - 1
        /\ \A k \in 1..8 :
             /\ at[k] = at[k - 1] + Len(g(k)) + (IF k = 4 THEN 0 ELSE 1)
             /\ at[k - 1] + Len(g(k)) <= Len(str)
             /\ \A i \in 1..Len(g(k)) : str[at[k - 1] + i] = g(k)[i]
             /\ k \notin {4, 8} => str[at[k]] = ":"
  BY LinePlaces, Zenon
<1>1a. str \in Seq(LineChars)
  BY LinePlaces, Zenon
<1>2. ASSUME NEW k \in 1..8
      PROVE  /\ g(k) \in Seq(LineChars) /\ Len(g(k)) \in Nat \ {0}
             /\ \A i \in 1..Len(g(k)) : g(k)[i] # ":"
             /\ Call!Significant(g(k)) = Call!Significant(whole(k))
  <2>1. Call!Group(p, k) \in Seq(0..255) /\ Len(Call!Group(p, k)) = GROUP_SIZE
    BY GroupBytes
  <2>2. /\ g(k) \in Seq(HexChars) /\ Len(g(k)) \in 1..(2 * GROUP_SIZE)
        /\ Call!Significant(g(k)) = Call!Significant(whole(k))
    BY <2>1, SplitTells
  <2>3. HexChars \subseteq LineChars
    BY DEF LineChars
  <2>4. g(k) \in Seq(LineChars)
    BY <2>2, <2>3, SeqMonotonic
  <2>5. Len(g(k)) \in Nat \ {0}
    BY <2>2, Sizes
  <2>6. \A i \in 1..Len(g(k)) : g(k)[i] # ":"
    BY <2>2, NoColonInHex, ElementOfSeq
  <2> QED BY <2>2, <2>4, <2>5, <2>6
<1> HIDE DEF g, whole, str
<1>3. /\ Len(str) \in Nat /\ str \in Seq(LineChars) /\ at[0] = 0 /\ at[8] = Len(str) + 1
      /\ \A k \in 0..8 : at[k] \in Nat
  <2>1. \A k \in 0..8 : at[k] \in Nat
    BY <1>1
  <2>2. Len(str) \in Nat /\ str \in Seq(LineChars) /\ at[0] = 0
    BY <1>1, <1>1a, LenProperties
  <2>3. PICK b \in Nat : b = at[8]
    BY <2>1
  <2>4. Len(str) = b - 1
    BY <1>1, <2>3
  <2> QED BY <2>1, <2>2, <2>3, <2>4
\* The digits of group k lie behind place a; the colon or the next group is
\* behind place b.
<1>4. ASSUME NEW k \in 1..8
      PROVE  \E a \in Nat, n \in Nat \ {0}, b \in Nat :
               /\ a = at[k - 1] /\ n = Len(g(k)) /\ b = at[k]
               /\ b = a + n + (IF k = 4 THEN 0 ELSE 1)
               /\ a + n <= Len(str)
               /\ \A i \in 1..n : str[a + i] = g(k)[i] /\ str[a + i] # ":"
               /\ k \notin {4, 8} => str[b] = ":" /\ b <= Len(str)
               /\ k = 8 => b = Len(str) + 1
  <2>1. PICK n \in Nat \ {0} : n = Len(g(k))
    BY <1>2
  <2>2. k - 1 \in 0..8 /\ k \in 0..8
    OBVIOUS
  <2>3. PICK a \in Nat : a = at[k - 1]
    BY <1>3, <2>2
  <2>4. PICK b \in Nat : b = at[k]
    BY <1>3, <2>2
  <2>5. b = a + n + (IF k = 4 THEN 0 ELSE 1) /\ a + n <= Len(str)
    BY <1>1, <2>1, <2>3, <2>4
  <2>6. \A i \in 1..n : str[a + i] = g(k)[i] /\ str[a + i] # ":"
    <3>1. \A i \in 1..n : str[a + i] = g(k)[i]
      BY <1>1, <2>1, <2>3
    <3>2. \A i \in 1..n : g(k)[i] # ":"
      BY <1>2, <2>1
    <3> QED BY <3>1, <3>2
  <2>7. ASSUME k \notin {4, 8} PROVE str[b] = ":" /\ b <= Len(str)
    <3>1. PICK j \in 1..8 : j = k + 1 /\ j - 1 = k
      BY <2>7
    <3>2. at[j - 1] + Len(g(j)) <= Len(str)
      BY <1>1
    <3>3. PICK m \in Nat \ {0} : m = Len(g(j))
      BY <1>2
    <3>4. b + m <= Len(str)
      BY <2>4, <3>1, <3>2, <3>3
    <3>5. b <= Len(str)
      BY <1>3, <3>4
    <3>6. str[at[k]] = ":"
      BY <1>1, <2>7
    <3> QED BY <2>4, <3>5, <3>6
  <2>8. k = 8 => b = Len(str) + 1
    BY <1>3, <2>4
  <2> QED BY <2>1, <2>3, <2>4, <2>5, <2>6, <2>7, <2>8
\* A number of its own is read from one colon to the next.
<1>5. ASSUME NEW k \in 1..8, k # 4, k # 5
      PROVE  /\ Call!ColonBehind(str, at[k - 1]) = at[k]
             /\ SubSeq(str, at[k - 1] + 1, at[k] - 1) = g(k)
  <2>0. PICK a \in Nat, n \in Nat \ {0}, b \in Nat :
          /\ a = at[k - 1] /\ n = Len(g(k)) /\ b = at[k]
          /\ b = a + n + (IF k = 4 THEN 0 ELSE 1)
          /\ a + n <= Len(str)
          /\ \A i \in 1..n : str[a + i] = g(k)[i] /\ str[a + i] # ":"
          /\ k \notin {4, 8} => str[b] = ":" /\ b <= Len(str)
          /\ k = 8 => b = Len(str) + 1
    BY <1>4
  <2>1. /\ a = at[k - 1] /\ n = Len(g(k)) /\ b = at[k]
        /\ b = a + n + 1
        /\ a + n <= Len(str)
        /\ \A i \in 1..n : str[a + i] = g(k)[i] /\ str[a + i] # ":"
        /\ b = Len(str) + 1 \/ (b <= Len(str) /\ str[b] = ":")
    BY <1>5, <2>0
  <2>1a. b = a + n + 1
    BY <2>1
  <2>2. ASSUME NEW j \in Nat, a < j, j < b PROVE str[j] # ":"
    <3>1. PICK i \in 1..n : i = j - a
      BY <2>1a, <2>2
    <3>2. a + i = j
      BY <3>1
    <3> QED BY <2>1, <3>2
  <2>3. a < b
    BY <2>1a
  <2>4. Call!ColonBehind(str, a) = b
    BY <1>3, <2>1, <2>2, <2>3, ColonFound
  <2>5. PICK l \in Nat : l = a + n /\ l = b - 1
    BY <2>1a
  <2>6. SubSeq(str, a + 1, l) = g(k)
    BY <1>2, <1>3, <2>1, <2>5, PieceIs
  <2> QED BY <2>1, <2>4, <2>5, <2>6
\* Between the third and the fourth colon are the digits of two numbers.
<1>6. /\ Call!ColonBehind(str, at[3]) = at[5]
      /\ \E q \in Seq(LineChars) :
           /\ q = SubSeq(str, at[3] + 1, at[5] - 1)
           /\ Len(q) = Len(g(4)) + Len(g(5))
           /\ SubSeq(q, 1, Len(g(4))) = g(4)
           /\ SubSeq(q, Len(g(4)) + 1, Len(q)) = g(5)
  <2>1. PICK a \in Nat, n \in Nat \ {0}, c \in Nat :
          /\ a = at[3] /\ n = Len(g(4)) /\ c = at[4]
          /\ c = a + n
          /\ \A i \in 1..n : str[a + i] = g(4)[i] /\ str[a + i] # ":"
    <3>1. PICK k \in 1..8 : k = 4
      OBVIOUS
    <3>2. PICK a \in Nat, n \in Nat \ {0}, b \in Nat :
            /\ a = at[k - 1] /\ n = Len(g(k)) /\ b = at[k]
            /\ b = a + n + (IF k = 4 THEN 0 ELSE 1)
            /\ a + n <= Len(str)
            /\ \A i \in 1..n : str[a + i] = g(k)[i] /\ str[a + i] # ":"
            /\ k \notin {4, 8} => str[b] = ":" /\ b <= Len(str)
            /\ k = 8 => b = Len(str) + 1
      BY <1>4
    <3>3. k - 1 = 3
      BY <3>1
    <3>4. b = a + n + (IF k = 4 THEN 0 ELSE 1)
      BY <3>2
    <3>5. b = a + n
      BY <3>1, <3>4
    <3>6. \A i \in 1..n : str[a + i] = g(k)[i] /\ str[a + i] # ":"
      BY <3>2
    <3>7. a = at[k - 1] /\ n = Len(g(k)) /\ b = at[k]
      BY <3>2
    <3> QED BY <3>1, <3>3, <3>5, <3>6, <3>7
  <2>2. PICK m \in Nat \ {0}, b \in Nat :
          /\ m = Len(g(5)) /\ b = at[5]
          /\ b = c + m + 1
          /\ \A i \in 1..m : str[c + i] = g(5)[i] /\ str[c + i] # ":"
          /\ str[b] = ":" /\ b <= Len(str)
    <3>1. PICK k \in 1..8 : k = 5
      OBVIOUS
    <3>2. PICK e \in Nat, m \in Nat \ {0}, b \in Nat :
            /\ e = at[k - 1] /\ m = Len(g(k)) /\ b = at[k]
            /\ b = e + m + (IF k = 4 THEN 0 ELSE 1)
            /\ e + m <= Len(str)
            /\ \A i \in 1..m : str[e + i] = g(k)[i] /\ str[e + i] # ":"
            /\ k \notin {4, 8} => str[b] = ":" /\ b <= Len(str)
            /\ k = 8 => b = Len(str) + 1
      BY <1>4
    <3>3. k - 1 = 4
      BY <3>1
    <3>4. b = e + m + (IF k = 4 THEN 0 ELSE 1)
      BY <3>2
    <3>5. b = e + m + 1
      BY <3>1, <3>4
    <3>6. \A i \in 1..m : str[e + i] = g(k)[i] /\ str[e + i] # ":"
      BY <3>2
    <3>7. e = at[k - 1] /\ m = Len(g(k)) /\ b = at[k]
      BY <3>2
    <3>8. e = c
      BY <2>1, <3>3, <3>7
    <3>9. str[b] = ":" /\ b <= Len(str)
      BY <3>1, <3>2
    <3>10. b = c + m + 1
      BY <3>5, <3>8
    <3>11. \A i \in 1..m : str[c + i] = g(5)[i] /\ str[c + i] # ":"
      BY <3>1, <3>6, <3>8
    <3> QED BY <3>1, <3>7, <3>9, <3>10, <3>11
  <2>3. c = a + n /\ b = c + m + 1 /\ b <= Len(str) /\ str[b] = ":"
    BY <2>1, <2>2
  <2>4. ASSUME NEW j \in Nat, a < j, j < b PROVE str[j] # ":"
    <3>1. CASE j <= c
      <4>1. PICK i \in 1..n : i = j - a
        BY <2>3, <2>4, <3>1
      <4>2. a + i = j
        BY <4>1
      <4> QED BY <2>1, <4>2
    <3>2. CASE c < j
      <4>1. PICK i \in 1..m : i = j - c
        BY <2>3, <2>4, <3>2
      <4>2. c + i = j
        BY <4>1
      <4> QED BY <2>2, <4>2
    <3> QED BY <3>1, <3>2
  <2>5. a < b
    BY <2>3
  <2>6. Call!ColonBehind(str, a) = b
    <3>1. str \in Seq(LineChars)
      BY <1>3
    <3>2. b = Len(str) + 1 \/ (b <= Len(str) /\ str[b] = ":")
      BY <2>3
    <3>3. a \in Nat /\ b \in Nat
      OBVIOUS
    <3> QED BY ONLY <3>1, <3>2, <3>3, <2>4, <2>5, ColonFound
  <2>7. PICK l \in Nat : l = b - 1 /\ l = a + (n + m) /\ l <= Len(str) /\ a + 1 <= l
    BY <1>3, <2>3
  <2>8. PICK q : q = SubSeq(str, a + 1, l)
    OBVIOUS
  <2>9. /\ q \in Seq(LineChars) /\ Len(q) = n + m
        /\ \A i \in 1..(n + m) : q[i] = str[a + i]
    <3>1. ASSUME NEW i \in (a + 1)..l PROVE str[i] \in LineChars
      <4>1. i \in 1..Len(str)
        BY <1>3, <2>7
      <4> QED BY <1>3, <4>1, ElementOfSeq
    <3>2. /\ q \in Seq(LineChars)
          /\ Len(q) = IF a + 1 <= l THEN l - (a + 1) + 1 ELSE 0
          /\ \A i \in 1..(l - (a + 1) + 1) : q[i] = str[(a + 1) + i - 1]
      <4>1. a + 1 \in Int /\ l \in Int
        BY <2>7
      <4>2. PICK first \in Int : first = a + 1
        BY <4>1
      <4>3. /\ SubSeq(str, first, l) \in Seq(LineChars)
            /\ Len(SubSeq(str, first, l)) = IF first <= l THEN l - first + 1 ELSE 0
            /\ \A i \in 1..(l - first + 1) : SubSeq(str, first, l)[i] = str[first + i - 1]
        BY ONLY <3>1, <4>1, <4>2, SubSeqProperties
      <4> QED BY ONLY <2>8, <4>2, <4>3
    <3>3. l - (a + 1) + 1 = n + m
      BY <2>7
    <3>4. Len(q) = n + m
      BY <2>7, <3>2, <3>3
    <3>5. ASSUME NEW i \in 1..(n + m) PROVE q[i] = str[a + i]
      <4>1. i \in 1..(l - (a + 1) + 1)
        BY ONLY <3>3, i \in 1..(n + m)
      <4>2. q[i] = str[(a + 1) + i - 1]
        BY ONLY <3>2, <4>1
      <4>3. (a + 1) + i - 1 = a + i
        OBVIOUS
      <4> QED BY ONLY <4>2, <4>3
    <3> QED BY <3>2, <3>4, <3>5
  <2>10. SubSeq(q, 1, n) = g(4)
    <3>1. g(4) \in Seq(LineChars) /\ n = 0 + Len(g(4)) /\ n <= Len(q)
      BY <1>2, <2>1, <2>9
    <3>2. ASSUME NEW i \in 1..Len(g(4)) PROVE q[0 + i] = g(4)[i]
      <4>1. i \in 1..n /\ i \in 1..(n + m) /\ 0 + i = i
        BY <2>1
      <4> QED BY <2>1, <2>9, <4>1
    <3>3. SubSeq(q, 0 + 1, n) = g(4)
      BY <2>9, <3>1, <3>2, PieceIs
    <3> QED BY <3>3
  <2>11. SubSeq(q, n + 1, Len(q)) = g(5)
    <3>0. n + m <= Len(q) /\ n \in Nat /\ n + m \in Nat
      BY <2>9
    <3>1. g(5) \in Seq(LineChars) /\ Len(q) = n + Len(g(5)) /\ Len(q) \in Nat
      BY <1>2, <2>2, <2>9
    <3>2. ASSUME NEW i \in 1..Len(g(5)) PROVE q[n + i] = g(5)[i]
      <4>1. i \in 1..m /\ n + i \in 1..(n + m) /\ a + (n + i) = c + i
        BY <2>2, <2>3
      <4> QED BY <2>2, <2>9, <4>1
    <3>3. Len(q) <= Len(q)
      BY <3>1
    <3> QED BY <2>9, <3>0, <3>1, <3>2, <3>3, PieceIs
  <2>12. q = SubSeq(str, at[3] + 1, at[5] - 1)
    BY <2>1, <2>2, <2>7, <2>8
  <2>13. Call!ColonBehind(str, at[3]) = at[5]
    BY <2>1, <2>2, <2>6
  <2>14. Len(q) = Len(g(4)) + Len(g(5))
    BY <2>1, <2>2, <2>9
  <2>15. SubSeq(q, 1, Len(g(4))) = g(4) /\ SubSeq(q, Len(g(4)) + 1, Len(q)) = g(5)
    BY <2>1, <2>10, <2>11
  <2> QED BY <2>9, <2>12, <2>13, <2>14, <2>15
<1>7. PICK end : end = Call!PieceEnds(str)
  OBVIOUS
<1>8. end[0] = at[0] /\ end[1] = at[1] /\ end[2] = at[2] /\ end[3] = at[3]
  <2>1. end[0] = 0 /\ \A k \in 1..8 : end[k] = Call!ColonBehind(str, end[k - 1])
    BY <1>7, PieceEndsAre
  <2>2. \A k \in 1..8 : k # 4 /\ k # 5 => Call!ColonBehind(str, at[k - 1]) = at[k]
    BY <1>5
  <2>3. end[0] = at[0]
    BY <1>3, <2>1
  <2>4. end[1] = at[1]
    BY <2>1, <2>2, <2>3
  <2>5. end[2] = at[2]
    BY <2>1, <2>2, <2>4
  <2>6. end[3] = at[3]
    BY <2>1, <2>2, <2>5
  <2> QED BY <2>3, <2>4, <2>5, <2>6
<1>9. end[4] = at[5] /\ end[5] = at[6] /\ end[6] = at[7] /\ end[7] = at[8]
  <2>1. \A k \in 1..8 : end[k] = Call!ColonBehind(str, end[k - 1])
    BY <1>7, PieceEndsAre
  <2>2. \A k \in 1..8 : k # 4 /\ k # 5 => Call!ColonBehind(str, at[k - 1]) = at[k]
    BY <1>5
  <2>3. end[4] = at[5]
    <3>1. end[4] = Call!ColonBehind(str, end[3])
      BY <2>1
    <3> QED BY <3>1, <1>6, <1>8
  <2>4. end[5] = at[6]
    <3>1. end[5] = Call!ColonBehind(str, end[4]) /\ Call!ColonBehind(str, at[5]) = at[6]
      BY <2>1, <2>2
    <3> QED BY <3>1, <2>3
  <2>5. end[6] = at[7]
    <3>1. end[6] = Call!ColonBehind(str, end[5]) /\ Call!ColonBehind(str, at[6]) = at[7]
      BY <2>1, <2>2
    <3> QED BY <3>1, <2>4
  <2>6. end[7] = at[8]
    <3>1. end[7] = Call!ColonBehind(str, end[6]) /\ Call!ColonBehind(str, at[7]) = at[8]
      BY <2>1, <2>2
    <3> QED BY <3>1, <2>5
  <2> QED BY <2>3, <2>4, <2>5, <2>6
\* So each piece is the number, or the two numbers, of its groups.
<1>10. ASSUME NEW k \in 1..7, k # 4
       PROVE  Call!Significant(SubSeq(str, end[k - 1] + 1, end[k] - 1))
                = Call!Significant(whole(IF k < 4 THEN k ELSE k + 1))
  <2>1. CASE k < 4
    <3>1. k \in 1..8 /\ k # 4 /\ k # 5 /\ (IF k < 4 THEN k ELSE k + 1) = k
      BY <2>1
    <3>2. k \in {1, 2, 3}
      BY <2>1
    <3>3. end[k - 1] = at[k - 1] /\ end[k] = at[k]
      BY <3>2, <1>8
    <3>4. SubSeq(str, at[k - 1] + 1, at[k] - 1) = g(k)
      BY <3>1, <1>5
    <3>5. Call!Significant(g(k)) = Call!Significant(whole(k))
      BY <3>1, <1>2
    <3> QED BY <3>1, <3>3, <3>4, <3>5
  <2>2. CASE k > 4
    <3>1. PICK j \in 1..8 : j = k + 1 /\ j - 1 = k /\ j # 4 /\ j # 5
      BY <2>2
    <3>2. k \in {5, 6, 7}
      BY <2>2
    <3>3. end[k - 1] = at[k] /\ end[k] = at[j]
      <4>1. CASE k = 5
        <5>1. k - 1 = 4 /\ j = 6
          BY <3>1, <4>1
        <5> QED BY <4>1, <5>1, <1>9, Zenon
      <4>2. CASE k = 6
        <5>1. k - 1 = 5 /\ j = 7
          BY <3>1, <4>2
        <5> QED BY <4>2, <5>1, <1>9, Zenon
      <4>3. CASE k = 7
        <5>1. k - 1 = 6 /\ j = 8
          BY <3>1, <4>3
        <5> QED BY <4>3, <5>1, <1>9, Zenon
      <4> QED BY <3>2, <4>1, <4>2, <4>3
    <3>4. SubSeq(str, at[j - 1] + 1, at[j] - 1) = g(j)
      BY <3>1, <1>5
    <3>5. Call!Significant(g(j)) = Call!Significant(whole(j))
      BY <1>2
    <3>6. (IF k < 4 THEN k ELSE k + 1) = j
      BY <2>2, <3>1
    <3> QED BY <3>1, <3>3, <3>4, <3>5, <3>6
  <2> QED BY <1>10, <2>1, <2>2
<1>11. end[6] <= Len(str) /\ end[7] = Len(str) + 1
  <2>1. PICK k \in 1..8 : k = 7 /\ k \notin {4, 8}
    OBVIOUS
  <2>2. PICK b \in Nat : b = at[k] /\ b <= Len(str)
    BY <1>4, <2>1
  <2>3. at[7] <= Len(str)
    BY <2>1, <2>2
  <2> QED BY <1>3, <1>9, <2>3
<1>12. \E i \in 1..(Len(SubSeq(str, end[3] + 1, end[4] - 1)) - 1) :
         /\ Call!Significant(SubSeq(SubSeq(str, end[3] + 1, end[4] - 1), 1, i))
              = Call!Significant(whole(4))
         /\ Call!Significant(SubSeq(SubSeq(str, end[3] + 1, end[4] - 1), i + 1,
                                    Len(SubSeq(str, end[3] + 1, end[4] - 1))))
              = Call!Significant(whole(5))
  <2>1. PICK q : /\ q = SubSeq(str, at[3] + 1, at[5] - 1)
                 /\ Len(q) = Len(g(4)) + Len(g(5))
                 /\ SubSeq(q, 1, Len(g(4))) = g(4)
                 /\ SubSeq(q, Len(g(4)) + 1, Len(q)) = g(5)
    BY <1>6
  <2>2. SubSeq(str, end[3] + 1, end[4] - 1) = q
    BY <1>8, <1>9, <2>1
  <2>3. PICK n \in Nat \ {0} : n = Len(g(4))
    BY <1>2
  <2>4. PICK m \in Nat \ {0} : m = Len(g(5))
    BY <1>2
  <2>5. n \in 1..(Len(q) - 1)
    <3>1. Len(q) = n + m
      BY <2>1, <2>3, <2>4
    <3> QED BY <3>1
  <2>6. Call!Significant(SubSeq(q, 1, n)) = Call!Significant(whole(4))
    <3>1. Call!Significant(g(4)) = Call!Significant(whole(4))
      BY <1>2
    <3> QED BY <2>1, <2>3, <3>1
  <2>7. Call!Significant(SubSeq(q, n + 1, Len(q))) = Call!Significant(whole(5))
    <3>1. Call!Significant(g(5)) = Call!Significant(whole(5))
      BY <1>2
    <3> QED BY <2>1, <2>3, <3>1
  <2> QED BY <2>2, <2>5, <2>6, <2>7
<1>13. end[Call!Groups - 2] <= Len(str) /\ end[Call!Groups - 1] = Len(str) + 1
  <2>1. Call!Groups - 2 = 6 /\ Call!Groups - 1 = 7
    BY Sizes
  <2> QED BY <1>11, <2>1
<1>14. \A k \in 1..(Call!Groups - 1) :
         k # 4 => Call!Significant(SubSeq(str, end[k - 1] + 1, end[k] - 1))
                    = Call!Significant(whole(IF k < 4 THEN k ELSE k + 1))
  <2>1. Call!Groups - 1 = 7
    BY Sizes
  <2> QED BY <1>10, <2>1
<1>15. end[4 - 1] = end[3]
  OBVIOUS
<1> HIDE DEF str
<1>16. Call!Tells(str, p)
  BY <1>7, <1>12, <1>13, <1>14, <1>15, Zenon DEF Call!Tells, whole
<1> QED BY <1>16 DEF str

\* The slot that is kept is the one that is read off the data.
LEMMA ParamIsSlot ==
  ASSUME NEW d \in Seq(0..255), NEW i \in Nat \ {0}, NEW c \in Nat, i <= c,
         Len(d) = ABI_SELECTOR_SIZE + ABI_SLOT_SIZE * c
  PROVE  /\ Call!Param(d, i) \in Seq(0..255)
         /\ Len(Call!Param(d, i)) = ABI_SLOT_SIZE
         /\ Call!Param(d, i) = Call!SlotOf(d, i)
<1>1. PICK before \in Nat : before = ABI_SELECTOR_SIZE + (i - 1) * ABI_SLOT_SIZE
  <2>1. (i - 1) \in Nat /\ ABI_SLOT_SIZE \in Nat /\ ABI_SELECTOR_SIZE \in Nat
    BY Sizes
  <2>2. PICK k \in Nat : k = i - 1
    BY <2>1
  <2>3. k * ABI_SLOT_SIZE \in Nat
    BY <2>1, <2>2
  <2>4. PICK m \in Nat : m = (i - 1) * ABI_SLOT_SIZE
    BY <2>2, <2>3
  <2>5. ABI_SELECTOR_SIZE + m \in Nat
    BY <2>1
  <2> QED BY <2>4, <2>5
<1>2. PICK last \in Nat : last = before + ABI_SLOT_SIZE
  BY <1>1, Sizes
<1>3. ABI_SELECTOR_SIZE + i * ABI_SLOT_SIZE = last
  <2>1. i * ABI_SLOT_SIZE = (i - 1) * ABI_SLOT_SIZE + ABI_SLOT_SIZE
    BY Sizes
  <2>2. PICK m \in Int : m = (i - 1) * ABI_SLOT_SIZE
    <3>1. i - 1 \in Int /\ ABI_SLOT_SIZE \in Int
      BY Sizes
    <3> QED BY <3>1
  <2>3. PICK l : l = i * ABI_SLOT_SIZE
    OBVIOUS
  <2>4. l = m + ABI_SLOT_SIZE /\ before = ABI_SELECTOR_SIZE + m
    BY <1>1, <2>1, <2>2, <2>3
  <2>5. ABI_SELECTOR_SIZE + l = last
    BY <1>2, <2>2, <2>4, Sizes
  <2> QED BY <2>3, <2>5
<1>4. last <= Len(d)
  <2>1. i * ABI_SLOT_SIZE <= c * ABI_SLOT_SIZE
    BY Sizes
  <2>2. c * ABI_SLOT_SIZE = ABI_SLOT_SIZE * c
    BY Sizes
  <2>3. PICK l \in Nat : l = i * ABI_SLOT_SIZE
    BY Sizes
  <2>4. PICK m \in Nat : m = ABI_SLOT_SIZE * c
    BY Sizes
  <2>5. l <= m
    BY <2>1, <2>2, <2>3, <2>4
  <2>6. Len(d) = ABI_SELECTOR_SIZE + m /\ last = ABI_SELECTOR_SIZE + l
    BY <1>3, <2>3, <2>4
  <2> QED BY <2>5, <2>6, Sizes
<1>5. Call!Param(d, i) = SubSeq(d, before + 1, last)
  BY <1>1, <1>3 DEF Call!Param
<1>6. Len(d) \in Nat
  BY LenProperties
<1>7. before + 1 <= last /\ last - (before + 1) + 1 = ABI_SLOT_SIZE
  BY <1>1, <1>2, Sizes
<1>8. ASSUME NEW k \in (before + 1)..last PROVE d[k] \in 0..255
  <2>1. k \in 1..Len(d)
    BY <1>4, <1>6
  <2> QED BY <2>1, ElementOfSeq
<1>9. PICK p : p = SubSeq(d, before + 1, last)
  OBVIOUS
<1>10. /\ p \in Seq(0..255)
       /\ Len(p) = IF before + 1 <= last THEN last - (before + 1) + 1 ELSE 0
       /\ \A k \in 1..(last - (before + 1) + 1) : p[k] = d[(before + 1) + k - 1]
  BY <1>8, <1>9, SubSeqProperties
<1>11. p \in Seq(0..255) /\ Len(p) = ABI_SLOT_SIZE
  BY <1>7, <1>10
<1>12. ASSUME NEW k \in 1..ABI_SLOT_SIZE
       PROVE  p[k] = d[ABI_SELECTOR_SIZE + ABI_SLOT_SIZE * (i - 1) + k]
  <2>1. p[k] = d[(before + 1) + k - 1]
    BY <1>7, <1>10
  <2>2. (before + 1) + k - 1 = before + k
    BY <1>1, Sizes
  <2>3. (i - 1) * ABI_SLOT_SIZE = ABI_SLOT_SIZE * (i - 1)
    BY Sizes
  <2>4. before = ABI_SELECTOR_SIZE + ABI_SLOT_SIZE * (i - 1)
    BY <1>1, <2>3
  <2> QED BY <2>1, <2>2, <2>4
<1>13. p = [k \in 1..ABI_SLOT_SIZE |->
              d[ABI_SELECTOR_SIZE + ABI_SLOT_SIZE * (i - 1) + k]]
  <2>1. p \in [1..ABI_SLOT_SIZE -> 0..255]
    BY <1>11, LenProperties
  <2> QED BY <1>12, <2>1
<1> QED BY <1>5, <1>9, <1>11, <1>13 DEF Call!SlotOf

\* What a user confirmed was the selector and, in order, the numbers of the
\* slots of the transaction's own data (sign_tx.c:50-65,
\* ui_confirm_parameter_selector.c:39-55, 84-103).
THEOREM ScreensTellTheCall == Spec => []ScreensTellCalldata
<1>1. (kind = "call" => CallInv) => ScreensTellCalldata
  <2> SUFFICES ASSUME kind = "call", CallInv, shown # <<>>
               PROVE  /\ shown[1] = Call!format_hex(SubSeq(data, 1, ABI_SELECTOR_SIZE))
                      /\ \A i \in 1..(Len(shown) - 1) :
                           Call!Tells(shown[i + 1], Call!SlotOf(data, i))
    BY DEF ScreensTellCalldata, Call!ScreensTellCalldata
  <2>1. pc # "call" /\ calldata.ok
    BY DEF CallInv
  <2>2. Len(calldata.params) \in Nat
    BY <2>1, WalkedCall
  <2>3. PICK n \in Nat : 1 <= n /\ n <= 1 + Len(calldata.params) /\ shown = Screens(n)
    <3>1. CASE pc = "selector"
      <4>1. shown = Screens(1)
        BY <3>1 DEF CallInv
      <4> QED BY <2>2, <4>1
    <3>2. CASE pc = "param"
      <4>1. /\ g_param_index \in Nat /\ g_param_index < Len(calldata.params)
            /\ shown = Screens(g_param_index + 2)
        BY <3>2 DEF CallInv
      <4>2. PICK m \in Nat : m = g_param_index + 2
        BY <4>1
      <4>3. 1 <= m /\ m <= 1 + Len(calldata.params)
        BY <2>2, <4>1, <4>2
      <4> QED BY <4>1, <4>2, <4>3
    <3>3. CASE pc = "review"
      <4>1. shown = Screens(1 + Len(calldata.params))
        BY <2>1, <3>3 DEF CallInv
      <4>2. PICK m \in Nat : m = 1 + Len(calldata.params)
        BY <2>2
      <4>3. 1 <= m
        BY <2>2, <4>2
      <4> QED BY <4>1, <4>2, <4>3
    <3> QED BY <2>1, <3>1, <3>2, <3>3 DEF CallInv
  <2>4. /\ Len(shown) = n
        /\ \A k \in 1..n : shown[k] = IF k = 1 THEN Call!format_hex(calldata.selector)
                                      ELSE Call!ParameterText(calldata.params[k - 1])
    BY <2>3 DEF Screens
  <2>5. shown[1] = Call!format_hex(SubSeq(data, 1, ABI_SELECTOR_SIZE))
    <3>1. 1 \in 1..n
      BY <2>3
    <3>2. shown[1] = Call!format_hex(calldata.selector)
      BY <2>4, <3>1
    <3>3. calldata.selector = SubSeq(data, 1, ABI_SELECTOR_SIZE)
      BY <2>1, WalkedCall
    <3> QED BY <3>2, <3>3
  <2>6. ASSUME NEW i \in 1..(Len(shown) - 1)
        PROVE  Call!Tells(shown[i + 1], Call!SlotOf(data, i))
    <3>1. PICK k \in 1..n : k = i + 1 /\ k # 1 /\ k - 1 = i
      BY <2>4
    <3>2. shown[k] = Call!ParameterText(calldata.params[i])
      BY <2>4, <3>1
    <3>3. i \in 1..Len(calldata.params)
      BY <2>2, <2>3, <2>4
    <3>4. calldata.params[i] = Call!Param(data, i)
      BY <2>1, <3>3, WalkedCall
    <3>5. PICK c \in Nat : c = Call!SlotsIn(data)
      BY <2>1, WalkedCall
    <3>6. i \in Nat \ {0} /\ i <= c
      <4>1. PICK l \in 0..c : l = Len(calldata.params)
        BY <2>1, <3>5, WalkedCall
      <4> QED BY <3>3, <4>1
    <3>7. data \in Seq(0..255) /\ Call!abi_calldata_parse(data).ok
      BY <2>1, WalkedCall DEF CallInv
    <3>8. Len(data) = ABI_SELECTOR_SIZE + ABI_SLOT_SIZE * c
      BY <3>5, <3>7, KeptSlots
    <3>9. /\ Call!Param(data, i) \in Seq(0..255)
          /\ Len(Call!Param(data, i)) = ABI_SLOT_SIZE
          /\ Call!Param(data, i) = Call!SlotOf(data, i)
      BY <3>6, <3>7, <3>8, ParamIsSlot
    <3>10. Call!Tells(Call!ParameterText(Call!Param(data, i)), Call!Param(data, i))
      BY <3>9, LineTells
    <3>11. shown[i + 1] = Call!ParameterText(Call!Param(data, i))
      BY <3>1, <3>2, <3>4
    <3> QED BY <3>9, <3>10, <3>11
  <2> QED BY <2>5, <2>6
<1> QED BY <1>1, CallInvariance, PTL

-----------------------------------------------------------------------------
(* The sizes of the buffers *)

\* Eight numbers of at most two characters a byte and six colons, with the
\* colon that is cut and the terminator, fit the buffer.
LEMMA LineFits ==
  ASSUME NEW p \in Seq(0..255), Len(p) = ABI_SLOT_SIZE
  PROVE  /\ Len(Call!ParameterText(p)) \in Nat
         /\ Len(Call!ParameterText(p)) + 2 <= UI_BUFFER_SIZE
<1> DEFINE g(k) == Call!Split(Call!Group(p, k))
<1>1. PICK width \in Nat : width = 2 * GROUP_SIZE
  BY CallAssumption
<1>2. ASSUME NEW k \in 1..8 PROVE Len(g(k)) \in 0..width
  <2>1. Call!Group(p, k) \in Seq(0..255) /\ Len(Call!Group(p, k)) = GROUP_SIZE
    BY GroupBytes
  <2>2. Len(g(k)) \in 1..(2 * GROUP_SIZE)
    BY <2>1, SplitTells
  <2> QED BY <1>1, <2>2
<1> HIDE DEF g
<1>3. PICK str : str = Call!ParameterText(p)
  OBVIOUS
<1>4. PICK at :
        /\ at[0] = 0
        /\ Len(str) = at[8] - 1
        /\ \A k \in 1..8 : at[k] = at[k - 1] + Len(g(k)) + (IF k = 4 THEN 0 ELSE 1)
  BY <1>3, LinePlaces DEF g
<1>5. ASSUME NEW k \in 1..8, NEW a \in Nat, at[k - 1] = a
      PROVE  \E b \in Nat : b = at[k] /\ b <= a + width + 1
  <2>1. PICK n \in Nat : n = Len(g(k)) /\ n <= width
    <3>1. Len(g(k)) \in 0..width
      BY <1>2
    <3> QED BY <3>1
  <2>2. at[k] = a + n + (IF k = 4 THEN 0 ELSE 1)
    BY <1>4, <1>5, <2>1
  <2>3. PICK c \in 0..1 : c = IF k = 4 THEN 0 ELSE 1
    OBVIOUS
  <2>4. at[k] = a + n + c
    BY <2>2, <2>3
  <2>5. a + n + c \in Nat /\ a + n + c <= a + width + 1
    BY <1>1, <2>1, <2>3
  <2> QED BY <2>4, <2>5
<1>6. PICK a1 \in Nat : a1 = at[1] /\ a1 <= width + 1
  <2>1. 1 \in 1..8 /\ 1 - 1 = 0 /\ 0 \in Nat
    OBVIOUS
  <2>2. PICK b \in Nat : b = at[1] /\ b <= 0 + width + 1
    BY <1>4, <1>5, <2>1
  <2> QED BY <2>2
<1>7. PICK a2 \in Nat : a2 = at[2] /\ a2 <= 2 * width + 2
  <2>1. 2 \in 1..8 /\ 2 - 1 = 1
    OBVIOUS
  <2>2. PICK b \in Nat : b = at[2] /\ b <= a1 + width + 1
    BY <1>6, <1>5, <2>1
  <2>3. b <= a1 + width + 1 /\ a1 <= width + 1
    BY <1>6, <2>2
  <2>4. b <= 2 * width + 2
    BY <2>3
  <2> QED BY <2>2, <2>4
<1>8. PICK a3 \in Nat : a3 = at[3] /\ a3 <= 3 * width + 3
  <2>1. 3 \in 1..8 /\ 3 - 1 = 2
    OBVIOUS
  <2>2. PICK b \in Nat : b = at[3] /\ b <= a2 + width + 1
    BY <1>7, <1>5, <2>1
  <2>3. b <= a2 + width + 1 /\ a2 <= 2 * width + 2
    BY <1>7, <2>2
  <2>4. b <= 3 * width + 3
    BY <2>3
  <2> QED BY <2>2, <2>4
<1>9. PICK a4 \in Nat : a4 = at[4] /\ a4 <= 4 * width + 4
  <2>1. 4 \in 1..8 /\ 4 - 1 = 3
    OBVIOUS
  <2>2. PICK b \in Nat : b = at[4] /\ b <= a3 + width + 1
    BY <1>8, <1>5, <2>1
  <2>3. b <= a3 + width + 1 /\ a3 <= 3 * width + 3
    BY <1>8, <2>2
  <2>4. b <= 4 * width + 4
    BY <2>3
  <2> QED BY <2>2, <2>4
<1>10. PICK a5 \in Nat : a5 = at[5] /\ a5 <= 5 * width + 5
  <2>1. 5 \in 1..8 /\ 5 - 1 = 4
    OBVIOUS
  <2>2. PICK b \in Nat : b = at[5] /\ b <= a4 + width + 1
    BY <1>9, <1>5, <2>1
  <2>3. b <= a4 + width + 1 /\ a4 <= 4 * width + 4
    BY <1>9, <2>2
  <2>4. b <= 5 * width + 5
    BY <2>3
  <2> QED BY <2>2, <2>4
<1>11. PICK a6 \in Nat : a6 = at[6] /\ a6 <= 6 * width + 6
  <2>1. 6 \in 1..8 /\ 6 - 1 = 5
    OBVIOUS
  <2>2. PICK b \in Nat : b = at[6] /\ b <= a5 + width + 1
    BY <1>10, <1>5, <2>1
  <2>3. b <= a5 + width + 1 /\ a5 <= 5 * width + 5
    BY <1>10, <2>2
  <2>4. b <= 6 * width + 6
    BY <2>3
  <2> QED BY <2>2, <2>4
<1>12. PICK a7 \in Nat : a7 = at[7] /\ a7 <= 7 * width + 7
  <2>1. 7 \in 1..8 /\ 7 - 1 = 6
    OBVIOUS
  <2>2. PICK b \in Nat : b = at[7] /\ b <= a6 + width + 1
    BY <1>11, <1>5, <2>1
  <2>3. b <= a6 + width + 1 /\ a6 <= 6 * width + 6
    BY <1>11, <2>2
  <2>4. b <= 7 * width + 7
    BY <2>3
  <2> QED BY <2>2, <2>4
<1>13. PICK a8 \in Nat : a8 = at[8] /\ a8 <= 8 * width + 8
  <2>1. 8 \in 1..8 /\ 8 - 1 = 7
    OBVIOUS
  <2>2. PICK b \in Nat : b = at[8] /\ b <= a7 + width + 1
    BY <1>12, <1>5, <2>1
  <2>3. b <= a7 + width + 1 /\ a7 <= 7 * width + 7
    BY <1>12, <2>2
  <2>4. b <= 8 * width + 8
    BY <2>3
  <2> QED BY <2>2, <2>4
<1>14. PICK size \in Nat : size = UI_BUFFER_SIZE /\ 8 * width + 8 < size
  BY <1>1, CallAssumption
<1>15. PICK n \in Nat : n = Len(str)
  <2>1. str \in Seq(LineChars)
    BY <1>3, LinePlaces
  <2> QED BY <2>1, LenProperties
<1>16. n + 2 <= size
  <2>1. n = a8 - 1
    BY <1>4, <1>13, <1>15
  <2>2. a8 <= 8 * width + 8 /\ 8 * width + 8 < size
    BY <1>13, <1>14
  <2> QED BY <2>1, <2>2
<1> QED BY <1>3, <1>14, <1>15, <1>16

\* What is kept of a call is whole slots, as many as there is room for.
LEMMA KeptParams ==
  ASSUME CallInv
  PROVE  /\ calldata.params \in Seq(Seq(0..255))
         /\ Len(calldata.params) \in 0..ABI_MAX_PARAMS
         /\ \A i \in 1..Len(calldata.params) : Len(calldata.params[i]) = ABI_SLOT_SIZE
<1>1. CASE pc = "call" \/ ~ calldata.ok
  <2>1. calldata = Call!NoCalldata
    <3>1. CASE pc = "call"
      BY <3>1 DEF CallInv
    <3>2. CASE pc # "call"
      <4>1. calldata = Call!abi_calldata_parse(data) /\ ~ calldata.ok
        BY <1>1, <3>2 DEF CallInv
      <4> QED BY <4>1 DEF Call!abi_calldata_parse
    <3> QED BY <3>1, <3>2
  <2>2. calldata.params = <<>>
    BY <2>1 DEF Call!NoCalldata
  <2> QED BY <2>2, EmptySeq, Sizes
<1>2. CASE pc # "call" /\ calldata.ok
  <2>1. /\ data \in Seq(0..255)
        /\ calldata = Call!abi_calldata_parse(data)
    BY <1>2, CallAssumption DEF CallInv
  <2>2. PICK n \in Nat, c \in Nat :
          /\ n = Call!ParamCount(Len(data)) /\ c = Call!SlotsIn(data)
          /\ n <= c /\ n <= ABI_MAX_PARAMS
          /\ Len(data) = ABI_SELECTOR_SIZE + ABI_SLOT_SIZE * c
          /\ calldata.params = [i \in 1..n |-> Call!Param(data, i)]
    <3>1. PICK c \in Nat : /\ c = Call!SlotsIn(data)
                           /\ Len(data) = ABI_SELECTOR_SIZE + ABI_SLOT_SIZE * c
      BY <1>2, <2>1, KeptSlots
    <3>2. PICK n : /\ n = Call!ParamCount(Len(data)) /\ n \in 0..c
                   /\ n = Call!Least(c, ABI_MAX_PARAMS)
      BY <1>2, <2>1, <3>1, KeptSlots
    <3>3. n \in Nat /\ n <= c /\ n <= ABI_MAX_PARAMS
      BY <3>2, Sizes DEF Call!Least
    <3>4. calldata.params = [i \in 1..n |-> Call!Param(data, i)]
      <4>1. calldata = [ok |-> TRUE, selector |-> SubSeq(data, 1, ABI_SELECTOR_SIZE),
                        params |-> [i \in 1..n |-> Call!Param(data, i)]]
        BY <1>2, <2>1, <3>2, KeptSlots
      <4> QED BY ONLY <4>1
    <3> QED BY <3>1, <3>2, <3>3, <3>4
  <2>3. ASSUME NEW i \in 1..n
        PROVE  Call!Param(data, i) \in Seq(0..255)
               /\ Len(Call!Param(data, i)) = ABI_SLOT_SIZE
    <3>1. i \in Nat \ {0} /\ i <= c
      BY <2>2
    <3> QED BY <2>1, <2>2, <3>1, ParamIsSlot
  <2>4. calldata.params \in [1..n -> Seq(0..255)]
    BY <2>2, <2>3
  <2>5. calldata.params \in Seq(Seq(0..255)) /\ Len(calldata.params) = n
    BY <2>4
  <2> QED BY <2>2, <2>3, <2>5, Sizes
<1> QED BY <1>1, <1>2

\* The index stays within the parameters that are kept, and the line of each of
\* them fits.
BufferInv ==
  /\ g_param_index \in 0..ABI_MAX_PARAMS
  /\ Len(g_ui_buffer) + 2 <= UI_BUFFER_SIZE

\* Nothing is in the buffer before the first screen.
LEMMA BufferStarts ==
  ASSUME Call!Init PROVE BufferInv
<1>1. g_param_index = 0 /\ g_ui_buffer = <<>> /\ Len(<<>>) = 0
  BY EmptySeq DEF Call!Init
<1>2. 2 <= UI_BUFFER_SIZE
  <2>1. PICK g \in Nat : g = GROUP_SIZE /\ 8 * (2 * g + 1) < UI_BUFFER_SIZE
    BY CallAssumption
  <2> QED BY <2>1, CallAssumption
<1> QED BY <1>1, <1>2, Sizes DEF BufferInv

\* A screen more writes one line, of a parameter that was kept.
LEMMA BufferStep ==
  ASSUME CallInv, BufferInv, Call!Next PROVE BufferInv'
<1>1. CASE Call!Call
  <2>1. g_param_index' = 0 /\ g_ui_buffer' = g_ui_buffer
    BY <1>1 DEF Call!Call, Call!Review
  <2> QED BY <2>1, Sizes DEF BufferInv
<1>2. CASE Call!Confirm
  <2>1. /\ pc \in {"selector", "param"} /\ g_param_index' = Call!NextIndex
        /\ calldata' = calldata
    BY <1>2 DEF Call!Confirm
  <2>2. PICK n \in 0..ABI_MAX_PARAMS : n = Len(calldata.params)
    BY KeptParams
  <2>3. g_param_index' \in 0..ABI_MAX_PARAMS
    <3>1. CASE pc = "selector"
      BY <2>1, <3>1, Sizes DEF Call!NextIndex
    <3>2. CASE pc = "param"
      <4>1. g_param_index \in Nat /\ g_param_index < n
        BY <2>2, <3>2 DEF CallInv
      <4>2. g_param_index' = g_param_index + 1
        BY <2>1, <3>2 DEF Call!NextIndex
      <4> QED BY <2>2, <4>1, <4>2, Sizes
    <3> QED BY <2>1, <3>1, <3>2
  <2>4. CASE g_param_index' < n
    <3>1. g_ui_buffer' = Call!ParameterText(calldata.params[g_param_index' + 1])
      BY <1>2, <2>2, <2>4 DEF Call!Confirm, Call!ShowParameter
    <3>2. PICK i \in 1..n : i = g_param_index' + 1
      <4>1. PICK j \in Nat : j = g_param_index' /\ j < n
        BY <2>3, <2>4, Sizes
      <4>2. j + 1 \in 1..n
        <5>1. n \in Nat
          BY Sizes
        <5>2. j < n
          BY <4>1
        <5> QED BY <5>1, <5>2
      <4> QED BY <4>1, <4>2
    <3>3. PICK p : p = calldata.params[i]
      OBVIOUS
    <3>4. p \in Seq(0..255) /\ Len(p) = ABI_SLOT_SIZE
      BY <2>2, <3>2, <3>3, KeptParams, ElementOfSeq
    <3>5. Len(Call!ParameterText(p)) + 2 <= UI_BUFFER_SIZE
      BY <3>4, LineFits
    <3>6. g_ui_buffer' = Call!ParameterText(p)
      BY <3>1, <3>2, <3>3
    <3> QED BY <2>3, <3>5, <3>6 DEF BufferInv
  <2>5. CASE ~ (g_param_index' < n)
    <3>1. g_ui_buffer' = g_ui_buffer
      BY <1>2, <2>2, <2>5 DEF Call!Confirm, Call!Review
    <3> QED BY <2>3, <3>1 DEF BufferInv
  <2> QED BY <2>4, <2>5
<1> QED BY <1>1, <1>2 DEF Call!Next

\* The other texts leave the buffer alone.
LEMMA BufferInvariance == Spec => [](kind = "call" => BufferInv)
<1>1. Init => (kind = "call" => BufferInv)
  BY BufferStarts DEF Init
<1>2. /\ kind = "call" => CallInv
      /\ kind = "call" => BufferInv
      /\ [Next]_vars
      => (kind = "call" => BufferInv)'
  <2> SUFFICES ASSUME kind = "call" => CallInv, kind = "call" => BufferInv,
                      [Next]_vars, kind' = "call"
               PROVE  BufferInv'
    OBVIOUS
  <2>1. CASE WalkCall
    BY <2>1, BufferStep DEF WalkCall
  <2>2. CASE WriteNumber \/ WriteAddress
    BY <2>2 DEF WriteNumber, WriteAddress
  <2>3. CASE UNCHANGED vars
    BY <2>3 DEF vars, callVars, BufferInv
  <2> QED BY <2>1, <2>2, <2>3 DEF Next
<1> QED BY <1>1, <1>2, CallInvariance, PTL DEF Spec

\* A behaviour keeps to the text it began with.
LEMMA KindStays == Spec => [](kind \in {"number", "address", "call"})
<1>1. Init => kind \in {"number", "address", "call"}
  BY DEF Init
<1>2. kind \in {"number", "address", "call"} /\ [Next]_vars
        => (kind \in {"number", "address", "call"})'
  BY DEF Next, WriteNumber, WriteAddress, WalkCall, vars
<1> QED BY <1>1, <1>2, PTL DEF Spec

\* A number with more digits than result has room for is the only one that is
\* written in front of it.
LEMMA DigitsHaveRoom ==
  ASSUME NumberInv, Len(Number!Decimal(bytes)) <= MAX_DECIMAL_DIGITS
  PROVE  Len(result) <= MAX_DECIMAL_DIGITS
<1>1. CASE pc # "overrun"
  BY <1>1 DEF NumberInv
<1>2. CASE pc = "overrun"
  <2>1. PICK D : D = Number!Decimal(bytes)
    OBVIOUS
  <2>2. PICK T : T = Number!Decimal(temp)
    OBVIOUS
  <2>3. /\ T \in Seq(Range(Number!Digits)) /\ result \in Seq(Range(Number!Digits))
        /\ T \o result = D
    BY <1>2, <2>1, <2>2, DecimalIs DEF NumberInv
  <2>4. Len(D) = Len(T) + Len(result) /\ Len(T) \in Nat /\ Len(result) \in Nat
    BY <2>3, ConcatProperties, LenProperties
  <2>5. MAX_DECIMAL_DIGITS \in Nat /\ Len(D) <= MAX_DECIMAL_DIGITS
    BY <2>1, NumberAssumption
  <2> QED BY <2>4, <2>5
<1> QED BY <1>1, <1>2

\* A nonce's line is empty until all of its digits are copied at once.
LEMMA NonceHasRoom ==
  ASSUME NumberInv, line = "nonce",
         Len(Number!Written(Number!Decimal(bytes))) < G_NONCE_LEN
  PROVE  Len(text) < G_NONCE_LEN
<1>1. PICK w : w = Number!Written(Number!Decimal(bytes))
  OBVIOUS
<1>2. CASE pc = "done"
  <2>1. text = w
    BY <1>1, <1>2 DEF NumberInv
  <2> QED BY <1>1, <2>1
<1>3. CASE pc # "done"
  <2>1. text = <<>> /\ Len(<<>>) = 0
    BY <1>3, EmptySeq DEF NumberInv
  <2>2. Len(w) \in Nat
    <3>1. PICK D \in Seq(Range(Number!Digits)) : D = Number!Decimal(bytes)
      BY DecimalIs DEF NumberInv
    <3>2. w = IF D = <<>> THEN <<"0">> ELSE D
      BY <1>1, <3>1 DEF Number!Written
    <3>3. Len(<<"0">>) = 1 /\ Len(D) \in Nat
      BY LenProperties
    <3> QED BY <3>2, <3>3
  <2>3. G_NONCE_LEN \in Nat /\ Len(w) < G_NONCE_LEN
    BY <1>1, NumberAssumption
  <2> QED BY <2>1, <2>2, <2>3
<1> QED BY <1>2, <1>3

\* Whatever the address or the call, nothing is written past the end of its
\* buffers and no index leaves its table; an amount of at most
\* MAX_DECIMAL_DIGITS digits stays within result and its line, and a nonce of
\* fewer digits than g_nonce has characters within g_nonce.  It says nothing of
\* longer numbers, which leave result and g_nonce
\* (nbgl_display_transaction.c:44-50, 57-78, address.c:117-154,
\* ui_confirm_parameter_selector.c:24-36).
THEOREM BuffersHold == Spec => []TypeOK
<1>1. kind = "number" /\ NumberInv => TypeOK
  <2> SUFFICES ASSUME kind = "number", NumberInv PROVE Number!TypeOK
    BY DEF TypeOK
  <2>1. /\ line \in {"nonce", "amount"} /\ bytes \in Seq(0..255)
        /\ temp \in Seq(0..255) /\ Len(temp) = Len(bytes)
        /\ result \in Seq(Range(Number!Digits))
        /\ pc \in {"divide", "format", "print", "done", "overrun"}
        /\ line = "amount" => Len(text) < G_AMOUNT_LEN
    BY DEF NumberInv
  <2>2. Number!Range(Number!Digits) = Range(Number!Digits)
    BY Zenon DEF Range, Number!Range
  <2>3. Len(Number!Decimal(bytes)) <= MAX_DECIMAL_DIGITS =>
          Len(result) <= MAX_DECIMAL_DIGITS
    BY DigitsHaveRoom
  <2>4. IF line = "amount" THEN Len(text) < G_AMOUNT_LEN
        ELSE Len(Number!Written(Number!Decimal(bytes))) < G_NONCE_LEN =>
               Len(text) < G_NONCE_LEN
    <3>1. line = "amount" \/ line = "nonce"
      BY <2>1
    <3> QED BY <2>1, <3>1, NonceHasRoom, Zenon
  <2> QED BY <2>1, <2>2, <2>3, <2>4, Zenon DEF Number!TypeOK
<1>2. kind = "address" /\ AddressInv => TypeOK
  <2> SUFFICES ASSUME kind = "address", AddressInv PROVE Address!TypeOK
    BY DEF TypeOK
  <2>1. \A i \in 1..Len(out) : out[i] \in Cells
    BY ElementOfSeq DEF AddressInv
  <2>2. Cells = Range(Address!Lower) \cup Range(Address!Upper) \cup {"Q", "nul"}
    BY Zenon DEF Cells, Letters
  <2>3. Address!Range(Address!Lower) = Range(Address!Lower)
        /\ Address!Range(Address!Upper) = Range(Address!Upper)
    BY Zenon DEF Range, Address!Range
  <2> QED BY <2>1, <2>2, <2>3, Zenon DEF AddressInv, Address!TypeOK, Address!NUL
<1>3. kind = "call" /\ CallInv /\ BufferInv => TypeOK
  <2> SUFFICES ASSUME kind = "call", CallInv, BufferInv PROVE Call!TypeOK
    BY DEF TypeOK
  <2>1. /\ calldata.params \in Seq(Seq(0..255))
        /\ Len(calldata.params) <= ABI_MAX_PARAMS
    BY KeptParams, Sizes
  <2> QED BY <2>1 DEF CallInv, BufferInv, Call!TypeOK
<1>4. /\ kind \in {"number", "address", "call"}
      /\ kind = "number" => NumberInv
      /\ kind = "address" => AddressInv
      /\ kind = "call" => CallInv
      /\ kind = "call" => BufferInv
      => TypeOK
  BY <1>1, <1>2, <1>3
<1> QED BY <1>4, NumberInvariance, AddressInvariance, CallInvariance,
           BufferInvariance, KindStays, PTL
=============================================================================
