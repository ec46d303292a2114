-------------------------- MODULE RlpDecoderProofs --------------------------
(***************************************************************************)
(* Theorems about RlpDecoder: for every input and all sizes, the decoder   *)
(* reads within its input and writes within, and in the order of, its      *)
(* fields.                                                                 *)
(***************************************************************************)
EXTENDS RlpClaims, SequenceLemmas

(* A byte of the length behind a long prefix, if it is read at all. *)
LEMMA PlaceType ==
  ASSUME NEW input \in Seq(Octet), NEW n \in Nat, n <= Len(input) - 1,
         NEW k \in Nat
  PROVE  Place(input, n, k) \in Nat
<1>1. CASE k < n /\ k < SIZE_BYTES
  <2>1. Len(input) \in Nat
    BY LenProperties
  <2>2. 1 + n - k \in 1..Len(input)
    BY <1>1, <2>1
  <2>3. input[1 + n - k] \in Octet
    BY <2>2, ElementOfSeq
  <2>4. Place(input, n, k) = input[1 + n - k]
    BY <1>1 DEF Place
  <2>5. \A x \in Octet : x \in Nat
    BY DEF Octet
  <2> QED BY <2>3, <2>4, <2>5
<1>2. CASE ~(k < n /\ k < SIZE_BYTES)
  BY <1>2 DEF Place
<1> QED BY <1>1, <1>2

(* The length read behind a long prefix is a number, whatever the bytes. *)
LEMMA LengthReadType ==
  ASSUME NEW input \in Seq(Octet), NEW n \in Nat, n <= Len(input) - 1
  PROVE  LengthRead(input, n) \in Nat
<1> DEFINE w == Place(input, n, 0)
           x == Place(input, n, 1)
           y == Place(input, n, 2)
           z == Place(input, n, 3)
<1>1. w \in Nat /\ x \in Nat /\ y \in Nat /\ z \in Nat
  BY PlaceType
<1>2. LengthRead(input, n) = w + 256 * x + 65536 * y + 16777216 * z
  BY DEF LengthRead
<1> HIDE DEF w, x, y, z
<1> QED BY <1>1, <1>2, SMT

(* What the checks of a short item leave. *)
LEMMA ShortItemWithin ==
  ASSUME NEW input \in Seq(Octet), NEW len \in Nat,
         ShortItem(input, len) # NoItem
  PROVE  /\ ShortItem(input, len) = Item(1, len)
         /\ len <= Len(input) - 1
BY DEF ShortItem

(* What the checks of a long item leave: the subtraction in the second one
   does not go below zero, and its length is within what remains. *)
LEMMA LongItemWithin ==
  ASSUME NEW input \in Seq(Octet), NEW n \in Nat,
         LongItem(input, n) # NoItem
  PROVE  /\ LongItem(input, n) = Item(1 + n, LengthRead(input, n))
         /\ LengthRead(input, n) \in Nat
         /\ n <= Len(input) - 1
         /\ LengthRead(input, n) <= Len(input) - 1 - n
<1>1. n <= Len(input) - 1
  BY DEF LongItem
<1>2. LengthRead(input, n) \in Nat
  BY <1>1, LengthReadType
<1>3. LengthRead(input, n) <= Len(input) - 1 - n
  BY <1>1, <1>2, LenProperties DEF LongItem
<1> QED BY <1>1, <1>2, <1>3 DEF LongItem

Within(it, input) == /\ it.header \in Nat
                     /\ it.len \in Nat
                     /\ it.consumed = it.header + it.len
                     /\ it.consumed \in 1..Len(input)

\* The first byte of an input that is not empty is a byte.
LEMMA PrefixType ==
  ASSUME NEW input \in Seq(Octet), input # <<>>
  PROVE  Len(input) \in Nat \ {0} /\ input[1] \in 0..255
<1>1. Len(input) \in Nat \ {0}
  BY EmptySeq, LenProperties
<1>2. input[1] \in Octet
  BY <1>1, ElementOfSeq, 1 \in 1..Len(input)
<1> QED BY <1>1, <1>2 DEF Octet

(* An item that is accepted lies within the input and is not empty. *)
LEMMA ItemWithin ==
  ASSUME NEW input \in Seq(Octet), parse_rlp_item(input) # NoItem
  PROVE  Within(parse_rlp_item(input), input)
<1>1. input # <<>>
  BY DEF parse_rlp_item
<1> DEFINE prefix == input[1]
<1>2. Len(input) \in Nat \ {0} /\ prefix \in 0..255
  BY <1>1, PrefixType
<1> HIDE DEF prefix
<1>3. parse_rlp_item(input) =
        IF prefix <= 127 THEN Item(0, 1)
        ELSE IF prefix <= 183 THEN ShortItem(input, prefix - 128)
        ELSE IF prefix <= 191 THEN LongItem(input, prefix - 183)
        ELSE IF prefix <= 247 THEN ShortItem(input, prefix - 192)
        ELSE LongItem(input, prefix - 247)
  BY <1>1 DEF parse_rlp_item, prefix
<1>4. ASSUME NEW len \in Nat, parse_rlp_item(input) = ShortItem(input, len)
      PROVE  Within(parse_rlp_item(input), input)
  BY <1>2, <1>4, ShortItemWithin DEF Within, Item
<1>5. ASSUME NEW n \in Nat, parse_rlp_item(input) = LongItem(input, n)
      PROVE  Within(parse_rlp_item(input), input)
  BY <1>2, <1>5, LongItemWithin DEF Within, Item
<1>6. CASE prefix <= 127
  BY <1>2, <1>3, <1>6 DEF Within, Item
<1>7. CASE prefix \in 128..183 \cup 192..247
  BY <1>2, <1>3, <1>4, <1>7
<1>8. CASE prefix \in 184..191 \cup 248..255
  BY <1>2, <1>3, <1>5, <1>8
<1> QED BY <1>2, <1>6, <1>7, <1>8

\* The header of the list is read from the input.
LEMMA HeaderWithin ==
  ASSUME NEW input \in Seq(Octet), parse_rlp_list_header(input) # NoItem
  PROVE  /\ Within(parse_rlp_list_header(input), input)
         /\ parse_rlp_list_header(input).header >= 1
<1>1. input # <<>>
  BY DEF parse_rlp_list_header
<1> DEFINE prefix == input[1]
<1>2. Len(input) \in Nat \ {0} /\ prefix \in 0..255
  BY <1>1, PrefixType
<1> HIDE DEF prefix
<1>3. parse_rlp_list_header(input) =
        IF prefix <= 191 THEN NoItem
        ELSE IF prefix <= 247 THEN ShortItem(input, prefix - 192)
        ELSE LongItem(input, prefix - 247)
  BY <1>1 DEF parse_rlp_list_header, prefix
<1>4. CASE prefix <= 191
  BY <1>2, <1>3, <1>4
<1>5. CASE prefix \in 192..247
  BY <1>2, <1>3, <1>5, ShortItemWithin DEF Within, Item
<1>6. CASE prefix \in 248..255
  BY <1>2, <1>3, <1>6, LongItemWithin DEF Within, Item
<1> QED BY <1>2, <1>4, <1>5, <1>6
-----------------------------------------------------------------------------
(* The invariants *)

(* The pointer has not moved before the header is read: ReadHeader sets it
   to a fixed place.  Only ReadEnd accepts. *)
AtStart == dec.item = 0 => dec.p = 0

AtEnd == dec.status = "accepted" =>
           dec.item = FieldCount + 1 /\ dec.p = dec.payload_end

IInv == TypeOK /\ ReadsWithinInput /\ StoredInOrder /\ AtStart /\ AtEnd

\* The names of the fields: no two of the same, each stored or left out.
LEMMA FieldsKnown ==
  /\ TxFieldNames = {"chain_id", "nonce", "gas_tip_cap", "gas_fee_cap", "gas",
                     "to", "value", "data", "descriptor"}
  /\ \A i, j \in 1..FieldCount : Fields11[i] = Fields11[j] => i = j
  /\ \A i \in 1..FieldCount : Fields11[i] \in TxFieldNames \/ Fields11[i] \in NotStored
BY DEF TxFieldNames, FieldNames, NotStored, Fields11, FieldCount

(* Nothing is written before the first item. *)
LEMMA InitInv == Init => IInv
<1> SUFFICES ASSUME Init PROVE IInv
  OBVIOUS
<1>1. rlp \in Seq(Octet)
  BY InputsAssumption DEF Init
<1>2. Len(rlp) \in Nat
  BY <1>1, LenProperties
<1>3. TypeOK
  BY <1>1, <1>2 DEF Init, Start, TypeOK, Values, FieldCount
<1>4. ReadsWithinInput
  BY <1>2 DEF Init, Start, ReadsWithinInput
<1>5. StoredInOrder
  BY DEF Init, Start, StoredInOrder, FieldCount
<1>6. AtStart
  BY DEF Init, Start, AtStart
<1>7. AtEnd
  BY DEF Init, Start, AtEnd
<1> QED BY <1>3, <1>4, <1>5, <1>6, <1>7 DEF IInv

(* The bytes that remain are bytes of the input, as many as remain. *)
LEMMA RestType ==
  ASSUME IInv
  PROVE  /\ Rest(rlp, dec) \in Seq(Octet)
         /\ Len(Rest(rlp, dec)) = dec.remaining
<1>1. /\ rlp \in Seq(Octet) /\ dec.p \in Nat /\ dec.remaining \in Nat
      /\ dec.p + dec.remaining = Len(rlp)
  BY DEF IInv, TypeOK, ReadsWithinInput
<1>2. Len(rlp) \in Nat
  BY <1>1, LenProperties
<1> QED BY <1>1, <1>2, SubSeqProperties DEF Rest

(* A refusal changes the status alone. *)
LEMMA RefuseKeeps ==
  ASSUME IInv, UNCHANGED rlp, dec' = Refuse(dec)
  PROVE  IInv'
<1>1. /\ dec' = [dec EXCEPT !.status = "refused"]
      /\ rlp' = rlp
  BY DEF Refuse
<1>2. TypeOK'
  BY <1>1 DEF IInv, TypeOK
<1>3. /\ dec'.p = dec.p /\ dec'.remaining = dec.remaining
      /\ dec'.item = dec.item /\ dec'.payload_end = dec.payload_end
      /\ dec'.tx = dec.tx
  BY <1>1 DEF IInv, TypeOK
<1>4. ReadsWithinInput'
  BY <1>1, <1>3 DEF IInv, ReadsWithinInput
<1>5. StoredInOrder'
  BY <1>3 DEF IInv, StoredInOrder
<1>6. AtStart'
  BY <1>3 DEF IInv, AtStart
<1>7. AtEnd'
  BY <1>1 DEF IInv, TypeOK, AtEnd
<1> QED BY <1>2, <1>4, <1>5, <1>6, <1>7 DEF IInv

(* The header moves the pointer to the first item and fixes the end. *)
LEMMA HeaderKeeps ==
  ASSUME IInv, Header
  PROVE  IInv'
<1> DEFINE h == parse_rlp_list_header(Tail(rlp))
<1>1. /\ dec.item = 0 /\ dec' = ReadHeader(rlp, dec) /\ rlp' = rlp
      /\ rlp \in Seq(Octet)
  BY DEF Header, Decode, IInv, TypeOK
<1>2. CASE dec' = Refuse(dec)
  BY <1>1, <1>2, RefuseKeeps
<1>3. CASE dec' # Refuse(dec)
  <2>1. /\ rlp # <<>>
        /\ h # NoItem
        /\ dec' = [dec EXCEPT !.item = 1, !.p = 1 + h.header,
                              !.remaining = @ - 1 - h.header,
                              !.payload_end = 1 + h.consumed]
    BY <1>1, <1>3 DEF ReadHeader, NoItem
  <2>2. /\ Tail(rlp) \in Seq(Octet) /\ Len(Tail(rlp)) = Len(rlp) - 1
        /\ Len(rlp) \in Nat \ {0}
    BY <1>1, <2>1, HeadTailProperties, PrefixType
  <2>3. Within(h, Tail(rlp)) /\ h.header >= 1
    BY <2>1, <2>2, HeaderWithin
  <2> HIDE DEF h
  <2>4. dec.remaining = Len(rlp) /\ dec.p = 0
    BY <1>1, <2>2 DEF IInv, TypeOK, ReadsWithinInput, AtStart
  <2>5. /\ h.header \in Nat /\ h.consumed \in 1..(Len(rlp) - 1)
        /\ h.header <= h.consumed
    BY <2>2, <2>3 DEF Within
  <2>6. /\ dec'.item = 1 /\ dec'.p = 1 + h.header
        /\ dec'.remaining = Len(rlp) - 1 - h.header
        /\ dec'.payload_end = 1 + h.consumed /\ dec'.tx = dec.tx
    BY <2>1, <2>4 DEF IInv, TypeOK
  <2>7. TypeOK'
    <3>1. /\ 1 + h.header \in Nat /\ 1 + h.consumed \in Nat
          /\ Len(rlp) - 1 - h.header \in Nat /\ 1 \in 0..(FieldCount + 1)
      BY <2>2, <2>5 DEF FieldCount
    <3>2. dec' = [dec EXCEPT !.item = 1, !.p = 1 + h.header,
                            !.remaining = Len(rlp) - 1 - h.header,
                            !.payload_end = 1 + h.consumed]
      BY <2>1, <2>4 DEF IInv, TypeOK
    <3> QED BY <1>1, <3>1, <3>2 DEF IInv, TypeOK
  <2>8. ReadsWithinInput'
    BY <1>1, <2>2, <2>5, <2>6 DEF ReadsWithinInput
  <2>9. StoredInOrder'
    BY <1>1, <2>6 DEF IInv, StoredInOrder, FieldCount
  <2>10. dec'.status = "decoding"
    BY <2>1 DEF Header, Decode, IInv, TypeOK
  <2> QED BY <2>6, <2>7, <2>8, <2>9, <2>10 DEF IInv, AtStart, AtEnd
<1> QED BY <1>2, <1>3

(* What is stored fits. *)
LEMMA AcceptedFits ==
  ASSUME NEW name \in TxFieldNames, NEW val, Accepted(name, val)
  PROVE  Len(val) <= Capacity[name]
<1>1. \/ name \in {"chain_id", "gas_tip_cap", "gas_fee_cap", "value", "nonce",
                   "gas", "data"}
      \/ name = "to"
      \/ name = "descriptor"
  BY FieldsKnown
<1>2. CASE name \in {"chain_id", "gas_tip_cap", "gas_fee_cap", "value",
                     "nonce", "gas", "data"}
  BY <1>2 DEF Accepted, Capacity
<1>3. CASE name = "to"
  BY <1>3, DecoderAssumption DEF Accepted, Capacity
<1>4. CASE name = "descriptor"
  <2>1. val = <<1, 0, 0>> /\ Capacity[name] = 3
    BY <1>4 DEF Accepted, Capacity
  <2>2. Len(<<1, 0, 0>>) = 3
    OBVIOUS
  <2> QED BY <2>1, <2>2
<1> QED BY <1>1, <1>2, <1>3, <1>4

(* An item moves the pointer within what remains and adds its own field. *)
LEMMA FieldKeeps ==
  ASSUME IInv, Field
  PROVE  IInv'
<1> DEFINE it == parse_rlp_item(Rest(rlp, dec))
           val == SubSeq(rlp, dec.p + it.header + 1, dec.p + it.consumed)
           name == Fields11[dec.item]
<1>1. /\ dec.item \in 1..FieldCount /\ dec' = ReadField(rlp, dec) /\ rlp' = rlp
      /\ rlp \in Seq(Octet) /\ Len(rlp) \in Nat
      /\ dec.p \in Nat /\ dec.remaining \in Nat
      /\ dec.p + dec.remaining = Len(rlp)
      /\ dec.tx \in [TxFieldNames -> Values]
  BY LenProperties DEF Field, Decode, IInv, TypeOK, ReadsWithinInput
<1>2. CASE dec' = Refuse(dec)
  BY <1>1, <1>2, RefuseKeeps
<1>3. CASE dec' # Refuse(dec)
  <2>1. /\ it # NoItem
        /\ Accepted(name, val)
        /\ dec' = [dec EXCEPT !.item = @ + 1, !.p = @ + it.consumed,
                              !.remaining = @ - it.consumed,
                              !.tx = IF name \in NotStored THEN @
                                     ELSE [@ EXCEPT ![name] = val]]
    BY <1>1, <1>3 DEF ReadField, Left, NoItem
  <2>2. Within(it, Rest(rlp, dec)) /\ Len(Rest(rlp, dec)) = dec.remaining
    BY <2>1, RestType, ItemWithin
  <2> HIDE DEF it
  <2>3. /\ it.header \in Nat /\ it.consumed \in 1..dec.remaining
    BY <2>2 DEF Within
  <2>4. val \in Seq(Octet)
    <3>1. \A i \in (dec.p + it.header + 1)..(dec.p + it.consumed) :
            rlp[i] \in Octet
      BY <1>1, <2>3, ElementOfSeq
    <3> QED BY <1>1, <2>3, <3>1, SubSeqProperties
  <2> HIDE DEF val
  <2>5. val # Unwritten
    <3>1. Len(Unwritten) = 1 /\ Unwritten[1] = -1
      BY DEF Unwritten
    <3>2. ASSUME val = Unwritten PROVE FALSE
      <4>1. val[1] \in Octet
        <5>1. Len(val) = 1
          BY <3>1, <3>2
        <5> QED BY <2>4, <5>1, ElementOfSeq
      <4>2. -1 \in Octet
        BY <3>1, <3>2, <4>1
      <4> QED BY <4>2 DEF Octet
    <3> QED BY <3>2
  <2>6. /\ dec'.item = dec.item + 1 /\ dec'.p = dec.p + it.consumed
        /\ dec'.remaining = dec.remaining - it.consumed
        /\ dec'.payload_end = dec.payload_end
        /\ dec'.tx = IF name \in NotStored THEN dec.tx
                     ELSE [dec.tx EXCEPT ![name] = val]
    BY <2>1 DEF IInv, TypeOK
  <2>7. dec'.tx \in [TxFieldNames -> Values]
    BY <1>1, <2>4, <2>6 DEF Values
  <2>8. TypeOK'
    <3>1. /\ dec.item + 1 \in 0..(FieldCount + 1)
          /\ dec.p + it.consumed \in Nat
          /\ dec.remaining - it.consumed \in Nat
      <4>1. /\ dec.item \in 1..FieldCount
            /\ dec.p \in Nat /\ dec.remaining \in Nat
        BY <1>1
      <4> QED BY <4>1, <2>3, SMT DEF FieldCount
    <3>2. dec' = [dec EXCEPT !.item = dec.item + 1, !.p = dec.p + it.consumed,
                            !.remaining = dec.remaining - it.consumed,
                            !.tx = dec'.tx]
      BY <2>1, <2>6 DEF IInv, TypeOK
    <3> QED BY <1>1, <2>7, <3>1, <3>2 DEF IInv, TypeOK
  <2>9. ReadsWithinInput'
    BY <1>1, <2>3, <2>6 DEF IInv, ReadsWithinInput
  <2>10. StoredInOrder'
    <3> SUFFICES ASSUME NEW i \in 1..FieldCount, Fields11[i] \in TxFieldNames
                 PROVE  IF i < dec'.item
                          THEN /\ dec'.tx[Fields11[i]] # Unwritten
                               /\ Len(dec'.tx[Fields11[i]])
                                    <= Capacity[Fields11[i]]
                          ELSE dec'.tx[Fields11[i]] = Unwritten
      BY DEF StoredInOrder
    <3>1. CASE i = dec.item
      <4>1. name = Fields11[i] /\ name \notin NotStored
        BY <3>1 DEF TxFieldNames
      <4>2. dec'.tx[Fields11[i]] = val
        BY <1>1, <2>6, <4>1
      <4> QED BY <1>1, <2>1, <2>5, <2>6, <3>1, <4>1, <4>2, AcceptedFits
    <3>2. CASE i # dec.item
      <4>1. Fields11[i] # name
        BY <1>1, <3>2, FieldsKnown
      <4>2. dec'.tx[Fields11[i]] = dec.tx[Fields11[i]]
        BY <1>1, <2>6, <4>1
      <4>3. i < dec'.item <=> i < dec.item
        <5>1. dec.item \in Nat /\ i \in Nat /\ dec'.item = dec.item + 1
          BY <1>1, <2>6 DEF FieldCount
        <5> QED BY <3>2, <5>1
      <4> QED BY <4>2, <4>3 DEF IInv, StoredInOrder
    <3> QED BY <3>1, <3>2
  <2>11. dec'.status = "decoding"
    BY <2>1 DEF Field, Decode, IInv, TypeOK
  <2> QED BY <1>1, <2>6, <2>8, <2>9, <2>10, <2>11
       DEF IInv, AtStart, AtEnd, FieldCount
<1> QED BY <1>2, <1>3

(* The end changes the status alone. *)
LEMMA EndKeeps ==
  ASSUME IInv, End
  PROVE  IInv'
<1>1. dec' = ReadEnd(dec) /\ rlp' = rlp /\ dec.item = FieldCount + 1
  BY DEF End, Decode, FieldCount
<1>2. CASE dec' = Refuse(dec)
  BY <1>1, <1>2, RefuseKeeps
<1>3. CASE dec' # Refuse(dec)
  <2>1. dec' = [dec EXCEPT !.status = "accepted"] /\ dec.p = dec.payload_end
    BY <1>1, <1>3 DEF ReadEnd
  <2>2. TypeOK'
    BY <1>1, <2>1 DEF IInv, TypeOK
  <2>3. /\ dec'.p = dec.p /\ dec'.remaining = dec.remaining
        /\ dec'.item = dec.item /\ dec'.payload_end = dec.payload_end
        /\ dec'.tx = dec.tx
    BY <2>1 DEF IInv, TypeOK
  <2>4. ReadsWithinInput' /\ StoredInOrder' /\ AtStart'
    BY <1>1, <2>3 DEF IInv, ReadsWithinInput, StoredInOrder, AtStart
  <2>5. AtEnd'
    BY <1>1, <2>1, <2>3 DEF AtEnd
  <2> QED BY <2>2, <2>4, <2>5 DEF IInv
<1> QED BY <1>2, <1>3

\* So the invariant always holds.
LEMMA DecoderInvariance == Spec => []IInv
<1>1. IInv /\ [Next]_vars => IInv'
  <2> SUFFICES ASSUME IInv, [Next]_vars PROVE IInv'
    OBVIOUS
  <2>1. CASE UNCHANGED vars
    BY <2>1 DEF IInv, TypeOK, ReadsWithinInput, StoredInOrder, AtStart, AtEnd, vars
  <2> QED BY <2>1, HeaderKeeps, FieldKeeps, EndKeeps DEF Next
<1> QED BY <1>1, InitInv, PTL DEF Spec

(* A decoding keeps its type: no count of remaining bytes goes below zero
   (rlp_decode.c:137-270). *)
THEOREM DecoderTypeCorrect == Spec => []TypeOK
BY DecoderInvariance, PTL DEF IInv

(* Whatever lengths an input claims, and whatever a size_t makes of them, no
   byte is read from outside it (rlp_decode.c:8-112). *)
THEOREM DecoderStaysWithin == Spec => []ReadsWithinInput
BY DecoderInvariance, PTL DEF IInv

(* Fields are written whole, within their arrays, in the order of the list:
   what a refused transaction leaves is told by where it was refused
   (rlp_decode.c:146-278). *)
THEOREM DecoderStoresInOrder == Spec => []StoredInOrder
BY DecoderInvariance, PTL DEF IInv

(* What is accepted was read to its end, and every field of it written
   (rlp_decode.c:275-279); LedgerApp assumes as much of its decoder. *)
THEOREM DecoderAcceptsWhole == Spec => []AcceptedIsWhole
<1>1. IInv => AcceptedIsWhole
  <2> SUFFICES ASSUME IInv, dec.status = "accepted", NEW f \in TxFieldNames
               PROVE  dec.tx[f] # Unwritten /\ dec.p = dec.payload_end
    BY DEF AcceptedIsWhole, WrittenFields, IInv, AtEnd
  <2>1. PICK i \in 1..FieldCount : Fields11[i] = f
    BY DEF TxFieldNames, FieldNames
  <2>2. i < dec.item
    BY DEF IInv, AtEnd, FieldCount
  <2> QED BY <2>1, <2>2 DEF IInv, AtEnd, StoredInOrder
<1> QED BY <1>1, DecoderInvariance, PTL

-----------------------------------------------------------------------------
(* The lengths of the reference *)

AreNumbers(f, d, top) ==
  f = [k \in 0..Len(d) |-> IF k = 0 THEN 0 ELSE AtMost(top, 256 * f[k - 1] + d[k])]

\* A number is its value, up to the top.
LEMMA NumberIs ==
  ASSUME NEW d \in Seq(0..255), NEW w, Horner256(w, d), NEW top \in Nat
  PROVE  Number(d, top) = AtMost(top, w[Len(d)])
<1>1. PICK n \in Nat : n = Len(d)
  BY LenProperties
<1>2. /\ w \in [0..n -> Nat] /\ w[0] = 0
      /\ \A k \in 1..n : w[k] = 256 * w[k - 1] + d[k]
  BY <1>1 DEF Horner256
<1>3. ASSUME NEW k \in 1..n
      PROVE  AtMost(top, 256 * AtMost(top, w[k - 1]) + d[k]) = AtMost(top, w[k])
  <2>1. PICK x \in Nat : x = w[k - 1]
    <3>1. k - 1 \in 0..n
      OBVIOUS
    <3> QED BY <1>2, <3>1
  <2>2. PICK g \in 0..255 : g = d[k]
    <3>1. d[k] \in 0..255
      BY <1>1, ElementOfSeq
    <3> QED BY <3>1
  <2>3. w[k] = 256 * x + g
    BY <1>2, <2>1, <2>2
  <2>4. AtMost(top, 256 * AtMost(top, x) + g) = AtMost(top, 256 * x + g)
    <3>1. CASE x < top
      BY <3>1 DEF AtMost
    <3>2. CASE ~ (x < top)
      <4>1. AtMost(top, x) = top
        BY <3>2 DEF AtMost
      <4>2. ~ (256 * top + g < top) /\ ~ (256 * x + g < top)
        BY <3>2
      <4> QED BY <4>1, <4>2 DEF AtMost
    <3> QED BY <3>1, <3>2
  <2> QED BY <2>1, <2>2, <2>3, <2>4
<1>4. PICK g : g = [k \in 0..n |-> AtMost(top, w[k])]
  OBVIOUS
<1>5. g[0] = 0
  BY <1>2, <1>4 DEF AtMost
<1>6. ASSUME NEW k \in 0..n
      PROVE  g[k] = IF k = 0 THEN 0 ELSE AtMost(top, 256 * g[k - 1] + d[k])
  <2>1. CASE k = 0
    BY <1>5, <2>1
  <2>2. CASE k # 0
    <3>1. k \in 1..n /\ k - 1 \in 0..n
      BY <2>2
    <3>2. g[k - 1] = AtMost(top, w[k - 1]) /\ g[k] = AtMost(top, w[k])
      BY <1>4, <3>1
    <3> QED BY <1>3, <2>2, <3>1, <3>2
  <2> QED BY <2>1, <2>2
<1>7. AreNumbers(g, d, top)
  BY <1>1, <1>4, <1>6 DEF AreNumbers
<1> DEFINE f == CHOOSE f : f = [k \in 0..Len(d) |->
                                  IF k = 0 THEN 0
                                  ELSE AtMost(top, 256 * f[k - 1] + d[k])]
<1>8. Number(d, top) = f[n]
  BY <1>1 DEF Number
<1>9. AreNumbers(f, d, top)
  <2>1. \E h : h = [k \in 0..Len(d) |->
                      IF k = 0 THEN 0 ELSE AtMost(top, 256 * h[k - 1] + d[k])]
    BY <1>7, Zenon DEF AreNumbers
  <2> QED BY <2>1, Zenon DEF AreNumbers
<1> HIDE DEF f
<1>10. f[0] = 0 /\ \A k \in 1..n : f[k] = AtMost(top, 256 * f[k - 1] + d[k])
  <2>1. \A k \in 0..n : f[k] = IF k = 0 THEN 0
                                ELSE AtMost(top, 256 * f[k - 1] + d[k])
    BY <1>1, <1>9 DEF AreNumbers
  <2> QED BY <2>1
<1> DEFINE T == {m \in Nat : m <= n => f[m] = AtMost(top, w[m])}
<1>11. 0 \in T
  BY <1>2, <1>10 DEF AtMost
<1>12. ASSUME NEW m \in Nat, m \in T PROVE m + 1 \in T
  <2>1. ASSUME NEW k \in 1..n, k = m + 1 PROVE f[k] = AtMost(top, w[k])
    <3>1. k - 1 = m /\ m <= n
      BY <2>1
    <3>2. f[k - 1] = AtMost(top, w[k - 1])
      BY <1>12, <3>1
    <3> QED BY <1>3, <1>10, <3>2
  <2>2. m + 1 <= n => m + 1 \in 1..n
    OBVIOUS
  <2> QED BY <2>1, <2>2
<1> HIDE DEF T
<1>13. n \in T
  BY <1>11, <1>12, SetInduction
<1>14. f[n] = AtMost(top, w[n])
  BY <1>13 DEF T
<1> QED BY <1>1, <1>8, <1>14

\* Zeros in front are worth nothing.
LEMMA ZerosInFront ==
  ASSUME NEW d \in Seq(0..255), NEW w, Horner256(w, d),
         NEW m \in 0..Len(d), \A j \in 1..m : d[j] = 0
  PROVE  w[m] = 0
<1>1. PICK n \in Nat : n = Len(d)
  BY LenProperties
<1>2. w[0] = 0 /\ \A k \in 1..n : w[k] = 256 * w[k - 1] + d[k]
  BY <1>1 DEF Horner256
<1> DEFINE T == {k \in Nat : k <= m => w[k] = 0}
<1>3. 0 \in T
  BY <1>2
<1>4. ASSUME NEW k \in Nat, k \in T PROVE k + 1 \in T
  <2>1. ASSUME NEW j \in 1..m, j = k + 1 PROVE w[j] = 0
    <3>1. j - 1 = k /\ k <= m /\ j \in 1..n
      BY <1>1, <2>1
    <3>2. w[j - 1] = 0
      BY <1>4, <3>1
    <3>3. w[j] = 256 * w[j - 1] + d[j]
      BY <1>2, <3>1
    <3>4. d[j] = 0
      OBVIOUS
    <3> QED BY <3>2, <3>3, <3>4
  <2>2. k + 1 <= m => k + 1 \in 1..m
    OBVIOUS
  <2> QED BY <2>1, <2>2
<1> HIDE DEF T
<1>5. m \in Nat
  BY <1>1
<1>6. m \in T
  BY <1>3, <1>4, <1>5, SetInduction
<1> QED BY <1>5, <1>6 DEF T

\* A byte that is not zero is worth something, and more with each byte behind it.
LEMMA WorthRises ==
  ASSUME NEW d \in Seq(0..255), NEW w, Horner256(w, d),
         NEW j \in 1..Len(d), d[j] # 0,
         NEW m \in j..Len(d)
  PROVE  w[m] \in Nat \ {0}
<1>1. PICK n \in Nat : n = Len(d)
  BY LenProperties
<1>2. /\ w \in [0..n -> Nat]
      /\ \A k \in 1..n : w[k] = 256 * w[k - 1] + d[k]
  BY <1>1 DEF Horner256
<1>3. ASSUME NEW k \in 1..n
      PROVE  \E x \in Nat, g \in 0..255 : /\ x = w[k - 1] /\ g = d[k]
                                          /\ w[k] = 256 * x + g
  <2>1. PICK x \in Nat : x = w[k - 1]
    <3>1. k - 1 \in 0..n
      OBVIOUS
    <3> QED BY <1>2, <3>1
  <2>2. PICK g \in 0..255 : g = d[k]
    <3>1. d[k] \in 0..255
      BY <1>1, ElementOfSeq
    <3> QED BY <3>1
  <2>3. w[k] = 256 * x + g
    BY <1>2, <2>1, <2>2
  <2> QED BY <2>1, <2>2, <2>3
<1> DEFINE T == {k \in Nat : j + k <= n => w[j + k] \in Nat \ {0}}
<1>4. 0 \in T
  <2>1. PICK x \in Nat, g \in 0..255 : g = d[j] /\ w[j] = 256 * x + g
    BY <1>1, <1>3
  <2>2. g # 0
    BY <2>1
  <2>3. 256 * x + g \in Nat \ {0}
    BY <2>2
  <2>4. j + 0 = j
    BY <1>1
  <2> QED BY <2>1, <2>3, <2>4
<1>5. ASSUME NEW k \in Nat, k \in T PROVE k + 1 \in T
  <2>1. ASSUME NEW i \in 1..n, i = j + k + 1 PROVE w[i] \in Nat \ {0}
    <3>1. PICK x \in Nat, g \in 0..255 : x = w[i - 1] /\ w[i] = 256 * x + g
      BY <1>3
    <3>2. i - 1 = j + k /\ j + k <= n
      BY <1>1, <2>1
    <3>3. x # 0
      BY <1>5, <3>1, <3>2
    <3>4. 256 * x + g \in Nat \ {0}
      BY <3>3
    <3> QED BY <3>1, <3>4
  <2>2. j + (k + 1) <= n => j + (k + 1) \in 1..n /\ j + (k + 1) = j + k + 1
    BY <1>1
  <2> QED BY <2>1, <2>2
<1>6. \A k \in T : j + k <= n => w[j + k] \in Nat \ {0}
  OBVIOUS
<1> HIDE DEF T
<1>7. PICK k \in Nat : j + k = m /\ m <= n
  <2>1. m - j \in Nat /\ j + (m - j) = m /\ m <= n
    BY <1>1
  <2> QED BY <2>1
<1>8. k \in T
  BY <1>4, <1>5, SetInduction
<1> QED BY <1>6, <1>7, <1>8

\* A byte counted from the last.
FromLast(d, k) == IF k < Len(d) THEN d[Len(d) - k] ELSE 0

\* Bytes with nothing in front of the last four are worth what these are.
LEMMA WorthOfLast ==
  ASSUME NEW d \in Seq(0..255), NEW w, Horner256(w, d),
         \A j \in 1..(Len(d) - 4) : d[j] = 0
  PROVE  /\ \A k \in 0..3 : FromLast(d, k) \in 0..255
         /\ w[Len(d)] = FromLast(d, 0) + 256 * FromLast(d, 1)
                          + 65536 * FromLast(d, 2) + 16777216 * FromLast(d, 3)
<1>1. PICK n \in Nat : n = Len(d)
  BY LenProperties
<1>2. /\ w \in [0..n -> Nat] /\ w[0] = 0
      /\ \A k \in 1..n : w[k] = 256 * w[k - 1] + d[k]
  BY <1>1 DEF Horner256
<1> DEFINE u(k) == IF k < n THEN w[n - k] ELSE 0
<1>3. ASSUME NEW k \in Nat PROVE u(k) \in Nat
  <2>1. CASE k < n
    <3>1. n - k \in 0..n
      BY <2>1
    <3> QED BY <1>2, <2>1, <3>1
  <2>2. CASE ~ (k < n)
    BY <2>2
  <2> QED BY <2>1, <2>2
<1>4. ASSUME NEW k \in Nat
      PROVE  FromLast(d, k) \in 0..255 /\ u(k) = 256 * u(k + 1) + FromLast(d, k)
  <2>1. CASE k < n
    <3>1. PICK i \in 1..n : i = n - k /\ i - 1 = n - (k + 1)
      BY <2>1
    <3>2. PICK g \in 0..255 : g = d[i]
      BY <1>1, ElementOfSeq
    <3>3. FromLast(d, k) = g
      BY <1>1, <2>1, <3>1, <3>2 DEF FromLast
    <3>4. u(k) = 256 * w[i - 1] + g
      BY <1>2, <2>1, <3>1, <3>2
    <3>5. u(k + 1) = w[i - 1]
      <4>1. CASE k + 1 < n
        BY <3>1, <4>1
      <4>2. CASE ~ (k + 1 < n)
        <5>1. i - 1 = 0
          BY <2>1, <3>1, <4>2
        <5> QED BY <1>2, <4>2, <5>1
      <4> QED BY <4>1, <4>2
    <3> HIDE DEF u
    <3> QED BY <3>3, <3>4, <3>5
  <2>2. CASE ~ (k < n)
    <3>1. FromLast(d, k) = 0
      BY <1>1, <2>2 DEF FromLast
    <3>2. u(k) = 0 /\ u(k + 1) = 0
      BY <2>2
    <3> HIDE DEF u
    <3> QED BY <3>1, <3>2
  <2> QED BY <2>1, <2>2
<1>5. u(4) = 0
  <2>1. CASE 4 < n
    <3>1. PICK m \in 0..n : m = n - 4
      BY <2>1
    <3>2. w[m] = 0
      BY <1>1, <3>1, ZerosInFront
    <3> QED BY <2>1, <3>1, <3>2
  <2> QED BY <2>1
<1>6. u(0) = w[n]
  <2>1. n - 0 = n /\ (n = 0 \/ 0 < n)
    OBVIOUS
  <2> QED BY <1>2, <2>1
<1> HIDE DEF u
<1>7. PICK v : v = [k \in 0..4 |-> u(k)]
  OBVIOUS
<1>8. /\ v[0] = w[n] /\ v[4] = 0
      /\ \A k \in 0..4 : v[k] \in Nat
      /\ \A k \in 0..3 : v[k] = 256 * v[k + 1] + FromLast(d, k)
  <2>1. \A k \in 0..4 : v[k] = u(k) /\ k \in Nat
    BY <1>7
  <2>2. \A k \in 0..3 : k \in 0..4 /\ k + 1 \in 0..4
    OBVIOUS
  <2>3. ASSUME NEW k \in 0..3 PROVE v[k] = 256 * v[k + 1] + FromLast(d, k)
    <3>1. k \in Nat /\ v[k] = u(k) /\ v[k + 1] = u(k + 1)
      BY <2>1, <2>2
    <3> QED BY <1>4, <3>1
  <2>4. 0 \in 0..4 /\ 4 \in 0..4
    OBVIOUS
  <2>5. ASSUME NEW k \in 0..4 PROVE v[k] \in Nat
    BY <1>3, <2>1
  <2> QED BY <1>5, <1>6, <2>1, <2>3, <2>4, <2>5
<1>9. ASSUME NEW k \in 0..3 PROVE FromLast(d, k) \in 0..255
  <2>1. k \in Nat
    OBVIOUS
  <2> QED BY <1>4, <2>1
<1>10. PICK a \in 0..255 : a = FromLast(d, 0)
  BY <1>9
<1>11. PICK b \in 0..255 : b = FromLast(d, 1)
  BY <1>9
<1>12. PICK c \in 0..255 : c = FromLast(d, 2)
  BY <1>9
<1>13. PICK e \in 0..255 : e = FromLast(d, 3)
  BY <1>9
<1>14. v[0] = a + 256 * b + 65536 * c + 16777216 * e
  <2>1. /\ 0 \in 0..3 /\ 1 \in 0..3 /\ 2 \in 0..3 /\ 3 \in 0..3
        /\ 0 + 1 = 1 /\ 1 + 1 = 2 /\ 2 + 1 = 3 /\ 3 + 1 = 4
    OBVIOUS
  <2>2. v[0] = 256 * v[1] + a
    BY <1>8, <1>10, <2>1
  <2>3. v[1] = 256 * v[2] + b
    BY <1>8, <1>11, <2>1
  <2>4. v[2] = 256 * v[3] + c
    BY <1>8, <1>12, <2>1
  <2>5. v[3] = 256 * v[4] + e
    BY <1>8, <1>13, <2>1
  <2>6. v[3] = e
    BY <1>8, <2>5
  <2>7. v[2] = 256 * e + c
    BY <2>4, <2>6
  <2>8. v[1] = 65536 * e + 256 * c + b
    BY <2>3, <2>7
  <2> QED BY <2>2, <2>8
<1>15. w[Len(d)] = a + 256 * b + 65536 * c + 16777216 * e
  BY <1>1, <1>8, <1>14
<1> QED BY <1>9, <1>10, <1>11, <1>12, <1>13, <1>15

\* The digits of a long header.
LengthBytes(input, n) == SubSeq(input, 2, 1 + n)

\* They are bytes of the input.
LEMMA LengthBytesAre ==
  ASSUME NEW input \in Seq(Octet), NEW n \in Nat \ {0}, n <= Len(input) - 1
  PROVE  /\ LengthBytes(input, n) \in Seq(0..255)
         /\ Len(LengthBytes(input, n)) = n
         /\ \A j \in 1..n : LengthBytes(input, n)[j] = input[1 + j]
<1>1. PICK m \in Nat : m = Len(input) /\ n <= m - 1
  BY LenProperties
<1>2. ASSUME NEW i \in 2..(1 + n) PROVE input[i] \in 0..255
  <2>1. i \in 1..m
    BY <1>1
  <2>2. input[i] \in Octet
    BY <1>1, <2>1, ElementOfSeq
  <2> QED BY <2>2 DEF Octet
<1>3. PICK d : d = SubSeq(input, 2, 1 + n)
  OBVIOUS
<1>4. PICK last \in Nat : last = 1 + n /\ 2 <= last /\ last - 2 + 1 = n
  OBVIOUS
<1>5. /\ d \in Seq(0..255)
      /\ Len(d) = IF 2 <= last THEN last - 2 + 1 ELSE 0
      /\ \A i \in 1..(last - 2 + 1) : d[i] = input[2 + i - 1]
  BY <1>2, <1>3, <1>4, SubSeqProperties
<1>6. \A i \in Nat : 2 + i - 1 = 1 + i
  OBVIOUS
<1>7. \A i \in 1..n : d[i] = input[1 + i]
  BY <1>4, <1>5, <1>6
<1>8. Len(d) = n
  BY <1>4, <1>5
<1> QED BY <1>3, <1>5, <1>7, <1>8 DEF LengthBytes

\* What the decoder reads of a length, if a size_t holds it, is the length.
LEMMA LengthReadIs ==
  ASSUME NEW input \in Seq(Octet), NEW n \in Nat \ {0}, n <= Len(input) - 1,
         NEW w, Horner256(w, LengthBytes(input, n)),
         \A j \in 1..(n - SIZE_BYTES) : input[1 + j] = 0
  PROVE  LengthRead(input, n) = w[n]
<1>1. PICK d : d = LengthBytes(input, n)
  OBVIOUS
<1>2. d \in Seq(0..255) /\ Len(d) = n /\ \A j \in 1..n : d[j] = input[1 + j]
  BY <1>1, LengthBytesAre
<1>3. PICK size \in 1..4 : size = SIZE_BYTES
  BY DecoderAssumption
<1>4. ASSUME NEW j \in 1..(n - size) PROVE d[j] = 0
  <2>1. j \in 1..n
    BY <1>3
  <2> QED BY <1>2, <1>3, <2>1
<1>5. ASSUME NEW k \in 0..3 PROVE Place(input, n, k) = FromLast(d, k)
  <2>1. CASE k < n
    <3>1. PICK j \in 1..n : j = n - k /\ 1 + n - k = 1 + j
      BY <2>1
    <3>2. FromLast(d, k) = d[j]
      BY <1>2, <2>1, <3>1 DEF FromLast
    <3>3. d[j] = input[1 + j]
      BY <1>2
    <3>4. CASE k < size
      <4>1. Place(input, n, k) = input[1 + n - k]
        BY <1>3, <2>1, <3>4 DEF Place
      <4> QED BY <3>1, <3>2, <3>3, <4>1
    <3>5. CASE ~ (k < size)
      <4>1. Place(input, n, k) = 0
        BY <1>3, <3>5 DEF Place
      <4>2. j \in 1..(n - size)
        BY <3>1, <3>5
      <4> QED BY <1>4, <3>2, <4>1, <4>2
    <3> QED BY <3>4, <3>5
  <2>2. CASE ~ (k < n)
    BY <1>2, <2>2 DEF Place, FromLast
  <2> QED BY <2>1, <2>2
<1>6. \A j \in 1..(Len(d) - 4) : d[j] = 0
  <2>1. \A j \in 1..(n - 4) : j \in 1..(n - size)
    BY <1>3
  <2> QED BY <1>2, <1>4, <2>1
<1>7. w[Len(d)] = FromLast(d, 0) + 256 * FromLast(d, 1)
                    + 65536 * FromLast(d, 2) + 16777216 * FromLast(d, 3)
  <2>1. Horner256(w, d)
    BY <1>1
  <2> QED BY <1>2, <1>6, <2>1, WorthOfLast
<1>8. /\ Place(input, n, 0) = FromLast(d, 0) /\ Place(input, n, 1) = FromLast(d, 1)
      /\ Place(input, n, 2) = FromLast(d, 2) /\ Place(input, n, 3) = FromLast(d, 3)
  BY <1>5
<1> QED BY <1>2, <1>7, <1>8 DEF LengthRead

\* One that it does not hold is longer than any input.
LEMMA WrappingIsLong ==
  ASSUME NEW d \in Seq(0..255), NEW w, Horner256(w, d),
         NEW j \in 1..(Len(d) - SIZE_BYTES), d[j] # 0,
         NEW m \in Nat, m \div Weights[SIZE_BYTES] < 256
  PROVE  w[Len(d)] > m
<1>1. PICK n \in Nat : n = Len(d)
  BY LenProperties
<1>2. PICK size \in 1..4 : size = SIZE_BYTES
  BY DecoderAssumption
<1>3. PICK k \in 0..n : k = n - size /\ j \in 1..k
  <2>1. j \in 1..(n - size)
    BY <1>1, <1>2
  <2>2. n - size \in 0..n
    BY <2>1
  <2> QED BY <2>1, <2>2
<1>4. ASSUME NEW i \in k..n PROVE w[i] \in Nat \ {0}
  <2>1. j \in 1..Len(d) /\ i \in j..Len(d)
    BY <1>1, <1>3
  <2> QED BY <2>1, WorthRises
<1>5. ASSUME NEW i \in k..n, NEW x \in Nat, i < n, x <= w[i]
      PROVE  256 * x <= w[i + 1]
  <2>1. PICK y \in Nat : y = w[i]
    BY <1>4
  <2>2. PICK l \in 1..n : l = i + 1 /\ l - 1 = i
    BY <1>3, <1>5
  <2>3. PICK g \in 0..255 : g = d[l]
    BY <1>1, ElementOfSeq
  <2>4. w[l] = 256 * w[l - 1] + d[l]
    BY <1>1 DEF Horner256
  <2>5. w[l] = 256 * y + g
    BY <2>1, <2>2, <2>3, <2>4
  <2>6. x <= y
    BY <1>5, <2>1
  <2>7. 256 * x <= 256 * y + g
    BY <2>6
  <2> QED BY <2>2, <2>5, <2>7
<1>6. 1 <= w[k]
  <2>1. k \in k..n
    BY <1>3
  <2>2. PICK y \in Nat \ {0} : y = w[k]
    BY <1>4, <2>1
  <2> QED BY <2>2
<1>7. 256 <= w[k + 1]
  <2>1. k \in k..n /\ k < n /\ 1 \in Nat /\ 256 * 1 = 256
    BY <1>2, <1>3
  <2> QED BY <1>5, <1>6, <2>1
<1>8. size > 1 => 65536 <= w[k + 2]
  <2>1. SUFFICES ASSUME size > 1 PROVE 65536 <= w[k + 2]
    OBVIOUS
  <2>2. k + 1 \in k..n /\ k + 1 < n /\ 256 \in Nat /\ 256 * 256 = 65536
    BY <1>2, <1>3, <2>1
  <2>3. k + 1 + 1 = k + 2
    BY <1>3
  <2> QED BY <1>5, <1>7, <2>2, <2>3
<1>9. size > 2 => 16777216 <= w[k + 3]
  <2>1. SUFFICES ASSUME size > 2 PROVE 16777216 <= w[k + 3]
    OBVIOUS
  <2>2. k + 2 \in k..n /\ k + 2 < n /\ 65536 \in Nat /\ 256 * 65536 = 16777216
    BY <1>2, <1>3, <2>1
  <2>3. k + 2 + 1 = k + 3 /\ size > 1
    BY <1>3, <2>1
  <2> QED BY <1>5, <1>8, <2>2, <2>3
<1>10. size > 3 => 4294967296 <= w[k + 4]
  <2>1. SUFFICES ASSUME size > 3 PROVE 4294967296 <= w[k + 4]
    OBVIOUS
  <2>2. k + 3 \in k..n /\ k + 3 < n /\ 16777216 \in Nat
        /\ 256 * 16777216 = 4294967296
    BY <1>2, <1>3, <2>1
  <2>3. k + 3 + 1 = k + 4 /\ size > 2
    BY <1>3, <2>1
  <2> QED BY <1>5, <1>9, <2>2, <2>3
<1>11. PICK y \in Nat : y = w[n]
  <2>1. n \in k..n
    BY <1>3
  <2> QED BY <1>4, <2>1
<1>12. CASE size = 1
  <2>1. k + 1 = n /\ 256 <= y
    BY <1>3, <1>7, <1>11, <1>12
  <2>2. m \div 1 < 256
    BY <1>2, <1>12 DEF Weights
  <2>3. m < 256
    BY <2>2
  <2>4. m < y
    BY <2>1, <2>3
  <2> QED BY <1>1, <1>11, <2>4
<1>13. CASE size = 2
  <2>1. k + 2 = n /\ 65536 <= y
    BY <1>3, <1>8, <1>11, <1>13
  <2>2. m \div 256 < 256
    BY <1>2, <1>13 DEF Weights
  <2>3. m < 65536
    BY <2>2
  <2>4. m < y
    BY <2>1, <2>3
  <2> QED BY <1>1, <1>11, <2>4
<1>14. CASE size = 3
  <2>1. k + 3 = n /\ 16777216 <= y
    BY <1>3, <1>9, <1>11, <1>14
  <2>2. m \div 65536 < 256
    BY <1>2, <1>14 DEF Weights
  <2>3. m < 16777216
    BY <2>2
  <2>4. m < y
    BY <2>1, <2>3
  <2> QED BY <1>1, <1>11, <2>4
<1>15. CASE size = 4
  <2>1. k + 4 = n /\ 4294967296 <= y
    BY <1>3, <1>10, <1>11, <1>15
  <2>2. m \div 16777216 < 256
    BY <1>2, <1>15 DEF Weights
  <2>3. m < 4294967296
    BY <2>2
  <2>4. m < y
    BY <2>1, <2>3
  <2> QED BY <1>1, <1>11, <2>4
<1> QED BY <1>12, <1>13, <1>14, <1>15

-----------------------------------------------------------------------------
(* One item, read by the decoder and by the reference *)

\* An input whose length a size_t holds.
Fits(input) == Len(input) \div Weights[SIZE_BYTES] < 256

\* What the decoder makes of the bytes of an item, s, and of those behind it:
\* the same item where the reference has one; where it has none, nothing or one
\* that leads beyond s.
Agrees(s, it, m) ==
  /\ HeaderOf(s).size \in Nat /\ HeaderOf(s).len \in Nat
  /\ Ends(s) \in Nat \ {0}
  /\ Wraps(s) => Ends(s) > m
  /\ Ends(s) <= m => it = Item(HeaderOf(s).size, HeaderOf(s).len)
  /\ Ends(s) > m /\ ~Wraps(s) => it = NoItem \/ it.consumed > m

\* A header of this size wraps where a byte before the last of a size_t is not
\* zero.
LEMMA WrapsWithin ==
  ASSUME NEW s, NEW size, HeaderOf(s).size = size
  PROVE  Wraps(s) <=> \E i \in 2..(size - SIZE_BYTES) : s[i] # 0
BY DEF Wraps

\* So it is where the header says how long the item is, ...
LEMMA ShortAgrees ==
  ASSUME NEW r \in Seq(Octet), NEW m \in 1..Len(r), NEW s, NEW len \in Nat,
         HeaderOf(s) = [size |-> 1, len |-> len]
  PROVE  Agrees(s, ShortItem(r, len), m)
<1>1. PICK n \in Nat : n = Len(r) /\ m \in 1..n
  BY LenProperties
<1>2. HeaderOf(s).size = 1 /\ HeaderOf(s).len = len /\ Ends(s) = 1 + len
  BY DEF Ends
<1>3. ~Wraps(s)
  <2>1. 1 - SIZE_BYTES <= 0
    BY DecoderAssumption
  <2>2. \A i \in 2..(1 - SIZE_BYTES) : FALSE
    BY <2>1, DecoderAssumption
  <2> QED BY <1>2, <2>2 DEF Wraps
<1>4. 1 + len <= m => ShortItem(r, len) = Item(1, len)
  BY <1>1 DEF ShortItem
<1>5. ShortItem(r, len) = NoItem \/ ShortItem(r, len) = Item(1, len)
  BY DEF ShortItem
<1>6. Item(1, len).consumed = 1 + len
  BY DEF Item
<1> QED BY <1>2, <1>3, <1>4, <1>5, <1>6 DEF Agrees

\* ... where it leads beyond the item itself, ...
LEMMA CutAgrees ==
  ASSUME NEW r \in Seq(Octet), NEW m \in 1..Len(r), NEW s,
         NEW n \in Nat, n >= m, HeaderOf(s) = [size |-> 1, len |-> m]
  PROVE  Agrees(s, LongItem(r, n), m)
<1>1. PICK l \in Nat : l = Len(r) /\ m \in 1..l
  BY LenProperties
<1>2. HeaderOf(s).size = 1 /\ HeaderOf(s).len = m /\ Ends(s) = 1 + m
  BY DEF Ends
<1>3. ASSUME LongItem(r, n) # NoItem PROVE LongItem(r, n).consumed > m
  <2>1. PICK x \in Nat : LongItem(r, n) = Item(1 + n, x)
    BY <1>3, LongItemWithin
  <2>2. LongItem(r, n).consumed = 1 + n + x
    BY <2>1 DEF Item
  <2>3. 1 + n + x > m
    BY <1>1
  <2> QED BY <2>2, <2>3
<1>4. 1 + m \in Nat \ {0} /\ ~ (1 + m <= m) /\ 1 + m > m /\ m \in Nat
  BY <1>1
<1> QED BY <1>2, <1>3, <1>4 DEF Agrees

\* ... and where its bytes spell the length.
LEMMA LongAgrees ==
  ASSUME NEW r \in Seq(Octet), Fits(r),
         NEW m \in 1..Len(r), NEW s \in Seq(Octet), Len(s) = m,
         \A i \in 1..m : s[i] = r[i],
         NEW n \in Nat \ {0}, n < m,
         HeaderOf(s) = [size |-> 1 + n, len |-> Number(SubSeq(s, 2, 1 + n), m)]
  PROVE  Agrees(s, LongItem(r, n), m)
<1>1. PICK l \in Nat : l = Len(r) /\ m \in 1..l
  BY LenProperties
<1>2. PICK d : d = LengthBytes(s, n)
  OBVIOUS
<1>3. n <= Len(s) - 1 /\ n <= Len(r) - 1
  BY <1>1
<1>4. d \in Seq(0..255) /\ Len(d) = n /\ \A j \in 1..n : d[j] = s[1 + j]
  BY <1>2, <1>3, LengthBytesAre
<1>5. LengthBytes(r, n) = d
  <2>1. PICK e : e = LengthBytes(r, n)
    OBVIOUS
  <2>2. e \in Seq(0..255) /\ Len(e) = n /\ \A j \in 1..n : e[j] = r[1 + j]
    BY <1>3, <2>1, LengthBytesAre
  <2>3. ASSUME NEW j \in 1..n PROVE d[j] = e[j]
    <3>1. 1 + j \in 1..m
      BY <1>1
    <3> QED BY <1>4, <2>2, <3>1
  <2>4. d = e
    BY <1>4, <2>2, <2>3, SeqEqual
  <2> QED BY <2>1, <2>4
<1>6. PICK w : Horner256(w, d)
  BY <1>4, ValueExists
<1>7. PICK v \in Nat : v = w[n]
  <2>1. n \in 0..Len(d)
    BY <1>4
  <2> QED BY <1>6, <2>1 DEF Horner256
<1>8. PICK x \in Nat : /\ x = HeaderOf(s).len
                       /\ x = IF v < m THEN v ELSE m
  <2>1. Number(d, m) = AtMost(m, w[Len(d)])
    BY <1>1, <1>4, <1>6, NumberIs
  <2>2. HeaderOf(s).len = Number(d, m)
    BY <1>2 DEF LengthBytes
  <2>3. HeaderOf(s).len = IF v < m THEN v ELSE m
    BY <1>4, <1>7, <2>1, <2>2 DEF AtMost
  <2>4. (IF v < m THEN v ELSE m) \in Nat
    BY <1>1
  <2> QED BY <2>3, <2>4
<1>9. HeaderOf(s).size = 1 + n /\ Ends(s) = 1 + n + x
  BY <1>8 DEF Ends
<1>9a. Wraps(s) <=> \E i \in 2..(1 + n - SIZE_BYTES) : s[i] # 0
  <2>1. PICK size \in Nat : size = HeaderOf(s).size /\ size = 1 + n
    BY <1>9
  <2>2. Wraps(s) <=> \E i \in 2..(size - SIZE_BYTES) : s[i] # 0
    BY ONLY <2>1, WrapsWithin
  <2>3. PICK bytes \in 1..4 : bytes = SIZE_BYTES
    BY DecoderAssumption
  <2> QED BY <2>1, <2>2, <2>3
<1>10. ASSUME Wraps(s) PROVE v > l
  <2>1. PICK i \in 2..(1 + n - SIZE_BYTES) : s[i] # 0
    BY <1>10, <1>9a
  <2>2. PICK size \in 1..4 : size = SIZE_BYTES
    BY DecoderAssumption
  <2>3. PICK j \in 1..(n - size) : j = i - 1 /\ 1 + j = i
    BY <2>1, <2>2
  <2>4. j \in 1..(Len(d) - SIZE_BYTES) /\ j \in 1..n
    BY <1>4, <2>2
  <2>5. d[j] # 0
    BY <1>4, <2>1, <2>3, <2>4
  <2>6. w[Len(d)] > l
    <3>1. l \div Weights[SIZE_BYTES] < 256
      BY <1>1 DEF Fits
    <3> QED BY <1>1, <1>4, <1>6, <2>4, <2>5, <3>1, WrappingIsLong
  <2> QED BY <1>4, <1>7, <2>6
<1>11. ASSUME ~Wraps(s) PROVE LengthRead(r, n) = v
  <2>1. PICK size \in 1..4 : size = SIZE_BYTES
    BY DecoderAssumption
  <2>2. ASSUME NEW j \in 1..(n - SIZE_BYTES) PROVE r[1 + j] = 0
    <3>1. PICK i \in 2..(1 + n - SIZE_BYTES) : i = 1 + j
      BY <2>1
    <3>2. s[i] = 0
      BY <1>11, <1>9a, <2>1, <3>1
    <3>3. i \in 1..m
      BY <1>1, <2>1
    <3> QED BY <3>1, <3>2, <3>3
  <2>3. Horner256(w, LengthBytes(r, n))
    BY <1>5, <1>6
  <2> QED BY <1>3, <1>7, <2>2, <2>3, LengthReadIs
<1>12. ASSUME ~Wraps(s)
       PROVE  LongItem(r, n) = IF v > l - 1 - n THEN NoItem ELSE Item(1 + n, v)
  BY <1>1, <1>3, <1>11, <1>12 DEF LongItem
<1>13. Item(1 + n, v).consumed = 1 + n + v
  BY DEF Item
<1>14. Wraps(s) => 1 + n + x > m
  <2>1. v > l => x = m
    BY <1>1, <1>8
  <2>2. 1 + n + m > m
    BY <1>1
  <2> QED BY <1>10, <2>1, <2>2
<1>15. 1 + n + x <= m => x = v /\ ~ (v > l - 1 - n)
  BY <1>1, <1>8
<1>16. 1 + n + x > m => 1 + n + v > m
  BY <1>1, <1>8
<1>17. 1 + n \in Nat /\ 1 + n + x \in Nat \ {0}
  OBVIOUS
<1>18. Ends(s) <= m => LongItem(r, n) = Item(HeaderOf(s).size, HeaderOf(s).len)
  <2>1. ASSUME Ends(s) <= m
        PROVE  LongItem(r, n) = Item(HeaderOf(s).size, HeaderOf(s).len)
    <3>1. 1 + n + x <= m /\ ~ (1 + n + x > m)
      BY <1>1, <1>9, <2>1
    <3>2. ~Wraps(s)
      BY <1>14, <3>1
    <3> QED BY <1>8, <1>9, <1>12, <1>15, <3>1, <3>2
  <2> QED BY <2>1
<1>19. Ends(s) > m /\ ~Wraps(s) =>
         LongItem(r, n) = NoItem \/ LongItem(r, n).consumed > m
  BY <1>9, <1>12, <1>13, <1>16
<1> QED BY <1>8, <1>9, <1>14, <1>17, <1>18, <1>19 DEF Agrees

\* What the first byte says of the length of a header.
LongHeader(s, n) ==
  IF n >= Len(s) THEN [size |-> 1, len |-> Len(s)]
  ELSE [size |-> 1 + n, len |-> Number(SubSeq(s, 2, 1 + n), Len(s))]

\* By the first byte, an item is itself, tells its length or tells how many
\* bytes spell it: the same to the decoder and to the reference.
LEMMA FirstByte ==
  ASSUME NEW r, r # <<>>, NEW s, NEW c \in 0..255, r[1] = c, s[1] = c
  PROVE  \/ parse_rlp_item(r) = Item(0, 1) /\ HeaderOf(s) = [size |-> 0, len |-> 1]
         \/ \E len \in Nat : /\ parse_rlp_item(r) = ShortItem(r, len)
                             /\ HeaderOf(s) = [size |-> 1, len |-> len]
         \/ \E n \in Nat \ {0} : /\ parse_rlp_item(r) = LongItem(r, n)
                                 /\ HeaderOf(s) = LongHeader(s, n)
<1> DEFINE base == IF c >= 192 THEN 192 ELSE 128
<1>1. PICK b \in Nat : b = base
  OBVIOUS
<1>2. PICK longer \in Int : longer = c - b - 55
  BY <1>1
<1>3. HeaderOf(s) = IF c < 128 THEN [size |-> 0, len |-> 1]
                    ELSE IF longer <= 0 THEN [size |-> 1, len |-> c - b]
                    ELSE LongHeader(s, longer)
  BY <1>1, <1>2 DEF HeaderOf, LongHeader
<1>4. parse_rlp_item(r) =
        IF c <= 127 THEN Item(0, 1)
        ELSE IF c <= 183 THEN ShortItem(r, c - 128)
        ELSE IF c <= 191 THEN LongItem(r, c - 183)
        ELSE IF c <= 247 THEN ShortItem(r, c - 192)
        ELSE LongItem(r, c - 247)
  BY DEF parse_rlp_item
<1>5. CASE c <= 127
  <2>1. c < 128
    BY <1>5
  <2> QED BY <1>3, <1>4, <1>5, <2>1
<1>6. CASE ~ (c <= 127) /\ c <= 183
  <2>1. ~ (c <= 127) /\ c <= 183
    BY <1>6
  <2>2. ~ (c < 128) /\ longer <= 0 /\ c - b = c - 128
    BY <1>1, <1>2, <1>6
  <2>3. PICK len \in Nat : len = c - 128
    BY <1>6
  <2>4. parse_rlp_item(r) = ShortItem(r, len)
    BY <1>4, <2>1, <2>3
  <2>5. HeaderOf(s) = [size |-> 1, len |-> len]
    BY <1>3, <2>2, <2>3
  <2> QED BY <2>4, <2>5
<1>7. CASE ~ (c <= 183) /\ c <= 191
  <2>1. ~ (c <= 127) /\ ~ (c <= 183) /\ c <= 191
    BY <1>7
  <2>2. ~ (c < 128) /\ ~ (longer <= 0) /\ longer = c - 183
    BY <1>1, <1>2, <1>7
  <2>3. longer \in Nat \ {0}
    BY <2>2
  <2>4. parse_rlp_item(r) = LongItem(r, longer)
    BY <1>4, <2>1, <2>2
  <2>5. HeaderOf(s) = LongHeader(s, longer)
    BY <1>3, <2>2
  <2> QED BY <2>3, <2>4, <2>5
<1>8. CASE ~ (c <= 191) /\ c <= 247
  <2>1. ~ (c <= 127) /\ ~ (c <= 183) /\ ~ (c <= 191) /\ c <= 247
    BY <1>8
  <2>2. ~ (c < 128) /\ longer <= 0 /\ c - b = c - 192
    BY <1>1, <1>2, <1>8
  <2>3. PICK len \in Nat : len = c - 192
    BY <1>8
  <2>4. parse_rlp_item(r) = ShortItem(r, len)
    BY <1>4, <2>1, <2>3
  <2>5. HeaderOf(s) = [size |-> 1, len |-> len]
    BY <1>3, <2>2, <2>3
  <2> QED BY <2>4, <2>5
<1>9. CASE ~ (c <= 247)
  <2>1. ~ (c <= 127) /\ ~ (c <= 183) /\ ~ (c <= 191) /\ ~ (c <= 247)
    BY <1>9
  <2>2. ~ (c < 128) /\ ~ (longer <= 0) /\ longer = c - 247
    BY <1>1, <1>2, <1>9
  <2>3. longer \in Nat \ {0}
    BY <2>2
  <2>4. parse_rlp_item(r) = LongItem(r, longer)
    BY <1>4, <2>1, <2>2
  <2>5. HeaderOf(s) = LongHeader(s, longer)
    BY <1>3, <2>2
  <2> QED BY <2>3, <2>4, <2>5
<1> QED BY <1>5, <1>6, <1>7, <1>8, <1>9

\* A header has a length, and so has what it announces.
LEMMA HeaderType ==
  ASSUME NEW s \in Seq(Octet), s # <<>>
  PROVE  HeaderOf(s).size \in Nat /\ HeaderOf(s).len \in Nat
         /\ Ends(s) \in Nat \ {0}
<1>1. PICK c \in 0..255 : c = s[1]
  BY PrefixType
<1>2. PICK m \in Nat \ {0} : m = Len(s)
  BY PrefixType
<1>3. ASSUME NEW n \in Nat \ {0}
      PROVE  \E size \in Nat \ {0}, len \in Nat :
               LongHeader(s, n) = [size |-> size, len |-> len]
  <2>1. CASE n >= m
    <3>1. LongHeader(s, n) = [size |-> 1, len |-> m]
      BY <1>2, <2>1 DEF LongHeader
    <3>2. 1 \in Nat \ {0} /\ m \in Nat
      OBVIOUS
    <3> QED BY <3>1, <3>2
  <2>2. CASE ~ (n >= m)
    <3>1. n <= Len(s) - 1
      BY <1>2, <2>2
    <3>2. PICK d : d = LengthBytes(s, n) /\ d \in Seq(0..255) /\ Len(d) = n
      BY <3>1, LengthBytesAre
    <3>3. PICK w : Horner256(w, d)
      BY <3>2, ValueExists
    <3>4. PICK v \in Nat : v = w[Len(d)]
      <4>1. n \in 0..n
        OBVIOUS
      <4> QED BY <3>2, <3>3, <4>1 DEF Horner256
    <3>5. Number(d, m) = AtMost(m, w[Len(d)])
      BY <1>2, <3>2, <3>3, NumberIs
    <3>6. AtMost(m, v) \in Nat
      BY DEF AtMost
    <3>7. LongHeader(s, n) = [size |-> 1 + n, len |-> AtMost(m, v)]
      BY <1>2, <2>2, <3>2, <3>4, <3>5 DEF LongHeader, LengthBytes
    <3>8. 1 + n \in Nat \ {0}
      OBVIOUS
    <3> QED BY <3>6, <3>7, <3>8
  <2> QED BY <2>1, <2>2
<1>4. PICK size \in Nat, len \in Nat :
        HeaderOf(s) = [size |-> size, len |-> len] /\ size + len # 0
  <2>1. CASE HeaderOf(s) = [size |-> 0, len |-> 1]
    BY <2>1
  <2>2. ASSUME NEW len \in Nat, HeaderOf(s) = [size |-> 1, len |-> len]
        PROVE  \E size \in Nat, l \in Nat :
                 HeaderOf(s) = [size |-> size, len |-> l] /\ size + l # 0
    <3>1. 1 \in Nat /\ 1 + len # 0
      OBVIOUS
    <3> QED BY <2>2, <3>1
  <2>3. ASSUME NEW n \in Nat \ {0}, HeaderOf(s) = LongHeader(s, n)
        PROVE  \E size \in Nat, len \in Nat :
                 HeaderOf(s) = [size |-> size, len |-> len] /\ size + len # 0
    <3>1. PICK size \in Nat \ {0}, len \in Nat :
            LongHeader(s, n) = [size |-> size, len |-> len]
      BY <1>3
    <3>2. size \in Nat /\ size + len # 0
      OBVIOUS
    <3> QED BY <2>3, <3>1, <3>2
  <2>4. s[1] = c
    BY <1>1
  <2>5. \/ HeaderOf(s) = [size |-> 0, len |-> 1]
        \/ \E len \in Nat : HeaderOf(s) = [size |-> 1, len |-> len]
        \/ \E n \in Nat \ {0} : HeaderOf(s) = LongHeader(s, n)
    BY <2>4, FirstByte
  <2> QED BY <2>1, <2>2, <2>3, <2>5
<1>5. HeaderOf(s).size = size /\ HeaderOf(s).len = len /\ Ends(s) = size + len
  BY <1>4 DEF Ends
<1> QED BY <1>4, <1>5

\* The decoder and the reference agree on every item.
LEMMA ItemAgrees ==
  ASSUME NEW r \in Seq(Octet), Fits(r),
         NEW m \in 1..Len(r), NEW s \in Seq(Octet), Len(s) = m,
         \A i \in 1..m : s[i] = r[i]
  PROVE  Agrees(s, parse_rlp_item(r), m)
<1>1. PICK l \in Nat : l = Len(r) /\ m \in 1..l
  BY LenProperties
<1>2. r # <<>> /\ s # <<>>
  BY <1>1, EmptySeq
<1>3. PICK c \in 0..255 : c = r[1] /\ c = s[1]
  <2>1. r[1] \in 0..255
    BY <1>2, PrefixType
  <2>2. 1 \in 1..m
    BY <1>1
  <2> QED BY <2>1, <2>2
<1>4. \/ parse_rlp_item(r) = Item(0, 1) /\ HeaderOf(s) = [size |-> 0, len |-> 1]
      \/ \E len \in Nat : /\ parse_rlp_item(r) = ShortItem(r, len)
                          /\ HeaderOf(s) = [size |-> 1, len |-> len]
      \/ \E n \in Nat \ {0} : /\ parse_rlp_item(r) = LongItem(r, n)
                              /\ HeaderOf(s) = LongHeader(s, n)
  <2>1. r[1] = c /\ s[1] = c
    BY <1>3
  <2> QED BY <1>2, <2>1, FirstByte
<1>5. CASE parse_rlp_item(r) = Item(0, 1) /\ HeaderOf(s) = [size |-> 0, len |-> 1]
  <2>1. HeaderOf(s).size = 0 /\ HeaderOf(s).len = 1 /\ Ends(s) = 1
    BY <1>5 DEF Ends
  <2>2. ~Wraps(s)
    <3>1. PICK size \in 1..4 : size = SIZE_BYTES
      BY DecoderAssumption
    <3>2. \A i \in 2..(0 - size) : FALSE
      OBVIOUS
    <3>3. Wraps(s) <=> \E i \in 2..(0 - SIZE_BYTES) : s[i] # 0
      BY <2>1, WrapsWithin
    <3> QED BY <3>1, <3>2, <3>3
  <2>3. 1 <= m /\ ~ (1 > m)
    BY <1>1
  <2> QED BY <1>5, <2>1, <2>2, <2>3 DEF Agrees
<1>6. ASSUME NEW n \in Nat \ {0}, HeaderOf(s) = LongHeader(s, n)
      PROVE  Agrees(s, LongItem(r, n), m)
  <2>1. CASE n >= m
    <3>1. HeaderOf(s) = [size |-> 1, len |-> m]
      BY <1>6, <2>1 DEF LongHeader
    <3> QED BY <2>1, <3>1, CutAgrees
  <2>2. CASE ~ (n >= m)
    <3>1. n < m
      BY <1>1, <2>2
    <3>2. HeaderOf(s) = [size |-> 1 + n, len |-> Number(SubSeq(s, 2, 1 + n), m)]
      BY <1>6, <2>2 DEF LongHeader
    <3> QED BY <3>1, <3>2, LongAgrees
  <2> QED BY <2>1, <2>2
<1>7. ASSUME NEW len \in Nat, parse_rlp_item(r) = ShortItem(r, len),
             HeaderOf(s) = [size |-> 1, len |-> len]
      PROVE  Agrees(s, parse_rlp_item(r), m)
  <2>1. Agrees(s, ShortItem(r, len), m)
    BY <1>7, ShortAgrees
  <2> QED BY <1>7, <2>1
<1>8. ASSUME NEW n \in Nat \ {0}, parse_rlp_item(r) = LongItem(r, n),
             HeaderOf(s) = LongHeader(s, n)
      PROVE  Agrees(s, parse_rlp_item(r), m)
  BY <1>6, <1>8
<1> QED BY <1>4, <1>5, <1>7, <1>8

\* And on the header of the list: a list is an item.
LEMMA ListHeaderAgrees ==
  ASSUME NEW r \in Seq(Octet), Fits(r),
         r # <<>>
  PROVE  IF r[1] < 192 THEN parse_rlp_list_header(r) = NoItem
         ELSE Agrees(r, parse_rlp_list_header(r), Len(r))
<1>1. PICK c \in 0..255 : c = r[1]
  BY PrefixType
<1>2. CASE c < 192
  BY <1>1, <1>2 DEF parse_rlp_list_header
<1>3. CASE ~ (c < 192)
  <2>1. PICK m \in 1..Len(r) : m = Len(r)
    <3>1. Len(r) \in Nat \ {0}
      BY PrefixType
    <3> QED BY <3>1
  <2>2. \A i \in 1..m : r[i] = r[i]
    OBVIOUS
  <2>3. Agrees(r, parse_rlp_item(r), m)
    BY <2>1, <2>2, ItemAgrees
  <2>4. /\ ~ (c <= 127) /\ ~ (c <= 183) /\ ~ (c <= 191)
    BY <1>3
  <2>5. parse_rlp_list_header(r) = parse_rlp_item(r)
    BY <1>1, <2>4 DEF parse_rlp_list_header, parse_rlp_item
  <2> QED BY <1>1, <1>3, <2>1, <2>3, <2>5
<1> QED BY <1>2, <1>3

-----------------------------------------------------------------------------
(* The list and its items *)

\* What is behind a place of a list.
LEMMA BehindIs ==
  ASSUME NEW list \in Seq(Octet), NEW place \in Nat, place <= Len(list)
  PROVE  /\ Behind(list, place) \in Seq(Octet)
         /\ Len(Behind(list, place)) = Len(list) - place
         /\ \A i \in 1..(Len(list) - place) : Behind(list, place)[i] = list[place + i]
<1>1. PICK n \in Nat : n = Len(list) /\ place <= n
  BY LenProperties
<1>2. PICK s : s = SubSeq(list, place + 1, n)
  OBVIOUS
<1>3. PICK first \in Nat : first = place + 1
  OBVIOUS
<1>4. \A i \in first..n : list[i] \in Octet
  <2>1. ASSUME NEW i \in first..n PROVE list[i] \in Octet
    <3>1. i \in 1..n
      BY <1>3
    <3> QED BY <1>1, <3>1, ElementOfSeq
  <2> QED BY <2>1
<1>5. /\ s \in Seq(Octet)
      /\ Len(s) = IF first <= n THEN n - first + 1 ELSE 0
      /\ \A i \in 1..(n - first + 1) : s[i] = list[first + i - 1]
  BY <1>2, <1>3, <1>4, SubSeqProperties
<1>6. Len(s) = n - place
  BY <1>1, <1>3, <1>5
<1>7. ASSUME NEW i \in 1..(n - place) PROVE s[i] = list[place + i]
  <2>1. i \in 1..(n - first + 1) /\ first + i - 1 = place + i
    BY <1>1, <1>3
  <2> QED BY <1>5, <2>1
<1> QED BY <1>1, <1>2, <1>5, <1>6, <1>7 DEF Behind

AreEnds(f, list) ==
  f = [k \in 0..FieldCount |-> IF k = 0 THEN 0 ELSE EndOfItem(list, f[k - 1])]

\* An item ends behind its beginning.
LEMMA EndOfItemType ==
  ASSUME NEW list \in Seq(Octet), NEW begin \in Nat
  PROVE  EndOfItem(list, begin) \in Nat
<1>1. PICK n \in Nat : n = Len(list)
  BY LenProperties
<1>2. CASE begin >= n
  <2>1. n + 1 \in Nat
    OBVIOUS
  <2> QED BY <1>1, <1>2, <2>1 DEF EndOfItem
<1>3. CASE ~ (begin >= n)
  <2>1. PICK s : s = Behind(list, begin)
    OBVIOUS
  <2>2. s \in Seq(Octet) /\ Len(s) = n - begin
    BY <1>1, <1>3, <2>1, BehindIs
  <2>3. s # <<>>
    BY <1>1, <1>3, <2>2, EmptySeq
  <2>4. PICK e \in Nat : e = Ends(s)
    BY <2>2, <2>3, HeaderType
  <2>5. EndOfItem(list, begin) = begin + e
    BY <1>1, <1>3, <2>1, <2>4 DEF EndOfItem
  <2>6. begin + e \in Nat
    OBVIOUS
  <2> QED BY <2>5, <2>6
<1> QED BY <1>2, <1>3

\* The ends of the items.
LEMMA EndsAre ==
  ASSUME NEW list \in Seq(Octet)
  PROVE  /\ ItemEnds(list) \in [0..11 -> Nat]
         /\ ItemEnds(list)[0] = 0
         /\ \A k \in 1..11 :
              ItemEnds(list)[k] = EndOfItem(list, ItemEnds(list)[k - 1])
<1> DEFINE f == CHOOSE f : f = [k \in 0..FieldCount |->
                                  IF k = 0 THEN 0
                                  ELSE EndOfItem(list, f[k - 1])]
<1>1. ItemEnds(list) = f
  BY DEF ItemEnds
<1>2. PICK F : F = [q \in (1..11) \X Nat |-> EndOfItem(list, q[2])]
  OBVIOUS
<1>3. \A i \in 1..11, v \in Nat : F[<<i, v>>] = EndOfItem(list, v)
  BY <1>2
<1>4. F \in [(1..11) \X Nat -> Nat]
  <2>1. ASSUME NEW q \in (1..11) \X Nat PROVE F[q] \in Nat
    <3>1. PICK i \in 1..11, v \in Nat : q = <<i, v>>
      OBVIOUS
    <3> QED BY <1>3, <3>1, EndOfItemType
  <2> QED BY <1>2, <2>1
<1>5. PICK g : Iterates(g, Nat, 0, F, 11)
  <2>1. 0 \in Nat /\ 11 \in Nat
    OBVIOUS
  <2> QED BY <1>4, <2>1, IterationExists
<1>6. /\ g \in [0..11 -> Nat] /\ g[0] = 0
      /\ \A k \in 1..11 : g[k] = F[<<k, g[k - 1]>>]
  BY <1>5 DEF Iterates
<1>7. ASSUME NEW k \in 1..11 PROVE g[k] = EndOfItem(list, g[k - 1])
  <2>1. k - 1 \in 0..11
    OBVIOUS
  <2>2. g[k - 1] \in Nat
    BY <1>6, <2>1
  <2>3. g[k] = F[<<k, g[k - 1]>>]
    BY <1>6
  <2> QED BY <1>3, <2>2, <2>3
<1>8. ASSUME NEW k \in 0..11
      PROVE  g[k] = IF k = 0 THEN 0 ELSE EndOfItem(list, g[k - 1])
  <2>1. k = 0 \/ k \in 1..11
    OBVIOUS
  <2> QED BY <1>6, <1>7, <2>1
<1>9. AreEnds(g, list)
  <2>1. g = [k \in 0..11 |-> g[k]]
    BY <1>6
  <2> QED BY <1>8, <2>1 DEF AreEnds, FieldCount
<1>10. AreEnds(f, list)
  <2>1. \E h : h = [k \in 0..FieldCount |->
                      IF k = 0 THEN 0 ELSE EndOfItem(list, h[k - 1])]
    BY <1>9, Zenon DEF AreEnds
  <2> QED BY <2>1, Zenon DEF AreEnds
<1> HIDE DEF f
<1>11. /\ \A k \in 0..11 : f[k] = IF k = 0 THEN 0 ELSE EndOfItem(list, f[k - 1])
       /\ f = [k \in 0..11 |-> f[k]]
  BY <1>10 DEF AreEnds, FieldCount
<1>12. f[0] = 0
  BY <1>11
<1>13. ASSUME NEW k \in 1..11 PROVE f[k] = EndOfItem(list, f[k - 1])
  <2>1. k \in 0..11 /\ k # 0
    OBVIOUS
  <2> QED BY <1>11, <2>1
<1>14. ASSUME NEW k \in 1..11, f[k - 1] \in Nat PROVE f[k] = F[<<k, f[k - 1]>>]
  BY <1>3, <1>13, <1>14
<1>15. Iterates(f, Nat, 0, F, 11)
  <2>1. f = [k \in 0..11 |-> f[k]]
    BY <1>11
  <2>2. 0 \in Nat /\ 11 \in Nat
    OBVIOUS
  <2> QED BY <1>4, <1>12, <1>14, <2>1, <2>2, IterationStays
<1>16. f \in [0..11 -> Nat]
  BY <1>15 DEF Iterates
<1> QED BY <1>1, <1>12, <1>13, <1>16

\* Behind a place that is not in the list there are no items any more.
LEMMA BeyondStays ==
  ASSUME NEW list \in Seq(Octet), NEW k \in 0..11,
         ItemEnds(list)[k] > Len(list)
  PROVE  ItemEnds(list)[11] > Len(list)
<1>1. PICK n \in Nat : n = Len(list)
  BY LenProperties
<1>2. PICK f \in [0..11 -> Nat] :
        /\ f = ItemEnds(list)
        /\ \A i \in 1..11 : f[i] = EndOfItem(list, f[i - 1])
  BY EndsAre
<1>3. ASSUME NEW i \in 1..11, f[i - 1] > n PROVE f[i] > n
  <2>1. i - 1 \in 0..11
    OBVIOUS
  <2>2. PICK e \in Nat : e = f[i - 1]
    BY <2>1
  <2>3. e > n
    BY <1>3, <2>2, Zenon
  <2>4. e >= n
    BY <2>3
  <2>5. f[i] = n + 1
    BY <1>1, <1>2, <2>2, <2>4 DEF EndOfItem
  <2> QED BY <2>5
<1> DEFINE T == {j \in Nat : \A i \in 0..11 : i = k + j => f[i] > n}
<1>4. 0 \in T
  <2>1. ASSUME NEW i \in 0..11, i = k + 0 PROVE f[i] > n
    <3>1. i = k
      BY ONLY k \in 0..11, <2>1
    <3> QED BY <1>1, <1>2, <3>1
  <2> QED BY <2>1
<1>5. ASSUME NEW j \in Nat, j \in T PROVE j + 1 \in T
  <2>1. ASSUME NEW i \in 0..11, i = k + (j + 1) PROVE f[i] > n
    <3> HIDE DEF T
    <3>1. i = k + (j + 1) /\ k \in Nat
      BY <2>1
    <3>2. i - 1 = k + j
      BY ONLY i \in 0..11, j \in Nat, <3>1
    <3>3. i - 1 \in 0..11
      BY ONLY i \in 0..11, j \in Nat, <3>1
    <3>4. i \in 1..11
      BY ONLY i \in 0..11, j \in Nat, <3>1
    <3>5. f[i - 1] > n
      BY <1>5, <3>2, <3>3 DEF T
    <3> QED BY <1>3, <3>4, <3>5
  <2> QED BY <2>1
<1>6. \A j \in T, i \in 0..11 : i = k + j => f[i] > n
  OBVIOUS
<1> HIDE DEF T
<1>7. PICK j \in Nat : 11 = k + j
  <2>1. 11 - k \in Nat /\ 11 = k + (11 - k)
    BY ONLY k \in 0..11
  <2> QED BY <2>1
<1>8. j \in T
  BY <1>4, <1>5, SetInduction
<1>9. f[11] > n
  <2>1. 11 \in 0..11
    OBVIOUS
  <2> QED BY <1>6, <1>7, <1>8, <2>1
<1> QED BY <1>1, <1>2, <1>9

\* The list is a part of the input.
LEMMA ListWithin ==
  ASSUME NEW input \in Seq(Octet), HasList(input)
  PROVE  \E place \in Nat, n \in Nat :
           /\ place = 1 + HeaderOf(Tail(input)).size
           /\ place + n = 1 + Ends(Tail(input))
           /\ place + n <= Len(input)
           /\ ListOf(input) \in Seq(Octet)
           /\ Len(ListOf(input)) = n
           /\ \A i \in 1..n : ListOf(input)[i] = input[place + i]
<1>1. PICK t : t = Tail(input)
  OBVIOUS
<1>2. input # <<>> /\ t # <<>> /\ Ends(t) <= Len(t)
  BY <1>1 DEF HasList
<1>3. PICK l \in Nat \ {0} : l = Len(input)
  BY <1>2, PrefixType
<1>4. /\ t \in Seq(Octet) /\ Len(t) = l - 1
      /\ \A i \in 1..Len(t) : t[i] = input[i + 1]
  BY <1>1, <1>2, <1>3, HeadTailProperties
<1>5. PICK size \in Nat : size = HeaderOf(t).size
  BY <1>2, <1>4, HeaderType
<1>6. PICK n \in Nat : n = HeaderOf(t).len
  BY <1>2, <1>4, HeaderType
<1>7. Ends(t) = size + n
  BY <1>5, <1>6 DEF Ends
<1>8. size + n <= l - 1
  BY <1>2, <1>4, <1>7
<1>9. PICK list : list = SubSeq(t, size + 1, size + n)
  OBVIOUS
<1>10. ListOf(input) = list
  BY <1>1, <1>5, <1>7, <1>9 DEF ListOf, Content
<1>11. PICK first \in Nat, last \in Nat : first = size + 1 /\ last = size + n
  OBVIOUS
<1>12. ASSUME NEW i \in first..last PROVE t[i] \in Octet
  <2>1. i \in 1..(l - 1)
    BY <1>8, <1>11
  <2> QED BY <1>4, <2>1, ElementOfSeq
<1>13. /\ list \in Seq(Octet)
       /\ Len(list) = IF first <= last THEN last - first + 1 ELSE 0
       /\ \A i \in 1..(last - first + 1) : list[i] = t[first + i - 1]
  BY <1>9, <1>11, <1>12, SubSeqProperties
<1>14. Len(list) = n
  BY <1>11, <1>13
<1>15. PICK place \in Nat : place = 1 + size
  OBVIOUS
<1>16. ASSUME NEW i \in 1..n PROVE list[i] = input[place + i]
  <2>1. i \in 1..(last - first + 1) /\ first + i - 1 = size + i
    BY <1>11
  <2>2. size + i \in 1..(l - 1) /\ size + i + 1 = place + i
    BY <1>8, <1>15
  <2>3. list[i] = t[size + i]
    BY <1>13, <2>1
  <2>4. t[size + i] = input[size + i + 1]
    BY <1>4, <2>2
  <2> QED BY <2>2, <2>3, <2>4
<1>17. place + n = 1 + Ends(t) /\ place + n <= Len(input)
  BY <1>3, <1>7, <1>8, <1>15
<1>18. place = 1 + HeaderOf(Tail(input)).size
  BY <1>1, <1>5, <1>15
<1> QED BY <1>1, <1>10, <1>13, <1>14, <1>16, <1>17, <1>18

\* The same part of a sequence and of one that it contains.
LEMMA SamePart ==
  ASSUME NEW a \in Seq(Octet), NEW b \in Seq(Octet), NEW off \in Nat,
         off + Len(b) <= Len(a),
         \A i \in 1..Len(b) : b[i] = a[off + i],
         NEW x \in Nat, NEW y \in Nat, y <= Len(b)
  PROVE  SubSeq(a, off + x + 1, off + y) = SubSeq(b, x + 1, y)
<1>1. PICK m \in Nat : m = Len(b)
  BY LenProperties
<1>2. PICK n \in Nat : n = Len(a) /\ off + m <= n
  BY <1>1, LenProperties
<1>3. PICK first \in Nat, last \in Nat, begin \in Nat :
        first = off + x + 1 /\ last = off + y /\ begin = x + 1
  <2>1. off + x + 1 \in Nat /\ off + y \in Nat /\ x + 1 \in Nat
    OBVIOUS
  <2> QED BY <2>1, Zenon
<1>4. PICK u, v : u = SubSeq(a, first, last) /\ v = SubSeq(b, begin, y)
  OBVIOUS
<1>5. ASSUME NEW i \in first..last PROVE a[i] \in Octet
  <2>1. i \in 1..n
    BY <1>1, <1>2, <1>3
  <2> QED BY <1>2, <2>1, ElementOfSeq
<1>6. ASSUME NEW i \in begin..y PROVE b[i] \in Octet
  <2>1. i \in 1..m
    BY <1>1, <1>3
  <2> QED BY <1>1, <2>1, ElementOfSeq
<1>7. /\ u \in Seq(Octet)
      /\ Len(u) = IF first <= last THEN last - first + 1 ELSE 0
      /\ \A i \in 1..(last - first + 1) : u[i] = a[first + i - 1]
  BY <1>4, <1>5, SubSeqProperties
<1>8. /\ v \in Seq(Octet)
      /\ Len(v) = IF begin <= y THEN y - begin + 1 ELSE 0
      /\ \A i \in 1..(y - begin + 1) : v[i] = b[begin + i - 1]
  BY <1>4, <1>6, SubSeqProperties
<1>9. PICK len \in Nat : len = IF x + 1 <= y THEN y - x ELSE 0
  <2>1. (IF x + 1 <= y THEN y - x ELSE 0) \in Nat
    OBVIOUS
  <2> QED BY <2>1, Zenon
<1>10. Len(u) = len /\ Len(v) = len
  BY <1>3, <1>7, <1>8, <1>9
<1>11. ASSUME NEW i \in 1..len PROVE u[i] = v[i]
  <2>1. i \in 1..(last - first + 1) /\ i \in 1..(y - begin + 1)
    BY <1>3, <1>9
  <2>2. PICK j \in 1..m : j = begin + i - 1 /\ off + j = first + i - 1
    <3>1. x + i \in 1..m /\ x + i = begin + i - 1 /\ off + (x + i) = first + i - 1
      BY <1>1, <1>3, <1>9
    <3> QED BY <3>1
  <2>3. u[i] = a[off + j]
    BY <1>7, <2>1, <2>2
  <2>4. v[i] = b[j]
    BY <1>8, <2>1, <2>2
  <2>5. b[j] = a[off + j]
    BY <1>1
  <2> QED BY <2>3, <2>4, <2>5
<1>12. u = v
  BY <1>7, <1>8, <1>10, <1>11, SeqEqual
<1> QED BY <1>3, <1>4, <1>12

\* What is behind a place of one is one.
LEMMA LessFits ==
  ASSUME NEW input, Fits(input), NEW l \in Nat, l = Len(input),
         NEW r, NEW q \in Nat, q = Len(r), q <= l
  PROVE  Fits(r)
<1>1. PICK size \in 1..4 : size = SIZE_BYTES
  BY DecoderAssumption
<1>2. PICK w \in {1, 256, 65536, 16777216} : w = Weights[SIZE_BYTES]
  <2>1. Weights[size] \in {1, 256, 65536, 16777216}
    BY DEF Weights
  <2> QED BY <1>1, <2>1
<1>3. l \div w < 256
  BY <1>2 DEF Fits
<1>4. CASE w = 1
  <2>1. q \div 1 < 256
    <3>1. l \div 1 < 256
      BY <1>3, <1>4
    <3> QED BY ONLY <3>1, l \in Nat, q \in Nat, q <= l
  <2> QED BY <1>2, <1>4, <2>1 DEF Fits
<1>5. CASE w = 256
  <2>1. q \div 256 < 256
    <3>1. l \div 256 < 256
      BY <1>3, <1>5
    <3> QED BY ONLY <3>1, l \in Nat, q \in Nat, q <= l
  <2> QED BY <1>2, <1>5, <2>1 DEF Fits
<1>6. CASE w = 65536
  <2>1. q \div 65536 < 256
    <3>1. l \div 65536 < 256
      BY <1>3, <1>6
    <3> QED BY ONLY <3>1, l \in Nat, q \in Nat, q <= l
  <2> QED BY <1>2, <1>6, <2>1 DEF Fits
<1>7. CASE w = 16777216
  <2>1. q \div 16777216 < 256
    <3>1. l \div 16777216 < 256
      BY <1>3, <1>7
    <3> QED BY ONLY <3>1, l \in Nat, q \in Nat, q <= l
  <2> QED BY <1>2, <1>7, <2>1 DEF Fits
<1> QED BY <1>2, <1>4, <1>5, <1>6, <1>7

\* The list of an input, n bytes behind place, ...
ListIn(input, list, place, n) ==
  /\ HasList(input)
  /\ list = ListOf(input) /\ list \in Seq(Octet) /\ Len(list) = n
  /\ place = 1 + HeaderOf(Tail(input)).size
  /\ place + n = 1 + Ends(Tail(input))
  /\ place + n <= Len(input)
  /\ \A i \in 1..n : list[i] = input[place + i]

\* ... and where its item k begins and ends.
ItemIn(list, k, begin, end) ==
  begin = ItemEnds(list)[k - 1] /\ end = ItemEnds(list)[k]

\* What reading an item at p comes to: the item of the reference, or both lead
\* out of the list.
Reads(input, k, p, it, end, place, n) ==
  /\ it = NoItem => end > n
  /\ it # NoItem =>
       \/ /\ end <= n /\ p + it.consumed = place + end
          /\ SubSeq(input, p + it.header + 1, p + it.consumed) = ItemsOf(input)[k]
       \/ end > n /\ p + it.consumed > place + n

\* Where the decoder reads an item of the list.
LEMMA ItemInside ==
  ASSUME NEW input \in Seq(Octet), Fits(input), ~WrappingHeader(input),
         NEW list, NEW place \in Nat, NEW n \in Nat,
         ListIn(input, list, place, n),
         NEW k \in 1..11, NEW begin \in Nat, NEW end \in Nat,
         ItemIn(list, k, begin, end), begin < n
  PROVE  Reads(input, k, place + begin,
               parse_rlp_item(Behind(input, place + begin)), end, place, n)
<1>1. /\ list \in Seq(Octet) /\ Len(list) = n /\ list = ListOf(input)
      /\ place + n <= Len(input)
      /\ \A i \in 1..n : list[i] = input[place + i]
  BY DEF ListIn
<1>2. PICK l \in Nat : l = Len(input) /\ place + n <= l
  BY <1>1, LenProperties
<1>3. PICK p \in Nat, q \in Nat : p = place + begin /\ q = l - p /\ p <= l
  <2>1. place + begin \in Nat /\ l - (place + begin) \in Nat /\ place + begin <= l
    BY <1>2
  <2> QED BY <2>1
<1>4. PICK r : r = Behind(input, p)
  OBVIOUS
<1>5. r \in Seq(Octet) /\ Len(r) = q /\ \A i \in 1..q : r[i] = input[p + i]
  BY <1>2, <1>3, <1>4, BehindIs
<1>6. PICK m \in 1..q : m = n - begin /\ p + m <= l
  <2>1. n - begin \in 1..q /\ p + (n - begin) <= l
    BY <1>2, <1>3
  <2> QED BY <2>1
<1>7. PICK s : s = Behind(list, begin)
  OBVIOUS
<1>8. /\ s \in Seq(Octet) /\ Len(s) = m
      /\ \A i \in 1..m : s[i] = list[begin + i]
  <2>1. begin <= n
    OBVIOUS
  <2> QED BY <1>1, <1>6, <1>7, <2>1, BehindIs
<1>9. ASSUME NEW i \in 1..m PROVE s[i] = input[p + i]
  <2>1. begin + i \in 1..n /\ place + (begin + i) = p + i
    BY <1>3, <1>6
  <2> QED BY <1>1, <1>8, <2>1
<1>10. ASSUME NEW i \in 1..m PROVE s[i] = r[i]
  <2>1. i \in 1..q
    BY <1>6
  <2> QED BY <1>5, <1>9, <2>1
<1>11. PICK it : it = parse_rlp_item(r)
  OBVIOUS
<1>12. Agrees(s, it, m)
  <2>1. Fits(r)
    <3>1. q <= l
      BY <1>3
    <3> QED BY <1>2, <1>5, <3>1, LessFits
  <2>2. m \in 1..Len(r) /\ Len(s) = m
    BY <1>5, <1>6, <1>8
  <2> QED BY ONLY <2>1, <2>2, <1>5, <1>8, <1>10, <1>11, ItemAgrees
<1>13. ~Wraps(s)
  <2>1. s # <<>>
    BY <1>8, EmptySeq
  <2>2. k \in 1..FieldCount
    BY DEF FieldCount
  <2>3. s = ItemAt(ListOf(input), k)
    BY <1>1, <1>7 DEF ItemIn, ItemAt
  <2> QED BY <2>1, <2>2, <2>3 DEF WrappingHeader
<1>14. PICK size \in Nat, len \in Nat :
         size = HeaderOf(s).size /\ len = HeaderOf(s).len
  BY <1>12 DEF Agrees
<1>15. PICK whole \in Nat : whole = size + len /\ whole = Ends(s)
  <2>1. Ends(s) = size + len
    BY <1>14 DEF Ends
  <2>2. size + len \in Nat
    OBVIOUS
  <2> QED BY <2>1, <2>2
<1>16. end = begin + whole
  <2>1. ~ (begin >= n)
    OBVIOUS
  <2>2. ItemEnds(list)[k] = EndOfItem(list, ItemEnds(list)[k - 1])
    BY <1>1, EndsAre
  <2>3. end = EndOfItem(list, begin)
    BY <2>2 DEF ItemIn
  <2> QED BY <1>1, <1>7, <1>15, <2>1, <2>3 DEF EndOfItem
<1>17. CASE whole <= m
  <2>1. it = Item(size, len)
    BY <1>12, <1>14, <1>15, <1>17 DEF Agrees
  <2>2. it.header = size /\ it.consumed = whole
    BY <1>15, <2>1 DEF Item
  <2>3. it # NoItem
    BY <2>2 DEF NoItem
  <2>4. end <= n /\ p + whole = place + end
    BY <1>3, <1>6, <1>16, <1>17
  <2>5. SubSeq(input, p + size + 1, p + whole) = SubSeq(s, size + 1, whole)
    <3>1. p + Len(s) <= Len(input) /\ \A i \in 1..Len(s) : s[i] = input[p + i]
      BY <1>2, <1>6, <1>8, <1>9
    <3>2. whole <= Len(s)
      BY <1>8, <1>17
    <3>3. s \in Seq(Octet) /\ size \in Nat /\ whole \in Nat /\ p \in Nat
      BY <1>8
    <3> QED BY ONLY input \in Seq(Octet), <3>1, <3>2, <3>3, SamePart
  <2>6. ItemsOf(input)[k] = SubSeq(s, size + 1, whole)
    <3>1. s = ItemAt(ListOf(input), k)
      BY <1>1, <1>7 DEF ItemIn, ItemAt
    <3>2. ItemsOf(input)[k] = Content(s)
      BY <3>1 DEF ItemsOf, FieldCount
    <3> QED BY <1>14, <1>15, <3>2 DEF Content
  <2>7. Reads(input, k, p, it, end, place, n)
    BY <2>2, <2>3, <2>4, <2>5, <2>6 DEF Reads
  <2> QED BY <1>3, <1>4, <1>11, <2>7
<1>18. CASE ~ (whole <= m)
  <2>1. whole > m /\ end > n
    BY <1>6, <1>16, <1>18
  <2>2. it = NoItem \/ it.consumed > m
    BY <1>12, <1>13, <1>15, <2>1 DEF Agrees
  <2>3. ASSUME it # NoItem PROVE p + it.consumed > place + n
    <3>1. Within(it, r)
      BY <1>5, <1>11, <2>3, ItemWithin
    <3>2. PICK c \in 1..q : c = it.consumed
      BY <1>5, <3>1 DEF Within
    <3>3. c > m
      BY <2>2, <2>3, <3>2
    <3>4. p + c > place + n
      BY <1>3, <1>6, <3>3
    <3> QED BY <3>2, <3>4
  <2>4. Reads(input, k, p, it, end, place, n)
    BY <2>1, <2>3 DEF Reads
  <2> QED BY <1>3, <1>4, <1>11, <2>4
<1> QED BY <1>17, <1>18

\* Where it reads one of the list, or has come to the list's end.
LEMMA ItemRead ==
  ASSUME NEW input \in Seq(Octet), Fits(input), ~WrappingHeader(input),
         NEW list, NEW place \in Nat, NEW n \in Nat,
         ListIn(input, list, place, n),
         NEW k \in 1..11, NEW begin \in Nat, NEW end \in Nat,
         ItemIn(list, k, begin, end), begin <= n
  PROVE  Reads(input, k, place + begin,
               parse_rlp_item(Behind(input, place + begin)), end, place, n)
<1>1. CASE begin < n
  BY <1>1, ItemInside
<1>2. CASE ~ (begin < n)
  <2>1. list \in Seq(Octet) /\ Len(list) = n /\ place + n <= Len(input)
    BY DEF ListIn
  <2>2. begin = n /\ begin >= n
    BY <1>2
  <2>3. ItemEnds(list)[k] = EndOfItem(list, ItemEnds(list)[k - 1])
    BY <2>1, EndsAre
  <2>4. end = n + 1
    BY <2>1, <2>2, <2>3 DEF ItemIn, EndOfItem
  <2>5. end > n
    BY <2>4
  <2>6. PICK p \in Nat : p = place + begin /\ p = place + n
    BY <2>2
  <2>7. PICK it : it = parse_rlp_item(Behind(input, p))
    OBVIOUS
  <2>8. ASSUME it # NoItem PROVE p + it.consumed > place + n
    <3>1. Behind(input, p) \in Seq(Octet)
      BY <2>1, <2>6, BehindIs
    <3>2. Within(it, Behind(input, p))
      BY <2>7, <2>8, <3>1, ItemWithin
    <3>3. PICK q \in Nat : q = Len(Behind(input, p))
      BY <3>1, LenProperties
    <3>4. PICK c \in 1..q : c = it.consumed
      BY <3>2, <3>3 DEF Within
    <3>5. p + c > place + n
      BY <2>6
    <3> QED BY <3>4, <3>5
  <2>9. Reads(input, k, p, it, end, place, n)
    BY <2>5, <2>8 DEF Reads
  <2> QED BY <2>6, <2>7, <2>9
<1> QED BY <1>1, <1>2

\* An input with a list has it somewhere.
LEMMA ListIsIn ==
  ASSUME NEW input \in Seq(Octet), HasList(input)
  PROVE  \E place \in Nat, n \in Nat : ListIn(input, ListOf(input), place, n)
BY ListWithin DEF ListIn

\* A header that wraps leads out of its list: what has one is no transaction.
LEMMA WrappingIsNone ==
  ASSUME NEW input \in Seq(Octet), Fits(input), WrappingHeader(input)
  PROVE  ~IsTransaction(input)
<1> SUFFICES ASSUME HasList(input),
                    ItemEnds(ListOf(input))[11] = Len(ListOf(input))
             PROVE  FALSE
  BY DEF IsTransaction, FieldCount
<1>1. PICK t : t = Tail(input)
  OBVIOUS
<1>2. input # <<>> /\ t # <<>> /\ t[1] >= 192 /\ Ends(t) <= Len(t)
  BY <1>1 DEF HasList
<1>3. PICK l \in Nat \ {0} : l = Len(input)
  BY <1>2, PrefixType
<1>4. t \in Seq(Octet) /\ Len(t) = l - 1
  BY <1>1, <1>2, <1>3, HeadTailProperties
<1>5. ~Wraps(t)
  <2>1. PICK q \in Nat : q = l - 1 /\ q <= l /\ q = Len(t)
    BY <1>4
  <2>2. Fits(t)
    BY <1>3, <2>1, LessFits
  <2>3. Agrees(t, parse_rlp_list_header(t), q)
    <3>1. PICK c \in 0..255 : c = t[1]
      BY <1>2, <1>4, PrefixType
    <3>2. ~ (t[1] < 192)
      BY <1>2, <3>1
    <3> QED BY ONLY <1>2, <1>4, <2>1, <2>2, <3>2, ListHeaderAgrees
  <2>4. PICK e \in Nat : e = Ends(t)
    BY <2>3 DEF Agrees
  <2>5. ~ (e > q)
    BY <1>2, <2>1, <2>4
  <2> QED BY <2>3, <2>4, <2>5 DEF Agrees
<1>6. PICK list : list = ListOf(input)
  OBVIOUS
<1>7. PICK k \in 1..11 : ItemAt(list, k) # <<>> /\ Wraps(ItemAt(list, k))
  BY <1>1, <1>5, <1>6 DEF WrappingHeader, FieldCount
<1>8. PICK place \in Nat, n \in Nat : ListIn(input, list, place, n)
  BY <1>6, ListIsIn
<1>9. list \in Seq(Octet) /\ Len(list) = n /\ n <= l
  BY <1>3, <1>8 DEF ListIn
<1>10. PICK ends \in [0..11 -> Nat] :
         ends = ItemEnds(list) /\ ends[k] = EndOfItem(list, ends[k - 1])
  BY <1>9, EndsAre
<1>11. PICK begin \in Nat : begin = ends[k - 1]
  <2>1. k - 1 \in 0..11
    OBVIOUS
  <2> QED BY <1>10, <2>1
<1>12. PICK s : s = Behind(list, begin) /\ s # <<>> /\ Wraps(s)
  BY <1>7, <1>10, <1>11 DEF ItemAt
<1>13. begin < n
  <2>1. ASSUME ~ (begin < n) PROVE FALSE
    <3>1. PICK first \in Nat : first = begin + 1 /\ n < first
      BY <2>1
    <3>2. SubSeq(list, first, n) = <<>>
      BY <3>1, SubSeqEmpty
    <3> QED BY <1>9, <1>12, <3>1, <3>2 DEF Behind
  <2> QED BY <2>1
<1>14. PICK m \in 1..n : m = n - begin /\ m <= l
  <2>1. n - begin \in 1..n /\ n - begin <= l
    BY <1>9, <1>13
  <2> QED BY <2>1
<1>15. s \in Seq(Octet) /\ Len(s) = m
  <2>1. begin <= n
    BY <1>13
  <2> QED BY <1>9, <1>12, <1>14, <2>1, BehindIs
<1>16. Agrees(s, parse_rlp_item(s), m)
  <2>1. Fits(s)
    <3>1. PICK q \in Nat : q = Len(s) /\ q <= l
      BY <1>14, <1>15
    <3> QED BY <1>3, <3>1, LessFits
  <2>2. m \in 1..Len(s) /\ \A i \in 1..m : s[i] = s[i]
    BY <1>15
  <2> QED BY ONLY <1>15, <2>1, <2>2, ItemAgrees
<1>17. PICK e \in Nat : e = Ends(s) /\ e > m
  BY <1>12, <1>16 DEF Agrees
<1>18. ends[k] = begin + e
  <2>1. ~ (begin >= n)
    BY <1>13
  <2> QED BY <1>9, <1>10, <1>11, <1>12, <1>17, <2>1 DEF EndOfItem
<1>19. begin + e > n
  BY <1>14, <1>17
<1>20. ends[11] > n
  <2>1. k \in 0..11
    OBVIOUS
  <2> QED BY <1>9, <1>10, <1>18, <1>19, <2>1, BeyondStays
<1>21. ends[11] = n
  BY <1>6, <1>9, <1>10
<1> QED BY <1>20, <1>21

-----------------------------------------------------------------------------
(* The decoder and the reference *)

\* A transaction's items are acceptable, ...
LEMMA TransactionAccepts ==
  ASSUME NEW input, IsTransaction(input), NEW i \in 1..11
  PROVE  Accepted(Fields11[i], ItemsOf(input)[i])
<1>1. PICK items : items = ItemsOf(input)
  OBVIOUS
<1>2. /\ items[11] = <<>> /\ items[10] = <<1, 0, 0>>
      /\ \A j \in 1..8 : Len(items[j]) \in Limits[j]
  BY <1>1 DEF IsTransaction
<1>3. \A x, a \in Nat : x \in 0..a => x <= a
  OBVIOUS
<1>4. CASE i \in {1, 3, 4, 7}
  <2>1. Len(items[i]) \in 0..MAX_FIELD_SIZE
    BY <1>2, <1>4 DEF Limits
  <2>2. Fields11[i] \in {"chain_id", "gas_tip_cap", "gas_fee_cap", "value"}
    BY <1>4 DEF Fields11
  <2>3. Len(items[i]) <= MAX_FIELD_SIZE
    BY <2>1, DecoderAssumption
  <2> QED BY <1>1, <2>2, <2>3 DEF Accepted
<1>5. CASE i \in {2, 5}
  <2>1. Len(items[i]) \in 0..WORD_SIZE
    BY <1>2, <1>5 DEF Limits
  <2>2. Fields11[i] \in {"nonce", "gas"}
    BY <1>5 DEF Fields11
  <2>3. Len(items[i]) <= WORD_SIZE
    BY <2>1, DecoderAssumption
  <2> QED BY <1>1, <2>2, <2>3 DEF Accepted
<1>6. CASE i = 6
  <2>1. Len(items[i]) \in {0, ADDRESS_LENGTH} /\ Fields11[i] = "to"
    BY <1>2, <1>6 DEF Limits, Fields11
  <2> QED BY <1>1, <2>1 DEF Accepted
<1>7. CASE i = 8
  <2>1. Len(items[i]) \in 0..MAX_DATA_SIZE /\ Fields11[i] = "data"
    BY <1>2, <1>7 DEF Limits, Fields11
  <2>2. Len(items[i]) <= MAX_DATA_SIZE
    BY <2>1, DecoderAssumption
  <2> QED BY <1>1, <2>1, <2>2 DEF Accepted
<1>8. CASE i = 9
  BY <1>8 DEF Accepted, Fields11
<1>9. CASE i = 10
  BY <1>1, <1>2, <1>9 DEF Accepted, Fields11
<1>10. CASE i = 11
  BY <1>1, <1>2, <1>10 DEF Accepted, Fields11
<1> QED BY <1>4, <1>5, <1>6, <1>7, <1>8, <1>9, <1>10

\* ... and acceptable items have the lengths of a transaction's.
LEMMA AcceptedInLimits ==
  ASSUME NEW i \in 1..8, NEW val, Len(val) \in Nat, Accepted(Fields11[i], val)
  PROVE  Len(val) \in Limits[i]
<1>1. PICK len \in Nat : len = Len(val)
  OBVIOUS
<1>2. CASE i \in {1, 3, 4, 7}
  <2>1. Fields11[i] \in {"chain_id", "gas_tip_cap", "gas_fee_cap", "value"}
    BY <1>2 DEF Fields11
  <2>2. Len(val) <= MAX_FIELD_SIZE /\ Limits[i] = 0..MAX_FIELD_SIZE
    BY <1>2, <2>1 DEF Accepted, Limits
  <2>3. len \in 0..MAX_FIELD_SIZE
    BY <1>1, <2>2, DecoderAssumption
  <2> QED BY <1>1, <2>2, <2>3
<1>3. CASE i \in {2, 5}
  <2>1. Fields11[i] \in {"nonce", "gas"}
    BY <1>3 DEF Fields11
  <2>2. Len(val) <= WORD_SIZE /\ Limits[i] = 0..WORD_SIZE
    BY <1>3, <2>1 DEF Accepted, Limits
  <2>3. len \in 0..WORD_SIZE
    BY <1>1, <2>2, DecoderAssumption
  <2> QED BY <1>1, <2>2, <2>3
<1>4. CASE i = 6
  <2>1. Fields11[i] = "to" /\ Limits[i] = {0, ADDRESS_LENGTH}
    BY <1>4 DEF Fields11, Limits
  <2> QED BY <2>1 DEF Accepted
<1>5. CASE i = 8
  <2>1. Fields11[i] = "data" /\ Limits[i] = 0..MAX_DATA_SIZE
    BY <1>5 DEF Fields11, Limits
  <2>2. Len(val) <= MAX_DATA_SIZE
    BY <2>1 DEF Accepted
  <2>3. len \in 0..MAX_DATA_SIZE
    BY <1>1, <2>2, DecoderAssumption
  <2> QED BY <1>1, <2>1, <2>3
<1> QED BY <1>2, <1>3, <1>4, <1>5

\* Where the first item of the list begins.
FirstItem(input) == 1 + HeaderOf(Tail(input)).size

\* A decoding has read the items that the reference reads, ...
OnTrack(input, d) ==
  LET list == ListOf(input)
      begin == ItemEnds(list)[d.item - 1]
  IN /\ begin <= Len(list)
     /\ d.p = FirstItem(input) + begin
     /\ \A i \in 1..(d.item - 1) :
          /\ Accepted(Fields11[i], ItemsOf(input)[i])
          /\ Fields11[i] \in TxFieldNames =>
               d.tx[Fields11[i]] = ItemsOf(input)[i]

\* ... or an item has led both out of the list.
Lost(input, d) ==
  /\ ItemEnds(ListOf(input))[d.item - 1] > Len(ListOf(input))
  /\ d.p > d.payload_end

ReadsTheList(input, d) ==
  /\ HasList(input)
  /\ d.payload_end = FirstItem(input) + Len(ListOf(input))
  /\ OnTrack(input, d) \/ Lost(input, d)

\* How far the decoder came, and with what.  What it refuses is no transaction.
ReferenceInv ==
  /\ Fits(rlp)
  /\ dec.item > 0 => WrappingHeader(rlp) \/ ReadsTheList(rlp, dec)
  /\ dec.status = "refused" => ~IsTransaction(rlp)

\* What an item does to the decoding.
LEMMA FieldEffect ==
  ASSUME IInv, Field
  PROVE  LET it == parse_rlp_item(Behind(rlp, dec.p))
             val == SubSeq(rlp, dec.p + it.header + 1, dec.p + it.consumed)
             name == Fields11[dec.item]
         IN \/ /\ dec' = Refuse(dec)
               /\ it = NoItem \/ ~Accepted(name, val)
            \/ /\ it # NoItem /\ Accepted(name, val)
               /\ it.consumed \in Nat
               /\ dec'.status = "decoding" /\ dec'.item = dec.item + 1
               /\ dec'.p = dec.p + it.consumed
               /\ dec'.payload_end = dec.payload_end
               /\ dec'.tx = IF name \in NotStored THEN dec.tx
                            ELSE [dec.tx EXCEPT ![name] = val]
<1>1. /\ dec' = ReadField(rlp, dec) /\ rlp \in Seq(Octet)
      /\ dec.p \in Nat /\ dec.remaining \in Nat
      /\ dec.p + dec.remaining = Len(rlp)
      /\ dec.status = "decoding"
  BY DEF Field, Decode, IInv, TypeOK, ReadsWithinInput
<1>2. PICK it : it = parse_rlp_item(Behind(rlp, dec.p))
  OBVIOUS
<1>3. Behind(rlp, dec.p) = Rest(rlp, dec)
  BY <1>1 DEF Behind, Rest
<1>4. PICK val : val = SubSeq(rlp, dec.p + it.header + 1, dec.p + it.consumed)
  OBVIOUS
<1>5. PICK name : name = Fields11[dec.item]
  OBVIOUS
<1>6. dec' = IF it.consumed < 0 \/ ~Accepted(name, val) THEN Refuse(dec)
             ELSE [dec EXCEPT !.item = @ + 1, !.p = @ + it.consumed,
                              !.remaining = Left(dec, it),
                              !.tx = IF name \in NotStored THEN @
                                     ELSE [@ EXCEPT ![name] = val]]
  BY <1>1, <1>2, <1>3, <1>4, <1>5 DEF ReadField
<1>7. it # NoItem => it.consumed \in Nat /\ ~ (it.consumed < 0)
  <2>1. ASSUME it # NoItem PROVE it.consumed \in Nat /\ ~ (it.consumed < 0)
    <3>1. Rest(rlp, dec) \in Seq(Octet)
      BY RestType
    <3>2. Within(it, Rest(rlp, dec))
      BY <1>2, <1>3, <2>1, <3>1, ItemWithin
    <3>3. PICK q \in Nat : q = Len(Rest(rlp, dec))
      BY <3>1, LenProperties
    <3>4. PICK c \in 1..q : c = it.consumed
      BY <3>2, <3>3 DEF Within
    <3> QED BY <3>4
  <2> QED BY <2>1
<1>8. it = NoItem => it.consumed < 0
  BY DEF NoItem
<1>9. CASE it = NoItem \/ ~Accepted(name, val)
  BY <1>2, <1>4, <1>5, <1>6, <1>8, <1>9
<1>10. CASE ~ (it = NoItem \/ ~Accepted(name, val))
  <2>1. dec' = [dec EXCEPT !.item = @ + 1, !.p = @ + it.consumed,
                           !.remaining = Left(dec, it),
                           !.tx = IF name \in NotStored THEN @
                                  ELSE [@ EXCEPT ![name] = val]]
    BY <1>6, <1>7, <1>10
  <2>2. /\ dec'.status = "decoding" /\ dec'.item = dec.item + 1
        /\ dec'.p = dec.p + it.consumed
        /\ dec'.payload_end = dec.payload_end
        /\ dec'.tx = IF name \in NotStored THEN dec.tx
                     ELSE [dec.tx EXCEPT ![name] = val]
    BY <1>1, <2>1 DEF IInv, TypeOK
  <2> QED BY <1>2, <1>4, <1>5, <1>7, <1>10, <2>2
<1> QED BY <1>9, <1>10

\* Where a decoding is does not depend on its status.
LEMMA SamePlace ==
  ASSUME NEW input, NEW d, NEW e, d.item = e.item, d.p = e.p,
         d.payload_end = e.payload_end, d.tx = e.tx,
         ReadsTheList(input, d)
  PROVE  ReadsTheList(input, e)
BY DEF ReadsTheList, OnTrack, Lost

\* A refusal is made where the decoding is.
LEMMA RefuseEffect ==
  ASSUME IInv, dec' = Refuse(dec)
  PROVE  /\ dec'.item = dec.item /\ dec'.p = dec.p
         /\ dec'.payload_end = dec.payload_end /\ dec'.tx = dec.tx
         /\ ReadsTheList(rlp, dec) => ReadsTheList(rlp, dec')
<1>1. /\ dec'.item = dec.item /\ dec'.p = dec.p
      /\ dec'.payload_end = dec.payload_end /\ dec'.tx = dec.tx
  BY DEF IInv, TypeOK, Refuse
<1> QED BY <1>1, SamePlace

\* The header is the reference's, or it is refused, or its length wraps.
LEMMA HeaderReads ==
  ASSUME IInv, Fits(rlp), Header, UNCHANGED rlp
  PROVE  /\ dec'.item > 0 => WrappingHeader(rlp) \/ ReadsTheList(rlp, dec')
         /\ dec'.status = "refused" => ~IsTransaction(rlp)
<1>1. /\ dec.item = 0 /\ dec' = ReadHeader(rlp, dec) /\ dec.status = "decoding"
      /\ rlp \in Seq(Octet)
  BY DEF Header, Decode, IInv, TypeOK
<1>2. ASSUME dec' = Refuse(dec) PROVE ~ (dec'.item > 0)
  <2>1. dec'.item = 0
    BY <1>1, <1>2, RefuseEffect
  <2> QED BY <2>1
<1>3. CASE rlp = <<>> \/ rlp[1] # 2
  <2>1. dec' = Refuse(dec) /\ ~IsTransaction(rlp)
    BY <1>1, <1>3 DEF ReadHeader, IsTransaction, HasList
  <2> QED BY <1>2, <2>1
<1>4. CASE ~ (rlp = <<>> \/ rlp[1] # 2)
  <2>1. PICK t, h : t = Tail(rlp) /\ h = parse_rlp_list_header(t)
    OBVIOUS
  <2>2. dec' = IF h.consumed < 0 THEN Refuse(dec)
               ELSE [dec EXCEPT !.item = 1, !.p = 1 + h.header,
                                !.remaining = @ - 1 - h.header,
                                !.payload_end = 1 + h.consumed]
    BY <1>1, <1>4, <2>1 DEF ReadHeader
  <2>3. PICK l \in Nat \ {0} : l = Len(rlp)
    BY <1>1, <1>4, PrefixType
  <2>4. PICK q \in Nat : q = l - 1 /\ t \in Seq(Octet) /\ Len(t) = q /\ q <= l
    BY <1>1, <1>4, <2>1, <2>3, HeadTailProperties
  <2>5. CASE t = <<>> \/ t[1] < 192
    <3>1. h = NoItem
      <4>1. CASE t = <<>>
        BY <2>1, <4>1 DEF parse_rlp_list_header
      <4>2. CASE t # <<>>
        <5>1. PICK c \in 0..255 : c = t[1]
          BY <2>4, <4>2, PrefixType
        <5>2. c <= 191
          BY <2>5, <4>2, <5>1
        <5> QED BY <2>1, <4>2, <5>1, <5>2 DEF parse_rlp_list_header
      <4> QED BY <4>1, <4>2
    <3>2. dec' = Refuse(dec)
      BY <2>2, <3>1 DEF NoItem
    <3>3. ~HasList(rlp)
      <4>1. ASSUME t # <<>>, t[1] >= 192 PROVE FALSE
        <5>1. PICK c \in 0..255 : c = t[1]
          BY <2>4, <4>1, PrefixType
        <5>2. ~ (c < 192)
          BY <4>1, <5>1
        <5> QED BY <2>5, <4>1, <5>1, <5>2
      <4> QED BY <2>1, <4>1 DEF HasList
    <3> QED BY <1>2, <3>2, <3>3 DEF IsTransaction
  <2>6. CASE ~ (t = <<>> \/ t[1] < 192)
    <3>1. Agrees(t, h, q)
      <4>1. Fits(t)
        BY <2>3, <2>4, LessFits
      <4> QED BY ONLY <2>1, <2>4, <2>6, <4>1, ListHeaderAgrees
    <3>2. PICK e \in Nat : e = Ends(t)
      BY <3>1 DEF Agrees
    <3>3. PICK size \in Nat, len \in Nat :
            size = HeaderOf(t).size /\ len = HeaderOf(t).len
      BY <3>1 DEF Agrees
    <3>4. e = size + len
      BY <3>2, <3>3 DEF Ends
    <3>5. e <= q => HasList(rlp)
      <4>1. PICK c \in 0..255 : c = t[1]
        BY <2>4, <2>6, PrefixType
      <4>2. t[1] >= 192
        BY <2>6, <4>1
      <4> QED BY <1>4, <2>1, <2>4, <2>6, <3>2, <4>2 DEF HasList
    <3>6. ~ (e <= q) => ~HasList(rlp)
      BY <2>1, <2>4, <3>2 DEF HasList
    <3>7. CASE h = NoItem
      <4>1. dec' = Refuse(dec)
        BY <2>2, <3>7 DEF NoItem
      <4>2. ~ (e <= q)
        <5>1. ASSUME e <= q PROVE FALSE
          <6>1. h = Item(size, len)
            BY <3>1, <3>2, <3>3, <5>1 DEF Agrees
          <6>2. h.consumed = size + len /\ h.consumed = -1
            BY <3>7, <6>1 DEF Item, NoItem
          <6> QED BY <6>2
        <5> QED BY <5>1
      <4> QED BY <1>2, <3>6, <4>1, <4>2 DEF IsTransaction
    <3>8. CASE h # NoItem
      <4>1. Within(h, t)
        BY <2>1, <2>4, <3>8, HeaderWithin
      <4>2. PICK c \in 1..q : c = h.consumed
        BY <2>4, <4>1 DEF Within
      <4>3. dec' = [dec EXCEPT !.item = 1, !.p = 1 + h.header,
                               !.remaining = @ - 1 - h.header,
                               !.payload_end = 1 + h.consumed]
        <5>1. ~ (h.consumed < 0)
          BY <4>2
        <5> QED BY <2>2, <5>1
      <4>4. /\ dec'.status = "decoding" /\ dec'.item = 1
            /\ dec'.p = 1 + h.header /\ dec'.payload_end = 1 + h.consumed
        BY <1>1, <4>3 DEF IInv, TypeOK
      <4>5. CASE Wraps(t)
        BY <2>1, <4>4, <4>5 DEF WrappingHeader
      <4>6. CASE ~Wraps(t)
        <5>1. e <= q
          <6>1. ASSUME ~ (e <= q) PROVE FALSE
            <7>1. e > q
              BY <6>1
            <7>2. h.consumed > q
              BY <3>1, <3>2, <3>8, <4>6, <7>1 DEF Agrees
            <7> QED BY <4>2, <7>2
          <6> QED BY <6>1
        <5>2. h = Item(size, len)
          BY <3>1, <3>2, <3>3, <5>1 DEF Agrees
        <5>3. h.header = size /\ h.consumed = e
          BY <3>4, <5>2 DEF Item
        <5>4. HasList(rlp)
          BY <3>5, <5>1
        <5>5. PICK place \in Nat, n \in Nat : ListIn(rlp, ListOf(rlp), place, n)
          BY <1>1, <5>4, ListIsIn
        <5>6. /\ place = 1 + HeaderOf(t).size /\ place + n = 1 + Ends(t)
              /\ Len(ListOf(rlp)) = n /\ ListOf(rlp) \in Seq(Octet)
          BY <2>1, <5>5 DEF ListIn
        <5>7. dec'.p = place /\ dec'.payload_end = place + n
          BY <3>2, <3>3, <4>4, <5>3, <5>6
        <5>8. FirstItem(rlp) = place
          BY <2>1, <5>6 DEF FirstItem
        <5>9. ItemEnds(ListOf(rlp))[dec'.item - 1] = 0
          <6>1. ItemEnds(ListOf(rlp))[0] = 0
            BY <5>6, EndsAre
          <6>2. dec'.item - 1 = 0
            BY <4>4
          <6> QED BY <6>1, <6>2, Zenon
        <5>10. \A i \in 1..(dec'.item - 1) : FALSE
          BY <4>4
        <5>11. place = place + 0 /\ 0 <= n
          OBVIOUS
        <5>12. OnTrack(rlp, dec')
          BY <5>6, <5>7, <5>8, <5>9, <5>10, <5>11 DEF OnTrack
        <5>13. ReadsTheList(rlp, dec')
          BY <5>4, <5>6, <5>7, <5>8, <5>12 DEF ReadsTheList
        <5> QED BY <4>4, <5>13
      <4> QED BY <4>5, <4>6
    <3> QED BY <3>7, <3>8
  <2> QED BY <2>5, <2>6
<1> QED BY <1>3, <1>4

\* An item leaves the decoding on the reference's track, or both are lost.
LEMMA FieldReads ==
  ASSUME IInv, Fits(rlp), Field, ~WrappingHeader(rlp), ReadsTheList(rlp, dec)
  PROVE  /\ ReadsTheList(rlp, dec')
         /\ dec'.status = "refused" => ~IsTransaction(rlp)
<1>1. /\ rlp \in Seq(Octet) /\ HasList(rlp) /\ dec.tx \in [TxFieldNames -> Values]
      /\ dec.p \in Nat /\ dec.payload_end \in Nat
  BY DEF IInv, TypeOK, ReadsTheList
<1>2. PICK k \in 1..11 : k = dec.item
  BY DEF Field, Decode, FieldCount
<1>3. PICK list : list = ListOf(rlp)
  OBVIOUS
<1>4. PICK place \in Nat, n \in Nat : ListIn(rlp, list, place, n)
  BY <1>1, <1>3, ListIsIn
<1>5. /\ list \in Seq(Octet) /\ Len(list) = n /\ FirstItem(rlp) = place
      /\ dec.payload_end = place + n
  BY <1>3, <1>4 DEF ListIn, FirstItem, ReadsTheList
<1>6. PICK ends \in [0..11 -> Nat] :
        ends = ItemEnds(list) /\ ends[k] = EndOfItem(list, ends[k - 1])
  BY <1>5, EndsAre
<1>7. PICK begin \in Nat : begin = ends[k - 1]
  <2>1. k - 1 \in 0..11
    OBVIOUS
  <2> QED BY <1>6, <2>1
<1>8. PICK end \in Nat : end = ends[k]
  <2>1. k \in 0..11
    OBVIOUS
  <2> QED BY <1>6, <2>1
<1>9. ItemIn(list, k, begin, end)
  BY <1>6, <1>7, <1>8 DEF ItemIn
<1>10. end > n => ~IsTransaction(rlp)
  <2>1. ASSUME end > n PROVE ~IsTransaction(rlp)
    <3>1. k \in 0..11 /\ 11 \in 0..11
      OBVIOUS
    <3>2. ItemEnds(list)[k] > Len(list)
      BY <1>5, <1>6, <1>8, <2>1
    <3>3. ItemEnds(list)[11] > Len(list)
      BY <1>5, <3>1, <3>2, BeyondStays
    <3>4. PICK e \in Nat : e = ends[11]
      BY <1>6, <3>1
    <3>5. e # n
      BY <1>5, <1>6, <3>3, <3>4
    <3> QED BY <1>3, <1>5, <1>6, <3>4, <3>5 DEF IsTransaction, FieldCount
  <2> QED BY <2>1
<1>11. PICK it, val, name :
         /\ it = parse_rlp_item(Behind(rlp, dec.p))
         /\ val = SubSeq(rlp, dec.p + it.header + 1, dec.p + it.consumed)
         /\ name = Fields11[k]
  OBVIOUS
<1>12. \/ /\ dec' = Refuse(dec)
          /\ it = NoItem \/ ~Accepted(name, val)
       \/ /\ it # NoItem /\ Accepted(name, val)
          /\ it.consumed \in Nat
          /\ dec'.status = "decoding" /\ dec'.item = k + 1
          /\ dec'.p = dec.p + it.consumed
          /\ dec'.payload_end = dec.payload_end
          /\ dec'.tx = IF name \in NotStored THEN dec.tx
                       ELSE [dec.tx EXCEPT ![name] = val]
  BY <1>2, <1>11, FieldEffect
<1>13. dec' = Refuse(dec) => ReadsTheList(rlp, dec')
  BY RefuseEffect
<1>14. ASSUME dec'.item = k + 1, end > n, NEW c \in Nat, dec'.p = c, c > place + n,
              dec'.payload_end = dec.payload_end
       PROVE  ReadsTheList(rlp, dec')
  <2>1. dec'.item - 1 = k
    BY <1>14
  <2>2. ItemEnds(ListOf(rlp))[dec'.item - 1] = end
    BY <1>3, <1>6, <1>8, <2>1
  <2>3. Lost(rlp, dec')
    BY <1>3, <1>5, <1>14, <2>2 DEF Lost
  <2> QED BY <1>14, <2>3 DEF ReadsTheList
<1>15. CASE OnTrack(rlp, dec)
  <2>1. begin <= n /\ dec.p = place + begin
    BY <1>2, <1>3, <1>5, <1>6, <1>7, <1>15 DEF OnTrack
  <2>2. Reads(rlp, k, dec.p, it, end, place, n)
    BY <1>1, <1>4, <1>9, <1>11, <2>1, ItemRead
  <2>3. CASE dec' = Refuse(dec) /\ (it = NoItem \/ ~Accepted(name, val))
    <3>1. end > n \/ ~IsTransaction(rlp)
      <4>1. CASE it = NoItem
        BY <2>2, <4>1 DEF Reads
      <4>2. CASE it # NoItem
        <5>1. ASSUME IsTransaction(rlp) PROVE end > n
          <6>1. Accepted(name, ItemsOf(rlp)[k])
            BY <1>11, <5>1, TransactionAccepts
          <6>2. val # ItemsOf(rlp)[k]
            BY <2>3, <4>2, <6>1
          <6> QED BY <1>11, <2>2, <4>2, <6>2 DEF Reads
        <5> QED BY <5>1
      <4> QED BY <4>1, <4>2
    <3> QED BY <1>10, <1>13, <2>3, <3>1
  <2>4. CASE /\ it # NoItem /\ Accepted(name, val)
             /\ it.consumed \in Nat
             /\ dec'.status = "decoding" /\ dec'.item = k + 1
             /\ dec'.p = dec.p + it.consumed
             /\ dec'.payload_end = dec.payload_end
             /\ dec'.tx = IF name \in NotStored THEN dec.tx
                          ELSE [dec.tx EXCEPT ![name] = val]
    <3>1. PICK c \in Nat : c = dec'.p
      <4>1. PICK p \in Nat, more \in Nat : p = dec.p /\ more = it.consumed
        BY <1>1, <2>4
      <4>2. p + more \in Nat /\ dec'.p = p + more
        BY <2>4, <4>1
      <4> QED BY <4>2
    <3>2. dec'.status # "refused"
      BY <2>4
    <3>3. CASE end > n /\ c > place + n
      BY <1>14, <2>4, <3>1, <3>2, <3>3
    <3>4. CASE ~ (end > n /\ c > place + n)
      <4>1. end <= n /\ c = place + end /\ val = ItemsOf(rlp)[k]
        BY <1>11, <2>2, <2>4, <3>1, <3>4 DEF Reads
      <4>2. dec'.item - 1 = k
        BY <2>4
      <4>3. ItemEnds(ListOf(rlp))[dec'.item - 1] = end
        BY <1>3, <1>6, <1>8, <4>2
      <4>4. ASSUME NEW i \in 1..k
            PROVE  /\ Accepted(Fields11[i], ItemsOf(rlp)[i])
                   /\ Fields11[i] \in TxFieldNames =>
                        dec'.tx[Fields11[i]] = ItemsOf(rlp)[i]
        <5>1. CASE i = k
          <6>1. Accepted(Fields11[i], ItemsOf(rlp)[i])
            BY <1>11, <2>4, <4>1, <5>1
          <6>2. ASSUME name \in TxFieldNames PROVE dec'.tx[name] = val
            <7>1. name \notin NotStored
              BY <6>2 DEF TxFieldNames
            <7>2. dec'.tx = [dec.tx EXCEPT ![name] = val]
              BY <2>4, <7>1
            <7> QED BY <1>1, <6>2, <7>2
          <6> QED BY <1>11, <4>1, <5>1, <6>1, <6>2
        <5>2. CASE i # k
          <6>1. i \in 1..(dec.item - 1) /\ i \in 1..11
            BY <1>2, <5>2
          <6>2. /\ Accepted(Fields11[i], ItemsOf(rlp)[i])
                /\ Fields11[i] \in TxFieldNames =>
                     dec.tx[Fields11[i]] = ItemsOf(rlp)[i]
            BY <1>15, <6>1 DEF OnTrack
          <6>3. Fields11[i] # name
            <7>1. i \in 1..FieldCount /\ k \in 1..FieldCount
              BY <6>1 DEF FieldCount
            <7> QED BY <1>11, <5>2, <7>1, FieldsKnown
          <6>4. ASSUME Fields11[i] \in TxFieldNames
                PROVE  dec'.tx[Fields11[i]] = dec.tx[Fields11[i]]
            <7>1. CASE name \in NotStored
              BY <2>4, <7>1
            <7>2. CASE name \notin NotStored
              <8>1. dec'.tx = [dec.tx EXCEPT ![name] = val]
                BY <2>4, <7>2
              <8> QED BY <1>1, <6>3, <6>4, <8>1
            <7> QED BY <7>1, <7>2
          <6> QED BY <6>2, <6>4
        <5> QED BY <5>1, <5>2
      <4>5. OnTrack(rlp, dec')
        <5>1. dec'.p = FirstItem(rlp) + end
          BY <1>5, <3>1, <4>1
        <5>2. end <= Len(ListOf(rlp))
          BY <1>3, <1>5, <4>1
        <5>3. \A i \in 1..(dec'.item - 1) :
                /\ Accepted(Fields11[i], ItemsOf(rlp)[i])
                /\ Fields11[i] \in TxFieldNames =>
                     dec'.tx[Fields11[i]] = ItemsOf(rlp)[i]
          BY <4>2, <4>4
        <5> QED BY <4>3, <5>1, <5>2, <5>3, Zenon DEF OnTrack
      <4>6. dec'.payload_end = FirstItem(rlp) + Len(ListOf(rlp))
        BY <2>4 DEF ReadsTheList
      <4> QED BY <1>1, <3>2, <4>5, <4>6 DEF ReadsTheList
    <3> QED BY <3>3, <3>4
  <2> QED BY <1>12, <2>3, <2>4
<1>16. CASE Lost(rlp, dec)
  <2>1. begin > n /\ dec.p > place + n
    BY <1>2, <1>3, <1>5, <1>6, <1>7, <1>16 DEF Lost
  <2>2. begin >= n
    BY <2>1
  <2>3. end = n + 1
    BY <1>5, <1>6, <1>7, <1>8, <2>2 DEF EndOfItem
  <2>4. end > n
    BY <2>3
  <2>5. CASE dec' = Refuse(dec)
    BY <1>10, <1>13, <2>4, <2>5
  <2>6. CASE /\ it.consumed \in Nat
             /\ dec'.status = "decoding" /\ dec'.item = k + 1
             /\ dec'.p = dec.p + it.consumed
             /\ dec'.payload_end = dec.payload_end
    <3>1. PICK c \in Nat : c = dec'.p /\ c > place + n
      <4>1. PICK p \in Nat, more \in Nat : p = dec.p /\ more = it.consumed
        BY <1>1, <2>6
      <4>2. p > place + n
        BY <2>1, <4>1
      <4>3. p + more \in Nat /\ p + more > place + n
        BY <4>2
      <4> QED BY <2>6, <4>1, <4>3
    <3>2. ReadsTheList(rlp, dec')
      BY <1>14, <2>4, <2>6, <3>1
    <3>3. dec'.status # "refused"
      BY <2>6
    <3> QED BY <3>2, <3>3
  <2> QED BY <1>12, <2>5, <2>6
<1> QED BY <1>15, <1>16 DEF ReadsTheList

\* The end is the list's, or what was read is no transaction.
LEMMA EndReads ==
  ASSUME IInv, End, ReadsTheList(rlp, dec)
  PROVE  /\ ReadsTheList(rlp, dec')
         /\ dec'.status = "refused" => ~IsTransaction(rlp)
<1>1. /\ dec.item - 1 = 11 /\ dec' = ReadEnd(dec) /\ rlp \in Seq(Octet)
      /\ HasList(rlp) /\ dec.payload_end = FirstItem(rlp) + Len(ListOf(rlp))
  BY DEF End, Decode, FieldCount, IInv, TypeOK, ReadsTheList
<1>2. CASE dec.p = dec.payload_end
  <2>1. dec' = [dec EXCEPT !.status = "accepted"]
    BY <1>1, <1>2 DEF ReadEnd
  <2>2. /\ dec'.status # "refused" /\ dec'.item = dec.item /\ dec'.p = dec.p
        /\ dec'.payload_end = dec.payload_end /\ dec'.tx = dec.tx
    BY <2>1 DEF IInv, TypeOK
  <2> QED BY <2>2, SamePlace
<1>3. CASE dec.p # dec.payload_end
  <2>1. dec' = Refuse(dec)
    BY <1>1, <1>3 DEF ReadEnd
  <2>2. PICK list : list = ListOf(rlp)
    OBVIOUS
  <2>3. PICK place \in Nat, n \in Nat : ListIn(rlp, list, place, n)
    BY <1>1, <2>2, ListIsIn
  <2>4. Len(list) = n /\ list \in Seq(Octet)
    BY <2>3 DEF ListIn
  <2>5. PICK e \in Nat : e = ItemEnds(list)[11]
    <3>1. 11 \in 0..11
      OBVIOUS
    <3> QED BY <2>4, <3>1, EndsAre
  <2>6. e # n
    <3>1. CASE OnTrack(rlp, dec)
      <4>1. dec.p = FirstItem(rlp) + e
        <5>1. ItemEnds(ListOf(rlp))[dec.item - 1] = e
          BY <1>1, <2>2, <2>5, Zenon
        <5> QED BY <3>1, <5>1 DEF OnTrack
      <4>2. dec.payload_end = FirstItem(rlp) + n
        BY <1>1, <2>2, <2>4
      <4> QED BY <1>3, <4>1, <4>2
    <3>2. CASE Lost(rlp, dec)
      <4>1. ItemEnds(ListOf(rlp))[dec.item - 1] > n
        BY <2>2, <2>4, <3>2 DEF Lost
      <4>2. e > n
        BY <1>1, <2>2, <2>5, <4>1, Zenon
      <4> QED BY <4>2
    <3> QED BY <3>1, <3>2 DEF ReadsTheList
  <2>7. ~IsTransaction(rlp)
    BY <2>2, <2>4, <2>5, <2>6 DEF IsTransaction, FieldCount
  <2> QED BY <2>1, <2>7, RefuseEffect
<1> QED BY <1>2, <1>3

\* A step that refuses leaves the item, and one that does not moves on.
LEMMA ReferenceStep ==
  ASSUME IInv, ReferenceInv, Next, UNCHANGED rlp
  PROVE  ReferenceInv'
<1>1. Fits(rlp) /\ rlp \in Seq(Octet)
  BY DEF IInv, TypeOK, ReferenceInv
<1>2. CASE WrappingHeader(rlp)
  <2>1. ~IsTransaction(rlp)
    BY <1>1, <1>2, WrappingIsNone
  <2> QED BY <1>1, <1>2, <2>1 DEF ReferenceInv
<1>3. CASE ~WrappingHeader(rlp)
  <2>1. /\ dec'.item > 0 => WrappingHeader(rlp) \/ ReadsTheList(rlp, dec')
        /\ dec'.status = "refused" => ~IsTransaction(rlp)
    <3>1. CASE Header
      BY <1>1, <3>1, HeaderReads
    <3>2. CASE Field
      <4>1. dec.item > 0
        BY <3>2 DEF Field, Decode, FieldCount
      <4>2. ReadsTheList(rlp, dec)
        BY <1>3, <4>1 DEF ReferenceInv
      <4> QED BY <1>1, <1>3, <3>2, <4>2, FieldReads
    <3>3. CASE End
      <4>1. dec.item > 0
        BY <3>3 DEF End, Decode, FieldCount
      <4>2. ReadsTheList(rlp, dec)
        BY <1>3, <4>1 DEF ReferenceInv
      <4> QED BY <3>3, <4>2, EndReads
    <3> QED BY <3>1, <3>2, <3>3 DEF Next
  <2> QED BY <1>1, <2>1 DEF ReferenceInv
<1> QED BY <1>2, <1>3

\* Nothing is read at first.
LEMMA ReferenceStarts == Init => ReferenceInv
<1> SUFFICES ASSUME Init PROVE ReferenceInv
  OBVIOUS
<1>1. dec.status = "decoding" /\ dec.item = 0
  BY DEF Init, Start
<1>2. Fits(rlp)
  BY InputsAssumption DEF Init, Fits
<1>3. ~ (dec.item > 0)
  BY <1>1
<1> QED BY <1>1, <1>2, <1>3 DEF ReferenceInv

\* So the decoder stays with the reference.
LEMMA ReferenceInvariance == Spec => []ReferenceInv
<1>1. IInv /\ ReferenceInv /\ [Next]_vars => ReferenceInv'
  <2> SUFFICES ASSUME IInv, ReferenceInv, [Next]_vars PROVE ReferenceInv'
    OBVIOUS
  <2>1. CASE UNCHANGED vars
    BY <2>1 DEF ReferenceInv, vars
  <2>2. CASE Next
    <3>1. UNCHANGED rlp
      BY <2>2 DEF Next, Header, Field, End, Decode
    <3> QED BY <2>2, <3>1, ReferenceStep
  <2> QED BY <2>1, <2>2
<1> QED BY <1>1, ReferenceStarts, DecoderInvariance, PTL DEF Spec

\* What is accepted is a transaction, with its contents.
LEMMA AcceptedIsTransaction ==
  ASSUME IInv, ReferenceInv, dec.status = "accepted", ~WrappingHeader(rlp)
  PROVE  /\ IsTransaction(rlp)
         /\ \A i \in 1..FieldCount :
              Fields11[i] \in TxFieldNames => dec.tx[Fields11[i]] = ItemsOf(rlp)[i]
<1>1. /\ dec.item = 12 /\ dec.item - 1 = 11 /\ dec.p = dec.payload_end
      /\ rlp \in Seq(Octet)
      /\ dec.tx \in [TxFieldNames -> Values]
  BY DEF IInv, TypeOK, AtEnd, FieldCount
<1>2. ReadsTheList(rlp, dec)
  <2>1. dec.item > 0
    BY <1>1
  <2> QED BY <2>1 DEF ReferenceInv
<1>3. PICK place \in Nat, n \in Nat : ListIn(rlp, ListOf(rlp), place, n)
  BY <1>1, <1>2, ListIsIn DEF ReadsTheList
<1>4. /\ Len(ListOf(rlp)) = n /\ ListOf(rlp) \in Seq(Octet)
      /\ FirstItem(rlp) = place /\ dec.payload_end = place + n
  BY <1>2, <1>3 DEF ListIn, FirstItem, ReadsTheList
<1>5. OnTrack(rlp, dec)
  <2>1. ASSUME Lost(rlp, dec) PROVE FALSE
    <3>1. dec.p > dec.payload_end
      BY <2>1 DEF Lost
    <3>2. place + n > place + n
      BY <1>1, <1>4, <3>1
    <3> QED BY <3>2
  <2> QED BY <1>2, <2>1 DEF ReadsTheList
<1>6. ItemEnds(ListOf(rlp))[11] = n
  <2>1. PICK e \in Nat : e = ItemEnds(ListOf(rlp))[11]
    <3>1. 11 \in 0..11
      OBVIOUS
    <3> QED BY <1>4, <3>1, EndsAre
  <2>2. ItemEnds(ListOf(rlp))[dec.item - 1] = e
    BY <1>1, <2>1, Zenon
  <2>3. dec.p = place + e
    BY <1>4, <1>5, <2>2 DEF OnTrack
  <2>4. e = n
    BY <1>1, <1>4, <2>3
  <2> QED BY <2>1, <2>4
<1>7. ASSUME NEW i \in 1..11
      PROVE  /\ Accepted(Fields11[i], ItemsOf(rlp)[i])
             /\ Fields11[i] \in TxFieldNames =>
                  dec.tx[Fields11[i]] = ItemsOf(rlp)[i]
  <2>1. i \in 1..(dec.item - 1)
    BY <1>1
  <2> QED BY <1>5, <2>1 DEF OnTrack
<1>8. PICK items : items = ItemsOf(rlp)
  OBVIOUS
<1>9. items[11] = <<>> /\ items[10] = <<1, 0, 0>>
  <2>1. Accepted(Fields11[10], items[10]) /\ Accepted(Fields11[11], items[11])
    BY <1>7, <1>8
  <2>2. Fields11[10] = "descriptor" /\ Fields11[11] = "extra_params"
    BY DEF Fields11
  <2> QED BY <2>1, <2>2 DEF Accepted
<1>10. ASSUME NEW i \in 1..8 PROVE Len(items[i]) \in Limits[i]
  <2>1. i \in 1..11 /\ i \in 1..FieldCount
    BY DEF FieldCount
  <2>2. Fields11[i] \in TxFieldNames
    BY DEF Fields11, TxFieldNames, FieldNames, FieldCount, NotStored
  <2>3. Accepted(Fields11[i], items[i]) /\ dec.tx[Fields11[i]] = items[i]
    BY <1>7, <1>8, <2>1, <2>2
  <2>4. dec.tx[Fields11[i]] # Unwritten
    <3>1. i < dec.item
      BY <1>1
    <3> QED BY <2>1, <2>2, <3>1 DEF IInv, StoredInOrder
  <2>5. dec.tx[Fields11[i]] \in Seq(Octet)
    BY <1>1, <2>2, <2>4 DEF Values
  <2>6. Len(items[i]) \in Nat
    BY <2>3, <2>5, LenProperties
  <2> QED BY <2>3, <2>6, AcceptedInLimits
<1>11. IsTransaction(rlp)
  BY <1>2, <1>4, <1>6, <1>8, <1>9, <1>10 DEF IsTransaction, FieldCount, ReadsTheList
<1> QED BY <1>7, <1>11 DEF FieldCount

(* The decoder reads RLP as the reference does: for every input and all sizes,
   what it accepts is a list of eleven items of the lengths their fields may
   have, its fields hold the contents of the items, and it refuses no such list;
   the one exception is a header that wraps a size_t (rlp_decode.c:114-280). *)
THEOREM DecodesAsReference == Spec => []DecodesTransactions
<1>1. IInv /\ ReferenceInv => DecodesTransactions
  BY AcceptedIsTransaction DEF ReferenceInv, DecodesTransactions
<1> QED BY <1>1, DecoderInvariance, ReferenceInvariance, PTL
=============================================================================
