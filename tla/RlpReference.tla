---------------------------- MODULE RlpReference ----------------------------
(***************************************************************************)
(* What a transaction is, written without regard to how the decoder reads  *)
(* one: lengths are numbers and an item ends within its list, as RLP says, *)
(* and a transaction is a list of the eleven items that                    *)
(* doc/TRANSACTION.md:25-40 names.  How long an item may be is what the    *)
(* application has room for, which is more than that document allows;      *)
(* RlpClaims holds the decoder against the document's lengths.             *)
(***************************************************************************)
EXTENDS RlpDecode

\* A number in big-endian bytes, or top where the number is not below it.
AtMost(top, n) == IF n < top THEN n ELSE top

Number(digits, top) ==
  LET value[k \in 0..Len(digits)] ==
        IF k = 0 THEN 0 ELSE AtMost(top, 256 * value[k - 1] + digits[k])
  IN value[Len(digits)]

\* The header at the head of b: how many bytes, and the length it announces.
\* One that leads beyond b is as good as any other that does.
HeaderOf(b) ==
  LET c == b[1]
      base == IF c >= 192 THEN 192 ELSE 128
      longer == c - base - 55
  IN IF c < 128 THEN [size |-> 0, len |-> 1]
     ELSE IF longer <= 0 THEN [size |-> 1, len |-> c - base]
     ELSE IF longer >= Len(b) THEN [size |-> 1, len |-> Len(b)]
     ELSE [size |-> 1 + longer, len |-> Number(SubSeq(b, 2, 1 + longer), Len(b))]

Ends(b) == HeaderOf(b).size + HeaderOf(b).len
Content(b) == SubSeq(b, HeaderOf(b).size + 1, Ends(b))

Behind(b, place) == SubSeq(b, place + 1, Len(b))

\* Where the first items of a list end: beyond it where one is cut short or
\* there is none.
EndOfItem(list, begin) ==
  IF begin >= Len(list) THEN Len(list) + 1 ELSE begin + Ends(Behind(list, begin))

ItemEnds(list) ==
  LET end[k \in 0..FieldCount] ==
        IF k = 0 THEN 0 ELSE EndOfItem(list, end[k - 1])
  IN end

ItemAt(list, k) == Behind(list, ItemEnds(list)[k - 1])

\* The list behind the type byte, if there is one, and its items.
HasList(input) ==
  /\ input # <<>> /\ input[1] = 2
  /\ Tail(input) # <<>> /\ Tail(input)[1] >= 192
  /\ Ends(Tail(input)) <= Len(Tail(input))

ListOf(input) == Content(Tail(input))
ItemsOf(input) == [k \in 1..FieldCount |-> Content(ItemAt(ListOf(input), k))]

\* The lengths that zond_tx_t has room for (types.h:50-77), MAX_FIELD_SIZE being
\* four times the eight bytes of the document; descriptor and extra_params are
\* fixed.
Limits == <<0..MAX_FIELD_SIZE, 0..WORD_SIZE, 0..MAX_FIELD_SIZE,
            0..MAX_FIELD_SIZE, 0..WORD_SIZE, {0, ADDRESS_LENGTH},
            0..MAX_FIELD_SIZE, 0..MAX_DATA_SIZE>>

IsTransaction(input) ==
  /\ HasList(input)
  /\ ItemEnds(ListOf(input))[FieldCount] = Len(ListOf(input))
  /\ LET items == ItemsOf(input)
     IN /\ items[11] = <<>>
        /\ items[10] = <<1, 0, 0>>
        /\ \A i \in 1..8 : Len(items[i]) \in Limits[i]

\* A length that a size_t does not hold, in the header of the list or of one of
\* its items.
Wraps(b) == \E i \in 2..(HeaderOf(b).size - SIZE_BYTES) : b[i] # 0

WrappingHeader(input) ==
  \/ Wraps(Tail(input))
  \/ \E k \in 1..FieldCount :
       ItemAt(ListOf(input), k) # <<>> /\ Wraps(ItemAt(ListOf(input), k))
=============================================================================
