----------------------------- MODULE RlpDecode -----------------------------
(***************************************************************************)
(* The transaction decoder, rlp_decode.c, on sequences of bytes.           *)
(*                                                                         *)
(* A decoding is a record that the steps below rewrite: which item comes   *)
(* next, the pointer p as an offset into the input, the bytes that remain  *)
(* behind it, the end of the list's payload and the fields of zond_tx_t    *)
(* that have been written.  A field is its bytes, in number its ..._len.   *)
(*                                                                         *)
(* A definition named Bug... is a mutated form of the one after it.        *)
(***************************************************************************)
EXTENDS Integers, Sequences, SequencesExt

CONSTANTS
  ADDRESS_LENGTH,  \* 64
  MAX_FIELD_SIZE,  \* 32: chain_id, gas_tip_cap, gas_fee_cap and value
  WORD_SIZE,       \* 8: the arrays nonce and gas
  MAX_DATA_SIZE,   \* 2048
  SIZE_BYTES       \* bytes in a size_t: 4 on the devices

ASSUME DecoderAssumption ==
  /\ ADDRESS_LENGTH \in Nat
  /\ MAX_FIELD_SIZE \in Nat
  /\ WORD_SIZE \in Nat
  /\ MAX_DATA_SIZE \in Nat
  /\ SIZE_BYTES \in 1..4

Octet == 0..255

-----------------------------------------------------------------------------
(* One item *)

\* len = (len << 8) | input[1 + i]: what is left of the n bytes behind a
\* long prefix, in a size_t.
Place(input, n, k) == IF k < n /\ k < SIZE_BYTES THEN input[1 + n - k] ELSE 0

LengthRead(input, n) ==
  Place(input, n, 0) + 256 * Place(input, n, 1)
    + 65536 * Place(input, n, 2) + 16777216 * Place(input, n, 3)

\* An item: its header's length, that of its content, what it consumes.
NoItem == [header |-> 0, len |-> 0, consumed |-> -1]
Item(header, len) ==
  [header |-> header, len |-> len, consumed |-> header + len]

ShortItem(input, len) ==
  IF len > Len(input) - 1 THEN NoItem ELSE Item(1, len)

\* The header's own bytes are not counted.
BugLongItem(input, n) ==
  IF n > Len(input) - 1 THEN NoItem
  ELSE IF LengthRead(input, n) > Len(input) - 1 THEN NoItem
  ELSE Item(1 + n, LengthRead(input, n))

LongItem(input, n) ==
  IF n > Len(input) - 1 THEN NoItem
  ELSE IF LengthRead(input, n) > Len(input) - 1 - n THEN NoItem
  ELSE Item(1 + n, LengthRead(input, n))

parse_rlp_item(input) ==
  IF input = <<>> THEN NoItem
  ELSE LET prefix == input[1]
       IN IF prefix <= 127 THEN Item(0, 1)
          ELSE IF prefix <= 183 THEN ShortItem(input, prefix - 128)
          ELSE IF prefix <= 191 THEN LongItem(input, prefix - 183)
          ELSE IF prefix <= 247 THEN ShortItem(input, prefix - 192)
          ELSE LongItem(input, prefix - 247)

parse_rlp_list_header(input) ==
  IF input = <<>> THEN NoItem
  ELSE LET prefix == input[1]
       IN IF prefix <= 191 THEN NoItem
          ELSE IF prefix <= 247 THEN ShortItem(input, prefix - 192)
          ELSE LongItem(input, prefix - 247)

-----------------------------------------------------------------------------
(* One transaction *)

Fields11 == <<"chain_id", "nonce", "gas_tip_cap", "gas_fee_cap", "gas", "to",
              "value", "data", "access_list", "descriptor", "extra_params">>

FieldCount == 11
FieldNames == {Fields11[i] : i \in 1..FieldCount}
NotStored == {"access_list", "extra_params"}
TxFieldNames == FieldNames \ NotStored

\* The nonce has no bound of its own.
BugAccepted(name, val) ==
  /\ name \in {"chain_id", "gas_tip_cap", "gas_fee_cap", "value", "nonce"} =>
       Len(val) <= MAX_FIELD_SIZE
  /\ name = "gas" => Len(val) <= WORD_SIZE
  /\ name = "to" => Len(val) \in {0, ADDRESS_LENGTH}
  /\ name = "data" => Len(val) <= MAX_DATA_SIZE
  /\ name = "descriptor" => val = <<1, 0, 0>>
  /\ name = "extra_params" => val = <<>>

\* What decode_ledger_tx asks of the content of each item; of access_list,
\* nothing.
Accepted(name, val) ==
  /\ name \in {"chain_id", "gas_tip_cap", "gas_fee_cap", "value"} =>
       Len(val) <= MAX_FIELD_SIZE
  /\ name \in {"nonce", "gas"} => Len(val) <= WORD_SIZE
  /\ name = "to" => Len(val) \in {0, ADDRESS_LENGTH}
  /\ name = "data" => Len(val) <= MAX_DATA_SIZE
  /\ name = "descriptor" => val = <<1, 0, 0>>
  /\ name = "extra_params" => val = <<>>

\* A field that this call has not written: it holds what it held before.  No
\* byte is -1.
Unwritten == <<-1>>

\* Item 0 is the type byte with the list's header; item 12 is the end.
Start(rlp) == [status |-> "decoding", item |-> 0, p |-> 0,
               remaining |-> Len(rlp), payload_end |-> 0,
               tx |-> [f \in TxFieldNames |-> Unwritten]]

Refuse(d) == [d EXCEPT !.status = "refused"]

Rest(rlp, d) == SubSeq(rlp, d.p + 1, d.p + d.remaining)

ReadHeader(rlp, d) ==
  IF rlp = <<>> \/ rlp[1] # 2 THEN Refuse(d)
  ELSE LET header == parse_rlp_list_header(Tail(rlp))
       IN IF header.consumed < 0 THEN Refuse(d)
          ELSE [d EXCEPT !.item = 1,
                         !.p = 1 + header.header,
                         !.remaining = @ - 1 - header.header,
                         !.payload_end = 1 + header.consumed]

\* A byte of header is counted for items without one, too.
BugLeft(d, it) ==
  d.remaining - it.consumed - (IF it.header = 0 THEN 1 ELSE 0)

\* remaining -= consumed.
Left(d, it) == d.remaining - it.consumed

\* The fields are stored before they are checked.
BugReadField(rlp, d) ==
  LET it == parse_rlp_item(Rest(rlp, d))
      val == SubSeq(rlp, d.p + it.header + 1, d.p + it.consumed)
      name == Fields11[d.item]
      stored == IF name \in NotStored THEN d.tx ELSE [d.tx EXCEPT ![name] = val]
  IN IF it.consumed < 0 \/ ~Accepted(name, val)
       THEN Refuse([d EXCEPT !.tx = stored])
     ELSE [d EXCEPT !.item = @ + 1, !.p = @ + it.consumed,
                    !.remaining = Left(d, it), !.tx = stored]

\* Items are parsed against everything that remains, not the payload alone.
ReadField(rlp, d) ==
  LET it == parse_rlp_item(Rest(rlp, d))
      val == SubSeq(rlp, d.p + it.header + 1, d.p + it.consumed)
      name == Fields11[d.item]
  IN IF it.consumed < 0 \/ ~Accepted(name, val) THEN Refuse(d)
     ELSE [d EXCEPT !.item = @ + 1,
                    !.p = @ + it.consumed,
                    !.remaining = Left(d, it),
                    !.tx = IF name \in NotStored THEN @
                           ELSE [@ EXCEPT ![name] = val]]

\* The end is not checked.
BugReadEnd(d) == [d EXCEPT !.status = "accepted"]

ReadEnd(d) == IF d.p # d.payload_end THEN Refuse(d)
              ELSE [d EXCEPT !.status = "accepted"]

DecodeStep(rlp, d) ==
  IF d.status # "decoding" THEN d
  ELSE CASE d.item = 0 -> ReadHeader(rlp, d)
         [] d.item \in 1..FieldCount -> ReadField(rlp, d)
         [] OTHER -> ReadEnd(d)

\* The whole call.
decode_ledger_tx(rlp) ==
  FoldLeft(LAMBDA d, k : DecodeStep(rlp, d), Start(rlp),
           [k \in 1..(FieldCount + 2) |-> k])

WrittenFields(d) == {f \in TxFieldNames : d.tx[f] # Unwritten}
=============================================================================
