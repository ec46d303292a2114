----------------------------- MODULE RlpDecoder -----------------------------
(***************************************************************************)
(* decode_ledger_tx as a machine that reads one item in a step, over any   *)
(* input the host may have streamed.  The application runs it in one step  *)
(* (LedgerApp!LastData); the steps show what is read and written on the    *)
(* way, and what a call that stops has left behind.                        *)
(***************************************************************************)
EXTENDS RlpDecode

CONSTANT Inputs   \* the byte strings to decode

\* What a byte of a size_t is worth.  The length of an input, rlp_len, is one.
Weights == <<1, 256, 65536, 16777216>>

ASSUME InputsAssumption ==
  /\ Inputs \subseteq Seq(Octet)
  /\ \A input \in Inputs : Len(input) \div Weights[SIZE_BYTES] < 256

VARIABLES rlp, dec

vars == <<rlp, dec>>

Init == /\ rlp \in Inputs
        /\ dec = Start(rlp)

Decode(item, next) == /\ dec.status = "decoding"
                      /\ dec.item \in item
                      /\ dec' = next
                      /\ UNCHANGED rlp

Header == Decode({0}, ReadHeader(rlp, dec))
Field == Decode(1..FieldCount, ReadField(rlp, dec))
End == Decode({FieldCount + 1}, ReadEnd(dec))

Next == Header \/ Field \/ End

Spec == Init /\ [][Next]_vars

-----------------------------------------------------------------------------

Values == Seq(Octet) \cup {Unwritten}

\* The state of a decoding; remaining, a size_t, never goes below zero.
TypeOK ==
  /\ rlp \in Seq(Octet)
  /\ dec \in [status: {"decoding", "accepted", "refused"},
              item: 0..(FieldCount + 1), p: Nat, remaining: Nat,
              payload_end: Nat, tx: [TxFieldNames -> Values]]

\* The pointer and the count of what remains agree, and the list's end lies
\* within the input: no item is read, and no field copied, from beyond the
\* bytes the host streamed, whatever lengths they claim (rlp_decode.c:8-112).
ReadsWithinInput ==
  /\ dec.p + dec.remaining = Len(rlp)
  /\ dec.item > 0 => dec.payload_end \in 2..Len(rlp)

\* The arrays of zond_tx_t (types.h:50-77).
Capacity == [chain_id |-> MAX_FIELD_SIZE, nonce |-> WORD_SIZE,
             gas_tip_cap |-> MAX_FIELD_SIZE, gas_fee_cap |-> MAX_FIELD_SIZE,
             gas |-> WORD_SIZE, to |-> ADDRESS_LENGTH, value |-> MAX_FIELD_SIZE,
             data |-> MAX_DATA_SIZE, descriptor |-> 3]

\* Each field is copied into an array that holds it, and in the order of the
\* list: a decoding that stops at an item has written the fields before it,
\* all of them and no other, so that what the context holds is told by how
\* far the decoder came (rlp_decode.c:146-278).
StoredInOrder ==
  \A i \in 1..FieldCount :
    Fields11[i] \in TxFieldNames =>
      LET val == dec.tx[Fields11[i]]
      IN IF i < dec.item THEN val # Unwritten /\ Len(val) <= Capacity[Fields11[i]]
         ELSE val = Unwritten

\* A transaction is accepted only at the end of its list and with every field
\* written: the review that follows shows nothing of an earlier one
\* (rlp_decode.c:275-279; LedgerApp assumes this of its decoder).
AcceptedIsWhole ==
  dec.status = "accepted" => /\ WrittenFields(dec) = TxFieldNames
                             /\ dec.p = dec.payload_end
=============================================================================
