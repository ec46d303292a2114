----------------------------- MODULE RlpClaims -----------------------------
(***************************************************************************)
(* The decoder against the reference, and against its documents.           *)
(***************************************************************************)
EXTENDS RlpDecoder, RlpReference

\* The decoder accepts exactly the inputs that begin with a transaction of
\* fields that zond_tx_t has room for, the list running to its end and no item
\* across it, and stores the contents of its items, unless a length wrapped
\* (rlp_decode.c:114-280, 275 for the end).
DecodesTransactions ==
  /\ dec.status = "accepted" =>
       \/ WrappingHeader(rlp)
       \/ /\ IsTransaction(rlp)
          /\ \A i \in 1..FieldCount :
               Fields11[i] \in TxFieldNames =>
                 dec.tx[Fields11[i]] = ItemsOf(rlp)[i]
  /\ dec.status = "refused" => ~IsTransaction(rlp)

-----------------------------------------------------------------------------
(* What the documents say and the code does not do *)

\* "The list must contain exactly these 11 items; trailing or missing items
\* fail parsing" (doc/TRANSACTION.md:39-40).
NothingTrails == dec.p = Len(rlp)

\* "Constraint enforced by the device": at most eight bytes for each of the
\* six numbers (doc/TRANSACTION.md:25-33).  Four of them may have
\* MAX_FIELD_SIZE (rlp_decode.c:155, 177, 188, 222).
DocumentedSizes == [chain_id |-> 8, nonce |-> 8, gas_tip_cap |-> 8,
                    gas_fee_cap |-> 8, gas |-> 8, value |-> 8]

FieldsAsDocumented ==
  \A f \in DOMAIN DocumentedSizes : Len(dec.tx[f]) <= DocumentedSizes[f]

\* By the document an accepted transaction has both.  That it has one of them is
\* not true either: an input with a longer number and a byte behind its list is
\* accepted, which refutes each (rlp_decode.c:155, 275).
KeepsToDocument ==
  dec.status = "accepted" => NothingTrails \/ FieldsAsDocumented
=============================================================================
