------------------------------ MODULE MCDevice ------------------------------
(* The application with its decoder: the blocks of LedgerApp stand for pieces of
   transactions, which are byte strings, and what decode_ledger_tx makes of
   them is what RlpDecode says. *)
EXTENDS LedgerApp, RlpReference, TLC

CONSTANTS p, q

MCPaths == {p, q}

\* Nothing tells one path from the other.
PathSymmetry == Permutations(MCPaths)

Encoded(type, items) ==
  LET pl == FlattenSeq(items)
  IN <<type>> \o (IF Len(pl) <= 55 THEN <<192 + Len(pl)>> ELSE <<248, Len(pl)>>)
       \o pl

Scalars == <<<<5>>, <<1>>, <<130, 1, 2>>, <<130, 1, 2>>, <<9>>>>
Ending == <<<<192>>, <<131, 1, 0, 0>>, <<128>>>>
Calldata(n) == <<184, n>> \o [i \in 1..n |-> 171]

Transfer == Encoded(2, Scalars \o <<<<130, 2, 2>>, <<7>>, <<128>>>> \o Ending)
Creation == Encoded(2, Scalars \o <<<<128>>, <<128>>, Calldata(7)>> \o Ending)
Call == Encoded(2, Scalars \o <<<<130, 2, 2>>, <<0>>, Calldata(68)>> \o Ending)

\* The call cut in two; a call whose descriptor is that of another key type,
\* refused after its data is written; a list that ends before its items do.
CallHead == SubSeq(Call, 1, 14)
CallTail == SubSeq(Call, 15, Len(Call))
OtherKey == Encoded(2, Scalars \o <<<<130, 2, 2>>, <<7>>, Calldata(4),
                                   <<192>>, <<131, 1, 0, 1>>, <<128>>>>)
Short == [Transfer EXCEPT ![2] = @ - 1]

\* A piece goes by its name.
Encoding == [transfer |-> Transfer, creation |-> Creation, head |-> CallHead,
             tail |-> CallTail, other_key |-> OtherKey, short |-> Short]

Pieces == DOMAIN Encoding
MCChunks == {<<x>> : x \in Pieces}

BytesOf(r) == FlattenSeq([i \in 1..Len(r) |-> Encoding[r[i]]])
Decoded == [r \in RawTx |-> decode_ledger_tx(BytesOf(r))]

\* What the reference makes of the same bytes.
Genuine == {r \in RawTx : IsTransaction(BytesOf(r))}
Items11 == [r \in Genuine |-> ItemsOf(BytesOf(r))]

MCKeccak(r) == <<"keccak256", r>>
MCDecodes(r) == Decoded[r].status = "accepted"
MCWritten(r) ==
  LET w == WrittenFields(Decoded[r])
  IN {f \in {"to", "value"} : f \in w}
       \cup (IF "data" \in w THEN {"data_len"} ELSE {})

NotZero(val) == \E i \in DOMAIN val : val[i] # 0
MCFields(r) ==
  LET tx == Decoded[r].tx
      w == MCWritten(r)
  IN [to |-> "to" \in w /\ tx.to # <<>>,
      value |-> "value" \in w /\ NotZero(tx.value),
      data_len |-> IF "data_len" \in w THEN Len(tx.data) ELSE 0]

\* What is signed after a review begins with a list of the eleven items that
\* the documents name, and the lines of the review were those of its items: a
\* recipient's address where it has a recipient, the name of a creation where
\* it has data instead, an amount made from its value where it has no data, and
\* its hash where it has.  The value of a transaction with data has no line,
\* and one with neither recipient nor data is shown with the zero address
\* (sign_tx.c:134-219, rlp_decode.c:114-280, nbgl_display_transaction.c:264-429).
SignsATransaction ==
  [][SigServed /\ rsp'.index = 0 /\ rsp'.owed =>
       /\ G_context.raw_tx \in Genuine
       /\ LET items == Items11[G_context.raw_tx]
              recipient == items[6] # <<>>
              data == items[8] # <<>>
          IN /\ "To: address" \in screen.items <=> recipient
             /\ "To: Contract" \in screen.items <=> ~recipient /\ data
             /\ IF data THEN {"Amount", "Transaction hash"} \cap screen.items
                              = {"Transaction hash"}
                ELSE /\ "Amount" \in screen.items
                     /\ screen.tx.value = NotZero(items[7])]_vars
=============================================================================
