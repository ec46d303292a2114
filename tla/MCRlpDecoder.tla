---------------------------- MODULE MCRlpDecoder ----------------------------
(* Inputs for TLC, at the sizes of the code: a valid transaction with every
   item, up to two at a time, replaced by encodings of every kind, under
   headers that fit or do not, and the vectors of the tests. *)
EXTENDS RlpClaims

Bytes(n, x) == [i \in 1..n |-> x]
Str(val) == <<128 + Len(val)>> \o val
Long(val) == <<184, Len(val)>> \o val

\* Of every prefix: a byte, strings that fit their field or not or are cut,
\* with one, two, eight bytes of length, also of a length that a size_t of
\* four bytes does not hold, and lists.
Encodings ==
  {<<5>>, <<128>>, Str(<<1, 0, 0>>), Str(<<1, 0, 1>>), <<135, 1>>,
   Str(Bytes(8, 1)), Str(Bytes(9, 1)), Str(Bytes(32, 7)), Str(Bytes(33, 7)),
   Long(Bytes(64, 8)), <<184, 1, 7>>, <<185, 0, 2, 7, 7>>, <<185, 16, 0, 7>>,
   <<191, 0, 0, 0, 1, 0, 0, 0, 1, 7>>,
   <<192>>, <<193, 5>>, <<195, 1, 0, 0>>, <<248, 1, 7>>,
   <<255, 0, 0, 0, 0, 0, 0, 0, 0>>}

\* The values of the vectors of unit-tests/test_rlp_decode.c.
Transfer ==
  <<<<131, 48, 24, 36>>, <<1>>, <<132, 59, 26, 74, 0>>, <<133, 2, 84, 11, 100, 0>>,
    <<131, 7, 33, 32>>, Long(Bytes(64, 8)), <<135, 35, 6, 114, 111, 65, 0, 0>>,
    <<128>>, <<192>>, <<131, 1, 0, 0>>, <<128>>>>

Payload(items) == FlattenSeq(items)

ListHeaders(n) == {<<248, n>>, <<248, n - 1>>, <<248, n + 1>>, <<249, 0, n>>,
                   <<250, 1, 0, n>>, <<255, 0, 0, 0, 1, 0, 0, 0, n>>,
                   <<247>>, <<184, n>>}

WithHeader(type, header, payload, trail) ==
  <<type>> \o header \o payload \o trail

TwoReplaced ==
  {LET pl == Payload([Transfer EXCEPT ![i] = e, ![j] = f])
   IN WithHeader(2, <<248, Len(pl)>>, pl, <<>>)
   : i \in 1..11, j \in 1..11, e \in Encodings, f \in Encodings}

OneReplaced ==
  UNION {LET pl == Payload([Transfer EXCEPT ![i] = e])
         IN {WithHeader(2, h, pl, t)
             : h \in ListHeaders(Len(pl)), t \in {<<>>, <<128>>}}
         : i \in 1..11, e \in Encodings}

\* Ten items, twelve, a wrong type, and every prefix of the transfer.
Whole == LET pl == Payload(Transfer)
         IN WithHeader(2, <<248, Len(pl)>>, pl, <<>>)

Odd ==
  {LET pl == Payload(SubSeq(Transfer, 1, 10))
   IN WithHeader(2, <<248, Len(pl)>>, pl, <<>>),
   LET pl == Payload(Transfer \o <<<<128>>>>)
   IN WithHeader(2, <<248, Len(pl)>>, pl, <<>>),
   [Whole EXCEPT ![1] = 1]}
  \cup {SubSeq(Whole, 1, n) : n \in 0..Len(Whole)}

MCInputs == TwoReplaced \cup OneReplaced \cup Odd
=============================================================================
