--------------------------- MODULE MCScreenTexts ---------------------------
(* Numbers, addresses and calls for TLC. *)
EXTENDS ScreenTexts, SequencesExt

-----------------------------------------------------------------------------
(* Numbers: short ones, those of the longest length whose digits all fit,
   with bytes at their limits, and those about which a line is as long as it
   can be: powers of ten, one less and one more. *)

OfShape(n, first, mid, last) ==
  [i \in 1..n |-> IF i = 1 THEN first ELSE IF i = n THEN last ELSE mid]

Shapes(Lengths) ==
  {OfShape(n, first, mid, last) :
     n \in Lengths, first \in {0, 1, 255}, mid \in {0, 100, 255},
     last \in {0, 1, 10, 255}}

\* 999999999 and 10^9, where g_nonce is full; 10^17, one coin and its
\* neighbours, 10^19, 1.5 and 120 coins.
Powers == {<<59, 154, 201, 255>>, <<59, 154, 202, 0>>,
           <<1, 99, 69, 120, 93, 138, 0, 0>>,
           <<13, 224, 182, 179, 167, 99, 255, 255>>,
           <<13, 224, 182, 179, 167, 100, 0, 0>>,
           <<13, 224, 182, 179, 167, 100, 0, 1>>,
           <<138, 199, 35, 4, 137, 232, 0, 0>>,
           <<20, 209, 32, 215, 177, 96, 0, 0>>,
           <<6, 129, 85, 164, 54, 118, 224, 0, 0>>}

\* 2^128 - 1 has 39 digits, 16^33 - 1 40, and 16^34 - 1 41.
Wide == {<<15>> \o [i \in 1..16 |-> 255], [i \in 1..17 |-> 255],
         [i \in 1..32 |-> 255]}

Of(l, S) == [line: {l}, bytes: S]

ShownNumbers == Of("nonce", Shapes(0..3))
                  \cup Of("amount", Shapes(0..9 \cup {15, 16}) \cup Powers \cup Wide)

Nonces == Of("nonce", Shapes(0..8) \cup Powers)

-----------------------------------------------------------------------------
(* Addresses of two bytes, of digits and letters in every place, and a hash
   that depends on the whole text and differs from place to place. *)

MCAddresses == LET octets == {0, 9, 10, 15, 144, 154, 160, 171, 255}
               IN {<<x, y>> : x \in octets, y \in octets}

Value(c) == CHOOSE n \in 0..15 : Address!Lower[n + 1] = c

MCShake256(body) ==
  LET sum[i \in 0..Len(body)] ==
        IF i = 0 THEN 0 ELSE (3 * sum[i - 1] + Value(body[i])) % 256
  IN [i \in 1..Len(body) |-> (sum[Len(body)] * (2 * i + 1) + 5 * i) % 16]

-----------------------------------------------------------------------------
(* Calls of the sizes of the code: of no parameter, of one that has a group of
   another kind somewhere among seven of a kind, of two, of as many as are
   kept and of one more; and data that is no call. *)

Groups ==
  {[i \in 1..8 |-> 0], [i \in 1..8 |-> 255],
   <<0, 0, 0, 0, 0, 0, 0, 1>>, <<16, 0, 0, 0, 0, 0, 0, 0>>,
   <<0, 0, 10, 0, 160, 0, 0, 16>>}

Slots ==
  {FlattenSeq([k \in 1..8 |-> IF k = at THEN other ELSE common])
     : at \in 1..8, other \in Groups, common \in Groups}

Selector == <<169, 5, 156, 187>>
Nth(n) == [k \in 1..64 |-> IF k % 8 = n % 8 THEN n ELSE 0]
CallOf(n) == Selector \o FlattenSeq([i \in 1..n |-> Nth(i)])

MCCalldatas ==
  {Selector \o s : s \in Slots}
    \cup {CallOf(n) : n \in {0, 2, 3, 15, 16, 17, 31}}
    \cup {SubSeq(CallOf(1), 1, n) : n \in {1, 3, 5, 36, 67}}
=============================================================================
