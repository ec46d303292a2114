---------------------------- MODULE DecimalText ----------------------------
(***************************************************************************)
(* How the review writes a number of the transaction: the division loop of *)
(* uint8_array_to_decimal, one round in a step, then format_with_decimals  *)
(* and the copy of ui_display_transaction_bs_choice.  The amount and the   *)
(* fees take all of these steps, the nonce the division alone, into        *)
(* g_nonce.                                                                *)
(*                                                                         *)
(* A definition named Bug... is a mutated form of the one after it.        *)
(***************************************************************************)
EXTENDS Integers, Sequences, SequencesExt

CONSTANTS
  Numbers,             \* what to write: a line and the bytes of its number
  MAX_DECIMAL_DIGITS,  \* 40: the digits of result
  MAX_RESULT_LEN,      \* 50: dec, and buffer of format_with_decimals
  DECIMALS,            \* 18
  AMOUNT_LEN,          \* 30: amount, max_fees
  G_AMOUNT_LEN,        \* 35: g_amount, g_max_fees
  G_NONCE_LEN          \* 10: g_nonce

VARIABLES
  line,    \* "nonce", or "amount" for the amount and for the fees
  bytes,   \* the number, big-endian
  temp,    \* what is left to divide
  result,  \* the digits so far, &result[result_index] to its end
  text,    \* the line of the review
  pc       \* "divide", "format", "print", "done"; "overrun": a digit was
           \* written in front of result

vars == <<line, bytes, temp, result, text, pc>>

Digits == <<"0", "1", "2", "3", "4", "5", "6", "7", "8", "9">>
Digit(n) == Digits[n + 1]
Zeros(n) == [i \in 1..n |-> "0"]

-----------------------------------------------------------------------------

\* remainder when the inner loop has come past byte i.
RemainderAt(t) ==
  LET r[i \in 0..Len(t)] == IF i = 0 THEN 0 ELSE (256 * r[i - 1] + t[i]) % 10
  IN r

\* The remainder starts over at every byte.
BugQuotient(t) == [i \in 1..Len(t) |-> t[i] \div 10]

\* temp[i] = val / 10, kept in a uint8_t.
Quotient(t) ==
  [i \in 1..Len(t) |-> ((256 * RemainderAt(t)[i - 1] + t[i]) \div 10) % 256]

IsZero(t) == \A i \in 1..Len(t) : t[i] = 0

\* What was left before the round decides: one digit too many.
BugLastRound(t) == IsZero(t)

\* The round that leaves zero is the last.
LastRound(t) == IsZero(Quotient(t))

\* Copied whatever its length.
BugPrinted(s, size) == s

\* snprintf of s where there is room for size characters and the
\* terminator is one of them.
Printed(s, size) == SubSeq(s, 1, IF Len(s) < size THEN Len(s) ELSE size - 1)

\* The zeros between the point and the first digit are left out.
BugWithPoint(raw) ==
  IF Len(raw) <= DECIMALS THEN <<"0", ".">> \o raw
  ELSE SubSeq(raw, 1, Len(raw) - DECIMALS) \o <<".">>
         \o SubSeq(raw, Len(raw) - DECIMALS + 1, Len(raw))

\* The number with its point, as much of it as buffer holds.
WithPoint(raw) ==
  Printed(IF Len(raw) <= DECIMALS
            THEN <<"0", ".">> \o Zeros(DECIMALS - Len(raw)) \o raw
            ELSE SubSeq(raw, 1, Len(raw) - DECIMALS) \o <<".">>
                   \o SubSeq(raw, Len(raw) - DECIMALS + 1, Len(raw)),
          MAX_RESULT_LEN)

\* Zeros go, up to the first character, then a point without a fraction.
Trim(s) ==
  LET last == CHOOSE i \in 1..Len(s) :
                /\ s[i] # "0" \/ i = 1
                /\ \A j \in (i + 1)..Len(s) : s[j] = "0"
  IN SubSeq(s, 1, IF s[last] = "." THEN last - 1 ELSE last)

format_with_decimals(raw) == Trim(WithPoint(raw))

-----------------------------------------------------------------------------

Init == /\ \E n \in Numbers : line = n.line /\ bytes = n.bytes
        /\ temp = bytes
        /\ result = <<>>
        /\ text = <<>>
        /\ pc = "divide"

\* One round of while (1).  It writes its digit without asking for room; behind
\* a write in front of result, what the code does is undefined and the model
\* ends.  The nonce's digits are copied as they are.
Divide ==
  /\ pc = "divide"
  /\ temp' = Quotient(temp)
  /\ result' = <<Digit(RemainderAt(temp)[Len(temp)])>> \o result
  /\ IF Len(result') > MAX_DECIMAL_DIGITS THEN pc' = "overrun" /\ UNCHANGED text
     ELSE IF ~LastRound(temp) THEN UNCHANGED <<text, pc>>
     ELSE /\ pc' = IF line = "nonce" THEN "done" ELSE "format"
          /\ text' = IF line = "nonce" THEN result' ELSE text
  /\ UNCHANGED <<line, bytes>>

\* convert_amount_to_eth, into amount or max_fees.
Format ==
  /\ pc = "format"
  /\ text' = Printed(format_with_decimals(result), AMOUNT_LEN)
  /\ pc' = "print"
  /\ UNCHANGED <<line, bytes, temp, result>>

\* The unit is the last word on the line.
Unit == <<" ", "Q", "R", "L">>

PrintLine ==
  /\ pc = "print"
  /\ text' = Printed(text \o Unit, G_AMOUNT_LEN)
  /\ pc' = "done"
  /\ UNCHANGED <<line, bytes, temp, result>>

Next == Divide \/ Format \/ PrintLine

Spec == Init /\ [][Next]_vars

-----------------------------------------------------------------------------
(* A reference: from the most significant byte, by Horner's rule, on digits *)

\* d * 256 + b, where d is a number's digits, least significant first.
TimesPlus(d, b) ==
  LET long == d \o <<0, 0, 0>>
      carry[i \in 0..Len(long)] ==
        IF i = 0 THEN b ELSE (256 * long[i] + carry[i - 1]) \div 10
  IN [i \in 1..Len(long) |-> (256 * long[i] + carry[i - 1]) % 10]

\* The digits of a number without leading zeros; those of 0 are none.
Decimal(b) ==
  LET digits[i \in 0..Len(b)] ==
        IF i = 0 THEN <<>> ELSE TimesPlus(digits[i - 1], b[i])
      d == digits[Len(b)]
      n == CHOOSE k \in 0..Len(d) : /\ k > 0 => d[k] # 0
                                    /\ \A j \in (k + 1)..Len(d) : d[j] = 0
  IN [i \in 1..n |-> Digit(d[n + 1 - i])]

Written(d) == IF d = <<>> THEN <<"0">> ELSE d

\* The whole coins, and the DECIMALS digits of the fraction.
Whole(d) == Written(SubSeq(d, 1, Len(d) - DECIMALS))
Fraction(d) == IF Len(d) <= DECIMALS THEN Zeros(DECIMALS - Len(d)) \o d
               ELSE SubSeq(d, Len(d) - DECIMALS + 1, Len(d))

\* The digits of the fraction up to its last one that is not zero.
Significant(f) == CHOOSE n \in 0..Len(f) : /\ n > 0 => f[n] # "0"
                                           /\ \A j \in (n + 1)..Len(f) : f[j] = "0"

Least(m, n) == IF m < n THEN m ELSE n

\* What the line of an amount should be in room characters: the whole coins
\* and as much of the fraction as there is room for.
AmountText(d, room) ==
  LET f == Fraction(d)
      n == Least(Significant(f), room - Len(Whole(d)) - 1)
  IN Whole(d) \o (IF n = 0 THEN <<>> ELSE <<".">> \o SubSeq(f, 1, n)) \o Unit

-----------------------------------------------------------------------------

\* The variables keep their types, and the buffers hold the numbers they are
\* made for: none with at most MAX_DECIMAL_DIGITS digits is written outside
\* result, no amount of that size outside its line, and no nonce with fewer
\* digits than g_nonce has characters outside g_nonce.  The code checks none of
\* this (nbgl_display_transaction.c:72, 76-78), and longer numbers do
\* leave result and g_nonce (NonceHasLine).
TypeOK ==
  /\ line \in {"nonce", "amount"}
  /\ bytes \in Seq(0..255)
  /\ Len(temp) = Len(bytes) /\ temp \in Seq(0..255)
  /\ result \in Seq(Range(Digits))
  /\ Len(Decimal(bytes)) <= MAX_DECIMAL_DIGITS =>
       Len(result) <= MAX_DECIMAL_DIGITS
  /\ IF line = "amount" THEN Len(text) < G_AMOUNT_LEN
     ELSE Len(Written(Decimal(bytes))) < G_NONCE_LEN => Len(text) < G_NONCE_LEN
  /\ pc \in {"divide", "format", "print", "done", "overrun"}

\* What is left to divide, followed by the digits already written, is the
\* number at every round: none drops, adds or swaps a digit, and the division
\* writes in front of result only a digit of a number that has too many
\* (nbgl_display_transaction.c:57-74).
RoundsKeepNumber ==
  /\ pc \in {"divide", "overrun"} =>
       LET written == Decimal(temp) \o result
           zeros == Len(written) - Len(Decimal(bytes))
       IN zeros >= 0 /\ written = Zeros(zeros) \o Decimal(bytes)
  /\ pc = "overrun" => Len(Decimal(bytes)) > MAX_DECIMAL_DIGITS

\* A number that fits is written with all its digits and no zeros in front,
\* zero as one digit; this is the whole line of a nonce
\* (nbgl_display_transaction.c:53-79, 213).
DecimalIsExact ==
  /\ pc = "format" => result = Written(Decimal(bytes))
  /\ pc = "done" /\ line = "nonce" => text = Written(Decimal(bytes))

\* The line of an amount never misplaces the point, never loses a digit of
\* the whole coins, cuts the fraction only where the buffers end, and keeps
\* its unit, although the text passes through four buffers of four lengths
\* (nbgl_display_transaction.c:82-125, 236-242).
AmountIsNotMisread ==
  pc = "done" /\ line = "amount" =>
    text = AmountText(Decimal(bytes), AMOUNT_LEN - 1)

-----------------------------------------------------------------------------
(* What the documents say and the code does not do *)

\* "`nonce` | <= 8 bytes" (doc/TRANSACTION.md:28), and "displays the decoded
\* fields for user confirmation" (doc/TRANSACTION.md:7-8): every such nonce
\* has a line.  g_nonce is too small for those of more than nine digits
\* (nbgl_display_transaction.c:44, 76-78, 213).
NonceHasLine ==
  pc = "done" /\ line = "nonce" => Len(text) < G_NONCE_LEN
=============================================================================
