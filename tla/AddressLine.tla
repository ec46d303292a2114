---------------------------- MODULE AddressLine ----------------------------
(***************************************************************************)
(* format_checksummed_address: how an address is written for the screen,   *)
(* in place, in a buffer the caller has zeroed, around a hash that may     *)
(* fail.                                                                   *)
(*                                                                         *)
(* A definition named Bug... is a mutated form of the one after it.        *)
(***************************************************************************)
EXTENDS Integers, Sequences, SequencesExt

CONSTANTS
  Addresses,     \* the addresses to write
  ADDRESS_SIZE,  \* 64
  OutLens,       \* the sizes of the callers' buffers
  Shake256(_)    \* the nibbles of the hash of a text, as many as it is long

VARIABLES
  address,
  out,       \* the buffer, cells NUL until they are written
  out_len,
  mask,      \* the nibbles of the hash
  pc         \* "hex", "hash", "case", "true" or "false": what it returned

vars == <<address, out, out_len, mask, pc>>

NUL == "nul"
Lower == <<"0", "1", "2", "3", "4", "5", "6", "7", "8", "9",
           "a", "b", "c", "d", "e", "f">>
Upper == <<"0", "1", "2", "3", "4", "5", "6", "7", "8", "9",
           "A", "B", "C", "D", "E", "F">>

BodySize == 2 * ADDRESS_SIZE

Nibble(addr, i) ==
  LET byte == addr[(i + 1) \div 2]
  IN IF i % 2 = 1 THEN byte \div 16 ELSE byte % 16

\* What body points to, behind the buffer's first cell.
Body(s) == SubSeq(s, 2, BodySize + 1)
WithBody(s, b) == <<s[1]>> \o b \o SubSeq(s, BodySize + 2, Len(s))

\* A letter is moved to its capital, a digit is left as it is.
Raised(c) == Upper[CHOOSE n \in 1..16 : Lower[n] = c]

-----------------------------------------------------------------------------

Init == /\ address \in Addresses
        /\ out_len \in OutLens
        /\ out = [i \in 1..out_len |-> NUL]
        /\ mask = <<>>
        /\ pc = "hex"

\* The prefix is written first.
BugHexBody(s) ==
  <<"Q">> \o [i \in 1..BodySize |-> Lower[1 + Nibble(address, i)]]
    \o SubSeq(s, BodySize + 2, Len(s))

HexBody(s) ==
  WithBody(s, [i \in 1..BodySize |-> Lower[1 + Nibble(address, i)]])

Hex == /\ pc = "hex"
       /\ IF out_len < 1 + BodySize + 1
            THEN pc' = "false" /\ UNCHANGED out
          ELSE pc' = "hash" /\ out' = HexBody(out)
       /\ UNCHANGED <<address, out_len, mask>>

\* Of the text in the buffer; each of the three calls may fail.
Hash == /\ pc = "hash"
        /\ \/ pc' = "case" /\ mask' = Shake256(Body(out))
           \/ pc' = "false" /\ UNCHANGED mask
        /\ UNCHANGED <<address, out, out_len>>

\* The low nibble of a byte decides for both of its letters.
BugMaskAt(i) == mask[2 * ((i + 1) \div 2)]

MaskAt(i) == mask[i]

Case ==
  /\ pc = "case"
  /\ LET body == [i \in 1..BodySize |->
                    IF MaskAt(i) >= 8 THEN Raised(Body(out)[i]) ELSE Body(out)[i]]
     IN out' = [WithBody(out, body) EXCEPT ![1] = "Q", ![BodySize + 2] = NUL]
  /\ pc' = "true"
  /\ UNCHANGED <<address, out_len, mask>>

Next == Hex \/ Hash \/ Case

Spec == Init /\ [][Next]_vars

-----------------------------------------------------------------------------

\* The text a screen shows of a buffer: up to its first NUL.
Shown(s) ==
  LET ends == {i \in 1..Len(s) : s[i] = NUL}
  IN IF ends = {} THEN s
     ELSE SubSeq(s, 1, (CHOOSE i \in ends : \A j \in ends : i <= j) - 1)

TypeOK ==
  /\ Len(out) = out_len
  /\ \A i \in 1..Len(out) : out[i] \in Range(Lower) \cup Range(Upper) \cup {"Q", NUL}
  /\ pc \in {"hex", "hash", "case", "true", "false"}

\* The checksummed form: "casing with SHAKE-256 over the 128-char lowercase hex
\* body (the 'Q' prefix is not hashed)" (address.c:115-116), on a text that is
\* hashed and raised in one buffer.
Checksummed(addr) ==
  LET body == [i \in 1..BodySize |-> Lower[1 + Nibble(addr, i)]]
  IN <<"Q">> \o [i \in 1..BodySize |->
        IF Shake256(body)[i] >= 8 THEN Upper[1 + Nibble(addr, i)] ELSE body[i]]

\* A caller that is told the address was formatted shows its one checksummed
\* form, whole and ended, in a buffer of whatever size.
FormattedIsChecksummed ==
  pc = "true" => /\ Shown(out) = Checksummed(address)
                 /\ Len(Shown(out)) < out_len

\* Until then, and when it is told of a failure, the buffer shows nothing: no
\* screen that is up can show an address whose checksum was not computed
\* (address.c:124-153, nbgl_display_transaction.c:225-228).
NothingBeforeChecksum == pc # "true" => Shown(out) = <<>>
=============================================================================
