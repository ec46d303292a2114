---------------------------- MODULE MCLedgerApp ----------------------------
(* A small instance of LedgerApp for TLC: transactions of at most two blocks
   over {a, b}, one of each kind the code tells apart. *)
EXTENDS LedgerAppClaims

CONSTANTS p, q, a, b

\* Where only p is valid, q stands for a path that the OS derives and
\* is_valid_zond_bip32_path refuses, such as a hardened address index.
MCPaths == {p, q}
OnePath == {p}

MCByte == {a, b}
MCChunks == {<<>>, <<a>>, <<b>>}

MCKeccak(r) == <<"keccak256", r>>

\* data_len: 68 is a call with one parameter, 4 + 64 * 3 is clipped.
MCFields(r) ==
  CASE r = <<a>> -> [to |-> TRUE, value |-> TRUE, data_len |-> 0]
    [] r = <<b>> -> [to |-> TRUE, value |-> FALSE, data_len |-> 196]
    [] r = <<a, b>> -> [to |-> TRUE, value |-> TRUE, data_len |-> 7]
    [] r = <<a, a>> -> [to |-> FALSE, value |-> TRUE, data_len |-> 0]
    [] r = <<b, b>> -> [to |-> TRUE, value |-> TRUE, data_len |-> 68]
    [] OTHER -> [to |-> FALSE, value |-> FALSE, data_len |-> 9]

\* <<b, b>> fails after its data field; <<>> fails at once.
MCDecodes(r) == r \notin {<<>>, <<b, b>>}
MCWritten(r) == IF r = <<>> THEN {} ELSE {"to", "value", "data_len"}
=============================================================================
