---------------------------- MODULE MCHostClient ----------------------------
(* The instance of MCLedgerApp, with a host that signs transfers of one and of
   two pieces and a call. *)
EXTENDS HostClient

CONSTANTS p, q, a, b

MCPaths == {p, q}
OnePath == {p}

\* Where both paths are valid, nothing tells one from the other.
PathSymmetry == Permutations(MCPaths)

MCByte == {a, b}
MCChunks == {<<a>>, <<b>>}
MCTransactions == {<<<<a>>>>, <<<<a>>, <<a>>>>, <<<<b>>>>}

MCKeccak(r) == <<"keccak256", r>>

\* Data of one parameter for b; two transfers and a creation.
MCFields(r) ==
  [to |-> r # <<b, a>>, value |-> r # <<b>>,
   data_len |-> IF r \in {<<a>>, <<a, a>>} THEN 0 ELSE 68]

MCDecodes(r) == r \notin {<<>>, <<b, b>>}
MCWritten(r) == IF r = <<>> THEN {} ELSE {"to", "value", "data_len"}
=============================================================================
