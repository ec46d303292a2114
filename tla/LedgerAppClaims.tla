--------------------------- MODULE LedgerAppClaims ---------------------------
(***************************************************************************)
(* What the repository's documents and comments say of the application and *)
(* its code does not do.  Each claim is refuted by a run of its own.       *)
(***************************************************************************)
EXTENDS LedgerApp

\* Only a path of the documented form, the one is_valid_zond_bip32_path
\* checks, ever comes to a review: "BIP-32 path m/44'/238'/account'/change/
\* index" (README.md:11).  A refused path leaves its session open
\* (sign_tx.c:73-89), and the review does not check the path again.
ReviewsOnlyValidPaths ==
  screen.kind = "review" => screen.address \in ValidPaths

\* "Display a warning if the transaction is blind-signed"
\* (nbgl_display_transaction.c:189).  With debugging on, a call whose
\* calldata does not parse falls through to the flow without a warning
\* (sign_tx.c:188-219).
DataIsReviewedBlind ==
  screen.kind = "review" /\ HasData(screen.tx) => screen.blind

\* "This command signs a QRL v2.0 transaction after having the user validate
\* the transactions parameters" (APP_SPECIFICATION.md:56).  When the review
\* after a calldata walk cannot be shown, the parameter screen stays up and
\* can bring up a review later, of a context that did not decode or that the
\* next commands replace before the user approves.
EverySignatureWasShown ==
  [][SigServed /\ rsp'.index = 0 =>
       /\ N_storage'.sig = SignatureOf(screen.address, screen.m_hash)
       /\ screen.m_hash = Keccak256(G_context.raw_tx)
       /\ Decodes(G_context.raw_tx)
       /\ screen.tx = Fields(G_context.raw_tx)]_vars
=============================================================================
