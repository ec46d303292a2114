----------------------------- MODULE MCUiBuffer -----------------------------
(* The instance of MCLedgerApp, with the text buffer of its screens. *)
EXTENDS MCLedgerApp, UiBuffer
=============================================================================
