------------------------------ MODULE UiBuffer ------------------------------
(***************************************************************************)
(* The application with the text buffer that three of its screens share:   *)
(* NBGL is given a pointer to g_ui_buffer, so a later write changes what   *)
(* an earlier screen says.  Every action of LedgerApp, with what it writes *)
(* there.                                                                  *)
(*                                                                         *)
(* A definition named Bug... is a mutated form of the one after it.        *)
(***************************************************************************)
EXTENDS LedgerApp

VARIABLE g_ui_buffer

bufferVars == <<G_context, N_storage, screen, walk, pending, rsp, g_ui_buffer>>

\* An empty text, an address, a parameter of the calldata in the context.
Text(kind, address, index) ==
  [kind |-> kind, address |-> address, index |-> index]

NoText == Text("empty", NoPath, 0)
AddressText(address) == Text("address", address, 0)
ParameterText(i) == Text("param", NoPath, i)

BufferInit == Init /\ g_ui_buffer = NoText

-----------------------------------------------------------------------------

\* ui_display_address, if a key was derived for it: the buffer is zeroed, and
\* stays so when the address cannot be formatted.
WriteAddress ==
  g_ui_buffer' = IF rsp'.sw = "SW_DISPLAY_ADDRESS_FAIL" THEN NoText
                 ELSE IF pending' THEN AddressText(G_context'.address)
                 ELSE g_ui_buffer

\* The sender's address goes to a buffer of its own.
BugWriteSender == UNCHANGED g_ui_buffer

\* ui_display_transaction_bs_choice, if it is called: nothing is written
\* before the address is derived; then the buffer is zeroed and receives the
\* sender's address; then the recipient's may still fail.
WriteSender ==
  IF rsp'.sw = "SW_DISPLAY_ADDRESS_FAIL"
    THEN \/ /\ \/ G_context.bip32_path \notin Derivable
               \/ {"derive", "address"} \cap Faults # {}
            /\ UNCHANGED g_ui_buffer
         \/ /\ "format" \in Faults
            /\ G_context'.address = G_context.bip32_path
            /\ N_storage'.pk = G_context.bip32_path
            /\ g_ui_buffer' \in {NoText, AddressText(G_context'.address)}
  ELSE g_ui_buffer' = IF rsp' = NoResponse /\ screen'.kind = "review"
                        THEN AddressText(G_context'.address) ELSE g_ui_buffer

\* buildScreen of a parameter; the selector's text has a buffer of its own.
WriteParameter ==
  IF MoreParameters(walk)
    THEN g_ui_buffer' = ParameterText(walk'.index)
  ELSE WriteSender

-----------------------------------------------------------------------------

Shows ==
  \/ \E path \in Paths \cup {NoPath}, readable \in BOOLEAN, display \in BOOLEAN :
       GetPublicKey(path, readable, display) /\ WriteAddress
  \/ \E chunk \in Chunks \ {<<>>} : LastData(chunk) /\ WriteSender
  \/ ConfirmCalldata /\ WriteParameter

KeepsBuffer ==
  /\ \/ \E path \in Paths \cup {NoPath}, readable \in BOOLEAN :
          OpenSession(path, readable)
     \/ \E chunk \in Chunks : MoreData(chunk)
     \/ \E i \in 1..LAST_SIG_CHUNK : SigChunk(i)
     \/ \E i \in 0..(PK_CHUNKS - 1) : PkChunk(i)
     \/ \E sw \in PlainStatusWords : PlainAnswer(sw)
     \/ Reject \/ ApproveAddress \/ ApproveTransaction
     \/ LeaveScreen
     \/ \E s \in Switches : Toggle(s)
  /\ UNCHANGED g_ui_buffer

BufferNext == Shows \/ KeepsBuffer \/ (Restart /\ g_ui_buffer' = NoText)

BufferSpec == BufferInit /\ [][BufferNext]_bufferVars

-----------------------------------------------------------------------------

\* A parameter's text is of one that calldata.params has room for.
BufferTypeOK ==
  \/ g_ui_buffer = NoText
  \/ g_ui_buffer \in {AddressText(address) : address \in KeptPaths}
  \/ g_ui_buffer \in {ParameterText(i) : i \in 0..(ABI_MAX_PARAMS - 1)}

\* As long as a command waits for the decision, the screen says what it said
\* when it came up: the address of the review or of GET_PUBLIC_KEY, or the
\* parameter the walk is at.  A failed review zeroes or overwrites the buffer
\* under a screen that stays up, but answers the command
\* (nbgl_display_transaction.c:198-227, 246-248, ui_confirm_parameter_selector.c:88-102).
ScreenSaysWhatItShowed ==
  pending => CASE screen.kind \in {"address", "review"} ->
                    g_ui_buffer = AddressText(screen.address)
               [] screen.kind = "param" -> g_ui_buffer = ParameterText(walk.index)
               [] OTHER -> TRUE
=============================================================================
