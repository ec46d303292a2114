--------------------------- MODULE UiBufferProofs ---------------------------
(***************************************************************************)
(* Theorems about UiBuffer: the buffer that three screens share still says *)
(* what the screen said when it came up, whenever that matters.            *)
(***************************************************************************)
EXTENDS UiBuffer, LedgerAppProofs

-----------------------------------------------------------------------------
(* The buffer changes nothing in the application *)

\* Each step of UiBuffer is one of LedgerApp.
LEMMA BufferStep == [BufferNext]_bufferVars => [Next]_vars
<1> SUFFICES ASSUME [BufferNext]_bufferVars PROVE [Next]_vars
  OBVIOUS
<1>1. CASE Shows
  BY <1>1 DEF Shows, Next, Host, User, Choose
<1>2. CASE KeepsBuffer
  BY <1>2 DEF KeepsBuffer, Next, Host, User, Choose
<1>3. CASE Restart
  BY <1>3 DEF Next
<1>4. CASE UNCHANGED bufferVars
  BY <1>4 DEF bufferVars, vars
<1> QED BY <1>1, <1>2, <1>3, <1>4 DEF BufferNext

\* The application with its buffer is the application: all that is proved of
\* LedgerApp holds of it.
THEOREM BufferAddsNothing == BufferSpec => Spec
BY BufferStep, PTL DEF BufferSpec, BufferInit, Spec

-----------------------------------------------------------------------------
(* What the steps write *)

\* Only the three writers of the buffer leave a command waiting.
LEMMA QuietAnswers == Inv /\ KeepsBuffer => ~pending'
<1> SUFFICES ASSUME Inv, KeepsBuffer PROVE ~pending'
  OBVIOUS
<1>1. ASSUME NEW path, NEW readable, OpenSession(path, readable) PROVE ~pending'
  BY <1>1 DEF OpenSession, Reply, Send
<1>2. ASSUME NEW chunk, MoreData(chunk) PROVE ~pending'
  BY <1>2 DEF MoreData, RefuseData, Reply, Send
<1>3. ASSUME NEW i, SigChunk(i) PROVE ~pending'
  BY <1>3 DEF SigChunk, SendSigChunk, Reply, Send
<1>4. ASSUME NEW i, PkChunk(i) PROVE ~pending'
  BY <1>4 DEF PkChunk, Send
<1>5. ASSUME NEW sw, PlainAnswer(sw) PROVE ~pending'
  BY <1>5 DEF PlainAnswer, Reply, Send
<1>6. CASE Reject \/ ApproveAddress
  BY <1>6 DEF Reject, Deny, CallbackReply, ApproveAddress, Send
<1>7. CASE ApproveTransaction
  BY <1>7 DEF ApproveTransaction, CallbackReply, SendSigChunk, Send
<1>8. CASE LeaveScreen \/ \E s \in Switches : Toggle(s)
  <2>1. screen.kind \notin {"address", "selector", "param", "review"}
        /\ UNCHANGED pending
    BY <1>8 DEF LeaveScreen, Toggle
  <2> QED BY <2>1 DEF Inv, WaitsForChoice
<1> QED BY <1>1, <1>2, <1>3, <1>4, <1>5, <1>6, <1>7, <1>8 DEF KeepsBuffer

\* A review that a command waits for has just written its sender.
LEMMA DisplayWritesSender ==
  ASSUME NEW c, NEW blind, NEW owed, Display(c, blind, owed), WriteSender,
         pending'
  PROVE  /\ screen'.kind = "review"
         /\ g_ui_buffer' = AddressText(screen'.address)
<1>1. PICK d : /\ G_context' = d
               /\ screen' = ReviewScreen(d, blind)
               /\ Await(owed)
  BY DEF Display, Send
<1>2. /\ screen'.kind = "review" /\ screen'.address = G_context'.address
      /\ rsp' = NoResponse
  BY <1>1 DEF ReviewScreen, Await
<1> QED BY <1>2 DEF WriteSender, NoResponse, Response

\* The parameter a confirmation turns to is one that calldata.params keeps.
LEMMA NextParameterType ==
  ASSUME walk \in Walks, MoreParameters(walk)
  PROVE  NextIndex(walk) \in 0..(ABI_MAX_PARAMS - 1)
BY BoundAssumption DEF MoreParameters, NextIndex, Walks

-----------------------------------------------------------------------------
(* Invariants *)

\* The writers of the sender keep the type.
LEMMA WriteSenderType ==
  ASSUME BufferTypeOK, WriteSender, G_context' \in Contexts
  PROVE  BufferTypeOK'
<1>1. G_context'.address \in KeptPaths
  BY DEF Contexts
<1>2. g_ui_buffer' \in {g_ui_buffer, NoText, AddressText(G_context'.address)}
  BY DEF WriteSender
<1> QED BY <1>1, <1>2 DEF BufferTypeOK

\* Every step writes a text of one of the three kinds.
LEMMA BufferTypeStep ==
  ASSUME Inv, Inv', BufferTypeOK, [BufferNext]_bufferVars
  PROVE  BufferTypeOK'
<1>0. walk \in Walks /\ G_context' \in Contexts
  BY DEF Inv, TypeOK
<1>1. ASSUME NEW path, NEW readable, NEW display,
             GetPublicKey(path, readable, display), WriteAddress
      PROVE  BufferTypeOK'
  <2>1. G_context'.address \in KeptPaths
    BY <1>0 DEF Contexts
  <2>2. g_ui_buffer' \in {g_ui_buffer, NoText, AddressText(G_context'.address)}
    BY <1>1 DEF WriteAddress
  <2> QED BY <2>1, <2>2 DEF BufferTypeOK
<1>2. ASSUME NEW chunk, LastData(chunk), WriteSender PROVE BufferTypeOK'
  BY <1>0, <1>2, WriteSenderType
<1>3. CASE ConfirmCalldata /\ WriteParameter
  <2>1. CASE MoreParameters(walk)
    <3>1. walk'.index = NextIndex(walk)
      BY <1>0, <1>3 DEF ConfirmCalldata, Walks
    <3>2. NextIndex(walk) \in 0..(ABI_MAX_PARAMS - 1)
      BY <1>0, <2>1, NextParameterType
    <3>3. g_ui_buffer' = ParameterText(NextIndex(walk))
      BY <1>3, <2>1, <3>1 DEF WriteParameter
    <3> QED BY <3>2, <3>3 DEF BufferTypeOK
  <2>2. CASE ~MoreParameters(walk)
    BY <1>0, <1>3, <2>2, WriteSenderType DEF WriteParameter
  <2> QED BY <2>1, <2>2
<1>4. CASE UNCHANGED g_ui_buffer
  BY <1>4 DEF BufferTypeOK
<1>5. CASE g_ui_buffer' = NoText
  BY <1>5 DEF BufferTypeOK
<1> QED BY <1>1, <1>2, <1>3, <1>4, <1>5
        DEF BufferNext, Shows, KeepsBuffer, bufferVars

\* Every step that leaves a command waiting writes what it shows; every other
\* one answers, or leaves the screen and the buffer as they are.
LEMMA BufferSays ==
  ASSUME Inv, ScreenSaysWhatItShowed, [BufferNext]_bufferVars
  PROVE  ScreenSaysWhatItShowed'
<1>0. walk \in Walks
  BY DEF Inv, TypeOK
<1>1. ASSUME NEW path, NEW readable, NEW display,
             GetPublicKey(path, readable, display), WriteAddress
      PROVE  ScreenSaysWhatItShowed'
  <2>1. ASSUME pending'
        PROVE  /\ screen'.kind = "address"
               /\ g_ui_buffer' = AddressText(screen'.address)
    <3>1. PICK c : G_context' = c /\ screen' = AddressScreen(c) /\ Await(TRUE)
      BY <1>1, <2>1 DEF GetPublicKey, Reply, Send
    <3>2. rsp'.sw # "SW_DISPLAY_ADDRESS_FAIL"
      BY <3>1 DEF Await, NoResponse, Response
    <3>3. screen'.kind = "address" /\ screen'.address = G_context'.address
      BY <3>1 DEF AddressScreen, Blank
    <3> QED BY <1>1, <2>1, <3>2, <3>3 DEF WriteAddress
  <2> QED BY <2>1 DEF ScreenSaysWhatItShowed
<1>2. ASSUME NEW chunk, LastData(chunk), WriteSender
      PROVE  ScreenSaysWhatItShowed'
  <2>1. ASSUME pending'
        PROVE  \/ screen'.kind = "selector"
               \/ /\ screen'.kind = "review"
                  /\ g_ui_buffer' = AddressText(screen'.address)
    <3>1. PICK c : Route(c)
      BY <1>2, <2>1 DEF LastData, RefuseData, Reply, Send
    <3>2. CASE screen' = Blank("selector")
      BY <3>2 DEF Blank
    <3>3. ASSUME NEW blind, Display(c, blind, TRUE)
          PROVE  /\ screen'.kind = "review"
                 /\ g_ui_buffer' = AddressText(screen'.address)
      BY <1>2, <2>1, <3>3, DisplayWritesSender
    <3> QED BY <2>1, <3>1, <3>2, <3>3 DEF Route, Reply, Send
  <2> QED BY <2>1 DEF ScreenSaysWhatItShowed
<1>3. CASE ConfirmCalldata /\ WriteParameter
  <2>1. CASE MoreParameters(walk)
    <3>1. screen'.kind = "param"
      BY <1>3, <2>1 DEF ConfirmCalldata, Blank
    <3>2. g_ui_buffer' = ParameterText(walk'.index)
      BY <1>3, <2>1 DEF WriteParameter
    <3> QED BY <3>1, <3>2 DEF ScreenSaysWhatItShowed
  <2>2. CASE ~MoreParameters(walk)
    <3>1. Display(G_context, TRUE, pending) /\ WriteSender
      BY <1>3, <2>2 DEF ConfirmCalldata, WriteParameter
    <3>2. pending' => /\ screen'.kind = "review"
                      /\ g_ui_buffer' = AddressText(screen'.address)
      BY <3>1, DisplayWritesSender
    <3> QED BY <3>2 DEF ScreenSaysWhatItShowed
  <2> QED BY <2>1, <2>2
<1>4. CASE KeepsBuffer
  BY <1>4, QuietAnswers DEF ScreenSaysWhatItShowed
<1>5. CASE Restart
  BY <1>5 DEF Restart, ScreenSaysWhatItShowed
<1>6. CASE UNCHANGED bufferVars
  BY <1>6 DEF bufferVars, ScreenSaysWhatItShowed
<1> QED BY <1>1, <1>2, <1>3, <1>4, <1>5, <1>6 DEF BufferNext, Shows

\* The invariants of LedgerApp hold with the buffer.
LEMMA BufferInvariance == BufferSpec => []Inv
BY BufferAddsNothing, Invariance, PTL

\* The buffer holds an address or a parameter within calldata.params.
THEOREM BufferTypeCorrect == BufferSpec => []BufferTypeOK
<1>1. BufferInit => BufferTypeOK
  BY DEF BufferInit, BufferTypeOK
<1>2. Inv /\ Inv' /\ BufferTypeOK /\ [BufferNext]_bufferVars => BufferTypeOK'
  BY BufferTypeStep
<1> QED BY <1>1, <1>2, BufferInvariance, PTL DEF BufferSpec

\* As long as a command waits, the address or the parameter under the user's
\* eyes is the one that came up, although all three screens share one buffer
\* and failed reviews overwrite it.
THEOREM ScreenKeepsItsText == BufferSpec => []ScreenSaysWhatItShowed
<1>1. BufferInit => ScreenSaysWhatItShowed
  BY DEF BufferInit, Init, ScreenSaysWhatItShowed
<1>2. Inv /\ ScreenSaysWhatItShowed /\ [BufferNext]_bufferVars
        => ScreenSaysWhatItShowed'
  BY BufferSays
<1> QED BY <1>1, <1>2, BufferInvariance, PTL DEF BufferSpec
=============================================================================
