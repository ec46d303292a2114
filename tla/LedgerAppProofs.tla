--------------------------- MODULE LedgerAppProofs ---------------------------
(***************************************************************************)
(* Theorems about LedgerApp for every set of paths, every capacity, every  *)
(* decoder and every combination of faults.                                *)
(***************************************************************************)
EXTENDS LedgerApp, SequenceTheorems, TLAPS

-----------------------------------------------------------------------------
(* What the helpers return *)

\* A transaction buffer is a sequence of bytes no longer than raw_tx.
LEMMA RawTxIsSeq ==
  ASSUME NEW r
  PROVE  r \in RawTx <=> r \in Seq(Byte) /\ Len(r) <= MAX_TRANSACTION_LEN
<1>1. ASSUME r \in RawTx
      PROVE  r \in Seq(Byte) /\ Len(r) <= MAX_TRANSACTION_LEN
  <2>1. PICK n \in 0..MAX_TRANSACTION_LEN : r \in [1..n -> Byte]
    BY <1>1 DEF RawTx
  <2>2. n \in Nat
    BY <2>1, BoundAssumption
  <2>3. r \in Seq(Byte)
    BY <2>1, <2>2, SeqDef
  <2>4. Len(r) = n
    BY <2>1, <2>2, <2>3, LenProperties
  <2> QED BY <2>1, <2>3, <2>4, BoundAssumption
<1>2. ASSUME r \in Seq(Byte), Len(r) <= MAX_TRANSACTION_LEN
      PROVE  r \in RawTx
  <2>1. Len(r) \in 0..MAX_TRANSACTION_LEN /\ r \in [1..Len(r) -> Byte]
    BY <1>2, LenProperties, BoundAssumption
  <2> QED BY <2>1 DEF RawTx
<1> QED BY <1>1, <1>2

\* Data that fits leaves a transaction within its buffer.
LEMMA AppendFits ==
  ASSUME G_context \in Contexts, NEW chunk \in Chunks, Fits(chunk)
  PROVE  G_context.raw_tx \o chunk \in RawTx
<1>1. G_context.raw_tx \in Seq(Byte) /\ chunk \in Seq(Byte)
  BY RawTxIsSeq, InputAssumption DEF Contexts
<1>2. /\ G_context.raw_tx \o chunk \in Seq(Byte)
      /\ Len(G_context.raw_tx \o chunk) = Len(G_context.raw_tx) + Len(chunk)
  BY <1>1, ConcatProperties
<1> QED BY <1>2, RawTxIsSeq DEF Fits

\* The wiped context is a context.
LEMMA ZeroContextType == ZeroContext \in Contexts
<1>0. <<>> \in Seq(Byte) /\ Len(<<>>) = 0
  BY EmptySeq
<1>1. Len(<<>>) <= MAX_TRANSACTION_LEN
  BY <1>0, BoundAssumption
<1>2. <<>> \in RawTx
  BY <1>0, <1>1, RawTxIsSeq, Zenon
<1> QED BY <1>2 DEF ZeroContext, Contexts, KeptPaths, Digests, NoTx, TxData

\* decode_ledger_tx leaves well-formed fields in tx_data, and all of the
\* transaction's own when it succeeds.
LEMMA DecodeType ==
  ASSUME NEW raw \in RawTx, NEW old \in TxData
  PROVE  /\ DecodeInto(old, raw) \in TxData
         /\ Decodes(raw) => DecodeInto(old, raw) = Fields(raw)
BY DecodeAssumption DEF DecodeInto, TxData, TxFields

\* abi_calldata_parse keeps at most ABI_MAX_PARAMS parameters.
LEMMA ParamCountType ==
  ASSUME NEW len \in Nat, AbiParses(len)
  PROVE  ParamCount(len) \in 0..ABI_MAX_PARAMS
BY BoundAssumption
   DEF ParamCount, AbiParses, ABI_SELECTOR_SIZE, ABI_SLOT_SIZE

\* The two contexts in which handler_sign_tx leaves a complete transaction.
LEMMA HashedType ==
  ASSUME G_context \in Contexts, NEW raw \in RawTx
  PROVE  /\ Parsed(raw) \in Contexts
         /\ Hashed(raw) \in Contexts
         /\ Parsed(raw).state = "STATE_PARSED"
         /\ Hashed(raw) = [G_context EXCEPT !.raw_tx = raw,
               !.state = "STATE_PARSED", !.m_hash = Keccak256(raw),
               !.tx_data = DecodeInto(G_context.tx_data, raw)]
<1>1. Parsed(raw) \in Contexts /\ Parsed(raw).tx_data = G_context.tx_data
  BY DEF Parsed, Contexts
<1>2. DecodeInto(G_context.tx_data, raw) \in TxData
  BY DecodeType DEF Contexts
<1> QED BY <1>1, <1>2 DEF Parsed, Hashed, Contexts, Digests

\* A screen that shows nothing of a request is a screen.
LEMMA BlankType ==
  ASSUME NEW k \in Kinds PROVE Blank(k) \in Screens
BY DEF Blank, Screens, KeptPaths, Digests, NoTx, TxData

\* The review built from a context is a screen.
LEMMA ReviewScreenType ==
  ASSUME NEW c \in Contexts, NEW blind \in BOOLEAN
  PROVE  ReviewScreen(c, blind) \in Screens
<1>1. Items(N_storage.settings, c.tx_data) \in SUBSET ItemNames
  BY DEF Items, ToItem, ItemNames
<1> QED BY <1>1 DEF ReviewScreen, Screens, Contexts, Kinds

\* address_from_bip32_path changes the address only together with the key,
\* and both become the path's when it succeeds.
LEMMA AddressOutcomesType ==
  ASSUME NEW path \in KeptPaths, NEW pk \in KeptPaths \cup {TornKey},
         NEW address \in KeptPaths, NEW o \in AddressOutcomes(path, pk, address)
  PROVE  /\ o.pk \in KeptPaths \cup {TornKey}
         /\ o.address \in KeptPaths
         /\ o.ok \in BOOLEAN
         /\ o.pk \in {pk, path}
         /\ o.address \in {address, path}
         /\ o.address # address => o.pk = path
         /\ o.ok => o.pk = path /\ o.address = path
<1>1. /\ o \in [ok: BOOLEAN, pk: {pk, path}, address: {address, path}]
      /\ o.ok => o.pk = path /\ o.address = path
      /\ ~o.ok => o.address = address
  BY DEF AddressOutcomes
<1> QED BY <1>1

\* crypto_sign_message succeeds only with a signature made for, and checked
\* against, the public key in flash.
LEMMA SigningOutcomesType ==
  ASSUME N_storage \in Storages, NEW path \in KeptPaths,
         NEW digest \in Digests,
         NEW o \in SigningOutcomes(path, digest, N_storage)
  PROVE  /\ o.ok \in BOOLEAN
         /\ o.sig \in Sigs
         /\ o.ok => N_storage.pk = path /\ o.sig = SignatureOf(path, digest)
<1>1. /\ o \in [ok: BOOLEAN,
                sig: {N_storage.sig, JunkSig, SignatureOf(path, digest)}]
      /\ o.ok => N_storage.pk = path /\ o.sig = SignatureOf(path, digest)
  BY DEF SigningOutcomes
<1>2. {N_storage.sig, JunkSig, SignatureOf(path, digest)} \subseteq Sigs
  BY DEF Storages, Sigs, JunkSig, SignatureOf, KeptPaths, Digests
<1> QED BY <1>1, <1>2

-----------------------------------------------------------------------------
(* Types *)

\* An answer leaves pending and rsp well typed.
LEMMA SendType ==
  ASSUME NEW sw \in StatusWords, NEW what \in {"nothing", "address", "sig", "pk"},
         NEW i \in Nat, NEW owed \in BOOLEAN, Send(sw, what, i, owed)
  PROVE  pending' \in BOOLEAN /\ rsp' \in Responses
BY DEF Send, Response, Responses

\* So does a handler that leaves its answer to a callback.
LEMMA AwaitType ==
  ASSUME NEW owed \in BOOLEAN, Await(owed)
  PROVE  pending' \in BOOLEAN /\ rsp' \in Responses
BY DEF Await, NoResponse, Response, Responses, StatusWords

\* ui_display_transaction_bs_choice keeps the types of all it touches.
LEMMA DisplayType ==
  ASSUME TypeOK, NEW c \in Contexts, NEW blind \in BOOLEAN,
         NEW owed \in BOOLEAN, Display(c, blind, owed)
  PROVE  /\ G_context' \in Contexts
         /\ N_storage' \in Storages
         /\ screen' \in Screens
         /\ pending' \in BOOLEAN
         /\ rsp' \in Responses
<1>1. CASE /\ ~ReviewReady(c)
           /\ G_context' = [c EXCEPT !.state = "STATE_NONE"]
           /\ Send("SW_BAD_STATE", "nothing", 0, owed)
           /\ UNCHANGED <<N_storage, screen>>
  BY <1>1, SendType DEF TypeOK, Contexts, StatusWords
<1>2. ASSUME NEW o \in AddressOutcomes(c.bip32_path, N_storage.pk, c.address),
             G_context' = [c EXCEPT !.address = o.address],
             N_storage' = KeyStored(o.pk),
             \/ /\ Send("SW_DISPLAY_ADDRESS_FAIL", "nothing", 0, owed)
                /\ UNCHANGED screen
             \/ /\ screen' = ReviewScreen([c EXCEPT !.address = o.address], blind)
                /\ Await(owed)
      PROVE  /\ G_context' \in Contexts
             /\ N_storage' \in Storages
             /\ screen' \in Screens
             /\ pending' \in BOOLEAN
             /\ rsp' \in Responses
  <2>1. o.pk \in KeptPaths \cup {TornKey} /\ o.address \in KeptPaths
    BY AddressOutcomesType DEF TypeOK, Contexts, Storages
  <2>2. G_context' \in Contexts
    BY <1>2, <2>1 DEF Contexts
  <2>3. N_storage' \in Storages
    BY <1>2, <2>1 DEF KeyStored, TypeOK, Storages
  <2>4. screen' \in Screens
    BY <1>2, <2>2, ReviewScreenType DEF TypeOK
  <2>5. pending' \in BOOLEAN /\ rsp' \in Responses
    BY <1>2, SendType, AwaitType DEF StatusWords
  <2> QED BY <2>2, <2>3, <2>4, <2>5
<1> QED BY <1>1, <1>2 DEF Display

\* So does whichever branch handler_sign_tx takes after decoding.
LEMMA RouteType ==
  ASSUME TypeOK, NEW c \in Contexts, Route(c)
  PROVE  TypeOK'
<1>1. CASE /\ screen' = BlindSigningNotice
           /\ G_context' = c
           /\ Reply("SW_SIGNATURE_FAIL")
           /\ UNCHANGED <<N_storage, walk>>
  <2>1. screen' \in Screens
    BY <1>1, BlankType DEF BlindSigningNotice, Kinds
  <2>2. pending' \in BOOLEAN /\ rsp' \in Responses
    BY <1>1, SendType DEF Reply, StatusWords
  <2> QED BY <1>1, <2>1, <2>2 DEF TypeOK
<1>2. CASE /\ AbiParses(c.tx_data.data_len)
           /\ walk' = SelectorFirst(ParamCount(c.tx_data.data_len))
           /\ screen' = Blank("selector")
           /\ G_context' = c
           /\ Await(TRUE)
           /\ UNCHANGED N_storage
  <2>1. screen' \in Screens
    BY <1>2, BlankType DEF Kinds
  <2>2. ParamCount(c.tx_data.data_len) \in 0..ABI_MAX_PARAMS
    BY <1>2, ParamCountType DEF Contexts, TxData
  <2>3. walk' \in Walks
    BY <1>2, <2>2, BoundAssumption DEF SelectorFirst, Walks
  <2>4. pending' \in BOOLEAN /\ rsp' \in Responses
    BY <1>2, AwaitType
  <2> QED BY <1>2, <2>1, <2>3, <2>4 DEF TypeOK
<1>3. CASE /\ Display(c, HasData(c.tx_data) /\ ~DebuggedCall(c.tx_data), TRUE)
           /\ UNCHANGED walk
  <2>1. (HasData(c.tx_data) /\ ~DebuggedCall(c.tx_data)) \in BOOLEAN
    OBVIOUS
  <2> QED BY <1>3, <2>1, DisplayType DEF TypeOK
<1> QED BY <1>1, <1>2, <1>3 DEF Route

\* The early returns of SIGN_TX change nothing but the answer.
LEMMA RefuseDataType ==
  ASSUME TypeOK, NEW chunk, RefuseData(chunk)
  PROVE  TypeOK'
BY SendType DEF RefuseData, Reply, TypeOK, StatusWords

\* helper_send_response_sig keeps the types, the wipe of the last chunk
\* included.
LEMMA SendSigChunkType ==
  ASSUME NEW i \in 0..LAST_SIG_CHUNK, NEW c \in Contexts, NEW n \in Storages,
         NEW owed \in BOOLEAN, SendSigChunk(i, c, n, owed)
  PROVE  /\ G_context' \in Contexts
         /\ N_storage' \in Storages
         /\ pending' \in BOOLEAN
         /\ rsp' \in Responses
<1>1. G_context' \in Contexts
  BY ZeroContextType DEF SendSigChunk, ContextAfter
<1>2. SendingAfter(i, n.is_sending_signature) \in BOOLEAN
  BY DEF SendingAfter, Storages
<1>3. N_storage' \in Storages
  BY <1>2 DEF SendSigChunk, Storages
<1>4. pending' \in BOOLEAN /\ rsp' \in Responses
  BY SendType, BoundAssumption DEF SendSigChunk, StatusWords, PlainStatusWords
<1> QED BY <1>1, <1>3, <1>4

\* Every command keeps the types.
LEMMA HostType == TypeOK /\ Host => TypeOK'
<1> SUFFICES ASSUME TypeOK, Host PROVE TypeOK'
  OBVIOUS
<1>1. ASSUME NEW path \in KeptPaths, NEW readable \in BOOLEAN,
             OpenSession(path, readable)
      PROVE  TypeOK'
  <2>1. G_context' \in Contexts
    BY <1>1, ZeroContextType DEF OpenSession, SessionContext, Contexts
  <2>2. ZeroSig \in Sigs
    BY DEF ZeroSig, Sigs, KeptPaths, Digests
  <2>3. N_storage' \in Storages
    BY <1>1, <2>2 DEF OpenSession, TypeOK, Storages
  <2>4. pending' \in BOOLEAN /\ rsp' \in Responses
    BY <1>1, SendType
       DEF OpenSession, Reply, StatusWords, PlainStatusWords
  <2> QED BY <1>1, <2>1, <2>3, <2>4 DEF OpenSession, TypeOK
<1>2. ASSUME NEW path \in KeptPaths, NEW readable \in BOOLEAN,
             NEW display \in BOOLEAN, GetPublicKey(path, readable, display)
      PROVE  TypeOK'
  <2>1. AddressContext(path) \in Contexts
    BY ZeroContextType DEF AddressContext, Contexts
  <2>2. NoPath \in KeptPaths
    BY DEF KeptPaths
  <2>3. CASE /\ G_context' = AddressContext(path)
             /\ N_storage' = KeyStored(NoPath)
             /\ Reply("SW_WRONG_DATA_LENGTH")
             /\ UNCHANGED <<screen, walk>>
    <3>1. pending' \in BOOLEAN /\ rsp' \in Responses
      BY <2>3, SendType DEF Reply, StatusWords, PlainStatusWords
    <3> QED BY <2>1, <2>2, <2>3, <3>1 DEF TypeOK, KeyStored, Storages
  <2>4. ASSUME NEW o \in AddressOutcomes(path, NoPath,
                                         AddressContext(path).address),
               NEW c, c = [AddressContext(path) EXCEPT !.address = o.address],
               G_context' = c, N_storage' = KeyStored(o.pk), UNCHANGED walk,
               \/ Reply("CX_ERROR") /\ UNCHANGED screen
               \/ Reply("SW_DISPLAY_ADDRESS_FAIL") /\ UNCHANGED screen
               \/ screen' = AddressScreen(c) /\ Await(TRUE)
               \/ Send("SW_OK", "address", 0, TRUE) /\ UNCHANGED screen
        PROVE  TypeOK'
    <3>1. o.pk \in KeptPaths \cup {TornKey} /\ o.address \in KeptPaths
      BY <2>1, <2>2, AddressOutcomesType DEF Contexts
    <3>2. c \in Contexts
      BY <2>1, <2>4, <3>1 DEF Contexts
    <3>3. N_storage' \in Storages
      BY <2>4, <3>1 DEF KeyStored, TypeOK, Storages
    <3>4. AddressScreen(c) \in Screens
      BY <3>2, BlankType DEF AddressScreen, Kinds, Screens, Contexts
    <3>5. pending' \in BOOLEAN /\ rsp' \in Responses
      BY <2>4, SendType, AwaitType DEF Reply, StatusWords, PlainStatusWords
    <3> QED BY <2>4, <3>2, <3>3, <3>4, <3>5 DEF TypeOK
  <2> QED BY <1>2, <2>3, <2>4 DEF GetPublicKey
<1>3. ASSUME NEW chunk \in Chunks, MoreData(chunk)
      PROVE  TypeOK'
  <2>1. CASE RefuseData(chunk)
    BY <2>1, RefuseDataType
  <2>2. CASE /\ Fits(chunk)
             /\ G_context' = [G_context EXCEPT !.raw_tx = @ \o chunk]
             /\ Reply("SW_OK")
             /\ UNCHANGED <<N_storage, screen, walk>>
    <3>1. G_context' \in Contexts
      BY <2>2, AppendFits DEF TypeOK, Contexts
    <3>2. pending' \in BOOLEAN /\ rsp' \in Responses
      BY <2>2, SendType DEF Reply, StatusWords, PlainStatusWords
    <3> QED BY <2>2, <3>1, <3>2 DEF TypeOK
  <2> QED BY <1>3, <2>1, <2>2 DEF MoreData
<1>4. ASSUME NEW chunk \in Chunks, LastData(chunk)
      PROVE  TypeOK'
  <2>1. CASE RefuseData(chunk)
    BY <2>1, RefuseDataType
  <2>2. ASSUME NEW raw \in RawTx,
               \/ /\ G_context' = Parsed(raw)
                  /\ Reply("SW_SIGNATURE_FAIL")
                  /\ UNCHANGED <<N_storage, screen, walk>>
               \/ /\ G_context' = Hashed(raw)
                  /\ Reply("SW_TX_PARSING_FAIL")
                  /\ UNCHANGED <<N_storage, screen, walk>>
        PROVE  TypeOK'
    <3>1. G_context' \in Contexts
      BY <2>2, HashedType DEF TypeOK
    <3>2. pending' \in BOOLEAN /\ rsp' \in Responses
      BY <2>2, SendType DEF Reply, StatusWords
    <3> QED BY <2>2, <3>1, <3>2 DEF TypeOK
  <2>3. ASSUME NEW raw \in RawTx, Route(Hashed(raw))
        PROVE  TypeOK'
    BY <2>3, HashedType, RouteType DEF TypeOK
  <2>4. Fits(chunk) => G_context.raw_tx \o chunk \in RawTx
    BY AppendFits DEF TypeOK
  <2> QED BY <1>4, <2>1, <2>2, <2>3, <2>4 DEF LastData
<1>5. ASSUME NEW i \in 1..LAST_SIG_CHUNK, SigChunk(i)
      PROVE  TypeOK'
  <2>0. i \in 0..LAST_SIG_CHUNK
    BY BoundAssumption
  <2>1. CASE SendSigChunk(i, G_context, N_storage, TRUE)
    <3>1. /\ G_context' \in Contexts /\ N_storage' \in Storages
          /\ pending' \in BOOLEAN /\ rsp' \in Responses
      BY <2>0, <2>1, SendSigChunkType DEF TypeOK
    <3> QED BY <1>5, <3>1 DEF SigChunk, TypeOK
  <2>2. CASE Reply("SW_BAD_STATE") /\ UNCHANGED <<G_context, N_storage>>
    <3>1. pending' \in BOOLEAN /\ rsp' \in Responses
      BY <2>2, SendType DEF Reply, StatusWords
    <3> QED BY <1>5, <2>2, <3>1 DEF SigChunk, TypeOK
  <2> QED BY <1>5, <2>1, <2>2 DEF SigChunk
<1>6. ASSUME NEW i \in 0..(PK_CHUNKS - 1), PkChunk(i)
      PROVE  TypeOK'
  <2>0. i \in Nat
    BY BoundAssumption
  <2>1. pending' \in BOOLEAN /\ rsp' \in Responses
    BY <1>6, <2>0, SendType DEF PkChunk, StatusWords, PlainStatusWords
  <2> QED BY <1>6, <2>1 DEF PkChunk, TypeOK
<1>7. ASSUME NEW sw \in PlainStatusWords, PlainAnswer(sw)
      PROVE  TypeOK'
  <2>1. pending' \in BOOLEAN /\ rsp' \in Responses
    BY <1>7, SendType DEF PlainAnswer, Reply, StatusWords
  <2> QED BY <1>7, <2>1 DEF PlainAnswer, TypeOK
<1> QED BY <1>1, <1>2, <1>3, <1>4, <1>5, <1>6, <1>7 DEF Host, KeptPaths

\* Every callback keeps the types.
LEMMA UserType == TypeOK /\ User => TypeOK'
<1> SUFFICES ASSUME TypeOK, User PROVE TypeOK'
  OBVIOUS
<1>1. StatusScreen \in Screens
  BY BlankType DEF StatusScreen, Kinds
<1>2. CASE Reject
  <2>1. pending' \in BOOLEAN /\ rsp' \in Responses
    BY <1>2, SendType DEF Reject, Deny, CallbackReply, StatusWords, TypeOK
  <2> QED BY <1>1, <1>2, <2>1, ZeroContextType DEF Reject, Deny, TypeOK
<1>3. CASE ApproveAddress
  <2>1. G_context' \in Contexts
    BY <1>3 DEF ApproveAddress, TypeOK, Contexts
  <2>2. pending' \in BOOLEAN /\ rsp' \in Responses
    BY <1>3, SendType
       DEF ApproveAddress, StatusWords, PlainStatusWords, TypeOK
  <2> QED BY <1>1, <1>3, <2>1, <2>2 DEF ApproveAddress, TypeOK
<1>4. CASE ApproveTransaction
  <2>1. PICK o \in SigningOutcomes(G_context.bip32_path, G_context.m_hash,
                                   N_storage) :
          LET n == [N_storage EXCEPT !.sig = o.sig]
          IN \/ /\ N_storage' = n
                /\ G_context' = SigningFailed(Approved(G_context))
                /\ CallbackReply("SW_SIGNATURE_FAIL")
             \/ SendSigChunk(0, Approved(G_context), n, pending)
    BY <1>4 DEF ApproveTransaction
  <2>2. o.sig \in Sigs
    BY SigningOutcomesType DEF TypeOK, Contexts
  <2>3. [N_storage EXCEPT !.sig = o.sig] \in Storages
    BY <2>2 DEF TypeOK, Storages
  <2>4. /\ Approved(G_context) \in Contexts
        /\ SigningFailed(Approved(G_context)) \in Contexts
    BY DEF Approved, SigningFailed, TypeOK, Contexts
  <2>5. CASE SendSigChunk(0, Approved(G_context),
                          [N_storage EXCEPT !.sig = o.sig], pending)
    <3>1. 0 \in 0..LAST_SIG_CHUNK
      BY BoundAssumption
    <3> QED BY <2>3, <2>4, <2>5, <3>1, SendSigChunkType, <1>1, <1>4
            DEF ApproveTransaction, TypeOK
  <2>6. CASE /\ N_storage' = [N_storage EXCEPT !.sig = o.sig]
             /\ G_context' = SigningFailed(Approved(G_context))
             /\ CallbackReply("SW_SIGNATURE_FAIL")
    <3>1. pending' \in BOOLEAN /\ rsp' \in Responses
      BY <2>6, SendType DEF CallbackReply, StatusWords, TypeOK
    <3> QED BY <2>3, <2>4, <2>6, <3>1, <1>1, <1>4
            DEF ApproveTransaction, TypeOK
  <2> QED BY <2>1, <2>5, <2>6
<1>5. CASE ConfirmCalldata
  <2>1. NextIndex(walk) \in 0..(UINT8_MOD - 1)
    BY BoundAssumption DEF NextIndex, TypeOK, Walks
  <2>2. walk' \in Walks
    BY <1>5, <2>1 DEF ConfirmCalldata, TypeOK, Walks
  <2>3. CASE /\ screen' = Blank("param")
             /\ UNCHANGED <<G_context, N_storage, pending, rsp>>
    BY <2>2, <2>3, BlankType DEF TypeOK, Kinds
  <2>4. CASE Display(G_context, TRUE, pending)
    BY <2>2, <2>4, DisplayType DEF TypeOK
  <2> QED BY <1>5, <2>3, <2>4 DEF ConfirmCalldata
<1>6. CASE LeaveScreen
  BY <1>6, BlankType DEF LeaveScreen, HomePage, Kinds, TypeOK
<1>7. ASSUME NEW s \in Switches, Toggle(s)
      PROVE  TypeOK'
  <2>1. N_storage' \in Storages
    BY <1>7, InputAssumption DEF Toggle, TypeOK, Storages
  <2> QED BY <1>7, <2>1 DEF Toggle, TypeOK
<1> QED BY <1>2, <1>3, <1>4, <1>5, <1>6, <1>7 DEF User, Choose

\* A restart keeps the types, whatever it left half written.
LEMMA RestartType == TypeOK /\ Restart => TypeOK'
<1> SUFFICES ASSUME TypeOK, Restart PROVE TypeOK'
  OBVIOUS
<1>1. PICK s \in TornSigs, k \in TornKeys, f \in TornFlags :
        N_storage' = [N_storage EXCEPT !.sig = s, !.pk = k,
                                       !.is_sending_signature = f]
  BY DEF Restart
<1>0. f \in BOOLEAN
  BY DEF TornFlags, TypeOK, Storages
<1>2. s \in Sigs
  BY DEF TornSigs, TypeOK, Storages, Contexts, Sigs, JunkSig, SignatureOf,
         KeptPaths, Digests
<1>3. k \in KeptPaths \cup {TornKey}
  BY DEF TornKeys, TypeOK, Storages
<1>4. N_storage' \in Storages
  BY <1>0, <1>1, <1>2, <1>3 DEF TypeOK, Storages
<1>5. walk' \in Walks
  BY BoundAssumption DEF Restart, NoWalk, Walks
<1>6. pending' \in BOOLEAN /\ rsp' \in Responses
  BY DEF Restart, NoResponse, Response, Responses, StatusWords
<1> QED BY <1>4, <1>5, <1>6, ZeroContextType, BlankType
        DEF Restart, HomePage, TypeOK, Kinds

\* The state after installation is well typed.
LEMMA InitType == Init => TypeOK
<1> SUFFICES ASSUME Init PROVE TypeOK
  OBVIOUS
<1>1. N_storage \in Storages
  BY DEF Init, FreshStorage, Storages, ZeroSig, Sigs, KeptPaths, Digests
<1>2. walk \in Walks
  BY BoundAssumption DEF Init, NoWalk, Walks
<1>3. pending \in BOOLEAN /\ rsp \in Responses
  BY DEF Init, NoResponse, Response, Responses, StatusWords
<1> QED BY <1>1, <1>2, <1>3, ZeroContextType, BlankType
        DEF Init, HomePage, TypeOK, Kinds

\* The device's state keeps its types; in particular the streamed transaction
\* stays within MAX_TRANSACTION_LEN and the walk within ABI_MAX_PARAMS.
THEOREM TypeCorrect == Spec => []TypeOK
<1>1. Init => TypeOK
  BY InitType
<1>2. TypeOK /\ UNCHANGED vars => TypeOK'
  BY DEF vars, TypeOK
<1>3. TypeOK /\ [Next]_vars => TypeOK'
  BY <1>2, HostType, UserType, RestartType DEF Next
<1> QED BY <1>1, <1>3, PTL DEF Spec

-----------------------------------------------------------------------------
(* Safety *)

Inv == /\ TypeOK
       /\ WaitsForChoice
       /\ ReviewShowsContext
       /\ WalkFollowsContext
       /\ AddressShownIsKey
       /\ AddressMatchesKey
       /\ ApprovedHoldsSignature
       /\ BlindGate

\* What Display establishes, whoever calls it: a command's handler with the
\* transaction it has just decoded, or a calldata callback, which may run
\* without any command waiting and then with any context.
LEMMA DisplaySafe ==
  ASSUME Inv, NEW c \in Contexts, NEW blind \in BOOLEAN, NEW owed \in BOOLEAN,
         Display(c, blind, owed),
         owed => HoldsDecodedTx(c),
         c.address = G_context.address, c.bip32_path = G_context.bip32_path,
         HasData(c.tx_data) => "enable_blind_signing" \in N_storage.settings,
         screen.kind # "address"
  PROVE  /\ WaitsForChoice'
         /\ ReviewShowsContext'
         /\ pending' => screen'.kind = "review"
         /\ AddressShownIsKey'
         /\ AddressMatchesKey'
         /\ ApprovedHoldsSignature'
         /\ BlindGate'
<1> USE DEF Inv
<1>1. CASE /\ ~ReviewReady(c)
           /\ G_context' = [c EXCEPT !.state = "STATE_NONE"]
           /\ Send("SW_BAD_STATE", "nothing", 0, owed)
           /\ UNCHANGED <<N_storage, screen>>
  <2>1. G_context'.address = c.address /\ G_context'.bip32_path = c.bip32_path
        /\ G_context'.state = "STATE_NONE"
    BY <1>1 DEF Contexts
  <2> QED BY <1>1, <2>1 DEF Send, WaitsForChoice, ReviewShowsContext,
          AddressShownIsKey, AddressMatchesKey, ApprovedHoldsSignature, BlindGate
<1>2. ASSUME ReviewReady(c),
             NEW o \in AddressOutcomes(c.bip32_path, N_storage.pk, c.address),
             G_context' = [c EXCEPT !.address = o.address],
             N_storage' = KeyStored(o.pk),
             \/ /\ Send("SW_DISPLAY_ADDRESS_FAIL", "nothing", 0, owed)
                /\ UNCHANGED screen
             \/ /\ o.ok
                /\ screen' = ReviewScreen([c EXCEPT !.address = o.address], blind)
                /\ Await(owed)
      PROVE  /\ WaitsForChoice'
             /\ ReviewShowsContext'
             /\ pending' => screen'.kind = "review"
             /\ AddressShownIsKey'
             /\ AddressMatchesKey'
             /\ ApprovedHoldsSignature'
             /\ BlindGate'
  <2>1. /\ G_context'.address = o.address
        /\ G_context'.bip32_path = c.bip32_path
        /\ G_context'.state = "STATE_PARSED"
        /\ G_context'.req_type = "CONFIRM_TRANSACTION"
        /\ G_context'.m_hash = c.m_hash
        /\ G_context'.raw_tx = c.raw_tx
        /\ G_context'.tx_data = c.tx_data
    BY <1>2 DEF Contexts, ReviewReady
  <2>2. N_storage'.pk = o.pk /\ N_storage'.settings = N_storage.settings
    BY <1>2 DEF KeyStored, TypeOK, Storages
  <2>3. /\ o.pk \in {N_storage.pk, c.bip32_path}
        /\ o.address # c.address => o.pk = c.bip32_path /\ o.address = c.bip32_path
        /\ o.ok => o.pk = c.bip32_path /\ o.address = c.bip32_path
    <3>1. /\ c.bip32_path \in KeptPaths /\ c.address \in KeptPaths
          /\ N_storage.pk \in KeptPaths \cup {TornKey}
      BY DEF Contexts, TypeOK, Storages
    <3> QED BY <1>2, <3>1, AddressOutcomesType
  <2>4. AddressMatchesKey'
    BY <2>1, <2>2, <2>3 DEF AddressMatchesKey
  <2>5. ApprovedHoldsSignature'
    BY <2>1 DEF ApprovedHoldsSignature
  <2>6. CASE /\ Send("SW_DISPLAY_ADDRESS_FAIL", "nothing", 0, owed)
             /\ UNCHANGED screen
    <3>1. pending' = FALSE
      BY <2>6 DEF Send
    <3> QED BY <2>2, <2>4, <2>5, <2>6, <3>1 DEF WaitsForChoice,
            ReviewShowsContext, AddressShownIsKey, BlindGate
  <2>7. CASE /\ o.ok
             /\ screen' = ReviewScreen([c EXCEPT !.address = o.address], blind)
             /\ Await(owed)
    <3>1. /\ screen'.kind = "review"
          /\ screen'.address = o.address
          /\ screen'.m_hash = c.m_hash
          /\ screen'.tx = c.tx_data
          /\ screen'.items = Items(N_storage.settings, c.tx_data)
      BY <2>7 DEF ReviewScreen, Contexts
    <3>2. pending' = owed
      BY <2>7 DEF Await
    <3>3. HasData(c.tx_data) =>
            "Transaction hash" \in Items(N_storage.settings, c.tx_data)
      BY DEF Items
    <3>4. owed => HoldsDecodedTx(G_context)'
      BY <2>1 DEF HoldsDecodedTx, ReviewReady
    <3>5. ReviewShowsContext'
      BY <2>1, <2>2, <2>3, <2>7, <3>1, <3>2, <3>4 DEF ReviewShowsContext
    <3>6. BlindGate'
      BY <2>2, <3>1, <3>3 DEF BlindGate
    <3> QED BY <2>4, <2>5, <3>1, <3>2, <3>5, <3>6
            DEF WaitsForChoice, AddressShownIsKey
  <2> QED BY <1>2, <2>6, <2>7
<1> QED BY <1>1, <1>2 DEF Display

\* A step that leaves every screen-related part of the state alone, and
\* answers at once, only has to account for the context and the storage.
LEMMA AnsweredSafe ==
  ASSUME Inv, TypeOK', pending' = FALSE, UNCHANGED screen,
         screen.kind # "address",
         N_storage'.settings = N_storage.settings,
         AddressMatchesKey', ApprovedHoldsSignature'
  PROVE  Inv'
BY DEF Inv, WaitsForChoice, ReviewShowsContext, WalkFollowsContext,
       AddressShownIsKey, BlindGate

\* Refused data disturbs no invariant.
LEMMA RefuseDataSafe ==
  ASSUME Inv, ~pending, NEW chunk, RefuseData(chunk), TypeOK'
  PROVE  Inv'
<1>1. pending' = FALSE /\ UNCHANGED <<G_context, N_storage, screen>>
  BY DEF RefuseData, Reply, Send
<1>2. screen.kind # "address"
  BY DEF Inv, AddressShownIsKey
<1> QED BY <1>1, <1>2, AnsweredSafe
        DEF Inv, AddressMatchesKey, ApprovedHoldsSignature

\* The handler's choice between refusal, calldata walk and review.
LEMMA RouteSafe ==
  ASSUME Inv, TypeOK', ~pending, NEW c \in Contexts, Route(c),
         HoldsDecodedTx(c),
         c.address = G_context.address, c.bip32_path = G_context.bip32_path
  PROVE  Inv'
<1>1. screen.kind # "address"
  BY DEF Inv, AddressShownIsKey
<1>2. c.state = "STATE_PARSED"
  BY DEF HoldsDecodedTx, ReviewReady
<1>3. CASE /\ screen' = BlindSigningNotice
           /\ G_context' = c
           /\ Reply("SW_SIGNATURE_FAIL")
           /\ UNCHANGED <<N_storage, walk>>
  BY <1>2, <1>3 DEF Reply, Send, BlindSigningNotice, Blank, Inv,
     WaitsForChoice,
     ReviewShowsContext, WalkFollowsContext, AddressShownIsKey,
     AddressMatchesKey, ApprovedHoldsSignature, BlindGate
<1>4. CASE /\ DebuggedCall(c.tx_data)
           /\ walk' = SelectorFirst(ParamCount(c.tx_data.data_len))
           /\ screen' = Blank("selector")
           /\ G_context' = c
           /\ Await(TRUE)
           /\ UNCHANGED N_storage
  <2>1. screen'.kind = "selector" /\ walk'.count = ParamCount(c.tx_data.data_len)
    BY <1>4 DEF Blank, SelectorFirst
  <2>2. HoldsDecodedTx(G_context)'
    BY <1>4 DEF HoldsDecodedTx, ReviewReady
  <2>3. WalkFollowsContext'
    BY <1>4, <2>1, <2>2 DEF WalkFollowsContext, SelectorFirst
  <2>4. BlindGate'
    BY <1>4, <2>1 DEF BlindGate, DebuggedCall
  <2>5. AddressMatchesKey'
    BY <1>4 DEF AddressMatchesKey, Inv
  <2> QED BY <1>2, <1>4, <2>1, <2>3, <2>4, <2>5 DEF Inv, WaitsForChoice,
          ReviewShowsContext, AddressShownIsKey, ApprovedHoldsSignature
<1>5. CASE /\ ~BlindSigningOff(c.tx_data)
           /\ Display(c, HasData(c.tx_data) /\ ~DebuggedCall(c.tx_data), TRUE)
  <2>1. (HasData(c.tx_data) /\ ~DebuggedCall(c.tx_data)) \in BOOLEAN
    OBVIOUS
  <2>2. HasData(c.tx_data) => "enable_blind_signing" \in N_storage.settings
    BY <1>5 DEF BlindSigningOff
  <2>3. /\ WaitsForChoice' /\ ReviewShowsContext'
        /\ pending' => screen'.kind = "review"
        /\ AddressShownIsKey' /\ AddressMatchesKey'
        /\ ApprovedHoldsSignature' /\ BlindGate'
    BY <1>1, <1>5, <2>1, <2>2, DisplaySafe
  <2>4. WalkFollowsContext'
    BY <2>3 DEF WalkFollowsContext
  <2> QED BY <2>3, <2>4 DEF Inv
<1> QED BY <1>3, <1>4, <1>5 DEF Route

\* Every command keeps the invariants.
LEMMA HostSafe == Inv /\ Host => Inv'
<1> SUFFICES ASSUME Inv, Host PROVE Inv'
  OBVIOUS
<1>0. TypeOK /\ TypeOK'
  BY HostType DEF Inv
<1>1. ASSUME ~pending PROVE screen.kind # "address"
  BY <1>1 DEF Inv, AddressShownIsKey
<1>2. ASSUME NEW path \in KeptPaths, NEW readable \in BOOLEAN,
             OpenSession(path, readable)
      PROVE  Inv'
  <2>1. /\ ~pending /\ pending' = FALSE /\ UNCHANGED screen
        /\ N_storage'.settings = N_storage.settings
    BY <1>2, <1>0 DEF OpenSession, Reply, Send, TypeOK, Storages
  <2>2. G_context'.address = NoPath /\ G_context'.state = "STATE_NONE"
    BY <1>2 DEF OpenSession, SessionContext, ZeroContext
  <2>3. AddressMatchesKey' /\ ApprovedHoldsSignature'
    BY <2>2 DEF AddressMatchesKey, ApprovedHoldsSignature
  <2> QED BY <1>0, <1>1, <2>1, <2>3, AnsweredSafe
<1>3. ASSUME NEW path \in KeptPaths, NEW readable \in BOOLEAN,
             NEW display \in BOOLEAN, GetPublicKey(path, readable, display)
      PROVE  Inv'
  <2>0. ~pending
    BY <1>3 DEF GetPublicKey
  <2>1. AddressContext(path).address = NoPath
    BY DEF AddressContext, ZeroContext
  <2>2. ASSUME G_context' = AddressContext(path), N_storage' = KeyStored(NoPath),
               Reply("SW_WRONG_DATA_LENGTH"), UNCHANGED screen
        PROVE  Inv'
    <3>1. pending' = FALSE /\ N_storage'.settings = N_storage.settings
      BY <2>2, <1>0 DEF Reply, Send, KeyStored, TypeOK, Storages
    <3>2. AddressMatchesKey' /\ ApprovedHoldsSignature'
      BY <2>2 DEF AddressContext, ZeroContext, AddressMatchesKey,
                  ApprovedHoldsSignature
    <3> QED BY <1>0, <1>1, <2>0, <2>2, <3>1, <3>2, AnsweredSafe
  <2>3. ASSUME NEW o \in AddressOutcomes(path, NoPath,
                                         AddressContext(path).address),
               NEW c, c = [AddressContext(path) EXCEPT !.address = o.address],
               G_context' = c, N_storage' = KeyStored(o.pk),
               \/ Reply("CX_ERROR") /\ UNCHANGED screen
               \/ Reply("SW_DISPLAY_ADDRESS_FAIL") /\ UNCHANGED screen
               \/ o.ok /\ screen' = AddressScreen(c) /\ Await(TRUE)
               \/ Send("SW_OK", "address", 0, TRUE) /\ UNCHANGED screen
        PROVE  Inv'
    <3>1. /\ c.address = o.address /\ c.bip32_path = path
          /\ c.state = "STATE_NONE" /\ c.req_type = "CONFIRM_ADDRESS"
      BY <2>3 DEF AddressContext, ZeroContext
    <3>2. /\ o.address # NoPath => o.pk = path /\ o.address = path
          /\ o.ok => o.pk = path /\ o.address = path
      BY <2>1, <2>3, AddressOutcomesType DEF KeptPaths
    <3>3. N_storage'.pk = o.pk /\ N_storage'.settings = N_storage.settings
      BY <2>3, <1>0 DEF KeyStored, TypeOK, Storages
    <3>4. AddressMatchesKey' /\ ApprovedHoldsSignature'
      BY <2>3, <3>1, <3>2, <3>3 DEF AddressMatchesKey, ApprovedHoldsSignature
    <3>5. CASE pending' = FALSE /\ UNCHANGED screen
      BY <1>0, <1>1, <2>0, <3>3, <3>4, <3>5, AnsweredSafe
    <3>6. CASE o.ok /\ screen' = AddressScreen(c) /\ Await(TRUE)
      <4>1. screen'.kind = "address" /\ screen'.address = c.address
        BY <3>6 DEF AddressScreen, Blank
      <4> QED BY <1>0, <2>3, <3>1, <3>2, <3>3, <3>4, <3>6, <4>1
              DEF Inv, Await, WaitsForChoice, ReviewShowsContext,
                  WalkFollowsContext, AddressShownIsKey, BlindGate
    <3> QED BY <2>3, <3>5, <3>6 DEF Reply, Send
  <2> QED BY <1>3, <2>2, <2>3 DEF GetPublicKey
<1>4. ASSUME NEW chunk \in Chunks, MoreData(chunk)
      PROVE  Inv'
  <2>0. ~pending
    BY <1>4 DEF MoreData
  <2>1. CASE RefuseData(chunk)
    BY <1>0, <2>0, <2>1, RefuseDataSafe
  <2>2. CASE /\ SessionOpen
             /\ G_context' = [G_context EXCEPT !.raw_tx = @ \o chunk]
             /\ Reply("SW_OK")
             /\ UNCHANGED <<N_storage, screen, walk>>
    <3>1. /\ G_context'.state = "STATE_NONE"
          /\ G_context'.address = G_context.address
          /\ G_context'.bip32_path = G_context.bip32_path
      BY <2>2, <1>0 DEF SessionOpen, TypeOK, Contexts
    <3>2. AddressMatchesKey' /\ ApprovedHoldsSignature'
      BY <2>2, <3>1 DEF Inv, AddressMatchesKey, ApprovedHoldsSignature
    <3>3. pending' = FALSE
      BY <2>2 DEF Reply, Send
    <3> QED BY <1>0, <1>1, <2>0, <2>2, <3>2, <3>3, AnsweredSafe
  <2> QED BY <1>4, <2>1, <2>2 DEF MoreData
<1>5. ASSUME NEW chunk \in Chunks, LastData(chunk)
      PROVE  Inv'
  <2>0. ~pending
    BY <1>5 DEF LastData
  <2>1. CASE RefuseData(chunk)
    BY <1>0, <2>0, <2>1, RefuseDataSafe
  <2>2. ASSUME NEW raw \in RawTx
        PROVE  /\ Parsed(raw).address = G_context.address
               /\ Parsed(raw).bip32_path = G_context.bip32_path
               /\ Hashed(raw).address = G_context.address
               /\ Hashed(raw).bip32_path = G_context.bip32_path
               /\ Parsed(raw).state = "STATE_PARSED"
               /\ Hashed(raw).state = "STATE_PARSED"
               /\ SessionOpen /\ Decodes(raw) => HoldsDecodedTx(Hashed(raw))
    <3>1. Decodes(raw) => DecodeInto(G_context.tx_data, raw) = Fields(raw)
      BY <1>0, DecodeType DEF TypeOK, Contexts
    <3>2. /\ Parsed(raw).address = G_context.address
          /\ Parsed(raw).bip32_path = G_context.bip32_path
          /\ Parsed(raw).state = "STATE_PARSED"
      BY <1>0 DEF Parsed, TypeOK, Contexts
    <3>3. /\ Hashed(raw).address = G_context.address
          /\ Hashed(raw).bip32_path = G_context.bip32_path
          /\ Hashed(raw).state = "STATE_PARSED"
          /\ Hashed(raw).req_type = G_context.req_type
          /\ Hashed(raw).raw_tx = raw
          /\ Hashed(raw).m_hash = Keccak256(raw)
          /\ Hashed(raw).tx_data = DecodeInto(G_context.tx_data, raw)
      <4>1. G_context \in Contexts
        BY <1>0 DEF TypeOK
      <4>2. Hashed(raw) = [G_context EXCEPT !.raw_tx = raw,
               !.state = "STATE_PARSED", !.m_hash = Keccak256(raw),
               !.tx_data = DecodeInto(G_context.tx_data, raw)]
        BY <4>1, HashedType
      <4> HIDE DEF Hashed, DecodeInto
      <4> QED BY <4>1, <4>2 DEF Contexts
    <3> QED BY <3>1, <3>2, <3>3 DEF HoldsDecodedTx, ReviewReady, SessionOpen
  <2>3. ASSUME NEW raw \in RawTx,
               \/ /\ G_context' = Parsed(raw)
                  /\ Reply("SW_SIGNATURE_FAIL")
                  /\ UNCHANGED <<N_storage, screen, walk>>
               \/ /\ G_context' = Hashed(raw)
                  /\ Reply("SW_TX_PARSING_FAIL")
                  /\ UNCHANGED <<N_storage, screen, walk>>
        PROVE  Inv'
    <3>1. AddressMatchesKey' /\ ApprovedHoldsSignature'
      BY <2>2, <2>3 DEF Inv, AddressMatchesKey, ApprovedHoldsSignature
    <3>2. pending' = FALSE
      BY <2>3 DEF Reply, Send
    <3> QED BY <1>0, <1>1, <2>0, <2>3, <3>1, <3>2, AnsweredSafe
  <2>4. ASSUME NEW raw \in RawTx, SessionOpen, Decodes(raw), Route(Hashed(raw))
        PROVE  Inv'
    BY <1>0, <2>0, <2>2, <2>4, HashedType, RouteSafe DEF TypeOK
  <2>5. Fits(chunk) => G_context.raw_tx \o chunk \in RawTx
    BY <1>0, AppendFits DEF TypeOK
  <2> QED BY <1>5, <2>1, <2>3, <2>4, <2>5 DEF LastData
<1>6. ASSUME NEW i \in 1..LAST_SIG_CHUNK, SigChunk(i)
      PROVE  Inv'
  <2>0. ~pending /\ UNCHANGED screen
    BY <1>6 DEF SigChunk
  <2>1. CASE MayServe /\ SendSigChunk(i, G_context, N_storage, TRUE)
    <3>1. /\ pending' = FALSE
          /\ N_storage'.settings = N_storage.settings
          /\ N_storage'.pk = N_storage.pk
          /\ N_storage'.sig = N_storage.sig
          /\ \/ G_context' = ZeroContext
             \/ /\ G_context' = G_context
                /\ N_storage'.is_sending_signature
      BY <1>0, <2>1, BoundAssumption
         DEF SendSigChunk, Send, SendingAfter, ContextAfter, MayServe,
             TypeOK, Storages
    <3>2. AddressMatchesKey'
      BY <3>1 DEF Inv, AddressMatchesKey, ZeroContext
    <3>3. ApprovedHoldsSignature'
      BY <2>0, <3>1 DEF Inv, ApprovedHoldsSignature, ZeroContext
    <3> QED BY <1>0, <1>1, <2>0, <3>1, <3>2, <3>3, AnsweredSafe
  <2>2. CASE Reply("SW_BAD_STATE") /\ UNCHANGED <<G_context, N_storage>>
    <3>1. pending' = FALSE
      BY <2>2 DEF Reply, Send
    <3>2. AddressMatchesKey' /\ ApprovedHoldsSignature'
      BY <2>0, <2>2, <3>1 DEF Inv, AddressMatchesKey, ApprovedHoldsSignature
    <3> QED BY <1>0, <1>1, <2>0, <2>2, <3>1, <3>2, AnsweredSafe
  <2> QED BY <1>6, <2>1, <2>2 DEF SigChunk
<1>7. ASSUME ~pending, pending' = FALSE,
             UNCHANGED <<G_context, N_storage, screen>>
      PROVE  Inv'
  <2>1. AddressMatchesKey' /\ ApprovedHoldsSignature'
    BY <1>7 DEF Inv, AddressMatchesKey, ApprovedHoldsSignature
  <2> QED BY <1>0, <1>1, <1>7, <2>1, AnsweredSafe
<1>8. ASSUME NEW i \in 0..(PK_CHUNKS - 1), PkChunk(i)
      PROVE  Inv'
  BY <1>7, <1>8 DEF PkChunk, Send
<1>9. ASSUME NEW sw \in PlainStatusWords, PlainAnswer(sw)
      PROVE  Inv'
  BY <1>7, <1>9 DEF PlainAnswer, Reply, Send
<1> QED BY <1>2, <1>3, <1>4, <1>5, <1>6, <1>8, <1>9 DEF Host, KeptPaths

\* One step of the walk: the next parameter, or the review after the last.
LEMMA ConfirmCalldataSafe == Inv /\ ConfirmCalldata => Inv'
<1> SUFFICES ASSUME Inv, ConfirmCalldata PROVE Inv'
  OBVIOUS
<1>0. TypeOK /\ TypeOK'
  BY UserType DEF Inv, User, Choose
<1>1. /\ screen.kind \in {"selector", "param"}
      /\ walk' = [walk EXCEPT !.current = "PARAMETER_CONFIRMATION",
                              !.index = NextIndex(walk)]
  BY DEF ConfirmCalldata
<1>2. /\ walk'.current = "PARAMETER_CONFIRMATION"
      /\ walk'.index = NextIndex(walk)
      /\ walk'.count = walk.count
  BY <1>0, <1>1 DEF TypeOK, Walks
<1>3. ASSUME pending
      PROVE  /\ HoldsDecodedTx(G_context)
             /\ walk.count = ParamCount(G_context.tx_data.data_len)
  BY <1>1, <1>3 DEF Inv, WalkFollowsContext
<1>4. {"enable_debug_smart_contract", "enable_blind_signing"}
        \subseteq N_storage.settings
  BY <1>1 DEF Inv, BlindGate
<1>5. CASE /\ MoreParameters(walk)
           /\ screen' = Blank("param")
           /\ UNCHANGED <<G_context, N_storage, pending, rsp>>
  <2>1. screen'.kind = "param"
    BY <1>5 DEF Blank
  <2>2. walk'.index < walk'.count
    BY <1>2, <1>5 DEF MoreParameters
  <2>3. WalkFollowsContext'
    BY <1>2, <1>3, <1>5, <2>1, <2>2
       DEF WalkFollowsContext, HoldsDecodedTx, ReviewReady
  <2>4. AddressMatchesKey' /\ BlindGate'
    BY <1>4, <1>5, <2>1 DEF Inv, AddressMatchesKey, BlindGate
  <2>5. ApprovedHoldsSignature'
    BY <1>1, <1>5 DEF Inv, ApprovedHoldsSignature
  <2> QED BY <1>0, <2>1, <2>3, <2>4, <2>5
          DEF Inv, WaitsForChoice, ReviewShowsContext, AddressShownIsKey
<1>6. CASE Display(G_context, TRUE, pending)
  <2>1. /\ WaitsForChoice' /\ ReviewShowsContext'
        /\ pending' => screen'.kind = "review"
        /\ AddressShownIsKey' /\ AddressMatchesKey'
        /\ ApprovedHoldsSignature' /\ BlindGate'
    BY <1>0, <1>1, <1>3, <1>4, <1>6, DisplaySafe DEF TypeOK
  <2>2. WalkFollowsContext'
    BY <2>1 DEF WalkFollowsContext
  <2> QED BY <1>0, <2>1, <2>2 DEF Inv
<1> QED BY <1>5, <1>6 DEF ConfirmCalldata

\* Signing keeps the promise of the state it ends in: approved with the
\* verified signature in flash, or not approved.
LEMMA ApproveTransactionSafe == Inv /\ ApproveTransaction => Inv'
<1> SUFFICES ASSUME Inv, ApproveTransaction PROVE Inv'
  OBVIOUS
<1>0. TypeOK /\ TypeOK'
  BY UserType DEF Inv, User, Choose
<1>1. /\ screen'.kind = "status"
      /\ screen' = StatusScreen
  BY DEF ApproveTransaction, StatusScreen, Blank
<1>2. PICK o \in SigningOutcomes(G_context.bip32_path, G_context.m_hash,
                                 N_storage) :
        LET n == [N_storage EXCEPT !.sig = o.sig]
        IN \/ /\ N_storage' = n
              /\ G_context' = SigningFailed(Approved(G_context))
              /\ CallbackReply("SW_SIGNATURE_FAIL")
           \/ o.ok /\ SendSigChunk(0, Approved(G_context), n, pending)
  BY DEF ApproveTransaction
<1>3. pending' = FALSE
  BY <1>2 DEF CallbackReply, SendSigChunk, Send
<1>4. /\ G_context.bip32_path \in KeptPaths /\ G_context.m_hash \in Digests
      /\ N_storage \in Storages /\ G_context \in Contexts
  BY <1>0 DEF TypeOK, Contexts
<1>5. o.ok => /\ N_storage.pk = G_context.bip32_path
              /\ o.sig = SignatureOf(G_context.bip32_path, G_context.m_hash)
  BY <1>4, SigningOutcomesType
<1>6. /\ G_context'.address = G_context.address
      /\ G_context'.bip32_path = G_context.bip32_path
      /\ G_context'.m_hash = G_context.m_hash
      /\ N_storage'.pk = N_storage.pk
      /\ \/ G_context'.state = "STATE_NONE"
         \/ /\ o.ok
            /\ N_storage'.sig = o.sig
            /\ N_storage'.is_sending_signature
  <2>1. CASE /\ N_storage' = [N_storage EXCEPT !.sig = o.sig]
             /\ G_context' = SigningFailed(Approved(G_context))
    BY <1>4, <2>1 DEF SigningFailed, Approved, Contexts, Storages
  <2>2. CASE o.ok /\ SendSigChunk(0, Approved(G_context),
                                  [N_storage EXCEPT !.sig = o.sig], pending)
    <3>1. G_context' = Approved(G_context)
      BY <2>2, BoundAssumption DEF SendSigChunk, ContextAfter
    <3>2. N_storage' = [N_storage EXCEPT !.sig = o.sig,
                                         !.is_sending_signature = TRUE]
      BY <1>4, <2>2 DEF SendSigChunk, SendingAfter, Storages
    <3> QED BY <1>4, <2>2, <3>1, <3>2 DEF Approved, Contexts, Storages
  <2> QED BY <1>2, <2>1, <2>2
<1>7. AddressMatchesKey'
  BY <1>6 DEF Inv, AddressMatchesKey
<1>8. ApprovedHoldsSignature'
  BY <1>1, <1>3, <1>5, <1>6 DEF ApprovedHoldsSignature
<1> QED BY <1>0, <1>1, <1>3, <1>7, <1>8
        DEF Inv, WaitsForChoice, ReviewShowsContext, WalkFollowsContext,
            AddressShownIsKey, BlindGate

\* Every callback keeps the invariants.
LEMMA UserSafe == Inv /\ User => Inv'
<1> SUFFICES ASSUME Inv, User PROVE Inv'
  OBVIOUS
<1>0. TypeOK /\ TypeOK'
  BY UserType DEF Inv
<1>1. ASSUME screen' = StatusScreen, pending' = FALSE,
             AddressMatchesKey', ApprovedHoldsSignature'
      PROVE  Inv'
  <2>1. screen'.kind = "status"
    BY <1>1 DEF StatusScreen, Blank
  <2> QED BY <1>0, <1>1, <2>1 DEF Inv, WaitsForChoice, ReviewShowsContext,
          WalkFollowsContext, AddressShownIsKey, BlindGate
<1>2. CASE Reject
  <2>1. /\ screen' = StatusScreen /\ pending' = FALSE
        /\ G_context' = ZeroContext
    BY <1>2 DEF Reject, Deny, CallbackReply, Send
  <2>2. AddressMatchesKey' /\ ApprovedHoldsSignature'
    BY <2>1 DEF AddressMatchesKey, ApprovedHoldsSignature, ZeroContext
  <2> QED BY <1>1, <2>1, <2>2
<1>3. CASE ApproveAddress
  <2>1. /\ screen' = StatusScreen /\ pending' = FALSE
        /\ screen.kind = "address" /\ UNCHANGED N_storage
    BY <1>3 DEF ApproveAddress, Send
  <2>2. G_context.req_type = "CONFIRM_ADDRESS"
    BY <2>1 DEF Inv, AddressShownIsKey
  <2>3. /\ G_context'.req_type = G_context.req_type
        /\ G_context'.address = G_context.address
        /\ G_context'.bip32_path = G_context.bip32_path
    BY <1>0, <1>3 DEF ApproveAddress, TypeOK, Contexts
  <2>4. AddressMatchesKey'
    BY <2>1, <2>3 DEF Inv, AddressMatchesKey
  <2>5. ApprovedHoldsSignature'
    BY <2>1, <2>2, <2>3 DEF ApprovedHoldsSignature, StatusScreen, Blank
  <2> QED BY <1>1, <2>1, <2>4, <2>5
<1>4. CASE LeaveScreen
  <2>1. /\ screen.kind \in {"status", "blind_error"} /\ screen'.kind = "home"
        /\ UNCHANGED <<G_context, N_storage, walk, pending>>
    BY <1>4 DEF LeaveScreen, HomePage, Blank
  <2>2. ~pending
    BY <2>1 DEF Inv, WaitsForChoice
  <2> QED BY <1>0, <2>1, <2>2 DEF Inv, WaitsForChoice, ReviewShowsContext,
          WalkFollowsContext, AddressShownIsKey, AddressMatchesKey,
          ApprovedHoldsSignature, BlindGate
<1>5. ASSUME NEW s \in Switches, Toggle(s)
      PROVE  Inv'
  <2>1. /\ screen.kind = "home"
        /\ UNCHANGED <<G_context, screen, walk, pending>>
        /\ N_storage'.sig = N_storage.sig
        /\ N_storage'.pk = N_storage.pk
        /\ N_storage'.is_sending_signature = N_storage.is_sending_signature
    BY <1>0, <1>5 DEF Toggle, TypeOK, Storages
  <2> QED BY <1>0, <2>1 DEF Inv, WaitsForChoice, ReviewShowsContext,
          WalkFollowsContext, AddressShownIsKey, AddressMatchesKey,
          ApprovedHoldsSignature, BlindGate
<1> QED BY <1>2, <1>3, <1>4, <1>5, ConfirmCalldataSafe,
           ApproveTransactionSafe DEF User, Choose

\* A restart keeps the invariants: it wipes all that they relate.
LEMMA RestartSafe == Inv /\ Restart => Inv'
<1> SUFFICES ASSUME Inv, Restart PROVE Inv'
  OBVIOUS
<1>1. TypeOK'
  BY RestartType DEF Inv
<1>2. /\ G_context'.address = NoPath /\ G_context'.state = "STATE_NONE"
      /\ screen'.kind = "home" /\ pending' = FALSE
  BY DEF Restart, ZeroContext, HomePage, Blank
<1> QED BY <1>1, <1>2 DEF Inv, WaitsForChoice, ReviewShowsContext,
        WalkFollowsContext, AddressShownIsKey, AddressMatchesKey,
        ApprovedHoldsSignature, BlindGate

\* A step outside the application keeps the invariants.
LEMMA StutterSafe == Inv /\ UNCHANGED vars => Inv'
<1> SUFFICES ASSUME Inv, UNCHANGED vars PROVE Inv'
  OBVIOUS
<1>1. UNCHANGED <<G_context, N_storage, screen, walk, pending>> /\ UNCHANGED rsp
  BY DEF vars
<1>2. TypeOK'
  BY <1>1 DEF Inv, TypeOK
<1> QED BY <1>1, <1>2 DEF Inv, WaitsForChoice, ReviewShowsContext,
        HoldsDecodedTx, ReviewReady, WalkFollowsContext, AddressShownIsKey,
        AddressMatchesKey, ApprovedHoldsSignature, BlindGate

\* The invariants hold after installation.
LEMMA InitSafe == Init => Inv
<1> SUFFICES ASSUME Init PROVE Inv
  OBVIOUS
<1>1. TypeOK
  BY InitType
<1>2. /\ G_context.address = NoPath /\ G_context.state = "STATE_NONE"
      /\ screen.kind = "home" /\ pending = FALSE
  BY DEF Init, ZeroContext, HomePage, Blank
<1> QED BY <1>1, <1>2 DEF Inv, WaitsForChoice, ReviewShowsContext,
        WalkFollowsContext, AddressShownIsKey, AddressMatchesKey,
        ApprovedHoldsSignature, BlindGate

\* Every step keeps them.
LEMMA NextSafe == Inv /\ [Next]_vars => Inv'
BY HostSafe, UserSafe, RestartSafe, StutterSafe DEF Next

\* The conjunction of the invariants is inductive.
LEMMA Invariance == Spec => []Inv
BY InitSafe, NextSafe, PTL DEF Spec

\* A review that a command waits for shows what its approval will sign.
THEOREM ReviewIsFaithful == Spec => []ReviewShowsContext
<1>1. Inv => ReviewShowsContext
  BY DEF Inv
<1> QED BY <1>1, Invariance, PTL

\* buildScreen never indexes a parameter outside the calldata it walks, and
\* the calldata is that of the transaction in the context.
THEOREM WalkIsWithinCalldata == Spec => []WalkFollowsContext
<1>1. Inv => WalkFollowsContext
  BY DEF Inv
<1> QED BY <1>1, Invariance, PTL

\* The address shown by GET_PUBLIC_KEY belongs to the key the host fetches.
THEOREM ShownAddressIsKey == Spec => []AddressShownIsKey
<1>1. Inv => AddressShownIsKey
  BY DEF Inv
<1> QED BY <1>1, Invariance, PTL

\* An address in the context, its path and the public key in flash belong
\* together, in every session and between the commands.
THEOREM AddressBelongsToKey == Spec => []AddressMatchesKey
<1>1. Inv => AddressMatchesKey
  BY DEF Inv
<1> QED BY <1>1, Invariance, PTL

\* Whenever signature chunks may be served, flash holds the verified signature
\* of the context's transaction.
THEOREM ApprovedIsSigned == Spec => []ApprovedHoldsSignature
<1>1. Inv => ApprovedHoldsSignature
  BY DEF Inv
<1> QED BY <1>1, Invariance, PTL

\* No transaction with data is put before the user while the setting that
\* enables blind signing is off.
THEOREM BlindSigningIsGated == Spec => []BlindGate
<1>1. Inv => BlindGate
  BY DEF Inv
<1> QED BY <1>1, Invariance, PTL

\* No command is left waiting on a screen that offers no choice.
THEOREM NoCommandIsStranded == Spec => []WaitsForChoice
<1>1. Inv => WaitsForChoice
  BY DEF Inv
<1> QED BY <1>1, Invariance, PTL

-----------------------------------------------------------------------------
(* What a step may do *)

\* Every host action is a command, which the loop of app_main takes only when
\* it has answered the one before.
LEMMA HostNeedsIdle == Host => ~pending
BY DEF Host, OpenSession, GetPublicKey, MoreData, LastData, SigChunk, PkChunk,
       PlainAnswer

\* What an answer carries.
LEMMA Sent ==
  ASSUME NEW sw, NEW what, NEW i, NEW owed, Send(sw, what, i, owed)
  PROVE  rsp'.what = what /\ rsp'.index = i /\ rsp'.owed = owed
BY DEF Send, Response

\* A status word alone is no signature chunk.
LEMMA Replied == ASSUME NEW sw, Reply(sw) PROVE rsp'.what = "nothing"
BY Sent DEF Reply

\* Nor is the silence of a handler that waits for the user.
LEMMA Awaited == ASSUME NEW owed, Await(owed) PROVE rsp'.what = "nothing"
BY DEF Await, NoResponse, Response

\* Nor is what ui_display_transaction_bs_choice answers.
LEMMA Displayed ==
  ASSUME NEW c, NEW blind, NEW owed, Display(c, blind, owed)
  PROVE  rsp'.what = "nothing"
BY Sent, Awaited DEF Display

\* Besides the two servers of signature chunks, no host action answers one.
LEMMA HostServes ==
  ASSUME TypeOK, Host, rsp'.what = "sig"
  PROVE  /\ MayServe
         /\ rsp'.index # 0
         /\ N_storage'.sig = N_storage.sig
         /\ N_storage'.pk = N_storage.pk
<1>1. PICK i \in 1..LAST_SIG_CHUNK : SigChunk(i)
  <2>1. ASSUME NEW path, NEW readable, OpenSession(path, readable) PROVE FALSE
    BY <2>1, Replied DEF OpenSession
  <2>2. ASSUME NEW path, NEW readable, NEW display,
               GetPublicKey(path, readable, display)
        PROVE  FALSE
    BY <2>2, Replied, Awaited, Sent DEF GetPublicKey
  <2>3. ASSUME NEW chunk, MoreData(chunk) PROVE FALSE
    BY <2>3, Replied DEF MoreData, RefuseData
  <2>4. ASSUME NEW chunk, LastData(chunk) PROVE FALSE
    <3>1. ASSUME NEW c, Route(c) PROVE FALSE
      BY <3>1, Replied, Awaited, Displayed DEF Route
    <3> QED BY <2>4, <3>1, Replied DEF LastData, RefuseData
  <2>5. ASSUME NEW i, PkChunk(i) PROVE FALSE
    BY <2>5, Sent DEF PkChunk
  <2>6. ASSUME NEW sw, PlainAnswer(sw) PROVE FALSE
    BY <2>6, Replied DEF PlainAnswer
  <2> QED BY <2>1, <2>2, <2>3, <2>4, <2>5, <2>6 DEF Host
<1>2. MayServe /\ SendSigChunk(i, G_context, N_storage, TRUE)
  BY <1>1, Replied DEF SigChunk
<1>3. rsp'.index = i
  BY <1>2, Sent DEF SendSigChunk
<1> QED BY <1>2, <1>3, BoundAssumption DEF SendSigChunk, TypeOK, Storages

\* A signature chunk is served by the approval of a review, after the
\* signature was verified, or to a command in the approved state.
LEMMA Servers ==
  ASSUME TypeOK, Next, SigServed
  PROVE  \/ /\ screen.kind = "review"
            /\ rsp'.index = 0
            /\ rsp'.owed = pending
            /\ N_storage'.sig = SignatureOf(G_context.bip32_path,
                                            G_context.m_hash)
            /\ N_storage'.pk = G_context.bip32_path
         \/ /\ MayServe
            /\ rsp'.index # 0
            /\ N_storage'.sig = N_storage.sig
            /\ N_storage'.pk = N_storage.pk
<1>0. rsp' # rsp /\ rsp'.what = "sig"
  BY DEF SigServed
<1>1. CASE Host
  BY <1>0, <1>1, HostServes
<1>2. CASE ApproveTransaction
  <2>1. PICK o \in SigningOutcomes(G_context.bip32_path, G_context.m_hash,
                                   N_storage) :
          /\ o.ok
          /\ SendSigChunk(0, Approved(G_context),
                          [N_storage EXCEPT !.sig = o.sig], pending)
    BY <1>0, <1>2
       DEF ApproveTransaction, CallbackReply, Send, Response
  <2>2. /\ G_context.bip32_path \in KeptPaths /\ G_context.m_hash \in Digests
        /\ N_storage \in Storages
    BY DEF TypeOK, Contexts
  <2>3. /\ N_storage.pk = G_context.bip32_path
        /\ o.sig = SignatureOf(G_context.bip32_path, G_context.m_hash)
    BY <2>1, <2>2, SigningOutcomesType
  <2>4. N_storage'.sig = o.sig /\ N_storage'.pk = N_storage.pk
    BY <2>1, <2>2 DEF SendSigChunk, Storages
  <2> QED BY <1>2, <2>1, <2>3, <2>4
          DEF ApproveTransaction, SendSigChunk, Send, Response
<1>3. ASSUME User, ~ApproveTransaction PROVE FALSE
  <2>1. ASSUME Reject \/ ApproveAddress PROVE FALSE
    BY <1>0, <2>1, Sent DEF Reject, Deny, CallbackReply, ApproveAddress
  <2>2. ASSUME ConfirmCalldata PROVE FALSE
    BY <1>0, <2>2, Displayed DEF ConfirmCalldata
  <2>3. ASSUME LeaveScreen \/ \E s \in Switches : Toggle(s) PROVE FALSE
    BY <1>0, <2>3 DEF LeaveScreen, Toggle
  <2> QED BY <1>3, <2>1, <2>2, <2>3 DEF User, Choose
<1>4. ASSUME Restart PROVE FALSE
  BY <1>0, <1>4 DEF Restart, NoResponse, Response
<1> QED BY <1>1, <1>2, <1>3, <1>4 DEF Next

\* What the host is given for a review it asked for is the signature of what
\* that review showed.
THEOREM SigningFollowsReview == Spec => SignsWhatWasShown
<1>1. ASSUME Inv, Next, SigServed, rsp'.index = 0, rsp'.owed
      PROVE  /\ screen.kind = "review"
             /\ N_storage'.sig = SignatureOf(screen.address, screen.m_hash)
             /\ screen.m_hash = Keccak256(G_context.raw_tx)
             /\ screen.tx = Fields(G_context.raw_tx)
  <2>1. /\ screen.kind = "review" /\ pending
        /\ N_storage'.sig = SignatureOf(G_context.bip32_path, G_context.m_hash)
    BY <1>1, Servers DEF Inv
  <2>2. /\ HoldsDecodedTx(G_context)
        /\ screen.m_hash = G_context.m_hash
        /\ screen.tx = G_context.tx_data
        /\ screen.address = G_context.bip32_path
    BY <1>1, <2>1 DEF Inv, ReviewShowsContext
  <2> QED BY <2>1, <2>2 DEF HoldsDecodedTx
<1>2. Inv /\ [Next]_vars =>
        [SigServed /\ rsp'.index = 0 /\ rsp'.owed =>
           /\ screen.kind = "review"
           /\ N_storage'.sig = SignatureOf(screen.address, screen.m_hash)
           /\ screen.m_hash = Keccak256(G_context.raw_tx)
           /\ screen.tx = Fields(G_context.raw_tx)]_vars
  BY <1>1
<1> QED BY <1>2, Invariance, PTL DEF Spec, SignsWhatWasShown

\* No chunk of an unverified, partial or foreign signature leaves the device.
THEOREM ReleaseFollowsVerification == Spec => ReleasesOnlyVerified
<1>1. ASSUME Inv, Next, SigServed
      PROVE  /\ G_context.req_type = "CONFIRM_TRANSACTION" \/ rsp'.index = 0
             /\ N_storage'.sig = SignatureOf(G_context.bip32_path,
                                             G_context.m_hash)
             /\ N_storage'.pk = G_context.bip32_path
  <2>1. MayServe => /\ G_context.req_type = "CONFIRM_TRANSACTION"
                    /\ N_storage.sig = SignatureOf(G_context.bip32_path,
                                                   G_context.m_hash)
                    /\ N_storage.pk = G_context.bip32_path
    BY <1>1 DEF MayServe, Inv, ApprovedHoldsSignature
  <2> QED BY <1>1, <2>1, Servers DEF Inv
<1>2. Inv /\ [Next]_vars =>
        [SigServed =>
           /\ G_context.req_type = "CONFIRM_TRANSACTION" \/ rsp'.index = 0
           /\ N_storage'.sig = SignatureOf(G_context.bip32_path,
                                           G_context.m_hash)
           /\ N_storage'.pk = G_context.bip32_path]_vars
  BY <1>1
<1> QED BY <1>2, Invariance, PTL DEF Spec, ReleasesOnlyVerified

\* A user who reaches the review from the calldata has seen each parameter.
THEOREM WalkIsComplete == Spec => WalksEveryParameter
<1>1. ASSUME Inv, Next, pending, screen.kind \in {"selector", "param"}
      PROVE  /\ screen'.kind = "review" =>
                  IF screen.kind = "selector" THEN walk.count = 0
                  ELSE walk.index = walk.count - 1
             /\ screen'.kind = "param" =>
                  walk'.index = IF screen.kind = "selector" THEN 0
                                ELSE walk.index + 1
  <2>0. walk \in Walks
    BY <1>1 DEF Inv, TypeOK
  <2>1. IF screen.kind = "selector"
          THEN walk.current = "SELECTOR_CONFIRMATION"
          ELSE walk.current = "PARAMETER_CONFIRMATION" /\ walk.index < walk.count
    BY <1>1 DEF Inv, WalkFollowsContext, SelectorFirst
  <2>2. NextIndex(walk) = IF screen.kind = "selector" THEN 0 ELSE walk.index + 1
    BY <2>0, <2>1, BoundAssumption DEF NextIndex, Walks
  <2>3. CASE ConfirmCalldata
    <3>1. walk'.index = NextIndex(walk)
      BY <2>0, <2>3 DEF ConfirmCalldata, Walks
    <3>2. CASE screen' = Blank("param")
      BY <2>2, <3>1, <3>2 DEF Blank
    <3>3. CASE ~MoreParameters(walk)
      <4>1. IF screen.kind = "selector" THEN walk.count = 0
            ELSE walk.index = walk.count - 1
        BY <2>0, <2>1, <2>2, <3>3, BoundAssumption DEF MoreParameters, Walks
      <4>2. screen.kind # "param" => screen'.kind # "param"
        BY <2>3, <3>3 DEF ConfirmCalldata, Display, ReviewScreen
      <4> QED BY <1>1, <2>2, <3>1, <4>1, <4>2
    <3> QED BY <2>3, <3>2, <3>3 DEF ConfirmCalldata
  <2>4. CASE Reject \/ Restart
    <3>1. screen' = Blank("status") \/ screen' = HomePage
      <4>1. CASE Reject
        BY <4>1 DEF Reject, Deny, StatusScreen
      <4>2. CASE Restart
        BY <4>2 DEF Restart
      <4> QED BY <2>4, <4>1, <4>2
    <3> QED BY <3>1 DEF HomePage, Blank
  <2>5. ~Host /\ ~ApproveAddress /\ ~ApproveTransaction /\ ~LeaveScreen
        /\ ~ \E s \in Switches : Toggle(s)
    BY <1>1, HostNeedsIdle
       DEF ApproveAddress, ApproveTransaction, LeaveScreen, Toggle
  <2> QED BY <1>1, <2>3, <2>4, <2>5 DEF Next, User, Choose
<1>2. Inv /\ [Next]_vars =>
        [pending /\ screen.kind \in {"selector", "param"} =>
           /\ screen'.kind = "review" =>
                IF screen.kind = "selector" THEN walk.count = 0
                ELSE walk.index = walk.count - 1
           /\ screen'.kind = "param" =>
                walk'.index = IF screen.kind = "selector" THEN 0
                              ELSE walk.index + 1]_vars
  BY <1>1
<1> QED BY <1>2, Invariance, PTL DEF Spec, WalksEveryParameter
=============================================================================
