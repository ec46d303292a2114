------------------------------ MODULE LedgerApp ------------------------------
(***************************************************************************)
(* The application as the host and the user see it: one command at a time  *)
(* from the host, one screen at a time for the user, the request context   *)
(* G_context in RAM and N_storage in flash.  Each handler and each NBGL    *)
(* callback runs to completion in one step, because the application is a   *)
(* single loop (app_main.c:57-85) that NBGL callbacks interrupt only while *)
(* it waits for a command.                                                 *)
(*                                                                         *)
(* Data is abstract.  A key pair, its public key and its address are named *)
(* by the BIP32 path they come from; a transaction is a sequence of        *)
(* blocks; what decode_ledger_tx makes of it is a parameter.               *)
(*                                                                         *)
(* A definition named Bug... is a mutated form of the one after it.  No    *)
(* action uses it; it shows that some property depends on the original.    *)
(***************************************************************************)
EXTENDS Integers, Sequences

CONSTANTS
  Paths,                \* paths a host may ask for
  ValidPaths,           \* those is_valid_zond_bip32_path accepts
  Derivable,            \* those the operating system agrees to derive
  NoPath,               \* a zeroed path, address or public key
  TornKey,              \* a public key half written when power failed
  Byte,                 \* blocks a transaction is made of
  Chunks,               \* the data fields a host may send with SIGN_TX
  MAX_TRANSACTION_LEN,  \* capacity of raw_tx, in blocks
  ABI_MAX_PARAMS,       \* parameters abi_calldata_parse keeps
  UINT8_MOD,            \* where g_param_index, a uint8_t, wraps
  LAST_SIG_CHUNK,       \* index of the last signature chunk (17 in the code)
  PK_CHUNKS,            \* number of public key chunks (11 in the code)
  Switches,             \* the settings the user may toggle
  Faults,               \* the calls that may fail, see FaultKinds
  NoDigest,             \* a zeroed m_hash
  Keccak256(_),         \* the digest of a transaction
  Decodes(_),           \* decode_ledger_tx returns 0 on it
  Written(_),           \* the fields of tx_data it writes before it returns
  Fields(_)             \* the values it writes there

Settings == {"enable_blind_signing", "display_nonce", "display_tx_hash",
             "enable_debug_smart_contract"}

\* "truncated_path": the host's data is shorter than its path length says.
FaultKinds == {"truncated_path", "derive", "address", "format", "keccak",
               "sign", "verify"}

TxFields == {"to", "value", "data_len"}
TxData == [to: BOOLEAN, value: BOOLEAN, data_len: Nat]

RawTx == UNION {[1..n -> Byte] : n \in 0..MAX_TRANSACTION_LEN}

ASSUME PathAssumption ==
  /\ ValidPaths \subseteq Derivable
  /\ Derivable \subseteq Paths
  /\ NoPath \notin Paths
  /\ TornKey \notin Paths \cup {NoPath}

ASSUME BoundAssumption ==
  /\ MAX_TRANSACTION_LEN \in Nat
  /\ ABI_MAX_PARAMS \in Nat
  /\ UINT8_MOD \in Nat
  /\ ABI_MAX_PARAMS < UINT8_MOD
  /\ LAST_SIG_CHUNK \in Nat \ {0}
  /\ PK_CHUNKS \in Nat \ {0}

ASSUME InputAssumption ==
  /\ \A c \in Chunks : c \in Seq(Byte)
  /\ Switches \subseteq Settings
  /\ Faults \subseteq FaultKinds

ASSUME DecodeAssumption ==
  \A r \in RawTx : /\ Fields(r) \in TxData
                   /\ Written(r) \subseteq TxFields
                   /\ Decodes(r) \in BOOLEAN
                   /\ Decodes(r) => Written(r) = TxFields

VARIABLES
  G_context,  \* the request being served, in RAM
  N_storage,  \* signature, public key, settings: kept in flash
  screen,     \* what is on the screen, and whose callback the user can fire
  walk,       \* g_current_screen, g_param_index, g_param_count
  pending,    \* a command was received and its answer has not been sent
  rsp         \* the last answer; owed = some command was waiting for it

vars == <<G_context, N_storage, screen, walk, pending, rsp>>

-----------------------------------------------------------------------------
(* State *)

NoTx == [to |-> FALSE, value |-> FALSE, data_len |-> 0]

\* global_ctx_t as explicit_bzero leaves it: CONFIRM_ADDRESS and STATE_NONE
\* are the zero values of their types.
ZeroContext == [req_type |-> "CONFIRM_ADDRESS", state |-> "STATE_NONE",
                bip32_path |-> NoPath, address |-> NoPath, raw_tx |-> <<>>,
                m_hash |-> NoDigest, tx_data |-> NoTx]

\* "zero" bytes, "junk" bytes that are no signature, or the signature of
\* digest with the key of path.
ZeroSig == [kind |-> "zero", path |-> NoPath, digest |-> NoDigest]
JunkSig == [kind |-> "junk", path |-> NoPath, digest |-> NoDigest]
SignatureOf(p, d) == [kind |-> "signature", path |-> p, digest |-> d]

FreshStorage == [sig |-> ZeroSig, pk |-> NoPath, settings |-> {},
                 is_sending_signature |-> FALSE]

Blank(k) == [kind |-> k, address |-> NoPath, m_hash |-> NoDigest,
             tx |-> NoTx, items |-> {}, blind |-> FALSE]

\* ui_menu_main and ui_settings: two entrances to one set of pages.
HomePage == Blank("home")

BlindSigningNotice == Blank("blind_error")

SelectorFirst(n) == [current |-> "SELECTOR_CONFIRMATION", index |-> 0,
                     count |-> n]

\* The zero values of the walk's variables.
NoWalk == [current |-> "PARAMETER_CONFIRMATION", index |-> 0, count |-> 0]

Response(sw, what, i, owed) ==
  [sw |-> sw, what |-> what, index |-> i, owed |-> owed]

NoResponse == Response("none", "nothing", 0, TRUE)

Init == /\ G_context = ZeroContext
        /\ N_storage = FreshStorage
        /\ screen = HomePage
        /\ walk = NoWalk
        /\ pending = FALSE
        /\ rsp = NoResponse

-----------------------------------------------------------------------------
(* Answers *)

\* io_send_*: the answer goes to the command that waits for one, if any.
Send(sw, what, i, owed) == /\ rsp' = Response(sw, what, i, owed)
                           /\ pending' = FALSE

Reply(sw) == Send(sw, "nothing", 0, TRUE)      \* from a command's handler

\* A failing callback returns and leaves its command waiting.
BugCallbackReply(sw) == rsp' = NoResponse /\ UNCHANGED pending

CallbackReply(sw) == Send(sw, "nothing", 0, pending)

\* The handler returns without an answer: the screen's callback owes it.
Await(owed) == /\ rsp' = NoResponse
               /\ pending' = owed

\* Every later chunk ends the service.
BugSendingAfter(i, flag) == i = 0

\* helper_send_response_sig: chunk i, then the bookkeeping of chunks 0 and
\* the last, on context c and storage n.
SendingAfter(i, flag) == IF i = 0 THEN TRUE
                         ELSE IF i = LAST_SIG_CHUNK THEN FALSE ELSE flag

\* The context survives the last chunk.
BugContextAfter(i, c) == c

ContextAfter(i, c) == IF i = LAST_SIG_CHUNK THEN ZeroContext ELSE c

SendSigChunk(i, c, n, owed) ==
  /\ Send("SW_OK", "sig", i, owed)
  /\ N_storage' = [n EXCEPT !.is_sending_signature = SendingAfter(i, @)]
  /\ G_context' = ContextAfter(i, c)

-----------------------------------------------------------------------------
(* Deriving an address, and showing a transaction *)

\* address_from_bip32_path: the public key and the address it leaves behind
\* where pk and address were.  The key reaches flash before the address is
\* computed from it, so the second failure leaves the new key.
AddressOutcomes(path, pk, address) ==
  {o \in [ok: BOOLEAN, pk: {pk, path}, address: {address, path}] :
     \/ /\ path \notin Derivable \/ "derive" \in Faults
        /\ ~o.ok /\ o.pk = pk /\ o.address = address
     \/ /\ path \in Derivable /\ "address" \in Faults
        /\ ~o.ok /\ o.pk = path /\ o.address = address
     \/ /\ path \in Derivable
        /\ o.ok /\ o.pk = path /\ o.address = path}

\* The public key is computed, but not written to flash.
BugKeyStored(key) == N_storage

KeyStored(key) == [N_storage EXCEPT !.pk = key]

HasData(tx) == tx.data_len > 0

\* The pairs of the review: which lines it has, not how they are worded.
ToItem(tx) == IF tx.to THEN "To: address"
              ELSE IF HasData(tx) THEN "To: Contract" ELSE "To: zero address"

Items(settings, tx) ==
  {"From", ToItem(tx), "Max fees"}
    \cup (IF HasData(tx) THEN {} ELSE {"Amount"})
    \cup (IF "display_nonce" \in settings THEN {"Nonce"} ELSE {})
    \cup (IF HasData(tx) \/ "display_tx_hash" \in settings
            THEN {"Transaction hash"} ELSE {})

ReviewScreen(c, blind) ==
  [kind |-> "review", address |-> c.address, m_hash |-> c.m_hash,
   tx |-> c.tx_data, items |-> Items(N_storage.settings, c.tx_data),
   blind |-> blind]

ReviewReady(c) == /\ c.req_type = "CONFIRM_TRANSACTION"
                  /\ c.state = "STATE_PARSED"

\* ui_display_transaction_bs_choice on context c.  When it fails it answers
\* and leaves the screen, with its callback, as it was.
Display(c, blind, owed) ==
  \/ /\ ~ReviewReady(c)
     /\ G_context' = [c EXCEPT !.state = "STATE_NONE"]
     /\ Send("SW_BAD_STATE", "nothing", 0, owed)
     /\ UNCHANGED <<N_storage, screen>>
  \/ /\ ReviewReady(c)
     /\ \E o \in AddressOutcomes(c.bip32_path, N_storage.pk, c.address) :
          LET d == [c EXCEPT !.address = o.address]
          IN /\ G_context' = d
             /\ N_storage' = KeyStored(o.pk)
             /\ \/ /\ ~o.ok \/ "format" \in Faults
                   /\ Send("SW_DISPLAY_ADDRESS_FAIL", "nothing", 0, owed)
                   /\ UNCHANGED screen
                \/ /\ o.ok
                   /\ screen' = ReviewScreen(d, blind)
                   /\ Await(owed)

-----------------------------------------------------------------------------
(* SIGN_TX *)

\* A path as the command's data gives it.  When the data is shorter than
\* its length byte says, bip32_path keeps what was read before the end.
PathRead(path, readable) ==
  /\ readable => path \in Paths
  /\ ~readable => "truncated_path" \in Faults

PathAccepted(path, readable) == readable /\ path \in ValidPaths

SessionContext(path) ==
  [ZeroContext EXCEPT !.req_type = "CONFIRM_TRANSACTION",
                      !.bip32_path = path]

\* P1 = 0.  A refused path is answered with an error, but the session it
\* opened stays open.
OpenSession(path, readable) ==
  /\ ~pending
  /\ PathRead(path, readable)
  /\ G_context' = SessionContext(path)
  /\ N_storage' = [N_storage EXCEPT !.sig = ZeroSig]
  /\ Reply(IF PathAccepted(path, readable) THEN "SW_OK"
                                           ELSE "SW_WRONG_DATA_LENGTH")
  /\ UNCHANGED <<screen, walk>>

SessionOpen == /\ G_context.req_type = "CONFIRM_TRANSACTION"
               /\ G_context.state = "STATE_NONE"

\* The length is checked before the new data is counted.
BugFits(chunk) == Len(G_context.raw_tx) <= MAX_TRANSACTION_LEN

Fits(chunk) == Len(G_context.raw_tx) + Len(chunk) <= MAX_TRANSACTION_LEN

\* The two early returns of P1 = 1 and of P1 = 2, P2 = 0.
RefuseData(chunk) ==
  /\ \/ ~SessionOpen /\ Reply("SW_BAD_STATE")
     \/ SessionOpen /\ ~Fits(chunk) /\ Reply("SW_WRONG_TX_LENGTH")
  /\ UNCHANGED <<G_context, N_storage, screen, walk>>

\* P1 = 1.  The data may be empty: the dispatcher insists only if P2 = 0.
MoreData(chunk) ==
  /\ ~pending
  /\ \/ RefuseData(chunk)
     \/ /\ SessionOpen /\ Fits(chunk)
        /\ G_context' = [G_context EXCEPT !.raw_tx = @ \o chunk]
        /\ Reply("SW_OK")
        /\ UNCHANGED <<N_storage, screen, walk>>

\* to_len is not reset for an empty recipient.
BugDecodeInto(old, raw) ==
  [Fields(raw) EXCEPT !.to = @ \/ old.to]

\* decode_ledger_tx writes tx_data field by field and stops where it fails.
DecodeInto(old, raw) ==
  LET new == Fields(raw)
  IN [to |-> IF "to" \in Written(raw) THEN new.to ELSE old.to,
      value |-> IF "value" \in Written(raw) THEN new.value ELSE old.value,
      data_len |-> IF "data_len" \in Written(raw) THEN new.data_len
                                                ELSE old.data_len]

\* abi_calldata_parse: a selector, then whole slots.
ABI_SELECTOR_SIZE == 4
ABI_SLOT_SIZE == 64

AbiParses(len) == /\ len >= ABI_SELECTOR_SIZE
                  /\ (len - ABI_SELECTOR_SIZE) % ABI_SLOT_SIZE = 0

ParamCount(len) ==
  LET slots == (len - ABI_SELECTOR_SIZE) \div ABI_SLOT_SIZE
  IN IF slots > ABI_MAX_PARAMS THEN ABI_MAX_PARAMS ELSE slots

\* Contract creations slip past the setting.
BugBlindSigningOff(tx) ==
  /\ tx.to /\ HasData(tx)
  /\ "enable_blind_signing" \notin N_storage.settings

BlindSigningOff(tx) ==
  HasData(tx) /\ "enable_blind_signing" \notin N_storage.settings

DebuggedCall(tx) ==
  /\ tx.to /\ HasData(tx)
  /\ {"enable_debug_smart_contract", "enable_blind_signing"}
       \subseteq N_storage.settings

\* What handler_sign_tx does with a transaction that decoded.  Calldata
\* that does not parse falls through to the review without the warning.
Route(c) ==
  \/ /\ BlindSigningOff(c.tx_data)
     /\ screen' = BlindSigningNotice
     /\ G_context' = c
     /\ Reply("SW_SIGNATURE_FAIL")
     /\ UNCHANGED <<N_storage, walk>>
  \/ /\ DebuggedCall(c.tx_data) /\ AbiParses(c.tx_data.data_len)
     /\ walk' = SelectorFirst(ParamCount(c.tx_data.data_len))
     /\ screen' = Blank("selector")
     /\ G_context' = c
     /\ Await(TRUE)
     /\ UNCHANGED N_storage
  \/ /\ ~BlindSigningOff(c.tx_data)
     /\ ~(DebuggedCall(c.tx_data) /\ AbiParses(c.tx_data.data_len))
     /\ Display(c, HasData(c.tx_data) /\ ~DebuggedCall(c.tx_data), TRUE)
     /\ UNCHANGED walk

Parsed(raw) == [G_context EXCEPT !.raw_tx = raw, !.state = "STATE_PARSED"]

\* The hash is computed before the last data is appended.
BugHashed(raw) == [Parsed(raw) EXCEPT !.m_hash = Keccak256(G_context.raw_tx),
                                      !.tx_data = DecodeInto(@, raw)]

Hashed(raw) == [Parsed(raw) EXCEPT !.m_hash = Keccak256(raw),
                                   !.tx_data = DecodeInto(@, raw)]

\* P1 = 2, P2 = 0.  STATE_PARSED is set before the bytes are hashed or
\* decoded and is kept when either fails.
LastData(chunk) ==
  /\ ~pending
  /\ \/ RefuseData(chunk)
     \/ /\ SessionOpen /\ Fits(chunk)
        /\ LET raw == G_context.raw_tx \o chunk
           IN \/ /\ "keccak" \in Faults
                 /\ G_context' = Parsed(raw)
                 /\ Reply("SW_SIGNATURE_FAIL")
                 /\ UNCHANGED <<N_storage, screen, walk>>
              \/ /\ ~Decodes(raw)
                 /\ G_context' = Hashed(raw)
                 /\ Reply("SW_TX_PARSING_FAIL")
                 /\ UNCHANGED <<N_storage, screen, walk>>
              \/ Decodes(raw) /\ Route(Hashed(raw))

\* is_sending_signature alone decides.
BugMayServe == /\ G_context.req_type = "CONFIRM_TRANSACTION"
               /\ N_storage.is_sending_signature

MayServe == /\ G_context.req_type = "CONFIRM_TRANSACTION"
            /\ G_context.state = "STATE_APPROVED"
            /\ N_storage.is_sending_signature

\* P1 = 2, P2 = i > 0: in any order, as often as the host likes, until the
\* last chunk is served.
SigChunk(i) ==
  /\ ~pending
  /\ \/ MayServe /\ SendSigChunk(i, G_context, N_storage, TRUE)
     \/ /\ ~MayServe /\ Reply("SW_BAD_STATE")
        /\ UNCHANGED <<G_context, N_storage>>
  /\ UNCHANGED <<screen, walk>>

-----------------------------------------------------------------------------
(* GET_PUBLIC_KEY and the commands that only answer *)

\* The request is set up without the wipe.
BugAddressContext(path) ==
  [G_context EXCEPT !.req_type = "CONFIRM_ADDRESS", !.state = "STATE_NONE",
                    !.bip32_path = path]

AddressContext(path) == [ZeroContext EXCEPT !.bip32_path = path]

AddressScreen(c) == [Blank("address") EXCEPT !.address = c.address]

\* P2 = 0.  A failed derivation is answered with the raw error of the
\* cryptographic library, cut to 16 bits.  The guard of ui_display_address
\* holds by the first lines of the handler.
GetPublicKey(path, readable, display) ==
  /\ ~pending
  /\ PathRead(path, readable)
  /\ UNCHANGED walk
  /\ \/ /\ ~PathAccepted(path, readable)
        /\ G_context' = AddressContext(path)
        /\ N_storage' = KeyStored(NoPath)
        /\ Reply("SW_WRONG_DATA_LENGTH")
        /\ UNCHANGED screen
     \/ /\ PathAccepted(path, readable)
        /\ \E o \in AddressOutcomes(path, NoPath,
                                    AddressContext(path).address) :
             LET c == [AddressContext(path) EXCEPT !.address = o.address]
             IN /\ G_context' = c
                /\ N_storage' = KeyStored(o.pk)
                /\ \/ ~o.ok /\ Reply("CX_ERROR") /\ UNCHANGED screen
                   \/ /\ o.ok /\ display /\ "format" \in Faults
                      /\ Reply("SW_DISPLAY_ADDRESS_FAIL") /\ UNCHANGED screen
                   \/ /\ o.ok /\ display
                      /\ screen' = AddressScreen(c) /\ Await(TRUE)
                   \/ /\ o.ok /\ ~display
                      /\ Send("SW_OK", "address", 0, TRUE) /\ UNCHANGED screen

\* P2 = i + 1: chunk i of whatever public key is in flash.
PkChunk(i) ==
  /\ ~pending
  /\ Send("SW_OK", "pk", i, TRUE)
  /\ UNCHANGED <<G_context, N_storage, screen, walk>>

\* Commands whose handling changes no state: bad length, class, instruction
\* or parameters, and GET_VERSION and GET_APP_NAME.
PlainAnswer(sw) ==
  /\ ~pending
  /\ Reply(sw)
  /\ UNCHANGED <<G_context, N_storage, screen, walk>>

-----------------------------------------------------------------------------
(* The user.  An action is a callback of the screen that is up. *)

\* The callback leaves its screen up.
BugStatusScreen == screen

StatusScreen == Blank("status")

\* Rejection wipes the context (validate_pubkey, validate_transaction).
Deny == /\ CallbackReply("SW_DENY")
        /\ G_context' = ZeroContext
        /\ screen' = StatusScreen
        /\ UNCHANGED <<N_storage, walk>>

ApproveAddress ==
  /\ screen.kind = "address"
  /\ G_context' = [G_context EXCEPT !.state = "STATE_APPROVED"]
  /\ Send("SW_OK", "address", 0, pending)
  /\ screen' = StatusScreen
  /\ UNCHANGED <<N_storage, walk>>

Reject == screen.kind \in {"address", "selector", "param", "review"} /\ Deny

\* crypto_sign_message: what it leaves in sig and whether it returns 0.  The
\* bytes go to flash before they are checked against the key in flash.
SigningOutcomes(path, digest, n) ==
  {o \in [ok: BOOLEAN, sig: {n.sig, JunkSig, SignatureOf(path, digest)}] :
     \/ /\ path \notin Derivable \/ "derive" \in Faults
        /\ ~o.ok /\ o.sig = n.sig
     \/ /\ path \in Derivable /\ "sign" \in Faults
        /\ ~o.ok /\ o.sig = JunkSig
     \/ /\ path \in Derivable /\ (n.pk # path \/ "verify" \in Faults)
        /\ ~o.ok /\ o.sig = SignatureOf(path, digest)
     \/ /\ path \in Derivable /\ n.pk = path
        /\ o.ok /\ o.sig = SignatureOf(path, digest)}

Approved(c) == [c EXCEPT !.state = "STATE_APPROVED"]

\* The state is not taken back when signing fails.
BugSigningFailed(c) == c

\* Back to STATE_NONE with req_type, path and bytes kept: the host may go
\* on sending data in the same session.
SigningFailed(c) == [c EXCEPT !.state = "STATE_NONE"]

\* validate_transaction(true) looks at neither req_type nor state.
ApproveTransaction ==
  /\ screen.kind = "review"
  /\ \E o \in SigningOutcomes(G_context.bip32_path, G_context.m_hash,
                              N_storage) :
       LET n == [N_storage EXCEPT !.sig = o.sig]
       IN \/ /\ ~o.ok
             /\ N_storage' = n
             /\ G_context' = SigningFailed(Approved(G_context))
             /\ CallbackReply("SW_SIGNATURE_FAIL")
          \/ o.ok /\ SendSigChunk(0, Approved(G_context), n, pending)
  /\ screen' = StatusScreen
  /\ UNCHANGED walk

\* The walk starts at the second parameter; it starts over at the end.
BugNextIndexSkips(w) == IF w.current = "SELECTOR_CONFIRMATION" THEN 1
                        ELSE (w.index + 1) % UINT8_MOD
BugNextIndexCircles(w) == IF w.current = "SELECTOR_CONFIRMATION" THEN 0
                          ELSE (w.index + 1) % w.count

\* g_param_index++ on a parameter screen, 0 on the selector.
NextIndex(w) == IF w.current = "SELECTOR_CONFIRMATION" THEN 0
                ELSE (w.index + 1) % UINT8_MOD

\* One parameter too many.
BugMoreParameters(w) == NextIndex(w) <= w.count

MoreParameters(w) == NextIndex(w) < w.count

\* reviewChoice(true) of the selector and of each parameter.
ConfirmCalldata ==
  /\ screen.kind \in {"selector", "param"}
  /\ walk' = [walk EXCEPT !.current = "PARAMETER_CONFIRMATION",
                          !.index = NextIndex(walk)]
  /\ \/ /\ MoreParameters(walk)
        /\ screen' = Blank("param")
        /\ UNCHANGED <<G_context, N_storage, pending, rsp>>
     \/ /\ ~MoreParameters(walk)
        /\ Display(G_context, TRUE, pending)

\* The status screen times out, the blind signing notice is left, either
\* for the settings or for the home page, which offer the same switches.
LeaveScreen ==
  /\ screen.kind \in {"status", "blind_error"}
  /\ screen' = HomePage
  /\ UNCHANGED <<G_context, N_storage, walk, pending, rsp>>

Toggle(s) ==
  /\ screen.kind = "home"
  /\ N_storage' = [N_storage EXCEPT !.settings = (@ \ {s}) \cup ({s} \ @)]
  /\ UNCHANGED <<G_context, screen, walk, pending, rsp>>

-----------------------------------------------------------------------------
(* The application stops (quit, failed transport, power) and starts again *)

\* What a write to flash cut by a power failure may leave.  Only the review
\* callback writes sig while a command waits, and only a calldata callback
\* writes pk then; otherwise a command's handler may be the one cut.
TornSigs ==
  {N_storage.sig}
    \cup (IF pending /\ screen.kind # "review" THEN {} ELSE {JunkSig})
    \cup (IF screen.kind = "review" /\ G_context.bip32_path \in Derivable
            THEN {SignatureOf(G_context.bip32_path, G_context.m_hash)} ELSE {})

TornKeys ==
  {N_storage.pk}
    \cup (IF pending /\ screen.kind \in {"address", "review"} THEN {}
          ELSE {TornKey})

\* The flag is written after the answer has been handed over: it may not have
\* reached flash when the host already has the first chunk, or the last.
TornFlags ==
  IF rsp.what = "sig" /\ rsp.index \in {0, LAST_SIG_CHUNK} THEN BOOLEAN
  ELSE {N_storage.is_sending_signature}

Restart ==
  /\ \E s \in TornSigs, k \in TornKeys, f \in TornFlags :
       /\ s = N_storage.sig \/ k = N_storage.pk
       /\ N_storage' = [N_storage EXCEPT !.sig = s, !.pk = k,
                                         !.is_sending_signature = f]
  /\ G_context' = ZeroContext
  /\ screen' = HomePage
  /\ walk' = NoWalk
  /\ pending' = FALSE
  /\ rsp' = NoResponse

-----------------------------------------------------------------------------

PlainStatusWords ==
  {"SW_OK", "SW_WRONG_DATA_LENGTH", "SW_CLA_NOT_SUPPORTED",
   "SW_INS_NOT_SUPPORTED", "SW_WRONG_P1P2"}

Host ==
  \/ \E path \in Paths \cup {NoPath}, readable \in BOOLEAN :
       \/ OpenSession(path, readable)
       \/ \E display \in BOOLEAN : GetPublicKey(path, readable, display)
  \/ \E chunk \in Chunks : MoreData(chunk)
  \/ \E chunk \in Chunks \ {<<>>} : LastData(chunk)
  \/ \E i \in 1..LAST_SIG_CHUNK : SigChunk(i)
  \/ \E i \in 0..(PK_CHUNKS - 1) : PkChunk(i)
  \/ \E sw \in PlainStatusWords : PlainAnswer(sw)

\* The choices a screen asks of the user.
Choose == Reject \/ ApproveAddress \/ ApproveTransaction \/ ConfirmCalldata

User == Choose \/ LeaveScreen \/ \E s \in Switches : Toggle(s)

Next == Host \/ User \/ Restart

Spec == Init /\ [][Next]_vars

\* A user with a screen that asks for a choice makes one, and a screen that
\* asks for none goes away by itself or at a touch.
Fairness == WF_vars(Choose) /\ WF_vars(LeaveScreen)

FairSpec == Spec /\ Fairness

-----------------------------------------------------------------------------
(* Types *)

Kinds == {"home", "status", "blind_error", "address", "selector", "param",
          "review"}
Digests == {NoDigest} \cup {Keccak256(r) : r \in RawTx}
KeptPaths == Paths \cup {NoPath}

Contexts ==
  [req_type: {"CONFIRM_ADDRESS", "CONFIRM_TRANSACTION"},
   state: {"STATE_NONE", "STATE_PARSED", "STATE_APPROVED"},
   bip32_path: KeptPaths, address: KeptPaths, raw_tx: RawTx,
   m_hash: Digests, tx_data: TxData]

Sigs == [kind: {"zero", "junk", "signature"}, path: KeptPaths, digest: Digests]

Storages == [sig: Sigs, pk: KeptPaths \cup {TornKey},
             settings: SUBSET Settings, is_sending_signature: BOOLEAN]

ItemNames == {"From", "To: address", "To: Contract", "To: zero address",
              "Amount", "Max fees", "Nonce", "Transaction hash"}

Screens == [kind: Kinds, address: KeptPaths, m_hash: Digests, tx: TxData,
            items: SUBSET ItemNames, blind: BOOLEAN]

Walks == [current: {"SELECTOR_CONFIRMATION", "PARAMETER_CONFIRMATION"},
          index: 0..(UINT8_MOD - 1), count: 0..ABI_MAX_PARAMS]

StatusWords ==
  PlainStatusWords \cup
  {"none", "SW_DENY", "SW_BAD_STATE", "SW_WRONG_TX_LENGTH",
   "SW_TX_PARSING_FAIL", "SW_SIGNATURE_FAIL", "SW_DISPLAY_ADDRESS_FAIL",
   "CX_ERROR"}

Responses == [sw: StatusWords, what: {"nothing", "address", "sig", "pk"},
              index: Nat, owed: BOOLEAN]

\* Every variable keeps its type; raw_tx in particular never outgrows its
\* MAX_TRANSACTION_LEN bytes, whatever the host sends (sign_tx.c:103, 127).
TypeOK == /\ G_context \in Contexts
          /\ N_storage \in Storages
          /\ screen \in Screens
          /\ walk \in Walks
          /\ pending \in BOOLEAN
          /\ rsp \in Responses

-----------------------------------------------------------------------------
(* Safety *)

\* The context holds a transaction that was hashed and decoded whole.
HoldsDecodedTx(c) == /\ ReviewReady(c)
                     /\ c.m_hash = Keccak256(c.raw_tx)
                     /\ Decodes(c.raw_tx)
                     /\ c.tx_data = Fields(c.raw_tx)

\* While a command waits for a review, the screen was made from the address of
\* the sender, the hash and the fields of the very bytes in the context, and
\* the public key in flash, against which the signature will be checked, is
\* that of the path in the context.  The review callback takes all of these
\* from G_context and N_storage again (validate.c:41-114).  So what is shown is
\* of the bytes that get signed; which of it has a line is up to Items, which
\* leaves out the amount where there is data, and often the hash.
ReviewShowsContext ==
  pending /\ screen.kind = "review" =>
    /\ HoldsDecodedTx(G_context)
    /\ screen.m_hash = G_context.m_hash
    /\ screen.tx = G_context.tx_data
    /\ screen.address = G_context.bip32_path
    /\ N_storage.pk = G_context.bip32_path

\* While a command waits for the walk through the calldata, the context holds
\* the call that is walked, the walk knows its number of parameters, and it
\* is within it: buildScreen indexes params[g_param_index]
\* (ui_confirm_parameter_selector.c:95).
WalkFollowsContext ==
  pending /\ screen.kind \in {"selector", "param"} =>
    /\ HoldsDecodedTx(G_context)
    /\ walk.count = ParamCount(G_context.tx_data.data_len)
    /\ IF screen.kind = "selector" THEN walk = SelectorFirst(walk.count)
       ELSE /\ walk.current = "PARAMETER_CONFIRMATION"
            /\ walk.index < walk.count

\* The address on the screen is that of the public key whose chunks the host
\* fetches next, and the one the approval sends (send_response.c:29-38).
AddressShownIsKey ==
  screen.kind = "address" =>
    /\ pending
    /\ G_context.req_type = "CONFIRM_ADDRESS"
    /\ G_context.state = "STATE_NONE"
    /\ screen.address = G_context.address
    /\ G_context.address = N_storage.pk

\* A computed address, the path in the context and the public key in flash
\* belong together, although the key is overwritten before the address is
\* computed and wiped by every GET_PUBLIC_KEY (address.c:79-112).
AddressMatchesKey ==
  G_context.address # NoPath =>
    /\ G_context.address = G_context.bip32_path
    /\ N_storage.pk = G_context.bip32_path

\* In the only state in which signature chunks are served, flash holds the
\* signature of the context's hash with the context's path, under the public
\* key it was verified with; no screen is left that could change it.
ApprovedHoldsSignature ==
  G_context.state = "STATE_APPROVED" =>
    /\ ~pending
    /\ screen.kind \in {"status", "home"}
    /\ G_context.req_type = "CONFIRM_TRANSACTION" =>
         /\ N_storage.sig = SignatureOf(G_context.bip32_path, G_context.m_hash)
         /\ N_storage.pk = G_context.bip32_path
         /\ N_storage.is_sending_signature

\* A transaction with data is reviewed, and its calldata walked, only with
\* blind signing enabled, and its review shows the transaction hash
\* (sign_tx.c:185-187, nbgl_display_transaction.c:264-429).
BlindGate ==
  /\ screen.kind \in {"selector", "param"} =>
       {"enable_debug_smart_contract", "enable_blind_signing"}
         \subseteq N_storage.settings
  /\ screen.kind = "review" /\ HasData(screen.tx) =>
       /\ "enable_blind_signing" \in N_storage.settings
       /\ "Transaction hash" \in screen.items

\* A screen without a choice never keeps a command waiting.
WaitsForChoice ==
  pending => screen.kind \in {"address", "selector", "param", "review"}

-----------------------------------------------------------------------------
(* What a step may do *)

SigServed == rsp' # rsp /\ rsp'.what = "sig"

\* Approving the review a command waits for signs what that review was made
\* from: its hash, which is that of the bytes its fields were decoded from,
\* with the key of its sender.  What is shown is signed, though not all that is
\* signed has a line.  Nothing else starts the service of a signature that
\* some command waits for.
SignsWhatWasShown ==
  [][SigServed /\ rsp'.index = 0 /\ rsp'.owed =>
       /\ screen.kind = "review"
       /\ N_storage'.sig = SignatureOf(screen.address, screen.m_hash)
       /\ screen.m_hash = Keccak256(G_context.raw_tx)
       /\ screen.tx = Fields(G_context.raw_tx)]_vars

\* Every chunk that leaves the device is of a signature made, in the session
\* that asks for it, with the public key in flash ("verifies every signature
\* it produces before releasing it", README.md:60-63).
ReleasesOnlyVerified ==
  [][SigServed =>
       /\ G_context.req_type = "CONFIRM_TRANSACTION" \/ rsp'.index = 0
       /\ N_storage'.sig = SignatureOf(G_context.bip32_path, G_context.m_hash)
       /\ N_storage'.pk = G_context.bip32_path]_vars

\* A calldata walk that a command waits for reaches the review only from its
\* last parameter, or from the selector of a call without any, and moves by
\* one parameter at a time.
WalksEveryParameter ==
  [][pending /\ screen.kind \in {"selector", "param"} =>
       /\ screen'.kind = "review" =>
            IF screen.kind = "selector" THEN walk.count = 0
            ELSE walk.index = walk.count - 1
       /\ screen'.kind = "param" =>
            walk'.index = IF screen.kind = "selector" THEN 0
                          ELSE walk.index + 1]_vars

-----------------------------------------------------------------------------
(* Liveness *)

\* A command that waits for the user is answered (or the device restarts).
PendingAnswered == pending ~> ~pending

-----------------------------------------------------------------------------
(* Properties of hosts that never send a path the device cannot derive, on a
   device whose address computation does not fail *)

\* An answer always goes to a command that waits for it: no callback of an
\* old screen answers out of turn.
AnswersOwed == rsp.owed

\* No signature is served but of a transaction that was reviewed, decided
\* once, with nothing in between, and served until its last chunk: this is
\* the specification SigningPromise under the following reading of the state.
None == [path |-> NoPath, digest |-> NoDigest]

Promise == INSTANCE SigningPromise WITH
  Subjects <- [path: Paths, digest: {Keccak256(r) : r \in RawTx}],
  LastChunk <- LAST_SIG_CHUNK,
  review <- IF pending /\ screen.kind = "review"
              THEN [path |-> screen.address, digest |-> screen.m_hash]
              ELSE None,
  grant <- IF G_context.req_type = "CONFIRM_TRANSACTION"
                /\ G_context.state = "STATE_APPROVED"
             THEN [path |-> G_context.bip32_path,
                   digest |-> Keccak256(G_context.raw_tx)]
             ELSE None,
  served <- IF rsp.what = "sig"
              THEN {[subject |-> [path |-> N_storage.sig.path,
                                  digest |-> N_storage.sig.digest],
                     index |-> rsp.index]}
              ELSE {}

KeepsPromise == Promise!Spec
=============================================================================
