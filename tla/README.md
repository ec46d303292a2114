# A TLA+ model of the QRL v2.0 (Zond) Ledger application

This directory models the application in `src/src`: a hardware-wallet program
that derives ML-DSA-87 keys, shows addresses, reviews transactions and signs
them. Line references below are to files under `src/`; the C code is in
`src/src`, so `handler/sign_tx.c` is `src/src/handler/sign_tx.c`.

## 1. The system

The application is one loop (`app_main.c:57-85`). It receives a command
(APDU), dispatches it, and receives the next one only after the command was
answered. A handler answers at once, or shows a screen and returns; then the
answer is owed by a callback of that screen. There are no threads: what makes
the program hard is that its state is shared by requests that outlive their
handlers, and that the host may send anything in any order.

| Part | State it keeps | Operations |
| --- | --- | --- |
| Main loop, dispatcher (`app_main.c`, `apdu/dispatcher.c`) | the command being served | receive, check class, instruction and parameters, dispatch |
| `GET_PUBLIC_KEY` (`handler/get_public_key.c`) | `G_context` (address request), `N_storage.pk` | address of a path, with or without display; chunk of the key |
| `SIGN_TX` (`handler/sign_tx.c`) | `G_context` (transaction request), `N_storage.sig` | open a session, append data, last data, signature chunk |
| Decoder (`rlp_decode.c`) | `tx_data` in `G_context` | decode a type-2 transaction, field by field |
| Key and address (`address.c`) | `N_storage.pk`, `G_context.address` | check a path, derive, compute the address and its checksummed text |
| Calldata walk (`ui/ui_confirm_parameter_selector.c`) | `g_current_screen`, `g_param_index`, `g_param_count` | show selector, show parameter, go on to the review, reject |
| Transaction review (`ui/nbgl_display_transaction.c`) | the screen, text buffers | check state, derive the sender, format, show, choice |
| Address review (`ui/nbgl_display_address.c`) | the screen | check state, show, choice |
| Approval (`ui/action/validate.c`) | `G_context.state`, `N_storage.sig` | approve or reject, sign, verify |
| Answers (`helper/send_response.c`) | `is_sending_signature`, `G_context` | address, signature chunk, key chunk |
| Home page, settings (`ui/menu_nbgl.c`), notice (`ui/common_ui.c`) | four switches in `N_storage` | toggle, quit, leave |
| `GET_VERSION`, `GET_APP_NAME` | none | answer |
| Host (`tests/application_client`) | outside the device | splits a transaction, asks for chunks |

How they interact:

- **Shared state.** All requests share one `G_context` in RAM (kind of
  request, state, path, address, transaction, hash, decoded fields) and one
  `N_storage` in flash (signature, public key, switches, and whether a
  signature is being served). `GET_PUBLIC_KEY` and `SIGN_TX` wipe the first
  when they begin; the second survives a restart.
- **Callbacks.** A screen's callback takes everything it needs from
  `G_context` and `N_storage` again when it runs.
- **Calls.** `SIGN_TX` calls the decoder, then the notice, the walk or the
  review; the walk calls the review; the review calls the derivation; the
  choice calls the approval; the approval calls the answers.

What is hard, and what makes each part correct:

- *Between review and approval* the user decides at leisure about a picture of
  the state. Correct: what is signed is what was shown
  (`ReviewShowsContext`, `SignsWhatWasShown`).
- *Between approval and the last chunk* the host drives, with seventeen more
  commands and anything else it likes among them. Correct: only chunks of the
  approved and verified signature leave (`ApprovedHoldsSignature`,
  `ReleasesOnlyVerified`, `KeepsPromise`).
- *Every call can fail* — derivation, hashing, address, formatting, signing,
  verifying — and the code has written part of its state by then. Correct: the
  parts that are left still belong together (`AddressMatchesKey`,
  `ApprovedHoldsSignature`).
- *The decoder stops in the middle* and leaves fields of the transaction it was
  reading over those of an earlier one. Correct: nothing half decoded comes to
  a review that a command waits for (`ReviewShowsContext`), and what is left is
  told by where it stopped (`StoredInOrder`).
- *The decoder trusts lengths* that the host claims, in up to eight bytes.
  Correct: it reads only its input and accepts only transactions
  (`ReadsWithinInput`, `DecodesTransactions`).
- *Texts are made in fixed buffers*, in place, through several steps that cut
  or fail. Correct: what is read on the screen is the number, the address, the
  calldata (`AmountIsNotMisread`, `FormattedIsChecksummed`,
  `ScreensTellCalldata`), and it stays so while the user decides
  (`ScreenSaysWhatItShowed`).
- *Answers may be lost and several programs may use the device*, while commands
  name no session. Correct: what a host puts together is one signature, one key
  (`SignatureIsWhole`, `KeyIsWhole`), and it comes to an end
  (`SignatureReachesHost`, `HostFinishes`).
- *The walk* is a state machine of its own, with a one-byte index
  (`WalkFollowsContext`, `WalksEveryParameter`).
- *A settings gate* is passed when the transaction arrives, long before it is
  approved (`BlindGate`).
- *A command that waits for the user* must be answered by whichever callback
  the flow has reached, exactly once (`WaitsForChoice`, `PendingAnswered`,
  `AnswersOwed`).
- *Power may fail* in the middle of a write to flash.

`PROJECT.json` lists the hazards line by line, with the properties that would
catch each one.

## 2. The modules

| Module | What it is |
| --- | --- |
| `LedgerApp` | the application: state, commands, callbacks, restart; all properties |
| `SigningPromise` | the abstract specification: what the device promises its user about signatures |
| `LedgerAppClaims` | statements of documents and comments that the code does not keep |
| `MCLedgerApp` | the small instance that TLC checks |
| `LedgerAppProofs` | theorems about `LedgerApp` and their proofs |
| `SigningPromiseProofs` | `LedgerApp` implements `SigningPromise` |
| `RlpDecode` | `rlp_decode.c` as operators on byte strings; a decoding is a record that each item rewrites |
| `RlpDecoder` | the same as a machine, one item in a step |
| `RlpReference`, `RlpClaims` | what a transaction is, the eleven items of `doc/TRANSACTION.md` of the sizes `zond_tx_t` has room for, written without regard to the decoder; the decoder against it and against its documents |
| `RlpDecoderProofs` | theorems about `RlpDecoder` |
| `MCRlpDecoder` | its inputs |
| `MCDevice` | `LedgerApp` with `RlpDecode` as its decoder, on byte strings |
| `DecimalText` | amounts, fees and the nonce as text: `uint8_array_to_decimal`, `format_with_decimals` and the copies behind them |
| `AddressLine` | `format_checksummed_address` |
| `Calldata` | `abi_calldata_parse` and what the screens of the walk say |
| `ScreenTexts`, `MCScreenTexts` | the three of them side by side, and their inputs |
| `DecimalTextProofs` | theorems about the numbers of `ScreenTexts` |
| `ScreenTextsProofs` | theorems about its addresses, its calldata walk and all of its buffers |
| `SequenceLemmas` | induction over numbers, iterated functions, numbers to the base 256 and what `FlattenSeq` puts where: lemmas for four of the proof modules |
| `UiBuffer`, `MCUiBuffer` | `LedgerApp` with `g_ui_buffer`, which three screens share |
| `UiBufferProofs` | theorems about `UiBuffer` |
| `HostClient`, `MCHostClient` | `LedgerApp` with the client of `tests/`, lost answers and other programs |
| `HostClientProofs` | theorems about `HostClient` |

`LedgerApp` is the core. `MCDevice` joins it with the decoder; `UiBuffer` and
`HostClient` extend it with a variable each and compose every one of their
steps from its actions. `DecimalText`, `AddressLine` and `Calldata` stand beside
it: they model what it leaves out of a step, the texts, on real digits, letters
and bytes. They share no state, so `ScreenTexts` instantiates all three and a
behaviour of it works on one of them.

### State

| Variable | Code |
| --- | --- |
| `G_context` | the `global_ctx_t` of that name; `tx_data` keeps only what the flow tests: is there a recipient, is the value not zero, how long is the data |
| `N_storage` | `internal_storage_t`; the four switches are the set of those that are on |
| `screen` | what is on the screen and, with it, whose callback the user can fire |
| `walk` | `g_current_screen`, `g_param_index`, `g_param_count` |
| `pending` | a command was received and its answer was not sent |
| `rsp` | the last answer: status word, what it carries, chunk index, and whether a command was waiting for it |

Keys, public keys and addresses are named by the BIP-32 path they come from: a
public key of path *p* is the value *p*. A signature is the record of the path
and the digest it was made for (`SignatureOf`), or `"zero"`, or `"junk"`, the
bytes a failed signing or a torn write leaves. A transaction is a sequence of
blocks from `Byte`. `Keccak256`, and what `decode_ledger_tx` does with a
transaction (`Decodes`, `Written`, `Fields`), are parameters.

### Actions

| Action | Code |
| --- | --- |
| `OpenSession` | `SIGN_TX`, P1=0 (`sign_tx.c:72-91`) |
| `MoreData` | P1=1 (`sign_tx.c:93-118`) |
| `LastData`, `Route` | P1=2, P2=0: append, hash, decode; then notice, walk or review (`sign_tx.c:120-219`) |
| `SigChunk`, `SendSigChunk` | P1=2, P2=1..17 (`sign_tx.c:221-233`, `send_response.c:40-74`) |
| `GetPublicKey`, `PkChunk` | `GET_PUBLIC_KEY` (`get_public_key.c`, `send_response.c:76-88`) |
| `PlainAnswer` | everything that is refused by the dispatcher, and the two information commands |
| `Display`, `AddressOutcomes` | `ui_display_transaction_bs_choice`, `address_from_bip32_path` |
| `ApproveTransaction`, `SigningOutcomes` | `validate_transaction(true)`, `crypto_sign_message` |
| `ApproveAddress`, `Reject` | `validate_pubkey(true)`; the three rejections |
| `ConfirmCalldata` | `reviewChoice(true)` and `buildScreen` of the calldata walk |
| `LeaveScreen`, `Toggle` | status screen and notice end at the home page or the settings; `controls_callback` |
| `Restart` | quit, failed transport or power failure, then start |

A handler or callback is one step with everything it does, in the outcomes its
calls can have. That is sound because nothing else runs meanwhile, except that
power may fail: `Restart` therefore also leaves in flash what a write that was
cut could leave (`TornSigs`, `TornKeys`). RAM is gone then, so only flash
matters.

Failures that no input decides (derivation, hashing, address, formatting,
signing, verifying, data shorter than its path) happen when they are in the
constant `Faults`. A fault is a choice of each call.

The path of a request may be anything the parser can leave in
`bip32_path`, also one the application has just refused: the model keeps it, as
the code does. `ValidPaths` are those `is_valid_zond_bip32_path` accepts,
`Derivable` those the operating system derives.

### The modules around the core

| Module | State | Actions |
| --- | --- | --- |
| `RlpDecoder` | `rlp`, the input; `dec`: `p` (an offset), `remaining`, `payload_end`, the item that comes next, the fields of `zond_tx_t` written by this call | `Header` (`rlp_decode.c:115-147`), `Field` (one of the eleven blocks of 153-273), `End` (275-280) |
| `DecimalText` | `temp` and `result` of `uint8_array_to_decimal`, the line that is being made | `Divide`, one round of its loop, which writes its digit whether `result` has room for it or not; `Format` (`convert_amount_to_eth`); `PrintLine` |
| `AddressLine` | the caller's buffer, the hash | `Hex`, `Hash` (may fail), `Case` (`address.c:117-155`) |
| `Calldata` | the data, `calldata`, `g_param_index`, `g_ui_buffer`, the texts shown | `Call` (`sign_tx.c:188-212`), `Confirm` (`reviewChoice(true)`, `buildScreen`) |
| `UiBuffer` | `g_ui_buffer` beside the state of `LedgerApp` | every action of `LedgerApp`, with `WriteAddress`, `WriteSender` or `WriteParameter` where the code writes the buffer |
| `HostClient` | `client`: what the host is at, the path and transaction it asked for, the chunks it has | `StartSigning`, `SendMore`, `SendLast`, `AskSigChunk`, `StartKey`, `AskPkChunk`; `UserActs`; `Others`; `Breaks` |

- Lengths in `RlpDecode` are what a `size_t` of `SIZE_BYTES` bytes holds
  (`Place`), four on the devices. `remaining` is a number; that it never goes
  below zero is part of `TypeOK`, and a theorem.
- `decode_ledger_tx` is given its length as a `size_t`, so no input is longer
  than one holds (`InputsAssumption`). What an item consumed is
  an `int` in the code (`rlp_decode.c:151`) and a number in the model: the two
  differ only for items of two gigabytes, and `sign_tx.c:168` passes at most
  `MAX_TRANSACTION_LEN` (2048) bytes.
- The code does not ask whether `result` has room for a digit, nor `g_nonce` for
  the digits of a nonce. What it does after a write in front of `result` is
  undefined, so `DecimalText` ends there (`pc = "overrun"`); a nonce that is too
  long for `g_nonce` keeps all its digits in `text`. So `TypeOK` is about the
  numbers the buffers are made for: those of at most 40 digits stay within
  `result` and the line of an amount, nonces of at most nine within `g_nonce`.
  `NonceHasLine`, that every documented nonce does, is false (section 5).
- In `AddressLine` a failing hash may be any of its three calls.
- The client of `HostClient` is the one of `tests/application_client` and
  `tests/test_sign_cmd.py`. Two things are added. Answers may be lost
  (`LosesAnswers`): the host then gives up, except for a chunk, which it asks
  for again. The device allows that and the test client does not use it. Other
  programs may send sessions, data, key requests and chunk requests between its
  commands (`OthersSend`), since the transport does not tell programs apart.
  `client.mixed` records that such a command was about the thing being
  collected: a second session or data while a transaction is streamed, a second
  key while a key is fetched, a second signature while chunks are.

### What the model assumes of code outside the repository

- A screen and its callback stay until another `nbgl_useCase...` call replaces
  them. The SDK is not in the repository; this is how the application uses it.
  It matters in one place: when the review after a calldata walk fails, the
  parameter screen stays, and so does the user's way to confirm it again.
- An answer sent while no command waits is recorded with `owed = FALSE`. What
  the transport does with it is not modelled.
- `MLDSA_verify` accepts a signature exactly under the key and for the digest
  it was made for; digests of different transactions differ only if
  `Keccak256` makes them differ.
- Seeds and secret keys on the stack are not modelled.

The guard of `ui_display_address` (`nbgl_display_address.c:50-53`) is always
false where it is called, two lines after the context is set up, and has no
action of its own.

## 3. What TLC checks

### The core

The runs `any_host`, `liveness`, `claim_shown`, `claim_valid_paths` and
`claim_blind_warning` use the instance of `MCLedgerApp`: transactions of at most two blocks over `{a, b}`, decoded as follows.

| Transaction | Recipient | Value | Data bytes | What it exercises |
| --- | --- | --- | --- | --- |
| `a` | yes | yes | none | plain transfer |
| `b` | yes | no | 196 | a call of three parameters, clipped to two |
| `ab` | yes | yes | 7 | data that is no calldata |
| `aa` | no | yes | none | empty recipient without data |
| `ba` | no | no | 9 | contract creation |
| `bb` | yes | yes | 68 | fails after its data field was written |
| none | | | | fails at once (last data is never empty, so reached only as a prefix) |

Bounds, and why they are enough: `MAX_TRANSACTION_LEN = 2` lets data fit, just
fit and not fit, in one piece or two; `ABI_MAX_PARAMS = 2` gives walks of two
parameters, a first and a last, with clipping, and `UINT8_MOD = 4` keeps the
order "more values than parameters" of the code (256 > 16); `LAST_SIG_CHUNK = 2`
has a middle chunk and a last one; `PK_CHUNKS = 2`. Two paths are one that is
asked for and another that replaces it. No variable is unbounded, so no state
constraint is used.

| Run | Module | Shows | Distinct states |
| --- | --- | --- | --- |
| `any_host` | `MCUiBuffer` | ten invariants and three action properties under every fault, with a path that is refused but derivable | 1,323,048 |
| `canonical_host` | `MCDevice` | `AnswersOwed`, the refinement `KeepsPromise`, `SignsATransaction` | 303,338 |
| `liveness` | `MCLedgerApp` | `PendingAnswered` under fairness | 130,889 |
| `claim_*` | | one disagreement between a document and the code each, section 5 | until violated |

- `any_host` is the central run. Its host is arbitrary; `q` is a path that
  the operating system derives and the application refuses. It toggles the two
  switches that gate the flow; the two that only add lines to a review are off
  in all three runs. Its module adds `g_ui_buffer` to the state, for
  `ScreenSaysWhatItShowed`: no text that a waiting command put on the screen is
  written over while its screen is up. Paths cut short are left to `liveness`.
- `canonical_host` answers different questions: is every answer asked for, is
  the device an implementation of `SigningPromise`, and what does it sign once its
  decoder is the real one? The first two are false for an arbitrary host,
  because of the parameter screen that outlives its command (section 5), so the
  run excludes the two causes: paths that cannot be derived and a derivation or
  formatting that fails. Hashing, signing and verifying still fail at will. What
  the host streams are six byte strings, alone or two in a row: a transfer, a
  creation, a call in two pieces, a transaction for another kind of key (refused
  behind its data field), and one whose list is too short. What reaches the
  signature is compared with `RlpReference`, and so are the lines of the review
  (`screen.items`): the recipient's address or the creation, an amount where
  there is no data, the hash where there is. An item that the decoder misplaced
  would be seen there. That is not to say that the review tells everything: the
  value of a transaction with data has no line, and one with neither recipient
  nor data shows the zero address. Fields are small
  (`ADDRESS_LENGTH = 2`, `MAX_FIELD_SIZE = 3`), since `rlp` has the sizes of the
  code. The two paths are interchangeable here, which the run uses as a symmetry.
- `liveness` has one path, a failing signature and paths cut short; its walks
  have up to two parameters, as everywhere in this instance.

The refinement maps the state of the application to `SigningPromise` as
follows. `review`: sender and hash of the transaction review a command waits
for. `grant`: path of the context and hash of its bytes, in the approved state
of a transaction request. `served`: the signature and index of the last answer,
if it was a chunk — read from flash, where the chunk comes from. `KeepsPromise`
then says that chunks leave only under a grant, of what was granted; that a
grant is made only of what was under review, together with the first chunk; and
that the last chunk ends it.

Fairness: `WF_vars(Choose)` — a user in front of a screen that asks for a choice
eventually makes one — and `WF_vars(LeaveScreen)`, since NBGL's status page
times out by itself. Nothing is assumed of the host, of the choice made, or of
faults. Without the first, a command waits for ever, as it should. `Restart` may
happen at any time and answers nothing, but ends the wait: the host sees the
connection drop.

### The modules around the core

| Run | Module | Shows | Distinct states |
| --- | --- | --- | --- |
| `rlp` | `MCRlpDecoder` | `ReadsWithinInput`, `StoredInOrder`, `AcceptedIsWhole`, `DecodesTransactions` | 233,282 |
| `texts` | `MCScreenTexts` | `TypeOK`, the buffers hold what they are made for; `RoundsKeepNumber`, `DecimalIsExact`, `AmountIsNotMisread`, `FormattedIsChecksummed`, `NothingBeforeChecksum`, `ScreensTellCalldata`, `WalkIsComplete` | 9,146 |
| `host_alone` | `MCHostClient` | `ServedUntilLast`, `HostFinishes`, `SignatureReachesHost` | 22,518 |
| `host_shared` | `MCHostClient` | `SignatureIsWhole`, `KeyIsWhole` | 393,854 |

- `rlp` works at the sizes of the code: 32-byte fields, 64-byte addresses and a
  four-byte `size_t`. It takes the transfer of `unit-tests/test_rlp_decode.c` and
  puts one of 19 encodings, of every kind of prefix, in any one or two of its
  eleven places, the single ones under headers that fit or do not and with or
  without a byte behind the list, and every prefix of it: over twenty-two
  thousand inputs. `DecodesTransactions` compares with `RlpReference`, which reads
  lengths as numbers, and accepts items of the sizes `zond_tx_t` has room for, not
  those of the document (`claim_rlp_document`); it leaves open only what is stored of an accepted input
  in which a length does not fit a `size_t` (section 5), and that only where the
  length is the list's own or that of one of the items the decoder comes to
  (`WrappingHeader`).
- `texts`, numbers: all nonces of up to three bytes and all amounts of up to
  nine, fifteen and sixteen bytes whose first, last and middle bytes are at their
  limits, powers of ten with their neighbours, and the numbers at which the
  digits just fit and just do not. The properties compare with Horner's rule on
  digits. Numbers that do not fit are in the run and end in `"overrun"`;
  `RoundsKeepNumber` says that no others do.
- `texts`, addresses: two bytes, and a hash that depends on every letter;
  buffers are empty, too small by one, exact and larger.
- `texts`, calls: the sizes of the code. Slots have one group that differs from
  the other seven, in every place; calls have 0 to 31 slots. The reader in
  `Tells` knows that the fourth and the fifth group are written without a colon
  between them, and demands that the two numbers can be read from their
  digits in a row; that the screen does not say where one ends is a limit of
  the format and no property.
- `host_alone` has answers lost, restarts, failing formatting and signing, and
  three chunks after the first, so that one is neither first nor last. No other
  program sends anything.
- `host_shared` has everything others can send. Its switches are off, so that
  transactions with data end in the notice: with calldata walks of others the
  instance outgrows the time one run should take, and the walk adds nothing to
  what a host hears. Formatting and signing do not fail there; `any_host` has
  both.

Fairness of `host_alone`: `WF(GoOn /\ client' # client)` — the host goes on
with what it began, and the transport does not lose every answer to one request
for ever — and the fairness of users, as above. The `client' # client` is what
says that asking again makes progress at last; with plain `WF(GoOn)` a chunk
could be lost each time and the host would never finish. Restarts may happen at
any time, but each of them ends what the host was at, so they cannot delay
it for ever.

For each property of a passing run `PROJECT.json` names a mutant: a plausible
slip in one definition (the `Bug...` operators), under which the run fails.

## 4. What is proved

`LedgerAppProofs` proves, with TLAPS, for **every** set of paths, capacity,
number of parameters and chunks, decoder, hash function and set of faults that
satisfy the assumptions of `LedgerApp` (`PathAssumption`, `BoundAssumption`,
`InputAssumption`, `DecodeAssumption`):

| Theorem | Property |
| --- | --- |
| `TypeCorrect` | `[]TypeOK` |
| `ReviewIsFaithful` | `[]ReviewShowsContext` |
| `WalkIsWithinCalldata` | `[]WalkFollowsContext` |
| `ShownAddressIsKey` | `[]AddressShownIsKey` |
| `AddressBelongsToKey` | `[]AddressMatchesKey` |
| `ApprovedIsSigned` | `[]ApprovedHoldsSignature` |
| `BlindSigningIsGated` | `[]BlindGate` |
| `NoCommandIsStranded` | `[]WaitsForChoice` |
| `SigningFollowsReview` | `SignsWhatWasShown` |
| `ReleaseFollowsVerification` | `ReleasesOnlyVerified` |
| `WalkIsComplete` | `WalksEveryParameter` |

The assumptions are weak: paths nest (valid, derivable, all) and differ from
the two sentinels, the walk's index can count its parameters
(`ABI_MAX_PARAMS < UINT8_MOD`), there is at least one chunk after the first, and
the decoder returns well-formed fields, all of them when it succeeds. Nothing is
assumed of `Keccak256`.

The argument. `Inv`, the conjunction of the eight invariants, is inductive
(`Invariance`); most of its parts are not, alone. What a review shows is right
because it was routed from a context that was just hashed and decoded whole
(`DecodeType`, `HashedType`), or because the walk that led to it was
(`WalkFollowsContext`); the key in flash is its sender's because the review has
just derived it (`AddressOutcomesType`). All of that is kept until the choice,
since no command runs while one waits (`HostNeedsIdle`) and settings are
reachable only from the home page, where none waits (`WaitsForChoice`). The
approved state holds a verified signature because signing succeeds only with
one (`SigningOutcomesType`) and because every command that could change path,
hash, key or signature also leaves the state, or is an address request
(`AddressShownIsKey` says that an address approval approves nothing else).
`DisplaySafe` carries the review from both of its callers, including a calldata
callback that runs with no command waiting and with any context at all.
The action properties follow from `Inv` and from `Servers`, which finds the
only two steps that can send a signature chunk.

`RlpDecoderProofs` proves, for **every** set of inputs, every size of field,
address and data and every `size_t` of one to four bytes (`DecoderAssumption`,
`InputsAssumption`):

| Theorem | Property |
| --- | --- |
| `DecoderTypeCorrect` | `[]TypeOK` |
| `DecoderStaysWithin` | `[]ReadsWithinInput` |
| `DecoderStoresInOrder` | `[]StoredInOrder` |
| `DecoderAcceptsWhole` | `[]AcceptedIsWhole` |
| `DecodesAsReference` | `[]DecodesTransactions` |

`InputsAssumption` says that inputs are bytes and no longer than a `size_t`
holds, which `rlp_len` is. The argument. An item that is returned lies within the bytes it was parsed from,
whatever length was read (`ShortItemWithin`, `LongItemWithin`, `ItemWithin`):
what a `size_t` loses of a length does not matter for this, since the check is
made on what is left, and subtracts only what an earlier check has shown to be
there. So each item keeps `p + remaining` equal to the length of the input
(`FieldKeeps`). `IInv` adds to the four properties what the first and the last
item leave, without which the end of the list and the fields of an accepted
transaction are not known.

`DecodesAsReference` is the long one. The decoder cuts lengths to a `size_t`,
parses each item against everything that remains and looks at the end of the
list once, behind the last item; the reference reads lengths as numbers and ends
every item within the list. That a length is read as the number it is, unless it
wraps, is `NumberIs` and `LengthReadIs`: a byte more than `SIZE_BYTES` in front
is either zero or a wrap, and without one the sum of the four places is the
number, as long as an input reaches. So parsing an item agrees with the
reference's header (`Agrees`, `ItemAgrees`): it is refused when it ends behind
the input, and otherwise ends where the reference ends it. The invariant
(`ReferenceInv`) follows the decoder from item to item. Either it is *on track*:
it stands where the reference stands, within the list, and has stored the
contents of the items so far (`OnTrack`). Or it is *lost*: an item has run out of
the list, for both, and the decoder goes on behind it (`Lost`). A lost decoder
may read and store eleven items; it is refused at the end, because items never go
back (`BeyondStays`). What is refused earlier is no transaction, because the
reference would have put its item within the list. A wrapping length takes the decoder
elsewhere than the reference, which is the exception in the property; that such
an input is no transaction either way is `WrappingIsNone`.

`AcceptedIsWhole` is half of what `DecodeAssumption`
asks of the decoder on behalf of `LedgerApp`.

`SigningPromiseProofs` proves, for every constant that satisfies
`CanonicalHost`, the two properties that are false of an arbitrary host:

| Theorem | Property |
| --- | --- |
| `NoAnswerOutOfTurn` | `[]AnswersOwed` |
| `DeviceKeepsPromise` | `KeepsPromise` |

`CanonicalHost` is what `canonical_host` assumes: every path can be derived and
is sent whole, and no derivation, address or text fails
(`Derivable = Paths`, four of the `Faults` excluded). Hashing, signing and
verifying fail at will, and the application may refuse paths. `claim_shown`
shows what happens without it. `CanonicalInv` adds to `Inv` that every answer was
owed, that no screen with a choice is older than its command, that an open
session has a path, and that what is approved was hashed. The second
is the reason why nothing is answered out of turn, and it is where the
hypothesis is used: a review that follows a walk always comes up, so no calldata
screen outlives its command. For the refinement every action of `LedgerApp` is
shown to be a step of the promise or a stutter (`HostPromises`, `UserPromises`,
`RestartPromises`).

`UiBufferProofs` proves, under the assumptions of `LedgerApp`:

| Theorem | Property |
| --- | --- |
| `BufferAddsNothing` | `BufferSpec => Spec` |
| `BufferTypeCorrect` | `[]BufferTypeOK` |
| `ScreenKeepsItsText` | `[]ScreenSaysWhatItShowed` |

The first carries every theorem of `LedgerApp` over. The last needs no more than
`Inv` beside itself: a step that writes the buffer brings up the screen that
reads it or answers the command.

`HostClientProofs` proves, for every bound, every set of transactions, and
whatever other programs send and answers get lost:

| Theorem | Property |
| --- | --- |
| `HostUsesTheDevice` | `HostSpec => Spec` |
| `HostTypeCorrect` | `[]HostTypeOK` |
| `SignatureArrivesWhole` | `[]SignatureIsWhole` |
| `KeyArrivesWhole` | `[]KeyIsWhole` |
| `ServiceLasts` | `[]ServedUntilLast`, if `OthersSend = {}` |

The host and the device only meet in answers, so the invariant (`HostInv`) says,
phase by phase, what the client knows of a context it cannot see: while it
streams, an open session holds its path and the pieces it has sent and no
review is ready (`Streaming`); while it waits, the command is still there and the
context holds its transaction (`Reviewing`, `Confirming`); while it collects, the
flash holds its key, or its signature as long as one is served
(`CollectingKey`, `CollectingSig`). `CollectingSig` says nothing once the service
has ended: that a signature is not served again without an approval
is `ServiceStarts`, and that the first chunk is never in the answer while a
review is up is `FreshReview`. `ServiceLasts` adds that nobody has a screen with
a choice up while the host collects (`Undisturbed`); its hypothesis is that of
`host_alone`.

`DecimalTextProofs` proves, for numbers of any length and all sizes of the
buffers that `NumberAssumption` allows:

| Theorem | Property |
| --- | --- |
| `NoRoundLosesADigit` | `[]RoundsKeepNumber` |
| `DigitsAreExact` | `[]DecimalIsExact` |
| `NoAmountIsMisread` | `[]AmountIsNotMisread` |

`DigitsAreExact` is about the digits that are written; a nonce's are, whether
`g_nonce` has room for them or not. None of the three says that a number is
refused: the code refuses none.

`NumberAssumption`: the buffers of an amount have room for `MAX_DECIMAL_DIGITS`
digits with a point and the unit (in the code 40 digits in 50, 30 and 35
characters, 18 of them behind the point), which a change of any of the
constants could break. The argument. The properties speak of texts, the division of
numbers; they meet in `Spells(e, n)`: the digits `e`, without zeros in front,
are worth `n`. A number is spelled in one way only (`SpellingIsUnique`, by
induction over its digits), and the reference spells the number of the bytes
(`DecimalSpells`, from `TimesPlusIs`, the multiplication by 256 on digits). A round
of the loop divides that number by ten and leaves the remainder
(`QuotientIs`, `RoundDivides`), so quotient and digits together spell what they
spelled (`NumberInv`, `DivideRound`). For the line of an amount, `PointBetween` and
`TrimIs` say where the point is and which zeros go, and `LineIs` that of the cuts
made by the four buffers only the one at `AMOUNT_LEN` can be seen.

`ScreenTextsProofs` proves, for addresses, buffers and slots of every size, every
hash and any bytes:

| Theorem | Property |
| --- | --- |
| `NothingTooEarly` | `[]NothingBeforeChecksum` |
| `AddressIsChecksummed` | `[]FormattedIsChecksummed` |
| `WalkEndsBehindLast` | `[]WalkIsComplete` |
| `ScreensTellTheCall` | `[]ScreensTellCalldata` |
| `BuffersHold` | `[]TypeOK` |

The assumptions are those of `ScreenTexts`. `BuffersHold` says of an address, of
a parameter and of a number its buffers are made for that what is written has
room: an address in its buffer, a parameter in `g_ui_buffer` (`BufferInv`, with
the length of a line from `LinePlaces`), at most `MAX_DECIMAL_DIGITS` digits in
`result` and in the line of an amount (`DigitsHaveRoom`, since what was written
in front of `result` is a digit of the number, `NumberInv`), fewer than
`G_NONCE_LEN` digits in `g_nonce` (`NonceHasRoom`). It says nothing of longer
numbers, which no guard keeps out and which do leave their buffers. `AddressAssumption`: addresses have
`ADDRESS_SIZE` bytes, and `ADDRESS_SIZE` is not zero. `CallAssumption`: data are
bytes, selectors and groups are not empty, a slot is eight groups, as the place
of the one missing colon supposes, and `g_ui_buffer` has room for their digits.
`AddressInv` says what the buffer holds between the calls: its first cell is NUL
until the text is whole, and what was hashed is still what is raised.
`CallInv` says that the texts shown are those of the first so many parameters of
the data (`Screens`). That a text is read back as the number it was made from
(`LineTells`) is the long part: the groups' digits have a place in the line each
(`LinePlaces`), no digit is a colon (`NoColonInHex`), so a reader who goes from
colon to colon finds these places and no others (`ColonFound`,
`PieceEndsAre`), and zeros left out in front change no number (`SplitTells`).

Induction. The induction theorems of the library take a predicate and cannot be
used here. `SequenceLemmas` derives, from the well-foundedness of the numbers,
`SetInduction`: a set that has 0 and, with each number, the next, has them all.
With the set of the numbers that have a property it serves for recursive
*functions*, which `IterationStays` and `ValueExists` give the values and types
of, and for the folds behind `FlattenSeq`. Nothing that is reasoned about uses
a `RECURSIVE` operator: the reference decoder and the digits of `DecimalText` are
written with recursive functions.

Model-checked only:

- the liveness properties `PendingAnswered`, `HostFinishes` and
  `SignatureReachesHost` (out of the prover's reach);
- `SignsATransaction`, which is about the six byte strings of `MCDevice`. Its two
  halves are theorems for all inputs, `SigningFollowsReview` and
  `DecodesAsReference`; the run shows that they fit together.

## 5. Where documents and code disagree

Each of these is a run that TLC ends with a counterexample; `PROJECT.json`
quotes the lines.

| Run | Disagreement |
| --- | --- |
| `claim_shown` | after a failed review, a calldata screen can lead to signing a context its screens did not show (`ui_confirm_parameter_selector.c:66-81`) |
| `claim_valid_paths` | a refused path leaves its session open and can come to a review (`sign_tx.c:73-89`) |
| `claim_blind_warning` | calldata that does not parse is reviewed without the warning (`sign_tx.c:188-219`) |
| `claim_rlp_document` | bytes behind the list are accepted and hashed (`rlp_decode.c:275`), and `chain_id`, the two fees and `value` may have 32 bytes where `doc/TRANSACTION.md:27-33` says the device enforces 8 (`rlp_decode.c:155`, `177`, `188`, `222`); one input breaks both |
| `claim_nonce_text` | a nonce of ten digits is longer than its line (`nbgl_display_transaction.c:44`, `213`) |

`claim_shown` depends on the assumption about NBGL of section 2; the others
depend on the repository alone.

These were met on the way. Most can be read in one line of the code, and they
have no run:

- `STATE_PARSED`, "Transaction data parsed" (`types.h:26`), is kept when hashing
  or decoding fails (`sign_tx.c:141-178`).
- Library errors are answered as they are (`get_public_key.c:61-63`), outside the
  table of `APP_SPECIFICATION.md:151`; a failed hash is answered
  `SW_SIGNATURE_FAIL` (`sign_tx.c:153-155`), not `SW_TX_HASH_FAIL` (`:166`).
- The review of a transaction with data omits its value
  (`nbgl_display_transaction.c:264-429`); an empty recipient without data is shown
  as an address (`:246`).
- `MAX_TRANSACTION_LEN` is 2048 (`constants.h:27`), `doc/TRANSACTION.md:40-41`
  says "currently 510 bytes".
- A field may be a list and a length may have zeros in
  front, so what is hashed need not be the encoding of the fields (`:8-73`); of a
  length that a four-byte `size_t` does not hold, the lower bytes are taken
  (`:43`, `100`).
- An amount of 41 digits is written in front of the array of its digits, and the
  documented `SW_DISPLAY_AMOUNT_FAIL` is never sent
  (`nbgl_display_transaction.c:57-72`). `RoundsKeepNumber` says that no shorter one
  is.
- Slots beyond the sixteenth are not displayed (`sign_tx.c:57-58`). `WalkIsComplete`
  says that all others are.

## 6. What is not modelled

- ML-DSA, Keccak, SHAKE, key derivation, NBGL and the transport: external, as
  far as the application depends on them. `MLDSA_sign` and `MLDSA_verify` are the
  record of what was signed.
- How a path is packed and read: `buffer_read_bip32_path` belongs to the SDK, and
  `is_valid_zond_bip32_path` is a test of five numbers without state. A path is a
  value, refused or accepted, derivable or not.
- The texts of settings and titles, glyphs, icons and layout; the transaction
  hash in hexadecimal, which is `format_hex` of `Calldata` on other bytes; which
  fields a review leaves out is modelled in `LedgerApp!Items`.
- What the code does after it has written outside `result` or `g_nonce`.
- Other programs' calldata walks in `host_shared`; a host that gives up and comes
  back to a session it has left open.
- Flash writes are atomic except where power fails; wear and the torn write of
  a single-byte switch are left out.
- The splitting of a transaction into APDUs and the checks of the test client;
  the fuzzer and the unit tests, of which the inputs are used; build files.

## 7. Plan

Done: `LedgerApp` and its proofs; the decoder and its proofs; the texts of the
review, of addresses and of the walk and their proofs; the shared
buffer and its proofs; the device with its own decoder; the host and its proofs;
the refinement of `SigningPromise`. Every safety property of the passing runs is a
theorem but the one that is about single byte strings. Next, in this order:

1. A finer crash model: one step per flash write, shown to implement
   `LedgerApp`.
2. Proofs: `RlpDecode` satisfies `DecodeAssumption`, that is, `LedgerApp` with
   the decoder of `MCDevice`, for all byte strings.
