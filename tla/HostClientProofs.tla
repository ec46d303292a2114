-------------------------- MODULE HostClientProofs --------------------------
(***************************************************************************)
(* Theorems about HostClient: what a host of the device ends up with,      *)
(* whatever is lost, restarted or sent by other programs in between.       *)
(***************************************************************************)
EXTENDS HostClient, LedgerAppProofs, SequenceLemmas

-----------------------------------------------------------------------------
(* Types, and the refinement of LedgerApp *)

Phases == Resting \cup {"data", "review", "sig", "confirm", "key"}

Collectable == [of: Sigs \cup KeptPaths \cup {TornKey}, index: Nat]

Clients ==
  [phase: Phases, path: KeptPaths, tx: Transactions \cup {<<>>}, at: Nat,
   chunks: Seq(Collectable), mixed: BOOLEAN,
   why: {"none", "refused", "silence", "restart"}]

TypedClient(c) ==
  /\ c \in Clients
  /\ c.phase = "data" => c.at < Len(c.tx)
  /\ c.phase = "sig" => c.at \in 1..LAST_SIG_CHUNK
  /\ c.phase = "key" => c.at \in 0..(PK_CHUNKS - 1)
  /\ c.phase = "confirm" => c.at = 0 /\ c.chunks = <<>>

\* A host that begins is well typed, and so is one that failed.
LEMMA ClientType ==
  ASSUME NEW path \in KeptPaths, NEW tx \in Transactions \cup {<<>>}
  PROVE  /\ \A phase \in Phases : Client(phase, path, tx) \in Clients
         /\ \A why \in {"refused", "silence", "restart"}, at \in Nat :
              /\ Failed(why, at) \in Clients
              /\ Failed(why, at).phase = "failed"
<1>1. <<>> \in Seq(Collectable)
  BY EmptySeq
<1> QED BY <1>1 DEF Client, Failed, Clients, KeptPaths, Phases, Resting

\* After a command the host goes on as planned, as with a lost answer, or
\* fails.
LEMMA HearsOutcome ==
  ASSUME NEW ok, NEW lost, Hears(ok, lost)
  PROVE  \/ rsp'.sw = "SW_OK" /\ client' = ok
         \/ client' = lost
         \/ client' = Failed("refused", client.at)
BY DEF Hears

\* What a failed call leaves of the client is a client.
LEMMA FailedIsTyped ==
  ASSUME client \in Clients, NEW why \in {"refused", "silence", "restart"}
  PROVE  /\ TypedClient(Failed(why, client.at))
         /\ Failed(why, client.at).phase = "failed"
<1>1. client.at \in Nat /\ NoPath \in KeptPaths
  BY DEF Clients, KeptPaths
<1> QED BY <1>1, ClientType DEF TypedClient

\* The next piece of a transaction is data that SIGN_TX takes.
LEMMA PieceType ==
  ASSUME NEW tx \in Transactions, NEW i \in 1..Len(tx)
  PROVE  tx[i] \in Chunks \ {<<>>}
BY HostAssumption, ElementOfSeq

\* Each step of HostClient is one of LedgerApp.
LEMMA ClientStep ==
  TypedClient(client) /\ [HostNext]_hostVars => [Next]_vars
<1> SUFFICES ASSUME TypedClient(client), [HostNext]_hostVars PROVE [Next]_vars
  OBVIOUS
<1>1. CASE StartSigning \/ StartKey
  BY <1>1 DEF StartSigning, StartKey, Next, Host
<1>2. ASSUME client.phase = "data"
      PROVE  client.tx[client.at + 1] \in Chunks \ {<<>>}
  <2>1. client.at < Len(client.tx) /\ client.at \in Nat
    BY <1>2 DEF TypedClient, Clients
  <2>2. client.tx \in Transactions
    BY <2>1, EmptySeq DEF TypedClient, Clients
  <2>3. client.at + 1 \in 1..Len(client.tx)
    <3>1. Len(client.tx) \in Nat
      BY <2>2, HostAssumption, LenProperties
    <3> QED BY <2>1, <3>1
  <2> QED BY <2>2, <2>3, PieceType
<1>3. CASE SendMore \/ SendLast
  BY <1>2, <1>3 DEF SendMore, SendLast, Next, Host
<1>4. CASE AskSigChunk \/ AskPkChunk
  BY <1>4 DEF AskSigChunk, AskPkChunk, TypedClient, Next, Host
<1>5. CASE UserActs \/ Breaks
  BY <1>5 DEF UserActs, Breaks, Next
<1>6. CASE Others
  BY <1>6 DEF Others, Next, Host
<1>7. CASE UNCHANGED hostVars
  BY <1>7 DEF hostVars, vars
<1> QED BY <1>1, <1>3, <1>4, <1>5, <1>6, <1>7 DEF HostNext, Start, GoOn

\* What a chunk carries.
LEMMA ChunkType ==
  ASSUME TypeOK, TypeOK'
  PROVE  SigData \in Collectable /\ KeyData \in Collectable
BY DEF TypeOK, Storages, Responses, SigData, KeyData, Collectable

\* What others do mixes the host's request, or leaves the host alone.
LEMMA MixedOutcome ==
  ASSUME client \in Clients, NEW when, Mixed(when)
  PROVE  /\ client' \in {client, [client EXCEPT !.mixed = TRUE]}
         /\ when => client' = [client EXCEPT !.mixed = TRUE]
         /\ ~when => client' = client
<1>1. CASE when
  BY <1>1, Zenon DEF Mixed
<1>2. CASE ~when
  <2>1. client' = [client EXCEPT !.mixed = client.mixed]
    <3>1. (client.mixed \/ when) = client.mixed
      BY <1>2 DEF Clients
    <3> QED BY <3>1, Zenon DEF Mixed
  <2> QED BY <1>2, <2>1 DEF Clients
<1> QED BY <1>1, <1>2

\* Collecting one chunk keeps the host well typed.
LEMMA FirstIsTyped ==
  ASSUME client \in Clients, SigData \in Collectable
  PROVE  TypedClient(FirstChunk)
<1>1. <<SigData>> \in Seq(Collectable)
  OBVIOUS
<1>2. FirstChunk \in Clients
  <2> DEFINE chunks == <<SigData>>
  <2> HIDE DEF chunks
  <2>1. [client EXCEPT !.phase = "sig", !.at = 1, !.chunks = chunks] \in Clients
    BY <1>1 DEF Clients, Phases, chunks
  <2> QED BY <2>1 DEF FirstChunk, chunks
<1>3. FirstChunk.phase = "sig" /\ FirstChunk.at = 1
  BY DEF FirstChunk, Clients
<1> QED BY <1>2, <1>3, BoundAssumption DEF TypedClient

\* So is one that has the last chunk of what it collects.
LEMMA CollectedIsTyped ==
  ASSUME TypedClient(client), NEW chunk \in Collectable, NEW last \in Nat,
         NEW phase \in {"signed", "known"},
         \/ client.phase = "sig" /\ last = LAST_SIG_CHUNK
         \/ client.phase = "key" /\ last = PK_CHUNKS - 1
  PROVE  TypedClient(Collected(phase, last, chunk))
<1> DEFINE chunks == Append(client.chunks, chunk)
           d == Collected(phase, last, chunk)
<1>1. client \in Clients /\ chunks \in Seq(Collectable)
  BY AppendProperties DEF TypedClient, Clients
<1>2. /\ d = [client EXCEPT !.chunks = chunks, !.at = client.at + 1,
                !.phase = IF client.at = last THEN phase ELSE client.phase]
  BY DEF Collected
<1> HIDE DEF chunks, d
<1>3. d \in Clients
  <2>1. PICK next \in Phases :
          next = IF client.at = last THEN phase ELSE client.phase
    BY <1>1 DEF Clients, Phases, Resting
  <2>2. PICK at \in Nat : at = client.at + 1
    BY <1>1 DEF Clients
  <2>3. d = [client EXCEPT !.chunks = chunks, !.at = at, !.phase = next]
    BY <1>2, <2>1, <2>2
  <2>4. [client EXCEPT !.chunks = chunks, !.at = at, !.phase = next] \in Clients
    BY <1>1 DEF Clients
  <2> QED BY <2>3, <2>4
<1>4. /\ d.at = client.at + 1
      /\ d.phase = IF client.at = last THEN phase ELSE client.phase
  BY <1>1, <1>2 DEF Clients
<1>5. client.at \in Nat /\ client.at <= last
  BY <1>1, BoundAssumption DEF TypedClient, Clients
<1>6. TypedClient(d)
  BY <1>3, <1>4, <1>5, BoundAssumption DEF TypedClient
<1> QED BY <1>6 DEF d

\* The host keeps its types.
LEMMA TypedStep ==
  ASSUME TypeOK, TypeOK', TypedClient(client), [HostNext]_hostVars
  PROVE  TypedClient(client')
<1>0. client \in Clients /\ SigData \in Collectable /\ KeyData \in Collectable
  BY ChunkType DEF TypedClient
<1>1. \A why \in {"refused", "silence", "restart"} :
        TypedClient(Failed(why, client.at))
  BY <1>0, FailedIsTyped
<1>2. CASE StartSigning
  <2>1. PICK path \in Paths, tx \in Transactions : HearsOnce(Client("data", path, tx))
    BY <1>2 DEF StartSigning
  <2>2. TypedClient(Client("data", path, tx))
    <3>1. Client("data", path, tx) \in Clients
      BY ClientType DEF KeptPaths, Phases
    <3>2. tx \in Seq(Chunks \ {<<>>}) /\ tx # <<>>
      BY HostAssumption
    <3>3. Len(tx) \in Nat /\ Len(tx) # 0
      BY <3>2, EmptySeq, LenProperties
    <3> QED BY <3>1, <3>3 DEF Client, TypedClient
  <2> QED BY <1>1, <2>1, <2>2, HearsOutcome DEF HearsOnce
<1>3. CASE SendMore
  <2>1. TypedClient([client EXCEPT !.at = @ + 1])
    BY <1>3 DEF SendMore, Clients, TypedClient
  <2> QED BY <1>1, <1>3, <2>1, HearsOutcome DEF SendMore, HearsOnce
<1>4. TypedClient(FirstChunk)
  BY <1>0, FirstIsTyped
<1>5. CASE SendLast
  <2>1. TypedClient([client EXCEPT !.phase = "review"])
    BY DEF Clients, Phases, TypedClient
  <2> QED BY <1>1, <1>4, <1>5, <2>1, HearsOutcome DEF SendLast, HearsOnce
<1>6. CASE AskSigChunk
  <2>1. TypedClient(Collected("signed", LAST_SIG_CHUNK, SigData))
    BY <1>0, <1>6, CollectedIsTyped, BoundAssumption DEF AskSigChunk
  <2> QED BY <1>1, <1>6, <2>1, HearsOutcome DEF AskSigChunk
<1>7. CASE StartKey
  <2>1. PICK path \in Paths :
          \/ client' = [Client("key", path, <<>>) EXCEPT !.phase = "confirm"]
          \/ HearsOnce(Client("key", path, <<>>))
    BY <1>7 DEF StartKey
  <2>2. TypedClient(Client("key", path, <<>>))
    <3>1. Client("key", path, <<>>) \in Clients
      BY ClientType DEF KeptPaths, Phases
    <3> QED BY <3>1, BoundAssumption DEF Client, TypedClient
  <2>3. TypedClient([Client("key", path, <<>>) EXCEPT !.phase = "confirm"])
    <3>1. PICK c \in Clients : /\ c = Client("key", path, <<>>)
                               /\ c.at = 0 /\ c.chunks = <<>>
      BY <2>2 DEF Client, TypedClient
    <3>2. [c EXCEPT !.phase = "confirm"] \in Clients
      BY DEF Clients, Phases
    <3>3. TypedClient([c EXCEPT !.phase = "confirm"])
      BY <3>1, <3>2 DEF TypedClient, Clients
    <3> QED BY <3>1, <3>3
  <2> QED BY <1>1, <2>1, <2>2, <2>3, HearsOutcome DEF HearsOnce
<1>8. CASE AskPkChunk
  <2>1. TypedClient(Collected("known", PK_CHUNKS - 1, KeyData))
    BY <1>0, <1>8, CollectedIsTyped, BoundAssumption DEF AskPkChunk
  <2> QED BY <1>1, <1>8, <2>1, HearsOutcome DEF AskPkChunk
<1>9. ASSUME client' \in {client, [client EXCEPT !.mixed = TRUE]}
      PROVE  TypedClient(client')
  BY <1>9 DEF Clients, TypedClient
<1>10. CASE UserActs
  <2>1. client.phase = "confirm" => TypedClient([client EXCEPT !.phase = "key"])
    BY BoundAssumption DEF Clients, Phases, TypedClient
  <2> QED BY <1>0, <1>1, <1>4, <1>9, <1>10, <2>1, HearsOutcome, MixedOutcome
          DEF UserActs, HearsOnce
<1>11. CASE Others
  <2>1. CASE Mixed(client.phase = "data")
    BY <1>0, <1>9, <2>1, MixedOutcome
  <2>2. CASE Mixed(client.phase \in {"data", "key"})
    BY <1>0, <1>9, <2>2, MixedOutcome
  <2>3. CASE Mixed(client.phase = "key")
    BY <1>0, <1>9, <2>3, MixedOutcome
  <2> QED BY <1>9, <1>11, <2>1, <2>2, <2>3 DEF Others
<1>12. CASE Breaks
  BY <1>1, <1>12 DEF Breaks
<1>13. CASE UNCHANGED hostVars
  BY <1>13 DEF hostVars
<1> QED BY <1>2, <1>3, <1>5, <1>6, <1>7, <1>8, <1>10, <1>11, <1>12, <1>13
        DEF HostNext, Start, GoOn

-----------------------------------------------------------------------------
(* What the steps of the device leave alone *)

\* ui_display_transaction_bs_choice keeps the session it reviews.
LEMMA DisplayKeeps ==
  ASSUME NEW c \in Contexts, NEW blind, NEW owed \in BOOLEAN,
         Display(c, blind, owed)
  PROVE  /\ G_context'.req_type = c.req_type
         /\ G_context'.bip32_path = c.bip32_path
         /\ G_context'.raw_tx = c.raw_tx
         /\ G_context'.state # "STATE_APPROVED"
         /\ rsp'.what = "nothing"
         /\ rsp'.sw # "SW_OK"
         /\ pending' => owed /\ screen'.kind = "review"
         /\ ~ReviewReady(c) => UNCHANGED N_storage /\ ~ReviewReady(G_context')
<1>1. CASE /\ ~ReviewReady(c)
           /\ G_context' = [c EXCEPT !.state = "STATE_NONE"]
           /\ Send("SW_BAD_STATE", "nothing", 0, owed)
           /\ UNCHANGED <<N_storage, screen>>
  BY <1>1 DEF Contexts, Send, Response, ReviewReady
<1>2. ASSUME ReviewReady(c), NEW a, G_context' = [c EXCEPT !.address = a],
             \/ Send("SW_DISPLAY_ADDRESS_FAIL", "nothing", 0, owed)
             \/ screen' = ReviewScreen(G_context', blind) /\ Await(owed)
      PROVE  /\ G_context'.req_type = c.req_type
             /\ G_context'.bip32_path = c.bip32_path
             /\ G_context'.raw_tx = c.raw_tx
             /\ G_context'.state # "STATE_APPROVED"
             /\ rsp'.what = "nothing"
             /\ rsp'.sw # "SW_OK"
             /\ pending' => owed /\ screen'.kind = "review"
  <2>1. /\ G_context'.req_type = c.req_type
        /\ G_context'.bip32_path = c.bip32_path
        /\ G_context'.raw_tx = c.raw_tx
        /\ G_context'.state = "STATE_PARSED"
    BY <1>2 DEF Contexts, ReviewReady
  <2>2. /\ rsp'.what = "nothing" /\ rsp'.sw # "SW_OK"
        /\ pending' => owed /\ screen'.kind = "review"
    BY <1>2 DEF Send, Await, Response, NoResponse, ReviewScreen
  <2> QED BY <2>1, <2>2
<1> QED BY <1>1, <1>2 DEF Display

\* handler_sign_tx with a transaction that decoded: no answer is a success.
LEMMA RouteKeeps ==
  ASSUME NEW c \in Contexts, Route(c), c.state = "STATE_PARSED"
  PROVE  /\ G_context'.req_type = c.req_type
         /\ G_context'.bip32_path = c.bip32_path
         /\ G_context'.raw_tx = c.raw_tx
         /\ G_context'.state # "STATE_APPROVED"
         /\ rsp'.what = "nothing"
         /\ rsp'.sw # "SW_OK"
         /\ pending' => screen'.kind \in {"selector", "review"}
<1>1. CASE /\ screen' = BlindSigningNotice
           /\ G_context' = c
           /\ Reply("SW_SIGNATURE_FAIL")
  BY <1>1 DEF Reply, Send, Response
<1>2. CASE screen' = Blank("selector") /\ G_context' = c /\ Await(TRUE)
  BY <1>2 DEF Await, NoResponse, Response, Blank
<1>3. ASSUME NEW blind, Display(c, blind, TRUE)
      PROVE  /\ G_context'.req_type = c.req_type
             /\ G_context'.bip32_path = c.bip32_path
             /\ G_context'.raw_tx = c.raw_tx
             /\ G_context'.state # "STATE_APPROVED"
             /\ rsp'.what = "nothing"
             /\ rsp'.sw # "SW_OK"
             /\ pending' => screen'.kind \in {"selector", "review"}
  BY <1>3, DisplayKeeps
<1> QED BY <1>1, <1>2, <1>3 DEF Route

\* The last data of a session, or a refusal.
LEMMA LastDataKeeps ==
  ASSUME TypeOK, NEW chunk \in Chunks, LastData(chunk)
  PROVE  \/ /\ UNCHANGED <<G_context, N_storage, screen>> /\ ~pending'
            /\ rsp'.what = "nothing" /\ rsp'.sw # "SW_OK"
         \/ /\ G_context.req_type = "CONFIRM_TRANSACTION"
            /\ G_context'.req_type = "CONFIRM_TRANSACTION"
            /\ G_context'.bip32_path = G_context.bip32_path
            /\ G_context'.raw_tx = G_context.raw_tx \o chunk
            /\ G_context'.state # "STATE_APPROVED"
            /\ rsp'.what = "nothing" /\ rsp'.sw # "SW_OK"
            /\ pending' => screen'.kind \in {"selector", "review"}
<1>1. CASE RefuseData(chunk)
  BY <1>1 DEF RefuseData, Reply, Send, Response
<1>2. ASSUME SessionOpen, Fits(chunk), NEW raw, raw = G_context.raw_tx \o chunk
      PROVE  \A c \in {Parsed(raw), Hashed(raw)} :
               /\ c \in Contexts /\ c.state = "STATE_PARSED"
               /\ c.req_type = "CONFIRM_TRANSACTION"
               /\ c.bip32_path = G_context.bip32_path
               /\ c.raw_tx = raw
  <2>0. G_context \in Contexts
    BY DEF TypeOK
  <2>1. raw \in RawTx
    BY <1>2, <2>0, AppendFits
  <2>2. Parsed(raw) \in Contexts /\ Hashed(raw) \in Contexts
    BY <2>0, <2>1, HashedType
  <2>3. G_context.req_type = "CONFIRM_TRANSACTION"
    BY <1>2 DEF SessionOpen
  <2> QED BY <2>0, <2>2, <2>3 DEF Parsed, Hashed, Contexts
<1>3. ASSUME SessionOpen, Fits(chunk), NEW raw, raw = G_context.raw_tx \o chunk,
             NEW sw \in {"SW_SIGNATURE_FAIL", "SW_TX_PARSING_FAIL"}, Reply(sw),
             G_context' \in {Parsed(raw), Hashed(raw)}
      PROVE  /\ G_context'.req_type = "CONFIRM_TRANSACTION"
             /\ G_context'.bip32_path = G_context.bip32_path
             /\ G_context'.raw_tx = raw
             /\ G_context'.state # "STATE_APPROVED"
             /\ rsp'.what = "nothing" /\ rsp'.sw # "SW_OK" /\ ~pending'
  <2>1. rsp'.what = "nothing" /\ rsp'.sw # "SW_OK" /\ ~pending'
    BY <1>3 DEF Reply, Send, Response
  <2> QED BY <1>2, <1>3, <2>1
<1>4. ASSUME SessionOpen, Fits(chunk), NEW raw, raw = G_context.raw_tx \o chunk,
             Route(Hashed(raw))
      PROVE  /\ G_context'.req_type = "CONFIRM_TRANSACTION"
             /\ G_context'.bip32_path = G_context.bip32_path
             /\ G_context'.raw_tx = raw
             /\ G_context'.state # "STATE_APPROVED"
             /\ rsp'.what = "nothing" /\ rsp'.sw # "SW_OK"
             /\ pending' => screen'.kind \in {"selector", "review"}
  <2> PICK c : c = Hashed(raw)
    OBVIOUS
  <2>1. /\ c \in Contexts /\ c.state = "STATE_PARSED"
        /\ c.req_type = "CONFIRM_TRANSACTION"
        /\ c.bip32_path = G_context.bip32_path
        /\ c.raw_tx = raw
    BY <1>2, <1>4
  <2> QED BY <1>4, <2>1, RouteKeeps
<1>5. CASE SessionOpen /\ Fits(chunk)
  <2>1. PICK raw : raw = G_context.raw_tx \o chunk
    OBVIOUS
  <2>2. \/ Route(Hashed(raw))
        \/ \E sw \in {"SW_SIGNATURE_FAIL", "SW_TX_PARSING_FAIL"} :
             Reply(sw) /\ G_context' \in {Parsed(raw), Hashed(raw)}
        \/ RefuseData(chunk)
    BY <2>1 DEF LastData
  <2>3. G_context.req_type = "CONFIRM_TRANSACTION"
    BY <1>5 DEF SessionOpen
  <2> QED BY <1>1, <1>3, <1>4, <1>5, <2>1, <2>2, <2>3
<1> QED BY <1>1, <1>5 DEF LastData

\* GET_PUBLIC_KEY answers with success, or leaves the screen to do so, only
\* when the key of the path is in flash.
LEMMA GetPublicKeyKeeps ==
  ASSUME TypeOK, NEW path \in Paths, NEW readable, NEW display,
         GetPublicKey(path, readable, display)
  PROVE  /\ G_context'.req_type = "CONFIRM_ADDRESS"
         /\ rsp'.what # "sig"
         /\ pending' => screen'.kind = "address"
         /\ pending' \/ rsp'.sw = "SW_OK" => N_storage'.pk = path
<1>1. /\ AddressContext(path).req_type = "CONFIRM_ADDRESS"
      /\ AddressContext(path).address = NoPath
      /\ \A a : [AddressContext(path) EXCEPT !.address = a].req_type
                  = "CONFIRM_ADDRESS"
  BY DEF AddressContext, ZeroContext
<1>2. CASE G_context' = AddressContext(path) /\ Reply("SW_WRONG_DATA_LENGTH")
  BY <1>1, <1>2 DEF Reply, Send, Response
<1>3. ASSUME NEW o \in AddressOutcomes(path, NoPath, NoPath), NEW a,
             G_context' = [AddressContext(path) EXCEPT !.address = a],
             N_storage' = KeyStored(o.pk),
             \/ Reply("CX_ERROR") \/ Reply("SW_DISPLAY_ADDRESS_FAIL")
             \/ o.ok /\ Await(TRUE) /\ screen'.kind = "address"
             \/ o.ok /\ Send("SW_OK", "address", 0, TRUE)
      PROVE  /\ G_context'.req_type = "CONFIRM_ADDRESS"
             /\ rsp'.what # "sig"
             /\ pending' => screen'.kind = "address"
             /\ pending' \/ rsp'.sw = "SW_OK" => N_storage'.pk = path
  <2>1. N_storage'.pk = o.pk
    BY <1>3 DEF KeyStored, TypeOK, Storages
  <2>2. o.ok => o.pk = path
    BY <1>3 DEF AddressOutcomes
  <2> QED BY <1>1, <1>3, <2>1, <2>2
          DEF Reply, Send, Await, Response, NoResponse
<1>4. \A c : AddressScreen(c).kind = "address"
  BY DEF AddressScreen, Blank
<1>5. CASE \E o \in AddressOutcomes(path, NoPath, NoPath) : \E c :
             /\ c = [AddressContext(path) EXCEPT !.address = o.address]
             /\ G_context' = c
             /\ N_storage' = KeyStored(o.pk)
             /\ \/ Reply("CX_ERROR") \/ Reply("SW_DISPLAY_ADDRESS_FAIL")
                \/ o.ok /\ Await(TRUE) /\ screen' = AddressScreen(c)
                \/ o.ok /\ Send("SW_OK", "address", 0, TRUE)
  BY <1>3, <1>4, <1>5
<1>6. \/ G_context' = AddressContext(path) /\ Reply("SW_WRONG_DATA_LENGTH")
      \/ \E o \in AddressOutcomes(path, NoPath, NoPath) : \E c :
             /\ c = [AddressContext(path) EXCEPT !.address = o.address]
             /\ G_context' = c
             /\ N_storage' = KeyStored(o.pk)
             /\ \/ Reply("CX_ERROR") \/ Reply("SW_DISPLAY_ADDRESS_FAIL")
                \/ o.ok /\ Await(TRUE) /\ screen' = AddressScreen(c)
                \/ o.ok /\ Send("SW_OK", "address", 0, TRUE)
  BY <1>1, Zenon DEF GetPublicKey
<1> QED BY <1>2, <1>5, <1>6

\* Whoever answers with a signature chunk, or leaves one as the last answer.
LEMMA ChunkSteps ==
  ASSUME TypeOK, Next, rsp'.what = "sig"
  PROVE  \/ Host /\ rsp'.index # 0
         \/ /\ ApproveTransaction /\ screen'.kind = "status"
            /\ rsp'.index = 0 /\ rsp'.sw = "SW_OK" /\ ~pending'
            /\ N_storage'.sig = SignatureOf(G_context.bip32_path,
                                            G_context.m_hash)
         \/ UNCHANGED rsp /\ screen'.kind \in {"home", "param"}
<1>1. CASE Host
  BY <1>1, HostServes
<1>2. CASE ApproveTransaction
  <2>1. PICK o \in SigningOutcomes(G_context.bip32_path, G_context.m_hash,
                                   N_storage) :
          /\ o.ok
          /\ SendSigChunk(0, Approved(G_context),
                          [N_storage EXCEPT !.sig = o.sig], pending)
    BY <1>2 DEF ApproveTransaction, CallbackReply, Send, Response
  <2>2. /\ G_context.bip32_path \in KeptPaths /\ G_context.m_hash \in Digests
        /\ N_storage \in Storages
    BY DEF TypeOK, Contexts
  <2>3. o.sig = SignatureOf(G_context.bip32_path, G_context.m_hash)
    BY <2>1, <2>2, SigningOutcomesType
  <2>4. N_storage'.sig = o.sig
    BY <2>1, <2>2 DEF SendSigChunk, Storages
  <2>5. screen'.kind = "status"
    BY <1>2 DEF ApproveTransaction, StatusScreen, Blank
  <2> QED BY <1>2, <2>1, <2>3, <2>4, <2>5 DEF SendSigChunk, Send, Response
<1>3. CASE User /\ ~ApproveTransaction
  <2>1. ASSUME Reject \/ ApproveAddress PROVE FALSE
    BY <2>1, Sent DEF Reject, Deny, CallbackReply, ApproveAddress
  <2>2. CASE ConfirmCalldata
    <3>1. ASSUME Display(G_context, TRUE, pending) PROVE FALSE
      BY <3>1, Displayed
    <3>2. screen' = Blank("param") /\ UNCHANGED rsp
      BY <2>2, <3>1 DEF ConfirmCalldata
    <3> QED BY <3>2 DEF Blank
  <2>3. CASE LeaveScreen \/ \E s \in Switches : Toggle(s)
    BY <2>3 DEF LeaveScreen, Toggle, HomePage, Blank
  <2> QED BY <1>3, <2>1, <2>2, <2>3 DEF User, Choose
<1>4. ASSUME Restart PROVE FALSE
  BY <1>4 DEF Restart, NoResponse, Response
<1> QED BY <1>1, <1>2, <1>3, <1>4 DEF Next

\* A review that is up was not approved yet: its signature is no answer yet.
FreshReview == screen.kind = "review" => ~(rsp.what = "sig" /\ rsp.index = 0)

\* No step has a review up together with the first chunk of a signature.
LEMMA FreshStep == TypeOK /\ FreshReview /\ [Next]_vars => FreshReview'
<1> SUFFICES ASSUME TypeOK, FreshReview, [Next]_vars PROVE FreshReview'
  OBVIOUS
<1>1. CASE Next
  BY <1>1, ChunkSteps DEF FreshReview
<1>2. CASE UNCHANGED vars
  BY <1>2 DEF FreshReview, vars
<1> QED BY <1>1, <1>2

\* The service of a signature, once granted, is that of one signature.
ServesSignature(c) == /\ c.req_type = "CONFIRM_TRANSACTION"
                      /\ c.state = "STATE_APPROVED"

\* A command after which a granted signature is served left it and the context
\* as they were.
LEMMA CommandsKeepService ==
  ASSUME TypeOK, Host, ServesSignature(G_context')
  PROVE  G_context' = G_context /\ N_storage'.sig = N_storage.sig
<1> USE DEF ServesSignature
<1>0. G_context \in Contexts /\ N_storage \in Storages
  BY DEF TypeOK
<1>1. ASSUME NEW path, NEW readable, OpenSession(path, readable) PROVE FALSE
  BY <1>1 DEF OpenSession, SessionContext, ZeroContext
<1>2. ASSUME NEW path, NEW readable, NEW display,
             GetPublicKey(path, readable, display)
      PROVE  FALSE
  <2>1. \/ G_context' = AddressContext(path)
        \/ \E a : G_context' = [AddressContext(path) EXCEPT !.address = a]
    BY <1>2 DEF GetPublicKey
  <2> QED BY <2>1 DEF AddressContext, ZeroContext
<1>3. ASSUME NEW chunk, MoreData(chunk)
      PROVE  UNCHANGED <<G_context, N_storage>>
  <2>1. CASE SessionOpen /\ G_context' = [G_context EXCEPT !.raw_tx = @ \o chunk]
    BY <1>0, <2>1 DEF SessionOpen, Contexts
  <2> QED BY <1>3, <2>1 DEF MoreData, RefuseData
<1>4. ASSUME NEW chunk \in Chunks, LastData(chunk)
      PROVE  UNCHANGED <<G_context, N_storage>>
  BY <1>4, LastDataKeeps
<1>5. ASSUME NEW i, SigChunk(i)
      PROVE  G_context' = G_context /\ N_storage'.sig = N_storage.sig
  <2>1. CASE SendSigChunk(i, G_context, N_storage, TRUE)
    <3>1. G_context' = G_context
      BY <2>1 DEF SendSigChunk, ContextAfter, ZeroContext
    <3>2. N_storage'.sig = N_storage.sig
      BY <1>0, <2>1 DEF SendSigChunk, Storages
    <3> QED BY <3>1, <3>2
  <2> QED BY <1>5, <2>1 DEF SigChunk
<1>6. ASSUME NEW i, PkChunk(i) PROVE UNCHANGED <<G_context, N_storage>>
  BY <1>6 DEF PkChunk
<1>7. ASSUME NEW sw, PlainAnswer(sw) PROVE UNCHANGED <<G_context, N_storage>>
  BY <1>7 DEF PlainAnswer
<1> QED BY <1>1, <1>2, <1>3, <1>4, <1>5, <1>6, <1>7 DEF Host

\* The service is the one of before, or the user approved just now and the first
\* chunk is in the answer.
LEMMA ServiceStarts ==
  ASSUME Inv, [Next]_vars, ServesSignature(G_context')
  PROVE  \/ ServesSignature(G_context) /\ N_storage'.sig = N_storage.sig
         \/ ApproveTransaction /\ rsp'.what = "sig" /\ rsp'.index = 0
<1> USE DEF ServesSignature
<1>0. G_context \in Contexts /\ N_storage \in Storages /\ pending \in BOOLEAN
  BY DEF Inv, TypeOK
<1>1. CASE Host
  BY <1>1, CommandsKeepService DEF Inv
<1>2. CASE ApproveTransaction
  <2>1. SigningFailed(Approved(G_context)).state = "STATE_NONE"
    BY <1>0 DEF SigningFailed, Approved, Contexts
  <2>2. \/ G_context' = SigningFailed(Approved(G_context))
        \/ \E n : SendSigChunk(0, Approved(G_context), n, pending)
    BY <1>2 DEF ApproveTransaction
  <2>3. \E n : SendSigChunk(0, Approved(G_context), n, pending)
    BY <2>1, <2>2
  <2> QED BY <1>2, <2>3, Sent DEF SendSigChunk
<1>3. CASE Reject \/ ApproveAddress
  <2>1. CASE Reject
    BY <2>1 DEF Reject, Deny, ZeroContext
  <2>2. CASE ApproveAddress
    BY <1>0, <2>2
       DEF ApproveAddress, Inv, AddressShownIsKey, Contexts
  <2> QED BY <1>3, <2>1, <2>2
<1>4. CASE ConfirmCalldata
  BY <1>0, <1>4, DisplayKeeps DEF ConfirmCalldata
<1>5. CASE LeaveScreen \/ \E s \in Switches : Toggle(s)
  BY <1>0, <1>5 DEF LeaveScreen, Toggle, Storages
<1>6. CASE Restart
  BY <1>6 DEF Restart, ZeroContext
<1>7. CASE UNCHANGED vars
  BY <1>7 DEF vars
<1> QED BY <1>1, <1>2, <1>3, <1>4, <1>5, <1>6, <1>7 DEF Next, User, Choose

\* The user keeps a session that is not under review, and its key.
LEMMA UserKeepsSession ==
  ASSUME Inv, User, ~ReviewReady(G_context)
  PROVE  /\ ~ReviewReady(G_context')
         /\ N_storage'.pk = N_storage.pk
         /\ pending' => pending
         /\ G_context'.req_type = "CONFIRM_TRANSACTION" =>
              /\ G_context.req_type = "CONFIRM_TRANSACTION"
              /\ G_context'.bip32_path = G_context.bip32_path
              /\ G_context'.raw_tx = G_context.raw_tx
<1>0. G_context \in Contexts /\ N_storage \in Storages /\ pending \in BOOLEAN
  BY DEF Inv, TypeOK
<1>1. CASE Reject
  BY <1>1 DEF Reject, Deny, CallbackReply, Send, ZeroContext, ReviewReady
<1>2. CASE ApproveAddress
  BY <1>0, <1>2 DEF ApproveAddress, Send, Contexts, ReviewReady
<1>3. CASE ApproveTransaction
  <2>1. G_context' \in {SigningFailed(Approved(G_context)),
                        Approved(G_context), ZeroContext}
    BY <1>3 DEF ApproveTransaction, SendSigChunk, ContextAfter
  <2>2. N_storage'.pk = N_storage.pk /\ ~pending'
    BY <1>0, <1>3 DEF ApproveTransaction, SendSigChunk, CallbackReply, Send,
                      Storages
  <2>3. CASE G_context' = ZeroContext
    BY <2>2, <2>3 DEF ZeroContext, ReviewReady
  <2>4. CASE G_context' = Approved(G_context)
    BY <1>0, <2>2, <2>4 DEF Approved, Contexts, ReviewReady
  <2>5. CASE G_context' = SigningFailed(Approved(G_context))
    BY <1>0, <2>2, <2>5 DEF SigningFailed, Approved, Contexts, ReviewReady
  <2> QED BY <2>1, <2>3, <2>4, <2>5
<1>4. CASE ConfirmCalldata
  <2>1. CASE UNCHANGED <<G_context, N_storage, pending>>
    BY <2>1
  <2>2. CASE Display(G_context, TRUE, pending)
    BY <1>0, <2>2, DisplayKeeps
  <2> QED BY <1>4, <2>1, <2>2 DEF ConfirmCalldata
<1>5. CASE LeaveScreen \/ \E s \in Switches : Toggle(s)
  BY <1>0, <1>5 DEF LeaveScreen, Toggle, Storages
<1> QED BY <1>1, <1>2, <1>3, <1>4, <1>5 DEF User, Choose

-----------------------------------------------------------------------------
(* The bytes streamed, the chunks collected *)

\* Before the first piece no byte is sent.
LEMMA NothingStreamed ==
  ASSUME NEW tx PROVE Bytes(SubSeq(tx, 1, 0)) = <<>>
<1>1. SubSeq(tx, 1, 0) = <<>>
  BY SubSeqEmpty
<1> QED BY <1>1, FlattenEmpty DEF Bytes

\* One more piece of the transaction.
LEMMA PieceStreamed ==
  ASSUME NEW tx \in Transactions, NEW i \in Nat, i < Len(tx)
  PROVE  /\ Bytes(SubSeq(tx, 1, i + 1)) = Bytes(SubSeq(tx, 1, i)) \o tx[i + 1]
         /\ i + 1 = Len(tx) => SubSeq(tx, 1, i + 1) = tx
         /\ tx[i + 1] \in Chunks
<1> DEFINE B == Chunks \ {<<>>}
<1>1. tx \in Seq(B) /\ Len(tx) \in Nat
  BY HostAssumption, LenProperties
<1>2. i + 1 \in 1..Len(tx)
  BY <1>1
<1>3. \A j \in 1..Len(tx) : tx[j] \in B
  BY <1>1, ElementOfSeq
<1> HIDE DEF B
<1> PICK s : s = SubSeq(tx, 1, i)
  OBVIOUS
<1> PICK t : t = SubSeq(tx, 1, i + 1)
  OBVIOUS
<1>4. /\ s \in Seq(B) /\ Len(s) = i
      /\ \A j \in 1..i : s[j] = tx[j]
  <2>1. \A j \in 1..i : tx[j] \in B
    BY <1>2, <1>3
  <2> QED BY <2>1, SubSeqProperties
<1>5. /\ t \in Seq(B) /\ Len(t) = i + 1
      /\ \A j \in 1..(i + 1) : t[j] = tx[j]
  <2>1. \A j \in 1..(i + 1) : tx[j] \in B
    BY <1>2, <1>3
  <2> QED BY <2>1, SubSeqProperties
<1>6. tx[i + 1] \in B
  BY <1>2, <1>3
<1>7. Append(s, tx[i + 1]) = t
  <2> PICK u : u = Append(s, tx[i + 1])
    OBVIOUS
  <2>1. /\ u \in Seq(B) /\ Len(u) = i + 1 /\ u[i + 1] = tx[i + 1]
        /\ \A j \in 1..i : u[j] = s[j]
    BY <1>4, <1>6, AppendProperties
  <2>2. \A j \in 1..Len(u) : u[j] = t[j]
    BY <1>4, <1>5, <2>1
  <2>3. Len(u) = Len(t)
    BY <1>5, <2>1
  <2>4. u = t
    BY <1>5, <2>1, <2>2, <2>3, SeqEqual
  <2> QED BY <2>4
<1>8. \A y \in B : <<>> \o y = y
  BY InputAssumption, ConcatEmptySeq DEF B
<1>9. FlattenSeq(t) = FlattenSeq(s) \o tx[i + 1]
  <2> PICK x : x = tx[i + 1]
    OBVIOUS
  <2>1. s \in Seq(B) /\ x \in B
    BY <1>4, <1>6
  <2>2. FlattenSeq(Append(s, x)) = FlattenSeq(s) \o x
    BY <1>8, <2>1, FlattenAppend
  <2>3. FlattenSeq(t) = FlattenSeq(s) \o x
    BY <1>7, <2>2, Zenon
  <2> QED BY <2>3
<1>10. i + 1 = Len(tx) => t = tx
  BY <1>1, SubSeqFull
<1> QED BY <1>6, <1>9, <1>10 DEF Bytes, B

\* One more chunk.
LEMMA ChunkCollected ==
  ASSUME NEW what, NEW n \in Nat
  PROVE  /\ Append(ChunksOf(what, n), [of |-> what, index |-> n])
              = ChunksOf(what, n + 1)
         /\ ChunksOf(what, 0) = <<>>
         /\ <<[of |-> what, index |-> 0]>> = ChunksOf(what, 1)
<1> DEFINE C == [of: {what}, index: Nat]
<1> PICK chunk : chunk = [i \in Nat |-> [of |-> what, index |-> i]]
  OBVIOUS
<1>1. \A i \in Nat : chunk[i] \in C /\ chunk[i] = [of |-> what, index |-> i]
  OBVIOUS
<1>2. ASSUME NEW k \in Nat, NEW s, s = ChunksOf(what, k)
      PROVE  s \in Seq(C) /\ Len(s) = k /\ \A i \in 1..k : s[i] = chunk[i - 1]
  <2>1. s \in [1..k -> C]
    BY <1>2 DEF ChunksOf
  <2>2. s \in Seq(C)
    BY <2>1, SeqDef
  <2>3. Len(s) = k
    BY <2>1, <2>2, LenProperties
  <2>4. \A i \in 1..k : s[i] = chunk[i - 1]
    BY <1>1, <1>2 DEF ChunksOf
  <2> QED BY <2>2, <2>3, <2>4
<1> HIDE DEF C
<1>3. Append(ChunksOf(what, n), chunk[n]) = ChunksOf(what, n + 1)
  <2> PICK s : s = ChunksOf(what, n)
    OBVIOUS
  <2> PICK t : t = ChunksOf(what, n + 1)
    OBVIOUS
  <2> PICK u : u = Append(s, chunk[n])
    OBVIOUS
  <2>1. s \in Seq(C) /\ Len(s) = n /\ \A i \in 1..n : s[i] = chunk[i - 1]
    BY <1>2
  <2>2. /\ u \in Seq(C) /\ Len(u) = n + 1 /\ u[n + 1] = chunk[n]
        /\ \A i \in 1..n : u[i] = s[i]
    BY <1>1, <2>1, AppendProperties
  <2>3. /\ t \in Seq(C) /\ Len(t) = n + 1
        /\ \A i \in 1..(n + 1) : t[i] = chunk[i - 1]
    <3>1. PICK k \in Nat : k = n + 1
      OBVIOUS
    <3>2. t \in Seq(C) /\ Len(t) = k /\ \A i \in 1..k : t[i] = chunk[i - 1]
      BY <1>2, <3>1
    <3> QED BY <3>1, <3>2
  <2>4. \A i \in 1..Len(u) : u[i] = t[i]
    <3>1. t[n + 1] = chunk[n]
      BY <2>3
    <3> QED BY <2>1, <2>2, <2>3, <3>1
  <2>5. u = t
    BY <2>2, <2>3, <2>4, SeqEqual
  <2> QED BY <2>5
<1>4. ChunksOf(what, 0) = <<>>
  <2> PICK s : s = ChunksOf(what, 0)
    OBVIOUS
  <2>1. s \in Seq(C) /\ Len(s) = 0
    BY <1>2
  <2>2. s = <<>>
    BY <2>1, EmptySeq
  <2> QED BY <2>2
<1>5. <<chunk[0]>> = ChunksOf(what, 1)
  <2> PICK t : t = ChunksOf(what, 1)
    OBVIOUS
  <2>1. t \in Seq(C) /\ Len(t) = 1 /\ t[1] = chunk[0]
    <3>1. PICK k \in Nat : k = 1
      OBVIOUS
    <3>2. t \in Seq(C) /\ Len(t) = k /\ \A i \in 1..k : t[i] = chunk[i - 1]
      BY <1>2, <3>1
    <3> QED BY <3>1, <3>2
  <2> PICK u : u = <<chunk[0]>>
    OBVIOUS
  <2>2. u \in Seq(C) /\ Len(u) = 1 /\ u[1] = chunk[0]
    BY <1>1
  <2>3. u = t
    BY <2>1, <2>2, SeqEqual
  <2> QED BY <2>3
<1> QED BY <1>1, <1>3, <1>4, <1>5

-----------------------------------------------------------------------------
(* The invariant *)

\* While the host streams, no review is ready, and a session that is open
\* holds its path and the pieces it sent.
Streaming ==
  client.phase = "data" /\ ~client.mixed =>
    /\ ~ReviewReady(G_context)
    /\ G_context.req_type = "CONFIRM_TRANSACTION" =>
         /\ G_context.bip32_path = client.path
         /\ G_context.raw_tx = Bytes(SubSeq(client.tx, 1, client.at))

\* While it waits for the user, the context holds its transaction.
Reviewing ==
  client.phase = "review" =>
    /\ pending
    /\ screen.kind \in {"selector", "param", "review"}
    /\ ~client.mixed => /\ G_context.bip32_path = client.path
                        /\ G_context.raw_tx = Bytes(client.tx)

Confirming ==
  client.phase = "confirm" =>
    /\ pending /\ screen.kind = "address"
    /\ N_storage.pk = client.path

\* While it collects a key, no callback is left that would derive another.
CollectingKey ==
  client.phase = "key" /\ ~client.mixed =>
    /\ N_storage.pk = client.path
    /\ ~pending
    /\ ~ReviewReady(G_context)

\* While it collects a signature, flash holds its own as long as it is served.
CollectingSig ==
  client.phase = "sig" /\ ~client.mixed /\ ServesSignature(G_context) =>
    N_storage.sig = SignatureOf(client.path, Keccak256(Bytes(client.tx)))

Follows == Streaming /\ Reviewing /\ Confirming /\ CollectingKey
             /\ CollectingSig /\ SignatureIsWhole /\ KeyIsWhole

HostInv == Inv /\ FreshReview /\ TypedClient(client) /\ Follows

\* Each phase has its own conditions.
LEMMA FollowsByPhase ==
  ASSUME client'.phase = "data" => Streaming',
         client'.phase = "review" => Reviewing',
         client'.phase = "confirm" => Confirming',
         client'.phase = "key" => CollectingKey',
         client'.phase = "sig" => CollectingSig',
         client'.phase \in {"sig", "signed"} => SignatureIsWhole',
         client'.phase \in {"key", "known"} => KeyIsWhole'
  PROVE  Follows'
BY DEF Follows, Streaming, Reviewing, Confirming, CollectingKey, CollectingSig,
       SignatureIsWhole, KeyIsWhole

\* A host that failed has none.
LEMMA FailedFollows ==
  ASSUME NEW why, client' = Failed(why, client.at) PROVE Follows'
<1>1. client'.phase = "failed"
  BY DEF Failed, Client
<1> QED BY <1>1, FollowsByPhase

\* Nor has one that was mixed with others, unless it waits for the user.
LEMMA MixedFollows ==
  ASSUME client'.mixed, client'.phase \notin {"review", "confirm"}
  PROVE  Follows'
BY FollowsByPhase DEF Streaming, CollectingKey, CollectingSig,
   SignatureIsWhole, KeyIsWhole

\* A step of the device that serves no new signature, and that leaves a host
\* alone which streams or collects a key, when it is between two commands.
LEMMA AloneFollows ==
  ASSUME HostInv, client' = client, [Next]_vars,
         client.phase \notin {"review", "confirm"},
         client.phase = "data" => Streaming',
         client.phase = "key" => CollectingKey',
         client.phase = "sig" =>
           client.mixed \/ ~(rsp' # rsp /\ rsp'.what = "sig" /\ rsp'.index = 0)
  PROVE  Follows'
<1>1. SignatureIsWhole' /\ KeyIsWhole'
  BY DEF HostInv, Follows, SignatureIsWhole, KeyIsWhole
<1>2. CASE client.phase = "sig" /\ ~client.mixed
  <2>1. ASSUME ApproveTransaction, rsp'.what = "sig", rsp'.index = 0
        PROVE  FALSE
    <3>1. ~(rsp.what = "sig" /\ rsp.index = 0)
      BY <2>1 DEF HostInv, FreshReview, ApproveTransaction
    <3> QED BY <1>2, <2>1, <3>1
  <2>2. ServesSignature(G_context') =>
          ServesSignature(G_context) /\ N_storage'.sig = N_storage.sig
    BY <2>1, ServiceStarts DEF HostInv
  <2>3. CollectingSig'
    BY <2>2 DEF HostInv, Follows, CollectingSig
  <2> QED BY <1>1, <1>2, <2>3, FollowsByPhase
<1>3. CASE client.phase = "sig" /\ client.mixed
  BY <1>3, MixedFollows
<1> QED BY <1>1, <1>2, <1>3, FollowsByPhase

\* The host's commands for a signature keep the invariant.
LEMMA SigningFollows ==
  ASSUME HostInv, [Next]_vars, StartSigning \/ SendMore \/ SendLast \/ AskSigChunk
  PROVE  Follows'
<1>0. /\ client \in Clients /\ Inv /\ TypeOK /\ Follows
      /\ G_context \in Contexts /\ N_storage \in Storages
  BY DEF HostInv, TypedClient, Inv, TypeOK
<1>1. CASE StartSigning
  <2>1. PICK path \in Paths, tx \in Transactions :
          OpenSession(path, TRUE) /\ HearsOnce(Client("data", path, tx))
    BY <1>1 DEF StartSigning
  <2>2. CASE client' = Client("data", path, tx)
    <3>1. /\ client'.phase = "data" /\ client'.path = path /\ client'.tx = tx
          /\ client'.at = 0
      BY <2>2 DEF Client
    <3>2. /\ G_context'.state = "STATE_NONE" /\ G_context'.bip32_path = path
          /\ G_context'.raw_tx = <<>>
      BY <2>1 DEF OpenSession, SessionContext, ZeroContext
    <3>3. Streaming'
      BY <3>1, <3>2, NothingStreamed DEF Streaming, ReviewReady
    <3> QED BY <3>1, <3>3, FollowsByPhase
  <2> QED BY <2>1, <2>2, HearsOutcome, FailedFollows DEF HearsOnce
<1>2. ASSUME client.phase = "data"
      PROVE  /\ client.tx \in Transactions
             /\ client.at \in Nat /\ client.at < Len(client.tx)
  BY <1>0, <1>2, EmptySeq DEF HostInv, TypedClient, Clients
<1>3. CASE SendMore
  <2>1. /\ client.phase = "data" /\ MoreData(client.tx[client.at + 1])
        /\ HearsOnce([client EXCEPT !.at = @ + 1])
    BY <1>3 DEF SendMore
  <2>2. CASE rsp'.sw = "SW_OK" /\ client' = [client EXCEPT !.at = @ + 1]
    <3>1. /\ client'.phase = "data" /\ client'.at = client.at + 1
          /\ client'.path = client.path /\ client'.tx = client.tx
          /\ client'.mixed = client.mixed
      BY <1>0, <2>1, <2>2 DEF Clients
    <3>2. SessionOpen /\ G_context' = [G_context EXCEPT !.raw_tx =
                                         @ \o client.tx[client.at + 1]]
      <4>1. ASSUME NEW chunk, RefuseData(chunk) PROVE FALSE
        BY <2>2, <4>1 DEF RefuseData, Reply, Send, Response
      <4> QED BY <2>1, <4>1 DEF MoreData
    <3>3. /\ G_context'.raw_tx = G_context.raw_tx \o client.tx[client.at + 1]
          /\ G_context'.bip32_path = G_context.bip32_path
          /\ G_context.req_type = "CONFIRM_TRANSACTION"
          /\ G_context'.state = "STATE_NONE"
      BY <1>0, <3>2 DEF Contexts, SessionOpen
    <3>4. Bytes(SubSeq(client.tx, 1, client.at + 1)) =
            Bytes(SubSeq(client.tx, 1, client.at)) \o client.tx[client.at + 1]
      BY <1>2, <2>1, PieceStreamed
    <3>5. Streaming'
      <4>1. ASSUME ~client.mixed
            PROVE  /\ G_context.bip32_path = client.path
                   /\ G_context.raw_tx = Bytes(SubSeq(client.tx, 1, client.at))
        BY <1>0, <2>1, <3>3, <4>1 DEF Follows, Streaming
      <4> QED BY <3>1, <3>3, <3>4, <4>1 DEF Streaming, ReviewReady
    <3> QED BY <3>1, <3>5, FollowsByPhase
  <2> QED BY <2>1, <2>2, HearsOutcome, FailedFollows DEF HearsOnce
<1>4. CASE SendLast
  <2>1. /\ client.phase = "data" /\ client.at + 1 = Len(client.tx)
        /\ LastData(client.tx[client.at + 1])
        /\ IF pending' THEN client' = [client EXCEPT !.phase = "review"]
           ELSE HearsOnce(FirstChunk)
    BY <1>4 DEF SendLast
  <2>2. /\ client.tx[client.at + 1] \in Chunks
        /\ Bytes(SubSeq(client.tx, 1, client.at + 1)) =
             Bytes(SubSeq(client.tx, 1, client.at)) \o client.tx[client.at + 1]
        /\ SubSeq(client.tx, 1, client.at + 1) = client.tx
    BY <1>2, <2>1, PieceStreamed
  <2>3. rsp'.sw # "SW_OK"
    BY <1>0, <2>1, <2>2, LastDataKeeps
  <2>4. CASE pending'
    <3>1. /\ G_context.req_type = "CONFIRM_TRANSACTION"
          /\ G_context'.bip32_path = G_context.bip32_path
          /\ G_context'.raw_tx = G_context.raw_tx \o client.tx[client.at + 1]
          /\ screen'.kind \in {"selector", "review"}
      BY <1>0, <2>1, <2>2, <2>4, LastDataKeeps
    <3>2. /\ client'.phase = "review" /\ client'.path = client.path
          /\ client'.tx = client.tx /\ client'.mixed = client.mixed
      BY <1>0, <2>1, <2>4 DEF Clients
    <3>3. ASSUME ~client.mixed
          PROVE  /\ G_context.bip32_path = client.path
                 /\ G_context.raw_tx = Bytes(SubSeq(client.tx, 1, client.at))
      BY <1>0, <2>1, <3>1, <3>3 DEF Follows, Streaming
    <3>4. ~client.mixed => G_context'.raw_tx = Bytes(client.tx)
      <4>1. Bytes(SubSeq(client.tx, 1, client.at + 1)) = Bytes(client.tx)
        BY <2>2
      <4> QED BY <2>2, <3>1, <3>3, <4>1
    <3>5. Reviewing'
      BY <2>4, <3>1, <3>2, <3>3, <3>4 DEF Reviewing
    <3> QED BY <3>2, <3>5, FollowsByPhase
  <2> QED BY <2>1, <2>3, <2>4, HearsOutcome, FailedFollows DEF HearsOnce
<1>5. CASE AskSigChunk
  <2>1. /\ client.phase = "sig" /\ SigChunk(client.at)
        /\ Hears(Collected("signed", LAST_SIG_CHUNK, SigData), client)
    BY <1>5 DEF AskSigChunk
  <2>2. client.at \in 1..LAST_SIG_CHUNK /\ client.at \in Nat /\ client.at # 0
    BY <1>0, <2>1, BoundAssumption DEF HostInv, TypedClient, Clients
  <2>3. CASE client' = client
    <3>1. rsp'.what = "sig" => rsp'.index # 0
      BY <2>1, <2>2 DEF SigChunk, SendSigChunk, Reply, Send, Response
    <3> QED BY <2>1, <2>3, <3>1, AloneFollows
  <2>4. CASE /\ rsp'.sw = "SW_OK"
             /\ client' = Collected("signed", LAST_SIG_CHUNK, SigData)
    <3>1. /\ client'.phase \in {"sig", "signed"}
          /\ client'.path = client.path /\ client'.tx = client.tx
          /\ client'.mixed = client.mixed /\ client'.at = client.at + 1
          /\ client'.chunks = Append(client.chunks, SigData)
          /\ client'.phase = "sig" => client.at # LAST_SIG_CHUNK
      BY <1>0, <2>1, <2>4 DEF Collected, Clients
    <3>2. MayServe /\ SendSigChunk(client.at, G_context, N_storage, TRUE)
      <4>1. ASSUME Reply("SW_BAD_STATE") PROVE FALSE
        BY <2>4, <4>1 DEF Reply, Send, Response
      <4> QED BY <2>1, <4>1 DEF SigChunk
    <3>3. N_storage'.sig = N_storage.sig /\ rsp'.index = client.at
      BY <1>0, <3>2 DEF SendSigChunk, Send, Response, Storages
    <3>4. CASE client.mixed
      BY <3>1, <3>4, MixedFollows
    <3>5. CASE ~client.mixed
      <4>1. PICK s : s = SignatureOf(client.path, Keccak256(Bytes(client.tx)))
        OBVIOUS
      <4>2. N_storage.sig = s
        BY <1>0, <2>1, <3>2, <3>5, <4>1
           DEF Follows, CollectingSig, ServesSignature, MayServe
      <4>3. client.chunks = ChunksOf(s, client.at)
        BY <1>0, <2>1, <3>5, <4>1 DEF Follows, SignatureIsWhole
      <4>4. SigData = [of |-> s, index |-> client.at]
        BY <3>3, <4>2 DEF SigData
      <4>5. client'.chunks = ChunksOf(s, client'.at)
        BY <2>2, <3>1, <4>3, <4>4, ChunkCollected
      <4>6. SignatureIsWhole'
        BY <3>1, <4>1, <4>5 DEF SignatureIsWhole
      <4>7. CollectingSig'
        BY <3>1, <3>3, <4>1, <4>2 DEF CollectingSig
      <4> QED BY <3>1, <4>6, <4>7, FollowsByPhase
    <3> QED BY <3>4, <3>5, <1>0 DEF Clients
  <2> QED BY <2>1, <2>3, <2>4, HearsOutcome, FailedFollows
<1> QED BY <1>1, <1>3, <1>4, <1>5

\* Its commands for a key do.
LEMMA KeyFollows ==
  ASSUME HostInv, [Next]_vars, StartKey \/ AskPkChunk
  PROVE  Follows'
<1>0. /\ client \in Clients /\ Inv /\ TypeOK /\ Follows
      /\ G_context \in Contexts /\ N_storage \in Storages
  BY DEF HostInv, TypedClient, Inv, TypeOK
<1>1. CASE StartKey
  <2>1. PICK path \in Paths, display \in BOOLEAN :
          /\ GetPublicKey(path, TRUE, display)
          /\ IF pending'
               THEN client' = [Client("key", path, <<>>) EXCEPT !.phase = "confirm"]
               ELSE HearsOnce(Client("key", path, <<>>))
    BY <1>1 DEF StartKey
  <2>2. /\ G_context'.req_type = "CONFIRM_ADDRESS"
        /\ pending' => screen'.kind = "address"
        /\ pending' \/ rsp'.sw = "SW_OK" => N_storage'.pk = path
    BY <1>0, <2>1, GetPublicKeyKeeps
  <2>3. CASE pending'
    <3>1. client'.phase = "confirm" /\ client'.path = path
      BY <2>1, <2>3 DEF Client
    <3>2. Confirming'
      BY <2>2, <2>3, <3>1 DEF Confirming
    <3> QED BY <3>1, <3>2, FollowsByPhase
  <2>4. CASE ~pending' /\ rsp'.sw = "SW_OK" /\ client' = Client("key", path, <<>>)
    <3>1. /\ client'.phase = "key" /\ client'.path = path
          /\ client'.at = 0 /\ client'.chunks = <<>>
      BY <2>4 DEF Client
    <3>2. CollectingKey'
      BY <2>2, <2>4, <3>1 DEF CollectingKey, ReviewReady
    <3>3. KeyIsWhole'
      BY <3>1, ChunkCollected DEF KeyIsWhole
    <3> QED BY <3>1, <3>2, <3>3, FollowsByPhase
  <2> QED BY <2>1, <2>3, <2>4, HearsOutcome, FailedFollows DEF HearsOnce
<1>2. CASE AskPkChunk
  <2>1. /\ client.phase = "key" /\ PkChunk(client.at)
        /\ Hears(Collected("known", PK_CHUNKS - 1, KeyData), client)
    BY <1>2 DEF AskPkChunk
  <2>2. /\ UNCHANGED <<G_context, N_storage>> /\ ~pending'
        /\ rsp'.what = "pk" /\ rsp'.index = client.at
    BY <2>1 DEF PkChunk, Send, Response
  <2>3. CASE client' = client
    <3>1. CollectingKey'
      BY <1>0, <2>2, <2>3 DEF Follows, CollectingKey
    <3> QED BY <2>1, <2>3, <3>1, AloneFollows
  <2>4. CASE client' = Collected("known", PK_CHUNKS - 1, KeyData)
    <3>1. /\ client'.phase \in {"key", "known"}
          /\ client'.path = client.path
          /\ client'.mixed = client.mixed /\ client'.at = client.at + 1
          /\ client'.chunks = Append(client.chunks, KeyData)
      BY <1>0, <2>1, <2>4 DEF Collected, Clients
    <3>2. CASE client.mixed
      BY <3>1, <3>2, MixedFollows
    <3>3. CASE ~client.mixed
      <4>1. N_storage.pk = client.path
        BY <1>0, <2>1, <3>3 DEF Follows, CollectingKey
      <4>2. client.chunks = ChunksOf(client.path, client.at)
        BY <1>0, <2>1, <3>3 DEF Follows, KeyIsWhole
      <4>3. KeyData = [of |-> client.path, index |-> client.at]
        BY <2>2, <4>1 DEF KeyData
      <4>4. client.at \in Nat
        BY <1>0 DEF Clients
      <4>5. KeyIsWhole'
        BY <3>1, <4>2, <4>3, <4>4, ChunkCollected DEF KeyIsWhole
      <4>6. CollectingKey'
        BY <1>0, <2>1, <2>2, <3>1, <3>3 DEF Follows, CollectingKey
      <4> QED BY <3>1, <4>5, <4>6, FollowsByPhase
    <3> QED BY <3>2, <3>3
  <2> QED BY <2>1, <2>3, <2>4, HearsOutcome, FailedFollows
<1> QED BY <1>1, <1>2

\* The user's callbacks do.
LEMMA UserFollows ==
  ASSUME HostInv, [Next]_vars, UserActs
  PROVE  Follows'
<1>0. /\ client \in Clients /\ Inv /\ TypeOK /\ Follows /\ User
      /\ G_context \in Contexts /\ N_storage \in Storages
      /\ pending \in BOOLEAN
  BY DEF HostInv, TypedClient, Inv, TypeOK, UserActs
<1>1. CASE client.phase = "review" /\ pending /\ ~pending'
  <2>1. HearsOnce(FirstChunk)
    BY <1>1 DEF UserActs
  <2>2. CASE rsp'.sw = "SW_OK" /\ client' = FirstChunk
    <3>1. /\ client'.phase = "sig" /\ client'.path = client.path
          /\ client'.tx = client.tx /\ client'.mixed = client.mixed
          /\ client'.at = 1 /\ client'.chunks = <<SigData>>
      BY <1>0, <2>2 DEF FirstChunk, Clients
    <3>2. ApproveTransaction /\ screen.kind = "review" /\ rsp'.what = "sig"
      <4>1. screen.kind \in {"selector", "param", "review"}
        BY <1>0, <1>1 DEF Follows, Reviewing
      <4>2. ASSUME Reject PROVE FALSE
        BY <2>2, <4>2 DEF Reject, Deny, CallbackReply, Send, Response
      <4>3. ASSUME ApproveAddress PROVE FALSE
        BY <4>1, <4>3 DEF ApproveAddress
      <4>4. ASSUME ConfirmCalldata PROVE FALSE
        <5>1. CASE UNCHANGED pending
          BY <1>1, <5>1
        <5>2. CASE Display(G_context, TRUE, pending)
          BY <1>0, <2>2, <5>2, DisplayKeeps
        <5> QED BY <4>4, <5>1, <5>2 DEF ConfirmCalldata
      <4>5. ASSUME LeaveScreen \/ \E s \in Switches : Toggle(s) PROVE FALSE
        BY <1>1, <4>5 DEF LeaveScreen, Toggle
      <4>6. ApproveTransaction
        BY <1>0, <4>2, <4>3, <4>4, <4>5 DEF User, Choose
      <4>7. ~ CallbackReply("SW_SIGNATURE_FAIL")
        BY <2>2 DEF CallbackReply, Send, Response
      <4> QED BY <4>6, <4>7, Sent DEF ApproveTransaction, SendSigChunk
    <3>3. /\ rsp'.index = 0
          /\ N_storage'.sig = SignatureOf(G_context.bip32_path, G_context.m_hash)
      <4>1. Next /\ ~Host
        BY <1>0, <1>1, HostNeedsIdle DEF Next
      <4>2. screen'.kind = "status"
        BY <3>2 DEF ApproveTransaction, StatusScreen, Blank
      <4> QED BY <1>0, <3>2, <4>1, <4>2, ChunkSteps
    <3>4. G_context.m_hash = Keccak256(G_context.raw_tx)
      BY <1>0, <1>1, <3>2 DEF Inv, ReviewShowsContext, HoldsDecodedTx
    <3>5. CASE client.mixed
      BY <3>1, <3>5, MixedFollows
    <3>6. CASE ~client.mixed
      <4>1. PICK s : s = SignatureOf(client.path, Keccak256(Bytes(client.tx)))
        OBVIOUS
      <4>2. G_context.bip32_path = client.path /\ G_context.raw_tx = Bytes(client.tx)
        BY <1>0, <1>1, <3>6 DEF Follows, Reviewing
      <4>3. N_storage'.sig = s
        BY <3>3, <3>4, <4>1, <4>2
      <4>4. <<SigData>> = ChunksOf(s, 1)
        <5>1. SigData = [of |-> s, index |-> 0]
          BY <3>3, <4>3 DEF SigData
        <5> QED BY <5>1, ChunkCollected
      <4>5. SignatureIsWhole'
        BY <3>1, <4>1, <4>4 DEF SignatureIsWhole
      <4>6. CollectingSig'
        BY <3>1, <4>1, <4>3 DEF CollectingSig
      <4> QED BY <3>1, <4>5, <4>6, FollowsByPhase
    <3> QED BY <3>5, <3>6
  <2> QED BY <2>1, <2>2, HearsOutcome, FailedFollows DEF HearsOnce
<1>2. CASE client.phase = "confirm" /\ pending /\ ~pending'
  <2>1. HearsOnce([client EXCEPT !.phase = "key"])
    BY <1>2 DEF UserActs
  <2>2. CASE rsp'.sw = "SW_OK" /\ client' = [client EXCEPT !.phase = "key"]
    <3>1. /\ client'.phase = "key" /\ client'.path = client.path
          /\ client'.mixed = client.mixed
          /\ client'.at = 0 /\ client'.chunks = <<>>
      BY <1>0, <1>2, <2>2 DEF Clients, HostInv, TypedClient
    <3>2. screen.kind = "address" /\ N_storage.pk = client.path
      BY <1>0, <1>2 DEF Follows, Confirming
    <3>3. ApproveAddress
      <4>1. ASSUME Reject PROVE FALSE
        BY <2>2, <4>1 DEF Reject, Deny, CallbackReply, Send, Response
      <4> QED BY <1>0, <3>2, <4>1 DEF User, Choose, ApproveTransaction,
              ConfirmCalldata, LeaveScreen, Toggle
    <3>4. N_storage'.pk = client.path /\ ~ReviewReady(G_context')
      BY <1>0, <3>2, <3>3 DEF ApproveAddress, Contexts, ReviewReady
    <3>5. CollectingKey'
      BY <1>2, <3>1, <3>4 DEF CollectingKey
    <3>6. KeyIsWhole'
      BY <3>1, ChunkCollected DEF KeyIsWhole
    <3> QED BY <3>1, <3>5, <3>6, FollowsByPhase
  <2> QED BY <2>1, <2>2, HearsOutcome, FailedFollows DEF HearsOnce
<1>3. CASE ~(client.phase \in {"review", "confirm"} /\ pending /\ ~pending')
  <2>1. PICK other : /\ other = (client.phase = "sig" /\ rsp' # rsp /\ rsp'.what = "sig")
                     /\ Mixed(other)
    BY <1>3 DEF UserActs
  <2>2. CASE other
    <3>1. client' = [client EXCEPT !.mixed = TRUE] /\ client.phase = "sig"
      BY <1>0, <2>1, <2>2, MixedOutcome
    <3>2. client'.mixed /\ client'.phase = "sig"
      BY <1>0, <3>1 DEF Clients
    <3> QED BY <3>2, MixedFollows
  <2>3. CASE ~other
    <3>1. client' = client
      BY <1>0, <2>1, <2>3, MixedOutcome
    <3>2. ASSUME client.phase = "data" PROVE Streaming'
      BY <1>0, <3>1, <3>2, UserKeepsSession DEF Follows, Streaming
    <3>3. ASSUME client.phase = "key" PROVE CollectingKey'
      BY <1>0, <3>1, <3>3, UserKeepsSession DEF Follows, CollectingKey
    <3>4. CASE client.phase = "review"
      <4>1. pending /\ pending' /\ screen.kind \in {"selector", "param", "review"}
        BY <1>0, <1>3, <3>4 DEF Follows, Reviewing
      <4>2. ConfirmCalldata
        BY <1>0, <4>1 DEF User, Choose, Reject, Deny, CallbackReply, Send,
           ApproveAddress, ApproveTransaction, SendSigChunk, LeaveScreen, Toggle
      <4>3. /\ screen'.kind \in {"param", "review"}
            /\ G_context'.bip32_path = G_context.bip32_path
            /\ G_context'.raw_tx = G_context.raw_tx
        <5>1. CASE screen' = Blank("param") /\ UNCHANGED G_context
          BY <5>1 DEF Blank
        <5>2. CASE Display(G_context, TRUE, pending)
          BY <1>0, <4>1, <5>2, DisplayKeeps
        <5> QED BY <4>2, <5>1, <5>2 DEF ConfirmCalldata
      <4>4. Reviewing'
        BY <1>0, <3>1, <4>1, <4>3 DEF Follows, Reviewing
      <4> QED BY <3>1, <3>4, <4>4, FollowsByPhase
    <3>5. ASSUME client.phase = "confirm" PROVE FALSE
      <4>1. pending /\ pending' /\ screen.kind = "address"
        BY <1>0, <1>3, <3>5 DEF Follows, Confirming
      <4> QED BY <1>0, <4>1 DEF User, Choose, Reject, Deny, CallbackReply, Send,
              ApproveAddress, ApproveTransaction, ConfirmCalldata, LeaveScreen,
              Toggle
    <3> QED BY <2>1, <2>3, <3>1, <3>2, <3>3, <3>4, <3>5, AloneFollows
  <2> QED BY <2>2, <2>3
<1> QED BY <1>1, <1>2, <1>3

\* The commands of other programs do.
LEMMA OthersFollow ==
  ASSUME HostInv, [Next]_vars, Others
  PROVE  Follows'
<1>0. /\ client \in Clients /\ Inv /\ TypeOK /\ Follows
      /\ G_context \in Contexts /\ N_storage \in Storages
  BY DEF HostInv, TypedClient, Inv, TypeOK
<1>1. ~pending /\ client.phase \notin {"review", "confirm"}
  <2>1. ~pending
    BY DEF Others, OpenSession, MoreData, LastData, GetPublicKey, SigChunk,
           PkChunk
  <2> QED BY <1>0, <2>1 DEF Follows, Reviewing, Confirming
<1>2. ASSUME NEW other, Mixed(other), other PROVE Follows'
  <2>1. client' = [client EXCEPT !.mixed = TRUE]
    BY <1>0, <1>2, MixedOutcome
  <2>2. client'.mixed /\ client'.phase \notin {"review", "confirm"}
    BY <1>0, <1>1, <2>1 DEF Clients
  <2> QED BY <2>2, MixedFollows
<1>3. ASSUME NEW other, Mixed(other), ~other PROVE client' = client
  BY <1>0, <1>3, MixedOutcome
<1>4. ASSUME UNCHANGED <<G_context, N_storage>>, ~pending', client' = client
      PROVE  /\ client.phase = "data" => Streaming'
             /\ client.phase = "key" => CollectingKey'
  BY <1>0, <1>4 DEF Follows, Streaming, CollectingKey
<1>5. ASSUME NEW path \in Paths, OpenSession(path, TRUE),
             Mixed(client.phase = "data")
      PROVE  Follows'
  <2>1. CASE client.phase = "data"
    BY <1>2, <1>5, <2>1
  <2>2. CASE client.phase # "data"
    <3>1. client' = client
      BY <1>3, <1>5, <2>2
    <3>2. /\ G_context'.state = "STATE_NONE" /\ ~pending'
          /\ N_storage'.pk = N_storage.pk /\ rsp'.what = "nothing"
      BY <1>0, <1>5 DEF OpenSession, SessionContext, ZeroContext, Storages,
                        Reply, Send, Response
    <3>3. client.phase = "key" => CollectingKey'
      BY <1>0, <3>1, <3>2 DEF Follows, CollectingKey, ReviewReady
    <3> QED BY <1>1, <2>2, <3>1, <3>2, <3>3, AloneFollows
  <2> QED BY <2>1, <2>2
<1>6. ASSUME NEW chunk \in Chunks, MoreData(chunk), Mixed(client.phase = "data")
      PROVE  Follows'
  <2>1. CASE client.phase = "data"
    BY <1>2, <1>6, <2>1
  <2>2. CASE client.phase # "data"
    <3>1. client' = client
      BY <1>3, <1>6, <2>2
    <3>2. N_storage' = N_storage /\ ~pending' /\ rsp'.what = "nothing"
      BY <1>6 DEF MoreData, RefuseData, Reply, Send, Response
    <3>3. \/ G_context' = G_context
          \/ G_context'.state = "STATE_NONE"
      BY <1>0, <1>6 DEF MoreData, RefuseData, SessionOpen, Contexts
    <3>4. client.phase = "key" => CollectingKey'
      BY <1>0, <3>1, <3>2, <3>3 DEF Follows, CollectingKey, ReviewReady
    <3> QED BY <1>1, <2>2, <3>1, <3>2, <3>4, AloneFollows
  <2> QED BY <2>1, <2>2
<1>7. ASSUME NEW chunk \in Chunks, LastData(chunk),
             Mixed(client.phase \in {"data", "key"})
      PROVE  Follows'
  <2>0. PICK other : other = (client.phase \in {"data", "key"})
    OBVIOUS
  <2>1. CASE other
    BY <1>2, <1>7, <2>0, <2>1
  <2>2. CASE ~other
    <3>1. client' = client
      BY <1>3, <1>7, <2>0, <2>2
    <3>2. rsp'.what = "nothing"
      BY <1>0, <1>7, LastDataKeeps
    <3> QED BY <1>1, <2>0, <2>2, <3>1, <3>2, AloneFollows
  <2> QED BY <2>1, <2>2
<1>8. ASSUME NEW path \in Paths, NEW display, GetPublicKey(path, TRUE, display),
             Mixed(client.phase = "key")
      PROVE  Follows'
  <2>1. CASE client.phase = "key"
    BY <1>2, <1>8, <2>1
  <2>2. CASE client.phase # "key"
    <3>1. client' = client
      BY <1>3, <1>8, <2>2
    <3>2. G_context'.req_type = "CONFIRM_ADDRESS" /\ rsp'.what # "sig"
      BY <1>0, <1>8, GetPublicKeyKeeps
    <3>3. client.phase = "data" => Streaming'
      BY <3>2 DEF Streaming, ReviewReady
    <3> QED BY <1>1, <2>2, <3>1, <3>2, <3>3, AloneFollows
  <2> QED BY <2>1, <2>2
<1>9. ASSUME NEW i \in 1..LAST_SIG_CHUNK, SigChunk(i), client' = client
      PROVE  Follows'
  <2>1. /\ G_context' = G_context \/ G_context' = ZeroContext
        /\ N_storage'.pk = N_storage.pk /\ ~pending'
    BY <1>0, <1>9 DEF SigChunk, SendSigChunk, ContextAfter, Reply, Send, Storages
  <2>2. rsp'.what = "sig" => rsp'.index # 0
    <3>1. i # 0
      BY BoundAssumption
    <3> QED BY <1>9, <3>1 DEF SigChunk, SendSigChunk, Reply, Send, Response
  <2>3. client.phase = "data" => Streaming'
    BY <1>0, <1>9, <2>1 DEF Follows, Streaming, ZeroContext, ReviewReady
  <2>4. client.phase = "key" => CollectingKey'
    BY <1>0, <1>9, <2>1 DEF Follows, CollectingKey, ZeroContext, ReviewReady
  <2> QED BY <1>1, <1>9, <2>2, <2>3, <2>4, AloneFollows
<1>10. ASSUME NEW i, PkChunk(i), client' = client PROVE Follows'
  <2>1. UNCHANGED <<G_context, N_storage>> /\ ~pending' /\ rsp'.what = "pk"
    BY <1>10 DEF PkChunk, Send, Response
  <2> QED BY <1>1, <1>4, <1>10, <2>1, AloneFollows
<1> QED BY <1>5, <1>6, <1>7, <1>8, <1>9, <1>10 DEF Others

\* A restart ends what the host was at.
LEMMA BreaksFollow ==
  ASSUME HostInv, Breaks
  PROVE  Follows'
<1>1. CASE client.phase \in Resting /\ client' = client
  BY <1>1, FollowsByPhase
     DEF HostInv, Follows, Resting, SignatureIsWhole, KeyIsWhole
<1> QED BY <1>1, FailedFollows DEF Breaks

\* Every step keeps the invariant: the device its own, the client its types, and
\* what the client knows of the device.
LEMMA HostInvStep == HostInv /\ [HostNext]_hostVars => HostInv'
<1> SUFFICES ASSUME HostInv, [HostNext]_hostVars PROVE HostInv'
  OBVIOUS
<1>0. TypedClient(client) /\ Inv /\ TypeOK
  BY DEF HostInv, Inv
<1>1. [Next]_vars
  BY <1>0, ClientStep
<1>2. Inv' /\ TypeOK'
  BY <1>0, <1>1, NextSafe DEF Inv
<1>3. FreshReview' /\ TypedClient(client')
  BY <1>0, <1>1, <1>2, FreshStep, TypedStep DEF HostInv
<1>4. ASSUME UNCHANGED hostVars PROVE Follows'
  <2>1. UNCHANGED <<G_context, N_storage, screen, pending, client>>
    BY <1>4 DEF hostVars
  <2>2. Streaming' /\ Reviewing'
    BY <2>1 DEF HostInv, Follows, Streaming, Reviewing
  <2>3. Confirming' /\ CollectingKey' /\ CollectingSig'
    BY <2>1 DEF HostInv, Follows, Confirming, CollectingKey, CollectingSig
  <2>4. SignatureIsWhole' /\ KeyIsWhole'
    BY <2>1 DEF HostInv, Follows, SignatureIsWhole, KeyIsWhole
  <2> QED BY <2>2, <2>3, <2>4 DEF Follows
<1>5. Follows'
  BY <1>1, <1>4, SigningFollows, KeyFollows, UserFollows, OthersFollow,
     BreaksFollow DEF HostNext, Start, GoOn, HostInv
<1> QED BY <1>2, <1>3, <1>5 DEF HostInv

\* It holds of a device that was just installed and a client at rest.
LEMMA HostInvInit == HostInit => HostInv
<1> SUFFICES ASSUME HostInit PROVE HostInv
  OBVIOUS
<1>1. client.phase = "idle"
  BY DEF HostInit, Client
<1>2. TypedClient(client)
  <2>1. client \in Clients
    BY ClientType DEF HostInit, KeptPaths, Phases, Resting
  <2> QED BY <1>1, <2>1 DEF TypedClient
<1>3. Inv /\ FreshReview
  BY InitSafe DEF HostInit, Init, FreshReview, HomePage, Blank
<1>4. Follows
  BY <1>1 DEF Follows, Streaming, Reviewing, Confirming, CollectingKey,
     CollectingSig, SignatureIsWhole, KeyIsWhole
<1> QED BY <1>2, <1>3, <1>4 DEF HostInv

\* So it always holds.
LEMMA HostInvariance == HostSpec => []HostInv
BY HostInvInit, HostInvStep, PTL DEF HostSpec

-----------------------------------------------------------------------------
(* What the host can rely on *)

\* A device used by this host, other programs and the user does nothing that
\* LedgerApp does not allow, so that its theorems hold here too.
THEOREM HostUsesTheDevice == HostSpec => Spec
<1>1. HostInit => Init
  BY DEF HostInit
<1>2. HostInv /\ [HostNext]_hostVars => [Next]_vars
  BY ClientStep DEF HostInv
<1> QED BY <1>1, <1>2, HostInvariance, PTL DEF HostSpec, Spec

\* The host keeps its types and asks only for chunks that exist.
THEOREM HostTypeCorrect == HostSpec => []HostTypeOK
<1>1. HostInv => HostTypeOK
  BY DEF HostInv, TypedClient, Clients, Phases, KeptPaths, HostTypeOK
<1> QED BY <1>1, HostInvariance, PTL

\* The chunks a host collects are those of one signature: of its transaction,
\* with its key.
THEOREM SignatureArrivesWhole == HostSpec => []SignatureIsWhole
<1>1. HostInv => SignatureIsWhole
  BY DEF HostInv, Follows
<1> QED BY <1>1, HostInvariance, PTL

\* The chunks of a public key are those of the key the host asked for.
THEOREM KeyArrivesWhole == HostSpec => []KeyIsWhole
<1>1. HostInv => KeyIsWhole
  BY DEF HostInv, Follows
<1> QED BY <1>1, HostInvariance, PTL

-----------------------------------------------------------------------------
(* A host that is alone *)

\* No screen is left with a choice while the host collects a signature.
Undisturbed == client.phase = "sig" => screen.kind \in {"status", "home"}

AloneInv == HostInv /\ Undisturbed /\ ServedUntilLast

\* A host that collects nothing needs no service.
LEMMA ServiceUnneeded ==
  ASSUME client'.phase # "sig" PROVE Undisturbed' /\ ServedUntilLast'
BY DEF Undisturbed, ServedUntilLast

\* A client whose call failed asks for no chunk any more.
LEMMA FailureUnneeded ==
  ASSUME NEW why, client' = Failed(why, client.at)
  PROVE  Undisturbed' /\ ServedUntilLast'
<1>1. client'.phase # "sig"
  BY DEF Failed, Client
<1> QED BY <1>1, ServiceUnneeded

\* Asking for a chunk, whether or not the answer arrives.
LEMMA AskKeepsService ==
  ASSUME AloneInv, AskSigChunk
  PROVE  Undisturbed' /\ ServedUntilLast'
<1>0. /\ client \in Clients /\ client.phase = "sig" /\ SigChunk(client.at)
      /\ client.at \in 1..LAST_SIG_CHUNK
      /\ G_context \in Contexts /\ N_storage \in Storages
      /\ Hears(Collected("signed", LAST_SIG_CHUNK, SigData), client)
  BY DEF AskSigChunk, AloneInv, HostInv, TypedClient, Inv, TypeOK
<1>1. UNCHANGED screen /\ screen.kind \in {"status", "home"}
  BY <1>0 DEF SigChunk, AloneInv, Undisturbed
<1>2. CASE MayServe /\ SendSigChunk(client.at, G_context, N_storage, TRUE)
  <2>1. client.at \in Nat /\ client.at # 0
    BY <1>0, BoundAssumption
  <2>2. CASE client.at = LAST_SIG_CHUNK
    <3>1. G_context' = ZeroContext
      BY <1>2, <2>2 DEF SendSigChunk, ContextAfter
    <3>2. CASE client' = client
      BY <1>0, <1>1, <2>2, <3>1, <3>2 DEF Undisturbed, ServedUntilLast
    <3>3. CASE client' = Collected("signed", LAST_SIG_CHUNK, SigData)
      <4>1. client'.phase = "signed"
        BY <1>0, <2>2, <3>3 DEF Collected, Clients
      <4> QED BY <4>1, ServiceUnneeded
    <3> QED BY <1>0, <3>2, <3>3, HearsOutcome, FailureUnneeded
  <2>3. CASE client.at # LAST_SIG_CHUNK
    <3>1. /\ G_context' = G_context
          /\ N_storage'.is_sending_signature = N_storage.is_sending_signature
      BY <1>0, <1>2, <2>1, <2>3
         DEF SendSigChunk, ContextAfter, SendingAfter, Storages
    <3>2. MayServe'
      BY <1>2, <3>1 DEF MayServe
    <3>3. Undisturbed' /\ ServedUntilLast'
      BY <1>1, <3>2 DEF Undisturbed, ServedUntilLast
    <3> QED BY <3>3
  <2> QED BY <2>2, <2>3
<1>3. CASE ~MayServe /\ Reply("SW_BAD_STATE") /\ UNCHANGED G_context
  <2>1. client.at = LAST_SIG_CHUNK /\ G_context' = ZeroContext
    BY <1>0, <1>3 DEF AloneInv, ServedUntilLast
  <2>2. rsp'.sw # "SW_OK"
    BY <1>3 DEF Reply, Send, Response
  <2>3. CASE client' = client
    BY <1>0, <1>1, <2>1, <2>3 DEF Undisturbed, ServedUntilLast
  <2> QED BY <1>0, <2>2, <2>3, HearsOutcome, FailureUnneeded
<1> QED BY <1>0, <1>2, <1>3 DEF SigChunk

\* The user's callbacks: the one that grants the service, and those of screens
\* without a choice.
LEMMA UserKeepsService ==
  ASSUME AloneInv, UserActs
  PROVE  Undisturbed' /\ ServedUntilLast'
<1>0. /\ client \in Clients /\ Inv /\ User /\ Follows
      /\ G_context \in Contexts /\ N_storage \in Storages
  BY DEF AloneInv, HostInv, TypedClient, Inv, TypeOK, UserActs
<1>1. CASE client.phase = "review" /\ pending /\ ~pending'
  <2>1. CASE client' = FirstChunk /\ rsp'.sw = "SW_OK"
    <3>1. /\ client'.phase = "sig"
          /\ screen.kind \in {"selector", "param", "review"}
      BY <1>0, <1>1, <2>1 DEF FirstChunk, Clients, Follows, Reviewing
    <3>2. ApproveTransaction
      <4>1. ASSUME Reject PROVE FALSE
        BY <2>1, <4>1 DEF Reject, Deny, CallbackReply, Send, Response
      <4>2. ASSUME ConfirmCalldata PROVE FALSE
        <5>1. CASE UNCHANGED pending
          BY <1>1, <5>1
        <5>2. CASE Display(G_context, TRUE, pending)
          BY <1>0, <1>1, <2>1, <5>2, DisplayKeeps
        <5> QED BY <4>2, <5>1, <5>2 DEF ConfirmCalldata
      <4> QED BY <1>0, <3>1, <4>1, <4>2 DEF User, Choose, ApproveAddress,
              LeaveScreen, Toggle
    <3>3. G_context.req_type = "CONFIRM_TRANSACTION"
      BY <1>0, <1>1, <3>2 DEF ApproveTransaction, Inv, ReviewShowsContext,
         HoldsDecodedTx, ReviewReady
    <3>4. ~ CallbackReply("SW_SIGNATURE_FAIL")
      BY <2>1 DEF CallbackReply, Send, Response
    <3>5. PICK o \in SigningOutcomes(G_context.bip32_path, G_context.m_hash,
                                     N_storage) :
            SendSigChunk(0, Approved(G_context),
                         [N_storage EXCEPT !.sig = o.sig], pending)
      BY <3>2, <3>4 DEF ApproveTransaction
    <3>6. G_context' = Approved(G_context)
      BY <3>5, BoundAssumption DEF SendSigChunk, ContextAfter
    <3>7. N_storage'.is_sending_signature
      BY <1>0, <3>5 DEF SendSigChunk, SendingAfter, Storages
    <3>8. MayServe'
      BY <1>0, <3>3, <3>6, <3>7 DEF MayServe, Approved, Contexts
    <3>9. screen'.kind = "status"
      BY <3>2 DEF ApproveTransaction, StatusScreen, Blank
    <3> QED BY <3>8, <3>9 DEF Undisturbed, ServedUntilLast
  <2> QED BY <1>1, <2>1, HearsOutcome, FailureUnneeded DEF UserActs, HearsOnce
<1>2. CASE client.phase = "confirm" /\ pending /\ ~pending'
  <2>1. CASE client' = [client EXCEPT !.phase = "key"]
    <3>1. client'.phase = "key"
      BY <1>0, <2>1 DEF Clients
    <3> QED BY <3>1, ServiceUnneeded
  <2> QED BY <1>2, <2>1, HearsOutcome, FailureUnneeded DEF UserActs, HearsOnce
<1>3. CASE ~(client.phase \in {"review", "confirm"} /\ pending /\ ~pending')
  <2>1. client'.phase = client.phase /\ client'.at = client.at
    <3>1. PICK other : Mixed(other)
      BY <1>3 DEF UserActs
    <3>2. client' \in {client, [client EXCEPT !.mixed = TRUE]}
      BY <1>0, <3>1, MixedOutcome
    <3> QED BY <1>0, <3>2 DEF Clients
  <2>2. CASE client.phase = "sig"
    <3>1. screen.kind \in {"status", "home"}
      BY <2>2 DEF AloneInv, Undisturbed
    <3>2. LeaveScreen \/ \E s \in Switches : Toggle(s)
      BY <1>0, <3>1 DEF User, Choose, Reject, ApproveAddress,
         ApproveTransaction, ConfirmCalldata
    <3>3. /\ screen'.kind = "home" /\ G_context' = G_context
          /\ N_storage'.is_sending_signature = N_storage.is_sending_signature
      BY <1>0, <3>2 DEF LeaveScreen, Toggle, HomePage, Blank, Storages
    <3>4. MayServe' = MayServe
      BY <3>3 DEF MayServe
    <3> QED BY <2>1, <2>2, <3>3, <3>4
            DEF AloneInv, Undisturbed, ServedUntilLast
  <2> QED BY <2>1, <2>2, ServiceUnneeded
<1> QED BY <1>1, <1>2, <1>3

\* With nobody else on the line, every step keeps the service of the chunks that
\* are still to be fetched.
LEMMA AloneStep ==
  ASSUME OthersSend = {} PROVE AloneInv /\ [HostNext]_hostVars => AloneInv'
<1> SUFFICES ASSUME AloneInv, [HostNext]_hostVars PROVE AloneInv'
  OBVIOUS
<1>0. HostInv' /\ client \in Clients /\ TypeOK
  BY HostInvStep DEF AloneInv, HostInv, TypedClient, Inv
<1>1. CASE StartSigning
  <2>1. ASSUME NEW path, NEW tx, HearsOnce(Client("data", path, tx))
        PROVE  Undisturbed' /\ ServedUntilLast'
    <3>1. Client("data", path, tx).phase = "data"
      BY DEF Client
    <3> QED BY <2>1, <3>1, HearsOutcome, FailureUnneeded, ServiceUnneeded
            DEF HearsOnce
  <2> QED BY <1>0, <1>1, <2>1 DEF StartSigning, AloneInv
<1>2. CASE SendMore
  <2>1. [client EXCEPT !.at = @ + 1].phase = "data"
    BY <1>0, <1>2 DEF SendMore, Clients
  <2>2. Undisturbed' /\ ServedUntilLast'
    BY <1>2, <2>1, HearsOutcome, FailureUnneeded, ServiceUnneeded
       DEF SendMore, HearsOnce
  <2> QED BY <1>0, <2>2 DEF AloneInv
<1>3. CASE SendLast
  <2>1. /\ client.phase = "data" /\ client.tx \in Transactions
        /\ client.at \in Nat /\ client.at < Len(client.tx)
    BY <1>0, <1>3, EmptySeq
       DEF SendLast, AloneInv, HostInv, TypedClient, Clients
  <2>2. rsp'.sw # "SW_OK"
    BY <1>0, <1>3, <2>1, PieceStreamed, LastDataKeeps DEF SendLast
  <2>3. [client EXCEPT !.phase = "review"].phase = "review"
    BY <1>0 DEF Clients
  <2>4. Undisturbed' /\ ServedUntilLast'
    BY <1>3, <2>2, <2>3, HearsOutcome, FailureUnneeded, ServiceUnneeded
       DEF SendLast, HearsOnce
  <2> QED BY <1>0, <2>4 DEF AloneInv
<1>4. CASE AskSigChunk
  BY <1>0, <1>4, AskKeepsService DEF AloneInv
<1>5. CASE StartKey
  <2>1. ASSUME NEW path
        PROVE  /\ Client("key", path, <<>>).phase # "sig"
               /\ [Client("key", path, <<>>) EXCEPT !.phase = "confirm"].phase
                    # "sig"
    BY DEF Client
  <2>2. Undisturbed' /\ ServedUntilLast'
    BY <1>5, <2>1, HearsOutcome, FailureUnneeded, ServiceUnneeded
       DEF StartKey, HearsOnce
  <2> QED BY <1>0, <2>2 DEF AloneInv
<1>6. CASE AskPkChunk
  <2>1. ASSUME client' \in {client, Collected("known", PK_CHUNKS - 1, KeyData)}
        PROVE  client'.phase # "sig"
    BY <1>0, <1>6, <2>1 DEF AskPkChunk, Collected, Clients
  <2>2. Undisturbed' /\ ServedUntilLast'
    BY <1>6, <2>1, HearsOutcome, FailureUnneeded, ServiceUnneeded
       DEF AskPkChunk
  <2> QED BY <1>0, <2>2 DEF AloneInv
<1>7. CASE UserActs
  BY <1>0, <1>7, UserKeepsService DEF AloneInv
<1>8. ASSUME Others PROVE FALSE
  BY <1>8 DEF Others
<1>9. CASE Breaks
  <2>1. client'.phase # "sig"
    BY <1>9 DEF Breaks, Failed, Client, Resting
  <2> QED BY <1>0, <2>1, ServiceUnneeded DEF AloneInv
<1>10. CASE UNCHANGED hostVars
  BY <1>0, <1>10 DEF hostVars, AloneInv, Undisturbed, ServedUntilLast, MayServe
<1> QED BY <1>1, <1>2, <1>3, <1>4, <1>5, <1>6, <1>7, <1>8, <1>9, <1>10
        DEF HostNext, Start, GoOn

\* A host that is alone is served its signature up to the last chunk, each as
\* often as it asks but the last.
THEOREM ServiceLasts ==
  ASSUME OthersSend = {} PROVE HostSpec => []ServedUntilLast
<1>1. HostInit => AloneInv
  BY HostInvInit DEF HostInit, Client, AloneInv, Undisturbed, ServedUntilLast
<1>2. AloneInv /\ [HostNext]_hostVars => AloneInv'
  BY AloneStep
<1>3. AloneInv => ServedUntilLast
  BY DEF AloneInv
<1> QED BY <1>1, <1>2, <1>3, PTL DEF HostSpec
=============================================================================
