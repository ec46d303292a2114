----------------------------- MODULE HostClient -----------------------------
(***************************************************************************)
(* The application with a host that uses it as the repository's client and *)
(* its tests do: derive a key and fetch its chunks, or open a session,     *)
(* stream a transaction, wait for the user and collect the signature.      *)
(* Answers may be lost: the host asks again for a chunk, and gives up on   *)
(* any other command.  Other programs may send commands between two of its *)
(* own, and the device may restart.                                        *)
(***************************************************************************)
EXTENDS LedgerApp, SequencesExt

CONSTANTS
  Transactions,   \* what this host signs: sequences of Chunks
  LosesAnswers,   \* whether answers may be lost
  OthersSend      \* the commands of other programs, see OtherCommands

OtherCommands == {"session", "data", "key", "chunk"}

ASSUME HostAssumption ==
  /\ Transactions \subseteq Seq(Chunks \ {<<>>}) \ {<<>>}
  /\ LosesAnswers \in BOOLEAN
  /\ OthersSend \subseteq OtherCommands

VARIABLE client

hostVars == <<G_context, N_storage, screen, walk, pending, rsp, client>>

Resting == {"idle", "signed", "known", "failed"}

\* What the host is at, for which path and transaction; at counts the pieces
\* of the transaction that were sent, and later is the chunk to ask for;
\* mixed: another program's request came between.
Client(phase, path, tx) ==
  [phase |-> phase, path |-> path, tx |-> tx, at |-> 0, chunks |-> <<>>,
   mixed |-> FALSE, why |-> "none"]

HostInit == Init /\ client = Client("idle", NoPath, <<>>)

-----------------------------------------------------------------------------
(* Answers *)

Failed(why, at) ==
  [Client("failed", NoPath, <<>>) EXCEPT !.why = why, !.at = at]

\* The host hears the answer of this step and goes on as ok, or fails; or the
\* answer is lost, and it goes on as lost.
Hears(ok, lost) ==
  client' \in {IF rsp'.sw = "SW_OK" THEN ok ELSE Failed("refused", client.at)}
                \cup (IF LosesAnswers THEN {lost} ELSE {})

\* It does not ask again.
HearsOnce(ok) == Hears(ok, Failed("silence", client.at))

\* It asks for one chunk too many.
BugCollected(phase, last, chunk) ==
  [client EXCEPT !.chunks = Append(@, chunk),
                 !.at = @ + 1,
                 !.phase = IF client.at > last THEN phase ELSE @]

\* The chunk is the next of the thing; with the last the host is done.
Collected(phase, last, chunk) ==
  [client EXCEPT !.chunks = Append(@, chunk),
                 !.at = @ + 1,
                 !.phase = IF client.at = last THEN phase ELSE @]

SigData == [of |-> N_storage'.sig, index |-> rsp'.index]
KeyData == [of |-> N_storage.pk, index |-> rsp'.index]

-----------------------------------------------------------------------------
(* The host's commands *)

\* client.sign_tx: a path, then every piece of the transaction.
StartSigning ==
  /\ client.phase \in Resting
  /\ \E path \in Paths, tx \in Transactions :
       /\ OpenSession(path, TRUE)
       /\ HearsOnce(Client("data", path, tx))

SendMore ==
  /\ client.phase = "data"
  /\ client.at + 1 < Len(client.tx)
  /\ MoreData(client.tx[client.at + 1])
  /\ HearsOnce([client EXCEPT !.at = @ + 1])

FirstChunk ==
  [client EXCEPT !.phase = "sig", !.at = 1, !.chunks = <<SigData>>]

\* The answer comes when the user has decided.
SendLast ==
  /\ client.phase = "data"
  /\ client.at + 1 = Len(client.tx)
  /\ LastData(client.tx[client.at + 1])
  /\ IF pending' THEN client' = [client EXCEPT !.phase = "review"]
     ELSE HearsOnce(FirstChunk)

\* get_signature_chunks; a chunk that does not arrive is asked for again.
AskSigChunk ==
  /\ client.phase = "sig"
  /\ SigChunk(client.at)
  /\ Hears(Collected("signed", LAST_SIG_CHUNK, SigData), client)

\* get_public_key, with or without confirmation.
StartKey ==
  /\ client.phase \in Resting
  /\ \E path \in Paths, display \in BOOLEAN :
       LET c == Client("key", path, <<>>)
       IN /\ GetPublicKey(path, TRUE, display)
          /\ IF pending' THEN client' = [c EXCEPT !.phase = "confirm"]
             ELSE HearsOnce(c)

\* get_public_key_chunks, likewise.
AskPkChunk ==
  /\ client.phase = "key"
  /\ PkChunk(client.at)
  /\ Hears(Collected("known", PK_CHUNKS - 1, KeyData), client)

Start == StartSigning \/ StartKey
GoOn == SendMore \/ SendLast \/ AskSigChunk \/ AskPkChunk

-----------------------------------------------------------------------------
(* The user, other programs, restarts *)

Mixed(when) == client' = [client EXCEPT !.mixed = @ \/ when]

\* The answer the host waits for, or some other: to serve another signature
\* now mixes it with the one the host collects.
UserActs ==
  /\ User
  /\ IF client.phase \in {"review", "confirm"} /\ pending /\ ~pending'
       THEN HearsOnce(IF client.phase = "review" THEN FirstChunk
                      ELSE [client EXCEPT !.phase = "key"])
       ELSE Mixed(client.phase = "sig" /\ rsp' # rsp /\ rsp'.what = "sig")

\* A session that someone else opens, or data someone else sends, while the
\* host streams its own; a key derived for someone else, by GET_PUBLIC_KEY or
\* for a review, while the host collects one.
Others ==
  \/ /\ "session" \in OthersSend
     /\ \E path \in Paths : OpenSession(path, TRUE)
     /\ Mixed(client.phase = "data")
  \/ /\ "data" \in OthersSend
     /\ \/ \E chunk \in Chunks : MoreData(chunk) /\ Mixed(client.phase = "data")
        \/ \E chunk \in Chunks \ {<<>>} :
             LastData(chunk) /\ Mixed(client.phase \in {"data", "key"})
  \/ /\ "key" \in OthersSend
     /\ \E path \in Paths, display \in BOOLEAN : GetPublicKey(path, TRUE, display)
     /\ Mixed(client.phase = "key")
  \/ /\ "chunk" \in OthersSend
     /\ \/ \E i \in 1..LAST_SIG_CHUNK : SigChunk(i)
        \/ \E i \in 0..(PK_CHUNKS - 1) : PkChunk(i)
     /\ UNCHANGED client

\* The connection breaks, and with it what the host was at.
Breaks == /\ Restart
          /\ client' = IF client.phase \in Resting THEN client
                       ELSE Failed("restart", client.at)

HostNext == Start \/ GoOn \/ UserActs \/ Others \/ Breaks

HostSpec == HostInit /\ [][HostNext]_hostVars

\* The host goes on with what it began, and asks for a chunk until an answer
\* arrives: the transport does not lose the answers to one request for ever.
\* Users act as in LedgerApp.
HostFairness == /\ WF_hostVars(GoOn /\ client' # client)
                /\ WF_hostVars(UserActs /\ Choose)
                /\ WF_hostVars(UserActs /\ LeaveScreen)

FairHostSpec == HostSpec /\ HostFairness

-----------------------------------------------------------------------------

Bytes(tx) == FlattenSeq(tx)

\* The chunks 0..n-1 of one thing.
ChunksOf(what, n) == [i \in 1..n |-> [of |-> what, index |-> i - 1]]

\* The host never asks for a chunk that does not exist.
HostTypeOK ==
  /\ client.phase \in Resting \cup {"data", "review", "sig", "confirm", "key"}
  /\ client.path \in Paths \cup {NoPath}
  /\ client.tx \in Transactions \cup {<<>>}
  /\ client.phase = "data" => client.at < Len(client.tx)
  /\ client.phase = "sig" => client.at \in 1..LAST_SIG_CHUNK
  /\ client.phase = "key" => client.at \in 0..(PK_CHUNKS - 1)
  /\ client.mixed \in BOOLEAN

\* Unless another transaction was signed, or someone sent data, in between,
\* the chunks a host collects, also those it had to ask for twice, are those
\* of one signature, in order: the one over the bytes it streamed with the key
\* it asked for.  A command of another program that ends the service, or a
\* chunk another program takes, may stop the host but never deceives it
\* (send_response.c:40-74, sign_tx.c:221-233).
SignatureIsWhole ==
  client.phase \in {"sig", "signed"} /\ ~client.mixed =>
    client.chunks = ChunksOf(SignatureOf(client.path, Keccak256(Bytes(client.tx))),
                             client.at)

\* The chunks of a public key are those of the path the host derived, unless
\* another key was derived in between, although they are read from flash one
\* command at a time and without a session (get_public_key.c:42-74).
KeyIsWhole ==
  client.phase \in {"key", "known"} /\ ~client.mixed =>
    client.chunks = ChunksOf(client.path, client.at)

\* A host whose review was approved, and that is alone, is served each chunk as
\* often as it asks, up to the last, which is served once: if that answer is
\* lost the context is gone and the signature must be made again
\* (send_response.c:63-71).
ServedUntilLast ==
  client.phase = "sig" =>
    \/ MayServe
    \/ client.at = LAST_SIG_CHUNK /\ G_context = ZeroContext

\* A host that is alone comes to an end with everything it begins.
HostFinishes == client.phase \notin Resting ~> client.phase \in Resting

\* The signature of an approved review reaches its host unless the device
\* restarts or the answer with the last chunk is the one that is lost.
SignatureReachesHost ==
  client.phase = "sig" ~>
    \/ client.phase = "signed"
    \/ client.phase = "failed" /\ client.why = "restart"
    \/ /\ client.phase = "failed" /\ client.why = "refused"
       /\ client.at = LAST_SIG_CHUNK
=============================================================================
