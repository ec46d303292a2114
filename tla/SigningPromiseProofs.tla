------------------------ MODULE SigningPromiseProofs ------------------------
(***************************************************************************)
(* The device implements SigningPromise and never answers out of turn, as  *)
(* long as its hosts ask for paths that it can derive and its address      *)
(* computation does not fail.                                              *)
(***************************************************************************)
EXTENDS LedgerAppProofs

\* Hosts send whole paths, all of which the operating system derives, and
\* no derivation, address or text of one fails.  Hashing, signing and
\* verifying may fail, and the application may refuse paths.
CanonicalHost ==
  /\ Derivable = Paths
  /\ Faults \cap {"truncated_path", "derive", "address", "format"} = {}

-----------------------------------------------------------------------------
(* The invariant *)

\* A screen that asks for a choice is never older than its command.
NoStaleScreen ==
  screen.kind \in {"address", "selector", "param", "review"} => pending

SessionHasPath ==
  G_context.req_type = "CONFIRM_TRANSACTION" => G_context.bip32_path \in Paths

\* What was approved was reviewed, and so hashed.
ApprovedIsHashed ==
  /\ G_context.req_type = "CONFIRM_TRANSACTION"
  /\ G_context.state = "STATE_APPROVED"
  => G_context.m_hash = Keccak256(G_context.raw_tx)

Settled == AnswersOwed /\ NoStaleScreen /\ SessionHasPath /\ ApprovedIsHashed

CanonicalInv == Inv /\ Settled

\* A path that can be derived becomes its key and its address.
LEMMA DerivationSucceeds ==
  ASSUME CanonicalHost, NEW path \in Paths, NEW pk, NEW address,
         NEW o \in AddressOutcomes(path, pk, address)
  PROVE  o.ok
BY DEF CanonicalHost, AddressOutcomes

\* So a transaction that was decoded in its session is put on the screen.
LEMMA DisplaySucceeds ==
  ASSUME CanonicalHost, NEW c \in Contexts, NEW blind, NEW owed,
         Display(c, blind, owed), ReviewReady(c), c.bip32_path \in Paths
  PROVE  /\ screen'.kind = "review"
         /\ Await(owed)
         /\ G_context'.req_type = "CONFIRM_TRANSACTION"
         /\ G_context'.state = "STATE_PARSED"
         /\ G_context'.bip32_path = c.bip32_path
         /\ G_context'.raw_tx = c.raw_tx
<1>1. PICK o \in AddressOutcomes(c.bip32_path, N_storage.pk, c.address) :
        /\ G_context' = [c EXCEPT !.address = o.address]
        /\ \/ ~o.ok \/ "format" \in Faults
           \/ /\ screen' = ReviewScreen([c EXCEPT !.address = o.address], blind)
              /\ Await(owed)
  BY DEF Display
<1>2. o.ok /\ "format" \notin Faults
  BY DerivationSucceeds DEF CanonicalHost
<1> QED BY <1>1, <1>2 DEF ReviewScreen, ReviewReady, Contexts

\* A step that neither opens a session, approves nor leaves a choice on the
\* screen, and answers a command that waited.
LEMMA SettledAnswer ==
  ASSUME rsp'.owed,
         screen'.kind \notin {"address", "selector", "param", "review"},
         \/ G_context'.req_type = "CONFIRM_ADDRESS"
         \/ /\ G_context'.state # "STATE_APPROVED"
            /\ G_context'.bip32_path \in Paths
  PROVE  Settled'
BY DEF Settled, AnswersOwed, NoStaleScreen, SessionHasPath, ApprovedIsHashed

\* A step that leaves its answer to the screen it puts up.
LEMMA SettledReview ==
  ASSUME rsp'.owed, pending',
         \/ G_context'.req_type = "CONFIRM_ADDRESS"
         \/ /\ G_context'.state # "STATE_APPROVED"
            /\ G_context'.bip32_path \in Paths
  PROVE  Settled'
BY DEF Settled, AnswersOwed, NoStaleScreen, SessionHasPath, ApprovedIsHashed

\* A command's answer is its own, and leaves no choice on the screen.
LEMMA SettledReply ==
  ASSUME CanonicalInv, ~pending, NEW sw, NEW what, NEW i,
         Send(sw, what, i, TRUE), UNCHANGED screen
  PROVE  /\ rsp'.owed
         /\ screen'.kind \notin {"address", "selector", "param", "review"}
BY Sent DEF CanonicalInv, Settled, NoStaleScreen

\* A step that answers and keeps the context.
LEMMA SettledKept ==
  ASSUME CanonicalInv, ~pending, NEW sw, NEW what, NEW i,
         Send(sw, what, i, TRUE), UNCHANGED <<screen, G_context>>
  PROVE  Settled'
<1>1. /\ rsp'.owed
      /\ screen'.kind \notin {"address", "selector", "param", "review"}
  BY SettledReply
<1> QED BY <1>1 DEF CanonicalInv, Settled, AnswersOwed, NoStaleScreen,
                    SessionHasPath, ApprovedIsHashed

\* Every command keeps the invariant.
LEMMA HostSettles == CanonicalHost /\ CanonicalInv /\ Host => Settled'
<1> SUFFICES ASSUME CanonicalHost, CanonicalInv, Host PROVE Settled'
  OBVIOUS
<1>0. ~pending /\ G_context \in Contexts
  BY HostNeedsIdle DEF CanonicalInv, Inv, TypeOK
<1>1. ASSUME NEW path, NEW readable, PathRead(path, readable)
      PROVE  path \in Paths
  BY <1>1 DEF CanonicalHost, PathRead
<1>2. ASSUME NEW path, NEW readable, OpenSession(path, readable)
      PROVE  Settled'
  <2>1. /\ rsp'.owed
        /\ screen'.kind \notin {"address", "selector", "param", "review"}
    BY <1>0, <1>2, SettledReply DEF OpenSession, Reply
  <2>2. G_context'.state = "STATE_NONE" /\ G_context'.bip32_path = path
    BY <1>2 DEF OpenSession, SessionContext, ZeroContext
  <2> QED BY <1>1, <1>2, <2>1, <2>2, SettledAnswer DEF OpenSession
<1>3. ASSUME NEW path, NEW readable, NEW display,
             GetPublicKey(path, readable, display)
      PROVE  Settled'
  <2>1. AddressContext(path).req_type = "CONFIRM_ADDRESS"
    BY DEF AddressContext, ZeroContext
  <2>2. G_context'.req_type = "CONFIRM_ADDRESS"
    <3>1. \/ G_context' = AddressContext(path)
          \/ \E a : G_context' = [AddressContext(path) EXCEPT !.address = a]
      BY <1>3 DEF GetPublicKey
    <3> QED BY <2>1, <3>1 DEF AddressContext, ZeroContext
  <2>3. CASE Await(TRUE)
    <3>1. pending' /\ rsp'.owed
      BY <2>3 DEF Await, NoResponse, Response
    <3> QED BY <2>2, <3>1, SettledReview
  <2>4. ASSUME NEW sw, NEW what, Send(sw, what, 0, TRUE), UNCHANGED screen
        PROVE  Settled'
    <3>1. /\ rsp'.owed
          /\ screen'.kind \notin {"address", "selector", "param", "review"}
      BY <1>0, <2>4, SettledReply
    <3> QED BY <2>2, <3>1, SettledAnswer
  <2> QED BY <1>3, <2>3, <2>4 DEF GetPublicKey, Reply
<1>4. ASSUME NEW chunk, RefuseData(chunk) PROVE Settled'
  BY <1>0, <1>4, SettledKept DEF RefuseData, Reply
<1>5. ASSUME NEW raw, NEW c \in {Parsed(raw), Hashed(raw),
                                 [G_context EXCEPT !.raw_tx = raw]},
             SessionOpen
      PROVE  /\ c.state # "STATE_APPROVED"
             /\ c.bip32_path \in Paths
             /\ c.req_type = "CONFIRM_TRANSACTION"
             /\ c = Hashed(raw) => c.state = "STATE_PARSED"
  <2>1. /\ G_context.bip32_path \in Paths
        /\ G_context.state = "STATE_NONE"
        /\ G_context.req_type = "CONFIRM_TRANSACTION"
    BY <1>5 DEF SessionOpen, CanonicalInv, Settled, SessionHasPath
  <2> QED BY <1>0, <1>5, <2>1 DEF Parsed, Hashed, Contexts
<1>6. ASSUME NEW chunk, MoreData(chunk) PROVE Settled'
  <2>1. CASE /\ SessionOpen
             /\ G_context' = [G_context EXCEPT !.raw_tx = @ \o chunk]
             /\ Reply("SW_OK")
             /\ UNCHANGED screen
    <3>1. G_context'.state # "STATE_APPROVED" /\ G_context'.bip32_path \in Paths
      BY <1>5, <2>1
    <3>2. /\ rsp'.owed
          /\ screen'.kind \notin {"address", "selector", "param", "review"}
      BY <1>0, <2>1, SettledReply DEF Reply
    <3> QED BY <3>1, <3>2, SettledAnswer
  <2> QED BY <1>4, <1>6, <2>1 DEF MoreData
<1>7. ASSUME NEW chunk \in Chunks, LastData(chunk) PROVE Settled'
  <2>1. ASSUME SessionOpen, NEW raw, NEW sw, Reply(sw), UNCHANGED screen,
               G_context' \in {Parsed(raw), Hashed(raw)}
        PROVE  Settled'
    <3>1. G_context'.state # "STATE_APPROVED" /\ G_context'.bip32_path \in Paths
      BY <1>5, <2>1
    <3>2. /\ rsp'.owed
          /\ screen'.kind \notin {"address", "selector", "param", "review"}
      BY <1>0, <2>1, SettledReply DEF Reply
    <3> QED BY <3>1, <3>2, SettledAnswer
  <2>2. ASSUME SessionOpen, NEW raw \in RawTx, Route(Hashed(raw))
        PROVE  Settled'
    <3> DEFINE c == Hashed(raw)
    <3>1. /\ c.state = "STATE_PARSED" /\ c.bip32_path \in Paths
          /\ c.req_type = "CONFIRM_TRANSACTION" /\ c \in Contexts
      BY <1>0, <1>5, <2>2, HashedType
    <3> HIDE DEF c
    <3>2. CASE /\ screen' = BlindSigningNotice
               /\ G_context' = c
               /\ Reply("SW_SIGNATURE_FAIL")
      <4>1. rsp'.owed /\ screen'.kind = "blind_error"
        BY <3>2 DEF Reply, Send, Response, BlindSigningNotice, Blank
      <4> QED BY <3>1, <3>2, <4>1, SettledAnswer
    <3>3. CASE G_context' = c /\ Await(TRUE)
      <4>1. pending' /\ rsp'.owed
        BY <3>3 DEF Await, NoResponse, Response
      <4> QED BY <3>1, <3>3, <4>1, SettledReview
    <3>4. ASSUME NEW blind, Display(c, blind, TRUE) PROVE Settled'
      <4>1. /\ Await(TRUE) /\ G_context'.state = "STATE_PARSED"
            /\ G_context'.bip32_path \in Paths
        BY <3>1, <3>4, DisplaySucceeds DEF ReviewReady
      <4>2. pending' /\ rsp'.owed
        BY <4>1 DEF Await, NoResponse, Response
      <4> QED BY <4>1, <4>2, SettledReview
    <3> QED BY <2>2, <3>2, <3>3, <3>4 DEF Route, c
  <2>3. Fits(chunk) => G_context.raw_tx \o chunk \in RawTx
    BY <1>0, AppendFits
  <2> QED BY <1>4, <1>7, <2>1, <2>2, <2>3 DEF LastData
<1>8. ASSUME NEW i, SigChunk(i) PROVE Settled'
  <2>1. \E sw, what, j : Send(sw, what, j, TRUE)
    BY <1>8 DEF SigChunk, SendSigChunk, Reply
  <2>2. UNCHANGED screen
    BY <1>8 DEF SigChunk
  <2>3. CASE UNCHANGED G_context
    BY <1>0, <2>1, <2>2, <2>3, SettledKept
  <2>4. CASE G_context' = ZeroContext
    <3>1. /\ rsp'.owed
          /\ screen'.kind \notin {"address", "selector", "param", "review"}
      BY <1>0, <2>1, <2>2, SettledReply
    <3> QED BY <2>4, <3>1, SettledAnswer DEF ZeroContext
  <2> QED BY <1>8, <2>3, <2>4 DEF SigChunk, SendSigChunk, ContextAfter
<1>9. ASSUME NEW i, PkChunk(i) PROVE Settled'
  BY <1>0, <1>9, SettledKept DEF PkChunk
<1>10. ASSUME NEW sw, PlainAnswer(sw) PROVE Settled'
  BY <1>0, <1>10, SettledKept DEF PlainAnswer, Reply
<1> QED BY <1>2, <1>3, <1>6, <1>7, <1>8, <1>9, <1>10 DEF Host

\* Every callback keeps it: the screen it belongs to has a command.
LEMMA UserSettles == CanonicalHost /\ CanonicalInv /\ User => Settled'
<1> SUFFICES ASSUME CanonicalHost, CanonicalInv, User PROVE Settled'
  OBVIOUS
<1>0. G_context \in Contexts
  BY DEF CanonicalInv, Inv, TypeOK
<1>1. ASSUME screen.kind \in {"address", "selector", "param", "review"}
      PROVE  pending
  BY <1>1 DEF CanonicalInv, Settled, NoStaleScreen
<1>2. StatusScreen.kind = "status"
  BY DEF StatusScreen, Blank
<1>3. CASE Reject
  <2>1. /\ rsp'.owed /\ screen'.kind = "status"
        /\ G_context'.req_type = "CONFIRM_ADDRESS"
    BY <1>1, <1>2, <1>3, Sent
       DEF Reject, Deny, CallbackReply, ZeroContext
  <2> QED BY <2>1, SettledAnswer
<1>4. CASE ApproveAddress
  <2>1. rsp'.owed /\ screen'.kind = "status"
    BY <1>1, <1>2, <1>4, Sent DEF ApproveAddress
  <2>2. G_context.req_type = "CONFIRM_ADDRESS"
    BY <1>4 DEF ApproveAddress, CanonicalInv, Inv, AddressShownIsKey
  <2>3. G_context'.req_type = "CONFIRM_ADDRESS"
    BY <1>0, <1>4, <2>2 DEF ApproveAddress, Contexts
  <2> QED BY <2>1, <2>3, SettledAnswer
<1>5. CASE ApproveTransaction
  <2>1. pending /\ HoldsDecodedTx(G_context)
    BY <1>1, <1>5
       DEF ApproveTransaction, CanonicalInv, Inv, ReviewShowsContext
  <2>2. G_context.bip32_path \in Paths
    BY <2>1 DEF HoldsDecodedTx, ReviewReady, CanonicalInv, Settled,
                SessionHasPath
  <2>3. /\ rsp'.owed /\ screen'.kind = "status"
        /\ G_context' \in {SigningFailed(Approved(G_context)),
                          Approved(G_context), ZeroContext}
    BY <1>2, <1>5, <2>1, Sent DEF ApproveTransaction, CallbackReply,
       SendSigChunk, ContextAfter
  <2>4. /\ G_context'.bip32_path = G_context.bip32_path
        /\ G_context'.m_hash = G_context.m_hash
        /\ G_context'.raw_tx = G_context.raw_tx
        \/ G_context' = ZeroContext
    BY <1>0, <2>3 DEF SigningFailed, Approved, Contexts
  <2>5. SessionHasPath' /\ ApprovedIsHashed'
    BY <2>1, <2>2, <2>4 DEF SessionHasPath, ApprovedIsHashed, HoldsDecodedTx,
                            ZeroContext
  <2> QED BY <2>3, <2>5 DEF Settled, AnswersOwed, NoStaleScreen
<1>6. CASE ConfirmCalldata
  <2>1. pending /\ HoldsDecodedTx(G_context)
    BY <1>1, <1>6
       DEF ConfirmCalldata, CanonicalInv, Inv, WalkFollowsContext
  <2>2. G_context.bip32_path \in Paths
    BY <2>1 DEF HoldsDecodedTx, ReviewReady, CanonicalInv, Settled,
                SessionHasPath
  <2>3. CASE UNCHANGED <<G_context, pending, rsp>>
    BY <2>1, <2>3 DEF CanonicalInv, Settled, AnswersOwed, NoStaleScreen,
                      SessionHasPath, ApprovedIsHashed
  <2>4. CASE Display(G_context, TRUE, pending)
    <3>1. /\ Await(pending) /\ G_context'.state = "STATE_PARSED"
          /\ G_context'.bip32_path \in Paths
      BY <1>0, <2>1, <2>2, <2>4, DisplaySucceeds DEF HoldsDecodedTx
    <3>2. pending' /\ rsp'.owed
      BY <2>1, <3>1 DEF Await, NoResponse, Response
    <3> QED BY <3>1, <3>2, SettledReview
  <2> QED BY <1>6, <2>3, <2>4 DEF ConfirmCalldata
<1>7. CASE LeaveScreen \/ \E s \in Switches : Toggle(s)
  <2>1. screen'.kind = "home" /\ UNCHANGED <<G_context, rsp>>
    BY <1>7 DEF LeaveScreen, Toggle, HomePage, Blank
  <2> QED BY <2>1 DEF CanonicalInv, Settled, AnswersOwed, NoStaleScreen,
                      SessionHasPath, ApprovedIsHashed
<1> QED BY <1>3, <1>4, <1>5, <1>6, <1>7 DEF User, Choose

\* The invariant holds after installation and after every step.
LEMMA InitSettles == Init => Settled
BY DEF Init, Settled, AnswersOwed, NoStaleScreen, SessionHasPath,
       ApprovedIsHashed, NoResponse, Response, HomePage, Blank, ZeroContext

\* With a canonical host every step keeps both invariants.
LEMMA NextSettles ==
  CanonicalHost /\ CanonicalInv /\ [Next]_vars => CanonicalInv'
<1> SUFFICES ASSUME CanonicalHost, CanonicalInv, [Next]_vars
             PROVE  CanonicalInv'
  OBVIOUS
<1>1. Inv'
  BY NextSafe DEF CanonicalInv
<1>2. ASSUME Restart PROVE Settled'
  BY <1>2 DEF Restart, Settled, AnswersOwed, NoStaleScreen, SessionHasPath,
       ApprovedIsHashed, NoResponse, Response, HomePage, Blank, ZeroContext
<1>3. ASSUME UNCHANGED vars PROVE Settled'
  BY <1>3 DEF vars, CanonicalInv, Settled, AnswersOwed, NoStaleScreen,
       SessionHasPath, ApprovedIsHashed
<1>4. Settled'
  BY <1>2, <1>3, HostSettles, UserSettles DEF Next
<1> QED BY <1>1, <1>4 DEF CanonicalInv

\* So they always hold.
LEMMA CanonicalInvariance ==
  ASSUME CanonicalHost PROVE Spec => []CanonicalInv
<1>1. Init => CanonicalInv
  BY InitSafe, InitSettles DEF CanonicalInv
<1>2. CanonicalInv /\ [Next]_vars => CanonicalInv'
  BY NextSettles
<1> QED BY <1>1, <1>2, PTL DEF Spec

\* No callback of a screen that outlived its command answers the host.
THEOREM NoAnswerOutOfTurn ==
  ASSUME CanonicalHost PROVE Spec => []AnswersOwed
<1>1. CanonicalInv => AnswersOwed
  BY DEF CanonicalInv, Settled
<1> QED BY <1>1, CanonicalInvariance, PTL

-----------------------------------------------------------------------------
(* The refinement of SigningPromise *)

\* The state as SigningPromise reads it.
Subjects == [path: Paths, digest: {Keccak256(r) : r \in RawTx}]

Asked == IF pending /\ screen.kind = "review"
           THEN [path |-> screen.address, digest |-> screen.m_hash] ELSE None

Granted == IF G_context.req_type = "CONFIRM_TRANSACTION"
              /\ G_context.state = "STATE_APPROVED"
             THEN [path |-> G_context.bip32_path,
                   digest |-> Keccak256(G_context.raw_tx)]
           ELSE None

ChunkOf(s, i) == {[subject |-> s, index |-> i]}

Served == IF rsp.what = "sig"
            THEN ChunkOf([path |-> N_storage.sig.path,
                          digest |-> N_storage.sig.digest], rsp.index)
          ELSE {}

\* The steps of SigningPromise, in those terms.
LEMMA PromiseSteps ==
  /\ \A s \in Subjects :
       Asked = None /\ Granted = None
         /\ Asked' = s /\ Granted' = None /\ Served' = {}
       => Promise!Next
  /\ Asked # None /\ Granted' = Asked /\ Served' = ChunkOf(Asked, 0)
       /\ Asked' = None => Promise!Next
  /\ \A i \in 1..LAST_SIG_CHUNK :
       Granted # None /\ Served' = ChunkOf(Granted, i) /\ UNCHANGED Asked
         /\ Granted' = (IF i = LAST_SIG_CHUNK THEN None ELSE Granted)
       => Promise!Next
  /\ Asked' = None /\ Granted' = None /\ Served' = {} => Promise!Next
  /\ Served' = {} /\ UNCHANGED <<Asked, Granted>> => Promise!Next
BY DEF Subjects, Asked, Granted, Served, ChunkOf, Promise!Next, Promise!Ask,
       Promise!Grant, Promise!Serve, Promise!Drop, Promise!OtherAnswer,
       Promise!Chunk

\* A step that changes nothing of what is promised is a stutter of the promise.
LEMMA PromiseStutters ==
  UNCHANGED <<Asked, Granted, Served>> => UNCHANGED Promise!vars
BY DEF Asked, Granted, Served, ChunkOf, Promise!vars

\* A subject is a key and a digest: it is not the absence of one.
LEMMA SubjectIsSomething ==
  ASSUME NEW p \in Paths, NEW d PROVE [path |-> p, digest |-> d] # None
BY PathAssumption DEF None

\* A device that waits for the user has granted nothing.
LEMMA WaitingGrantsNothing == Inv /\ pending => Granted = None
BY DEF Inv, ApprovedHoldsSignature, Granted

\* Whatever ends a review and a grant without a chunk.
LEMMA Drops ==
  ASSUME ~pending' \/ screen'.kind # "review",
         G_context'.req_type = "CONFIRM_ADDRESS"
           \/ G_context'.state # "STATE_APPROVED",
         rsp'.what = "nothing" \/ rsp'.what = "address"
  PROVE  Promise!Next
<1>1. Asked' = None /\ Granted' = None /\ Served' = {}
  BY DEF Asked, Granted, Served
<1> QED BY <1>1, PromiseSteps

\* Whatever answers a command and keeps the context.
LEMMA Answers ==
  ASSUME ~pending, ~pending', UNCHANGED G_context, rsp'.what # "sig"
  PROVE  Promise!Next
<1>1. Asked = None /\ Asked' = None /\ Granted' = Granted /\ Served' = {}
  BY DEF Asked, Granted, Served
<1> QED BY <1>1, PromiseSteps

\* Putting a decoded transaction before the user.
LEMMA Asks ==
  ASSUME CanonicalHost, Inv, Inv', NEW c \in Contexts, NEW blind,
         Display(c, blind, TRUE), HoldsDecodedTx(c), c.bip32_path \in Paths,
         Asked = None, Granted = None
  PROVE  Promise!Next
<1>1. /\ screen'.kind = "review" /\ Await(TRUE)
      /\ G_context'.state = "STATE_PARSED" /\ G_context'.bip32_path \in Paths
      /\ G_context'.raw_tx = c.raw_tx
  BY DisplaySucceeds DEF HoldsDecodedTx
<1>2. pending' /\ rsp'.what = "nothing"
  BY <1>1 DEF Await, NoResponse, Response
<1>3. /\ screen'.address = G_context'.bip32_path
      /\ screen'.m_hash = Keccak256(G_context'.raw_tx)
  BY <1>1, <1>2 DEF Inv, ReviewShowsContext, HoldsDecodedTx
<1>4. G_context'.raw_tx \in RawTx
  BY <1>1 DEF Contexts
<1>5. Asked' \in Subjects
  BY <1>1, <1>2, <1>3, <1>4 DEF Asked, Subjects
<1>6. Granted' = None /\ Served' = {}
  BY <1>1, <1>2 DEF Granted, Served
<1> QED BY <1>5, <1>6, PromiseSteps

\* A command asks, serves, drops or only answers.
LEMMA HostPromises ==
  CanonicalHost /\ CanonicalInv /\ CanonicalInv' /\ Host => Promise!Next
<1> SUFFICES ASSUME CanonicalHost, CanonicalInv, CanonicalInv', Host
             PROVE  Promise!Next
  OBVIOUS
<1>0. /\ ~pending /\ Asked = None
      /\ G_context \in Contexts /\ N_storage \in Storages
  BY HostNeedsIdle DEF CanonicalInv, Inv, TypeOK, Asked
<1>1. ASSUME NEW path, NEW readable, OpenSession(path, readable)
      PROVE  Promise!Next
  <2>1. /\ ~pending' /\ G_context'.state = "STATE_NONE"
        /\ rsp'.what = "nothing"
    BY <1>1 DEF OpenSession, SessionContext, ZeroContext, Reply, Send, Response
  <2> QED BY <2>1, Drops
<1>2. ASSUME NEW path, NEW readable, NEW display,
             GetPublicKey(path, readable, display)
      PROVE  Promise!Next
  <2>1. \/ G_context' = AddressContext(path)
        \/ \E a : G_context' = [AddressContext(path) EXCEPT !.address = a]
    BY <1>2 DEF GetPublicKey
  <2>2. G_context'.req_type = "CONFIRM_ADDRESS"
    BY <2>1 DEF AddressContext, ZeroContext
  <2>3. /\ ~pending' \/ screen'.kind # "review"
        /\ rsp'.what = "nothing" \/ rsp'.what = "address"
    BY <1>2 DEF GetPublicKey, Reply, Send, Await, Response, NoResponse,
                AddressScreen, Blank
  <2> QED BY <2>2, <2>3, Drops
<1>3. ASSUME NEW chunk, RefuseData(chunk) PROVE Promise!Next
  <2>1. ~pending' /\ UNCHANGED G_context /\ rsp'.what = "nothing"
    BY <1>3 DEF RefuseData, Reply, Send, Response
  <2> QED BY <1>0, <2>1, Answers
<1>4. ASSUME NEW chunk, MoreData(chunk) PROVE Promise!Next
  <2>1. CASE /\ SessionOpen
             /\ G_context' = [G_context EXCEPT !.raw_tx = @ \o chunk]
             /\ Reply("SW_OK")
    <3>1. /\ ~pending' /\ G_context'.state = "STATE_NONE"
          /\ rsp'.what = "nothing"
      BY <1>0, <2>1 DEF SessionOpen, Contexts, Reply, Send, Response
    <3> QED BY <3>1, Drops
  <2> QED BY <1>3, <1>4, <2>1 DEF MoreData
<1>5. ASSUME NEW chunk \in Chunks, LastData(chunk) PROVE Promise!Next
  <2>1. ASSUME NEW raw \in RawTx, NEW sw, Reply(sw),
               G_context' \in {Parsed(raw), Hashed(raw)}
        PROVE  Promise!Next
    <3>1. G_context'.state = "STATE_PARSED"
      <4>1. Parsed(raw).state = "STATE_PARSED"
        BY <1>0, HashedType
      <4>2. Hashed(raw).state = "STATE_PARSED"
        BY <1>0, <4>1 DEF Hashed, Parsed, Contexts
      <4> QED BY <2>1, <4>1, <4>2
    <3>2. ~pending' /\ rsp'.what = "nothing"
      BY <2>1 DEF Reply, Send, Response
    <3> QED BY <3>1, <3>2, Drops
  <2>2. ASSUME SessionOpen, NEW raw \in RawTx, Decodes(raw),
               Route(Hashed(raw))
        PROVE  Promise!Next
    <3>1. PICK c : c = Hashed(raw)
      OBVIOUS
    <3>2. /\ c \in Contexts /\ HoldsDecodedTx(c) /\ c.bip32_path \in Paths
      <4>1. /\ G_context.bip32_path \in Paths
            /\ G_context.req_type = "CONFIRM_TRANSACTION"
        BY <2>2 DEF SessionOpen, CanonicalInv, Settled, SessionHasPath
      <4>2. DecodeInto(G_context.tx_data, raw) = Fields(raw)
        BY <1>0, <2>2, DecodeType DEF Contexts
      <4>3. /\ c \in Contexts
            /\ c = [G_context EXCEPT !.raw_tx = raw,
               !.state = "STATE_PARSED", !.m_hash = Keccak256(raw),
               !.tx_data = Fields(raw)]
        BY <1>0, <3>1, <4>2, HashedType
      <4> QED BY <1>0, <2>2, <4>1, <4>3
              DEF Contexts, HoldsDecodedTx, ReviewReady
    <3>3. Granted = None
      BY <2>2 DEF SessionOpen, Granted
    <3>4. ASSUME G_context' = c, screen'.kind # "review",
                 rsp'.what = "nothing"
          PROVE  Promise!Next
      BY <3>2, <3>4, Drops DEF HoldsDecodedTx, ReviewReady
    <3>5. CASE /\ screen' = BlindSigningNotice
               /\ G_context' = c
               /\ Reply("SW_SIGNATURE_FAIL")
      BY <3>4, <3>5, Replied DEF BlindSigningNotice, Blank
    <3>6. CASE /\ screen' = Blank("selector")
               /\ G_context' = c
               /\ Await(TRUE)
      BY <3>4, <3>6, Awaited DEF Blank
    <3>7. ASSUME NEW blind, Display(c, blind, TRUE) PROVE Promise!Next
      BY <1>0, <3>2, <3>3, <3>7, Asks DEF CanonicalInv
    <3> QED BY <2>2, <3>1, <3>5, <3>6, <3>7 DEF Route
  <2>3. Fits(chunk) => G_context.raw_tx \o chunk \in RawTx
    BY <1>0, AppendFits
  <2> QED BY <1>3, <1>5, <2>1, <2>2, <2>3 DEF LastData
<1>6. ASSUME NEW i \in 1..LAST_SIG_CHUNK, SigChunk(i) PROVE Promise!Next
  <2>1. CASE Reply("SW_BAD_STATE") /\ UNCHANGED G_context
    <3>1. ~pending' /\ rsp'.what = "nothing"
      BY <2>1 DEF Reply, Send, Response
    <3> QED BY <1>0, <2>1, <3>1, Answers
  <2>2. CASE MayServe /\ SendSigChunk(i, G_context, N_storage, TRUE)
    <3> DEFINE s == [path |-> G_context.bip32_path,
                     digest |-> Keccak256(G_context.raw_tx)]
    <3>1. Granted = s /\ s # None
      BY <2>2, SubjectIsSomething DEF MayServe, Granted, CanonicalInv, Settled,
                                      SessionHasPath
    <3>2. N_storage.sig = SignatureOf(G_context.bip32_path,
                                      Keccak256(G_context.raw_tx))
      BY <2>2 DEF MayServe, CanonicalInv, Inv, ApprovedHoldsSignature, Settled,
                  ApprovedIsHashed
    <3>3. /\ rsp'.what = "sig" /\ rsp'.index = i /\ ~pending'
          /\ N_storage'.sig = N_storage.sig
      BY <1>0, <2>2 DEF SendSigChunk, Send, Response, Storages
    <3>4. Served' = ChunkOf(Granted, i)
      BY <3>1, <3>2, <3>3 DEF Served, SignatureOf
    <3>5. Asked' = None
      BY <3>3 DEF Asked
    <3>6. Granted' = (IF i = LAST_SIG_CHUNK THEN None ELSE Granted)
      BY <2>2 DEF SendSigChunk, ContextAfter, ZeroContext, Granted
    <3> QED BY <1>0, <3>1, <3>4, <3>5, <3>6, PromiseSteps
  <2> QED BY <1>6, <2>1, <2>2 DEF SigChunk
<1>7. ASSUME NEW i, PkChunk(i) PROVE Promise!Next
  <2>1. ~pending' /\ UNCHANGED G_context /\ rsp'.what = "pk"
    BY <1>7 DEF PkChunk, Send, Response
  <2> QED BY <1>0, <2>1, Answers
<1>8. ASSUME NEW sw, PlainAnswer(sw) PROVE Promise!Next
  <2>1. ~pending' /\ UNCHANGED G_context /\ rsp'.what = "nothing"
    BY <1>8 DEF PlainAnswer, Reply, Send, Response
  <2> QED BY <1>0, <2>1, Answers
<1> QED BY <1>1, <1>2, <1>4, <1>5, <1>6, <1>7, <1>8 DEF Host

\* A callback grants what was asked, drops it, asks at the end of a walk, or
\* is none of the promise's business.
LEMMA UserPromises ==
  CanonicalHost /\ CanonicalInv /\ CanonicalInv' /\ User
    => [Promise!Next]_Promise!vars
<1> SUFFICES ASSUME CanonicalHost, CanonicalInv, CanonicalInv', User
             PROVE  [Promise!Next]_Promise!vars
  OBVIOUS
<1>0. G_context \in Contexts /\ N_storage \in Storages
  BY DEF CanonicalInv, Inv, TypeOK
<1>1. ASSUME screen.kind \in {"address", "selector", "param", "review"}
      PROVE  pending /\ Granted = None
  BY <1>1, WaitingGrantsNothing DEF CanonicalInv, Settled, NoStaleScreen
<1>2. CASE Reject
  <2>1. /\ ~pending' /\ G_context'.req_type = "CONFIRM_ADDRESS"
        /\ rsp'.what = "nothing"
    BY <1>2 DEF Reject, Deny, CallbackReply, Send, Response, ZeroContext
  <2> QED BY <2>1, Drops
<1>3. CASE ApproveAddress
  <2>1. G_context.req_type = "CONFIRM_ADDRESS"
    BY <1>3 DEF ApproveAddress, CanonicalInv, Inv, AddressShownIsKey
  <2>2. /\ ~pending' /\ G_context'.req_type = "CONFIRM_ADDRESS"
        /\ rsp'.what = "address"
    BY <1>0, <1>3, <2>1 DEF ApproveAddress, Send, Response, Contexts
  <2> QED BY <2>2, Drops
<1>4. CASE ApproveTransaction
  <2> DEFINE s == [path |-> G_context.bip32_path,
                   digest |-> Keccak256(G_context.raw_tx)]
  <2>1. /\ HoldsDecodedTx(G_context) /\ Asked = s
        /\ G_context.m_hash = Keccak256(G_context.raw_tx)
    BY <1>1, <1>4 DEF ApproveTransaction, CanonicalInv, Inv,
                      ReviewShowsContext, HoldsDecodedTx, Asked
  <2>2. s # None
    BY <2>1, SubjectIsSomething DEF HoldsDecodedTx, ReviewReady, CanonicalInv,
                                    Settled, SessionHasPath
  <2>3. PICK o \in SigningOutcomes(G_context.bip32_path, G_context.m_hash,
                                   N_storage) :
          \/ /\ G_context' = SigningFailed(Approved(G_context))
             /\ CallbackReply("SW_SIGNATURE_FAIL")
          \/ /\ o.ok
             /\ SendSigChunk(0, Approved(G_context),
                             [N_storage EXCEPT !.sig = o.sig], pending)
    BY <1>4 DEF ApproveTransaction
  <2>4. CASE /\ G_context' = SigningFailed(Approved(G_context))
             /\ CallbackReply("SW_SIGNATURE_FAIL")
    <3>1. /\ ~pending' /\ G_context'.state = "STATE_NONE"
          /\ rsp'.what = "nothing"
      BY <1>0, <2>4
         DEF SigningFailed, Approved, Contexts, CallbackReply, Send, Response
    <3> QED BY <3>1, Drops
  <2>5. CASE /\ o.ok
             /\ SendSigChunk(0, Approved(G_context),
                             [N_storage EXCEPT !.sig = o.sig], pending)
    <3>1. o.sig = SignatureOf(G_context.bip32_path, G_context.m_hash)
      BY <1>0, <2>5, SigningOutcomesType DEF Contexts
    <3>2. /\ rsp'.what = "sig" /\ rsp'.index = 0 /\ ~pending'
          /\ N_storage'.sig = o.sig
      BY <1>0, <2>5 DEF SendSigChunk, Send, Response, Storages
    <3>3. Served' = ChunkOf(Asked, 0)
      BY <2>1, <3>1, <3>2 DEF Served, SignatureOf
    <3>4. G_context' = Approved(G_context)
      BY <2>5, BoundAssumption DEF SendSigChunk, ContextAfter
    <3>5. Granted' = s
      BY <1>0, <2>1, <3>4
         DEF Approved, Contexts, Granted, HoldsDecodedTx, ReviewReady
    <3>6. Asked' = None
      BY <3>2 DEF Asked
    <3> QED BY <2>1, <2>2, <3>3, <3>5, <3>6, PromiseSteps
  <2> QED BY <2>3, <2>4, <2>5
<1>5. CASE ConfirmCalldata
  <2>1. /\ pending /\ screen.kind # "review" /\ Granted = None
        /\ HoldsDecodedTx(G_context)
    BY <1>1, <1>5
       DEF ConfirmCalldata, CanonicalInv, Inv, WalkFollowsContext
  <2>2. Asked = None
    BY <2>1 DEF Asked
  <2>3. CASE /\ screen' = Blank("param")
             /\ UNCHANGED <<G_context, N_storage, rsp>>
    <3>1. Asked' = None
      BY <2>3 DEF Asked, Blank
    <3>2. Granted' = Granted /\ Served' = Served
      BY <2>3 DEF Granted, Served
    <3> QED BY <2>2, <3>1, <3>2, PromiseStutters
  <2>4. CASE Display(G_context, TRUE, pending)
    <3>1. G_context.bip32_path \in Paths
      BY <2>1 DEF HoldsDecodedTx, ReviewReady, CanonicalInv, Settled,
                  SessionHasPath
    <3>2. pending = TRUE
      BY <2>1 DEF CanonicalInv, Inv, TypeOK
    <3> QED BY <1>0, <2>1, <2>2, <2>4, <3>1, <3>2, Asks DEF CanonicalInv
  <2> QED BY <1>5, <2>3, <2>4 DEF ConfirmCalldata
<1>6. CASE LeaveScreen \/ \E s \in Switches : Toggle(s)
  <2>1. /\ screen.kind # "review" /\ screen'.kind = "home"
        /\ UNCHANGED <<G_context, rsp>> /\ N_storage'.sig = N_storage.sig
    BY <1>0, <1>6 DEF LeaveScreen, Toggle, HomePage, Blank, Storages
  <2>2. Asked = None /\ Asked' = None
    BY <2>1 DEF Asked
  <2>3. Granted' = Granted /\ Served' = Served
    BY <2>1 DEF Granted, Served
  <2> QED BY <2>2, <2>3, PromiseStutters
<1> QED BY <1>2, <1>3, <1>4, <1>5, <1>6 DEF User, Choose

\* A restart forgets what was asked and what was granted.
LEMMA RestartPromises == Restart => Promise!Next
<1> SUFFICES ASSUME Restart PROVE Promise!Next
  OBVIOUS
<1>1. /\ ~pending' /\ G_context'.req_type = "CONFIRM_ADDRESS"
      /\ rsp'.what = "nothing"
  BY DEF Restart, ZeroContext, NoResponse, Response
<1> QED BY <1>1, Drops

\* The device keeps its promise: no signature is served but of a transaction
\* that was reviewed under its own sender and hash, once per decision, at once,
\* with no other request in between, and at most until its last chunk.
THEOREM DeviceKeepsPromise ==
  ASSUME CanonicalHost PROVE Spec => KeepsPromise
<1>1. Init => Promise!Init
  BY DEF Init, Promise!Init, NoResponse, Response, ZeroContext
<1>2. CanonicalInv /\ CanonicalInv' /\ [Next]_vars
        => [Promise!Next]_Promise!vars
  <2> SUFFICES ASSUME CanonicalInv, CanonicalInv', [Next]_vars
               PROVE  [Promise!Next]_Promise!vars
    OBVIOUS
  <2>1. CASE UNCHANGED vars
    <3>1. UNCHANGED <<Asked, Granted, Served>>
      BY <2>1 DEF vars, Asked, Granted, Served
    <3> QED BY <3>1, PromiseStutters
  <2> QED BY <2>1, HostPromises, UserPromises, RestartPromises DEF Next
<1> QED BY <1>1, <1>2, CanonicalInvariance, PTL
        DEF Spec, KeepsPromise, Promise!Spec
=============================================================================
