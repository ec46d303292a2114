--------------------------- MODULE SigningPromise ---------------------------
(***************************************************************************)
(* What the signing device promises its user, without commands, states or  *)
(* storage: a subject - a key and the digest of a transaction - is put to  *)
(* the user; the user grants it or refuses it; chunks of its signature     *)
(* leave the device only under that grant, the first of them at once; the  *)
(* last chunk, or anything else the device turns to, ends the grant.       *)
(***************************************************************************)
EXTENDS Naturals

CONSTANTS Subjects, None, LastChunk

VARIABLES review,  \* the subject the user is asked about, or None
          grant,   \* the subject the user granted, or None
          served   \* the chunk that has just left the device, if any

vars == <<review, grant, served>>

Chunk(s, i) == {[subject |-> s, index |-> i]}

Init == review = None /\ grant = None /\ served = {}

\* The device asks about a subject, and about one at a time.
Ask(s) == /\ review = None /\ grant = None
          /\ review' = s
          /\ grant' = None
          /\ served' = {}

\* The user grants the subject asked about; its first chunk leaves.
Grant == /\ review # None
         /\ grant' = review
         /\ served' = Chunk(review, 0)
         /\ review' = None

\* Another chunk of the granted subject leaves, in any order; the last one
\* ends the grant.
Serve(i) == /\ grant # None
            /\ served' = Chunk(grant, i)
            /\ grant' = IF i = LastChunk THEN None ELSE grant
            /\ UNCHANGED review

\* The user refuses, signing fails, or the device starts something else.
Drop == /\ review' = None
        /\ grant' = None
        /\ served' = {}

\* An answer that is no signature chunk.
OtherAnswer == served' = {} /\ UNCHANGED <<review, grant>>

Next == \/ \E s \in Subjects : Ask(s)
        \/ Grant
        \/ \E i \in 1..LastChunk : Serve(i)
        \/ Drop
        \/ OtherAnswer

Spec == Init /\ [][Next]_vars
=============================================================================
