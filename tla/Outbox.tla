-------------------------------- MODULE Outbox --------------------------------
(***************************************************************************)
(* What a session promises about the messages given to Send (the comments  *)
(* of session.go on sendBuffer, Send and Close): a queue to the client,    *)
(* first in, first out, each message once, across all the requests and     *)
(* connections that carry it.  Messages may be lost only once the session  *)
(* is doomed, that is, closing or certain to be closed, and a session that *)
(* is doomed stays so.  The k-th message accepted is the number k.         *)
(***************************************************************************)
EXTENDS Naturals, Sequences

VARIABLES
    accepted,   \* how many messages Send took
    pending,    \* those that are not yet on their way
    delivered,  \* those written to the client, in order
    doomed      \* the session is ending

oVars == <<accepted, pending, delivered, doomed>>

Init == accepted = 0 /\ pending = <<>> /\ delivered = <<>> /\ doomed = FALSE

\* Some of the first messages of q are written, and the others wait; or, when
\* the session is doomed, all of them may go down with it.
Hand(q) ==
    /\ \/ \E k \in 0..Len(q) : /\ delivered' = delivered \o SubSeq(q, 1, k)
                               /\ pending' = SubSeq(q, k + 1, Len(q))
       \/ doomed /\ delivered' = delivered /\ pending' = <<>>
    /\ UNCHANGED doomed

Accept == accepted' = accepted + 1 /\ Hand(Append(pending, accepted + 1))

Deliver == UNCHANGED accepted /\ Hand(pending)

Doom == doomed' = TRUE /\ UNCHANGED <<accepted, pending, delivered>>

Next == Accept \/ Deliver \/ Doom

Spec == Init /\ [][Next]_oVars
=============================================================================
