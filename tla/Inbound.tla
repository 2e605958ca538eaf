------------------------------- MODULE Inbound -------------------------------
(***************************************************************************)
(* The way from the client to the application (v3/sockjs): xhr_send and    *)
(* jsonp_send requests (xhr.go, jsonp.go) decode a batch of messages, find *)
(* the session and push the batch, message by message, into its            *)
(* messageBuffer (buffer.go); application goroutines take them out with    *)
(* Recv and RecvCtx; closing() closes the buffer.                          *)
(*                                                                         *)
(* The buffer is two Go channels: popCh, unbuffered, and closeCh.  A select *)
(* first looks for a case that is ready and takes any of the ready ones;   *)
(* it parks the goroutine only if there is none.  A parked goroutine is    *)
(* woken by its partner on popCh, by close(closeCh), or by its context.    *)
(* Which of several parked partners is served is left open.                *)
(*                                                                         *)
(* The v2 package (sockjs/xhr.go, jsonp.go, buffer.go) has the same buffer *)
(* without contexts, but its endpoints keep sessionsMux, the lock of the   *)
(* session table, until the whole batch is pushed, and answer as if it had *)
(* been: `v2' says which package the behaviour is one of.                  *)
(*                                                                         *)
(* The k-th message of a batch is the number k.                            *)
(***************************************************************************)
EXTENDS Integers, Sequences

CONSTANTS
    Senders,    \* the xhr_send and jsonp_send requests
    Readers,    \* application goroutines that call Recv or RecvCtx
    MaxBatch,   \* bound: messages in one request
    None        \* nobody

ASSUME InboundAssumption ==
    /\ Senders \cap Readers = {}
    /\ None \notin Senders \cup Readers
    /\ MaxBatch \in Nat

VARIABLES
    v2,         \* the v2 package, not v3
    mutex,      \* the sender that holds sessionsMux while it pushes, or None
    closed,     \* messageBuffer.closeCh is closed
    registered, \* the session is in Handler.sessions
    send,       \* where each sender is
    batch,      \* number of messages it decoded
    next,       \* the message its push is at
    answer,     \* the response it gave
    read,       \* where each reader is
    ctxDone,    \* the context of a reader's call is done
    received    \* history: the messages of each sender the application got

sendVars == <<send, batch, next, answer, mutex>>
readVars == <<read, ctxDone>>
vars     == <<v2, closed, registered, sendVars, readVars, received>>

SendPC == {"idle", "lookup", "select", "parked", "answered"}
ReadPC == {"idle", "select", "parked"}
Answer == {"none", "ok", "badForm", "payloadExpected", "brokenJson", "notFound",
           "notOpen"}

TypeOK ==
    /\ v2 \in BOOLEAN
    /\ mutex \in Senders \cup {None}
    /\ closed \in BOOLEAN
    /\ registered \in BOOLEAN
    /\ send \in [Senders -> SendPC]
    /\ batch \in [Senders -> 0..MaxBatch]
    /\ next \in [Senders -> 1 .. MaxBatch + 1]
    /\ answer \in [Senders -> Answer]
    /\ read \in [Readers -> ReadPC]
    /\ ctxDone \in [Readers -> BOOLEAN]
    /\ received \in [Senders -> Seq(Nat)]

Init ==
    /\ v2 \in BOOLEAN
    /\ mutex = None
    /\ closed = FALSE
    /\ registered = TRUE
    /\ send = [p \in Senders |-> "idle"]
    /\ batch = [p \in Senders |-> 0]
    /\ next = [p \in Senders |-> 1]
    /\ answer = [p \in Senders |-> "none"]
    /\ read = [q \in Readers |-> "idle"]
    /\ ctxDone = [q \in Readers |-> FALSE]
    /\ received = [p \in Senders |-> <<>>]

-----------------------------------------------------------------------------
(* The requests.                                                            *)

\* The response, and with it the deferred Unlock.
Responds(p, a) ==
    /\ send' = [send EXCEPT ![p] = "answered"]
    /\ answer' = [answer EXCEPT ![p] = a]
    /\ mutex' = IF mutex = p THEN None ELSE mutex

\* What the JSON decoder makes of the body: no body, no value in it, invalid or
\* unfinished JSON, JSON that is not a list of strings, a list of strings.
Payload == {"nil", "empty", "broken", "type", "strings"}

Rejection(payload) == CASE payload = "form"             -> "badForm"
                        [] payload \in {"nil", "empty"} -> "payloadExpected"
                        [] OTHER                        -> "brokenJson"

\* A value of the wrong type is reported as an error, too, with the elements
\* that could be decoded (the others are empty strings) in the list.  xhrSend
\* lets that error pass, jsonpSend does not.
Tolerated(transport) ==
    IF transport = "xhr_send" THEN {"type", "strings"} ELSE {"strings"}

decode(p, transport, payload, n) ==
    /\ send[p] = "idle"
    /\ IF payload \in Tolerated(transport)
       THEN /\ send' = [send EXCEPT ![p] = "lookup"]
            /\ batch' = [batch EXCEPT ![p] = n]
            /\ UNCHANGED <<answer, mutex>>
       ELSE Responds(p, Rejection(payload)) /\ UNCHANGED batch
    /\ UNCHANGED <<v2, closed, registered, next, readVars, received>>

xhrSend(p) ==
    \E payload \in Payload, n \in 0..MaxBatch : ~v2 /\ decode(p, "xhr_send", payload, n)

\* jsonpSend parses the form first; the payload may be a field of it.
jsonpSend(p) ==
    \E payload \in Payload \cup {"form"}, n \in 0..MaxBatch :
        ~v2 /\ decode(p, "jsonp_send", payload, n)

v2_xhrSend(p) ==
    \E payload \in Payload, n \in 0..MaxBatch : v2 /\ decode(p, "xhr_send", payload, n)

\* The error of ParseForm is ignored.
v2_jsonpSend(p) ==
    \E payload \in Payload, n \in 0..MaxBatch : v2 /\ decode(p, "jsonp_send", payload, n)

\* The session is looked up, under sessionsMux; accept pushes the batch, an
\* empty one at once.
Lookup(p, holder) ==
    /\ send[p] = "lookup"
    /\ mutex = None
    /\ IF ~registered THEN Responds(p, "notFound")
       ELSE IF batch[p] = 0 THEN Responds(p, "ok")
       ELSE /\ send' = [send EXCEPT ![p] = "select"]
            /\ mutex' = holder
            /\ UNCHANGED answer
    /\ UNCHANGED <<v2, closed, registered, batch, next, readVars, received>>

Wrong_lookup(p) == ~v2 /\ Lookup(p, p)                  \* sessionsMux is kept
lookup(p)       == ~v2 /\ Lookup(p, None)

\* v2 keeps sessionsMux while it pushes.
v2_lookup(p) == v2 /\ Lookup(p, p)

-----------------------------------------------------------------------------
(* messageBuffer.                                                           *)

Last(p) == next[p] = batch[p]

Wrong_Advance(p) == UNCHANGED next                      \* the same message again
Advance(p)       == next' = [next EXCEPT ![p] = @ + 1]

\* popCh carries p's message to q: q returns it, p is at its next message.
Handover(p, q) ==
    /\ received' = [received EXCEPT ![p] = Append(@, next[p])]
    /\ Advance(p)
    /\ IF Last(p) THEN Responds(p, "ok")
                  ELSE send' = [send EXCEPT ![p] = "select"] /\ UNCHANGED <<answer, mutex>>
    /\ read' = [read EXCEPT ![q] = "idle"]
    /\ UNCHANGED <<v2, closed, registered, batch, ctxDone>>

\* What the client is told when accept fails; v2 ignores accept's result.
v2_Refused    == "ok"
Wrong_Refused == "ok"                                   \* push's error is ignored
Refused       == IF v2 THEN v2_Refused ELSE "notOpen"

\* The select of push.
pushHandover(p, q) ==
    /\ send[p] = "select"
    /\ read[q] = "parked"
    /\ Handover(p, q)

pushClosed(p) ==
    /\ send[p] = "select"
    /\ closed
    /\ Responds(p, Refused)
    /\ UNCHANGED <<v2, closed, registered, batch, next, readVars, received>>

pushParks(p) ==
    /\ send[p] = "select"
    /\ ~closed
    /\ \A q \in Readers : read[q] # "parked"
    /\ send' = [send EXCEPT ![p] = "parked"]
    /\ UNCHANGED <<v2, closed, registered, batch, next, answer, mutex, readVars, received>>

\* The select of pop.
popHandover(p, q) ==
    /\ read[q] = "select"
    /\ send[p] = "parked"
    /\ Handover(p, q)

PopReturns(q) ==
    /\ read' = [read EXCEPT ![q] = "idle"]
    /\ UNCHANGED <<v2, closed, registered, sendVars, ctxDone, received>>

popClosed(q) == read[q] = "select" /\ closed /\ PopReturns(q)

popCancelled(q) == read[q] = "select" /\ ctxDone[q] /\ PopReturns(q)

popParks(q) ==
    /\ read[q] = "select"
    /\ ~closed
    /\ ~ctxDone[q]
    /\ \A p \in Senders : send[p] # "parked"
    /\ read' = [read EXCEPT ![q] = "parked"]
    /\ UNCHANGED <<v2, closed, registered, sendVars, ctxDone, received>>

Wrong_Woken(pcs) == {g \in Readers \cap DOMAIN pcs : pcs[g] = "parked"}   \* not in push
Woken(pcs)       == {g \in DOMAIN pcs : pcs[g] = "parked"}

\* The senders that close makes return let go of sessionsMux.
MutexAfterClose == IF mutex \in Woken(send) THEN None ELSE mutex

\* close: every goroutine parked on closeCh takes that case.  Idempotent.
close ==
    /\ ~closed
    /\ closed' = TRUE
    /\ send' = [p \in Senders |-> IF p \in Woken(send) THEN "answered" ELSE send[p]]
    /\ answer' = [p \in Senders |-> IF p \in Woken(send) THEN Refused ELSE answer[p]]
    /\ read' = [q \in Readers |-> IF q \in Woken(read) THEN "idle" ELSE read[q]]
    /\ mutex' = MutexAfterClose
    /\ UNCHANGED <<v2, registered, batch, next, ctxDone, received>>

-----------------------------------------------------------------------------
(* The application, its contexts, and the session's end.                    *)

\* Recv, RecvCtx
Recv(q) ==
    /\ read[q] = "idle"
    /\ read' = [read EXCEPT ![q] = "select"]
    /\ ctxDone' = [ctxDone EXCEPT ![q] = FALSE]
    /\ UNCHANGED <<v2, closed, registered, sendVars, received>>

\* v2 has no RecvCtx.
cancelCtx(q) ==
    /\ ~v2
    /\ read[q] # "idle"
    /\ ~ctxDone[q]
    /\ ctxDone' = [ctxDone EXCEPT ![q] = TRUE]
    /\ read' = [read EXCEPT ![q] = IF @ = "parked" THEN "idle" ELSE @]
    /\ UNCHANGED <<v2, closed, registered, sendVars, received>>

\* A session that is closed (the buffer is, by then) leaves the map, once the
\* goroutine that waits for it gets sessionsMux.
unregister ==
    /\ mutex = None
    /\ closed
    /\ registered
    /\ registered' = FALSE
    /\ UNCHANGED <<v2, closed, sendVars, readVars, received>>

Push(p) == pushClosed(p) \/ pushParks(p) \/ \E q \in Readers : pushHandover(p, q)
Pop(q)  == \/ popClosed(q) \/ popCancelled(q) \/ popParks(q)
           \/ \E p \in Senders : popHandover(p, q)

Lookups(p) == lookup(p) \/ v2_lookup(p)

Next ==
    \/ \E p \in Senders : \/ xhrSend(p) \/ jsonpSend(p) \/ v2_xhrSend(p) \/ v2_jsonpSend(p)
                          \/ Lookups(p) \/ Push(p)
    \/ \E q \in Readers : Recv(q) \/ cancelCtx(q) \/ Pop(q)
    \/ close
    \/ unregister

Spec == Init /\ [][Next]_vars

\* Goroutines run.  The application may stop reading, the session stay open.
FairSpec ==
    /\ Spec
    /\ \A p \in Senders : WF_vars(Lookups(p)) /\ WF_vars(Push(p))
    /\ \A q \in Readers : WF_vars(Pop(q))
    /\ WF_vars(unregister)

-----------------------------------------------------------------------------
\* Every batch is received in order, without gaps or duplicates, up to the
\* message its push is at, whoever reads and whenever calls are cancelled.
BatchPrefix == \A p \in Senders : received[p] = [i \in 1 .. next[p] - 1 |-> i]

\* The response says what happened to the batch: success only when all of it
\* was received; an error only for a closed session, and then not all of it was
\* (a part may have been: a client must not repeat such a request).  v2 reports
\* success for what a closed session did not take, too, but for nothing else.
AnswerIsTrue ==
    \A p \in Senders :
        /\ answer[p] = "ok" => Len(received[p]) = batch[p] \/ (v2 /\ closed)
        /\ answer[p] = "notOpen" => closed /\ Len(received[p]) < batch[p]
        /\ answer[p] \in {"badForm", "payloadExpected", "brokenJson", "notFound"} =>
                received[p] = <<>>

\* Closing the session ends every request and every call that waits for the
\* buffer, or for a lock such a request holds, and lets the session leave the
\* table.
CloseReleases ==
    /\ \A p \in Senders : (closed /\ send[p] # "idle") ~> (send[p] = "answered")
    /\ \A q \in Readers : (closed /\ read[q] # "idle") ~> (read[q] = "idle")
    /\ closed ~> ~registered

\* An application that does not read holds up only the requests that bring it
\* messages: all others get past the session table.  (The release of sessionsMux
\* before accept is what v3 does for that; in v2 they depend on the application.)
LookupsReturn ==
    \A p \in Senders :
        (v2 => []<>(\A o \in Senders : send[o] # "parked")) =>
            ((send[p] = "lookup") ~> (send[p] # "lookup"))

=============================================================================
