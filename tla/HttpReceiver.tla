----------------------------- MODULE HttpReceiver -----------------------------
(***************************************************************************)
(* The receiver of the HTTP transports (v3/sockjs/httpreceiver.go), at the *)
(* level of its fields: the two channels, the uint32 byte counter, and the *)
(* goroutine of newHTTPReceiver that waits for the request's context or    *)
(* for the receiver's end, whichever comes first.  Every method body runs  *)
(* under the receiver's lock, so each is one step.                         *)
(*                                                                         *)
(* The receiver of the v2 package (sockjs/httpreceiver.go) waits for the   *)
(* connection's close notification instead of the context, if the response *)
(* writer has one, and ignores write errors: `v2' says which one it is.    *)
(*                                                                         *)
(* A frame is the number of bytes the transport's frameWriter puts on the  *)
(* wire for it.                                                            *)
(***************************************************************************)
EXTENDS Integers, Sequences

CONSTANTS
    Modulus,    \* 2^32: currentResponseSize and maxResponseSize are uint32
    Limits,     \* possible values of maxResponseSize
    MaxFrame,   \* the longest frame, in bytes
    MaxBytes    \* bound: bytes sent over one response

ASSUME HttpReceiverAssumption ==
    /\ Modulus \in Nat \ {0}
    /\ Limits \subseteq 0 .. Modulus - 1
    /\ MaxFrame \in Nat \ {0}
    /\ MaxBytes \in Nat

VARIABLES
    v2,                     \* the receiver is the one of the v2 package
    state,                  \* "active" or "closed"
    maxResponseSize,
    currentResponseSize,
    doneCh,                 \* how many times doneCh was closed (a second is a panic)
    interruptCh,            \* how many times interruptCh was closed
    ctxDone,                \* the request's context is done (v2: the client has gone)
    writable,               \* frameWriter.write succeeds
    waiter,                 \* the goroutine of newHTTPReceiver, or "none"
    sent,                   \* history: the frames on the wire
    total                   \* history: their bytes, not truncated to uint32

chanVars == <<doneCh, interruptCh>>
sizeVars == <<maxResponseSize, currentResponseSize, sent, total>>
envVars  == <<v2, ctxDone, writable>>
vars     == <<state, chanVars, sizeVars, envVars, waiter>>

Frame == 1..MaxFrame

TypeOK ==
    /\ v2 \in BOOLEAN
    /\ state \in {"active", "closed"}
    /\ maxResponseSize \in Limits
    /\ currentResponseSize \in 0 .. Modulus - 1
    /\ doneCh \in Nat
    /\ interruptCh \in Nat
    /\ ctxDone \in BOOLEAN
    /\ writable \in BOOLEAN
    /\ waiter \in {"none", "select", "interrupt", "exit"}
    /\ sent \in Seq(Frame)
    /\ total \in Nat

\* newHTTPReceiver
Fresh ==
    /\ state = "active"
    /\ maxResponseSize \in Limits
    /\ currentResponseSize = 0
    /\ doneCh = 0
    /\ interruptCh = 0
    /\ ctxDone = FALSE
    /\ writable = TRUE
    /\ sent = <<>>
    /\ total = 0

newHTTPReceiver == Fresh /\ ~v2 /\ waiter = "select"

\* There is a goroutine only if the response writer is an http.CloseNotifier.
v2_newHTTPReceiver == Fresh /\ v2 /\ waiter \in {"select", "none"}

Init == v2 \in BOOLEAN /\ (newHTTPReceiver \/ v2_newHTTPReceiver)

-----------------------------------------------------------------------------
Add(n) == (currentResponseSize + n) % Modulus

Wrong_LimitReached(n) == Add(n) > maxResponseSize       \* off by one
LimitReached(n)       == Add(n) >= maxResponseSize

Wrong_MayWrite == writable                              \* closed receivers write, too
MayWrite       == state = "active" /\ writable

\* The counter and the end of the response after n bytes.
Count(n) ==
    /\ total + n <= MaxBytes
    /\ total' = total + n
    /\ currentResponseSize' = Add(n)
    /\ IF LimitReached(n)
       THEN state' = "closed" /\ doneCh' = doneCh + 1
       ELSE UNCHANGED <<state, doneCh>>

\* sendFrame and sendBulk on an active receiver.  On a closed receiver, and
\* when the write fails, they change nothing: the first without an error.
sendFrame(n) ==
    /\ MayWrite
    /\ sent' = Append(sent, n)
    /\ Count(n)
    /\ UNCHANGED <<maxResponseSize, interruptCh, envVars, waiter>>

\* v2 counts what a failed write reports as written.
v2_sendFrame(n) ==
    /\ v2
    /\ state = "active"
    /\ ~writable
    /\ \E k \in 0..n : Count(k)
    /\ UNCHANGED <<maxResponseSize, sent, interruptCh, envVars, waiter>>

\* close on an active receiver; on a closed one it changes nothing.
close ==
    /\ state = "active"
    /\ state' = "closed"
    /\ doneCh' = doneCh + 1
    /\ UNCHANGED <<interruptCh, sizeVars, envVars, waiter>>

\* The goroutine of newHTTPReceiver: its select ...
waitContext ==
    /\ waiter = "select"
    /\ ctxDone
    /\ waiter' = "interrupt"
    /\ UNCHANGED <<state, chanVars, sizeVars, envVars>>

waitDone ==
    /\ waiter = "select"
    /\ doneCh > 0
    /\ waiter' = "exit"
    /\ UNCHANGED <<state, chanVars, sizeVars, envVars>>

Wrong_StillActive == TRUE                               \* the state is not checked again
StillActive       == state = "active"

\* ... and, the context done, its critical section.
interrupt ==
    /\ waiter = "interrupt"
    /\ waiter' = "exit"
    /\ IF StillActive
       THEN state' = "closed" /\ interruptCh' = interruptCh + 1
       ELSE UNCHANGED <<state, interruptCh>>
    /\ UNCHANGED <<doneCh, sizeVars, envVars>>

\* The server: the request's context ends, the connection refuses writes.
endContext ==
    /\ ~ctxDone
    /\ ctxDone' = TRUE
    /\ UNCHANGED <<state, chanVars, sizeVars, v2, writable, waiter>>

breakWriter ==
    /\ writable
    /\ writable' = FALSE
    /\ UNCHANGED <<state, chanVars, sizeVars, v2, ctxDone, waiter>>

Wrong_Waiter == waitContext \/ interrupt                \* waits for the context only
Waiter       == waitContext \/ waitDone \/ interrupt

Next == \/ \E n \in Frame : sendFrame(n) \/ v2_sendFrame(n)
        \/ close \/ Waiter \/ endContext \/ breakWriter

Spec == Init /\ [][Next]_vars

\* The goroutine runs.
FairSpec == Spec /\ WF_vars(Waiter)

-----------------------------------------------------------------------------
\* Exactly one of the two channels is closed, once, and only when the receiver
\* ends: the session's watcher takes exactly one branch of its select, although
\* the limit, close() and the end of the context race with each other.
EndsOnce == doneCh + interruptCh = (IF state = "closed" THEN 1 ELSE 0)

\* The first frame that reaches the limit ends the response.  The uint32
\* counter must not wrap before: the limit leaves room for one more frame.
EndsAtLimit ==
    (maxResponseSize + MaxFrame <= Modulus /\ state = "active" /\ sent # <<>>) =>
        total < maxResponseSize

\* The contract of receiver.go.
status ==
    CASE doneCh > 0 -> "done" [] interruptCh > 0 -> "interrupted" [] OTHER -> "active"

Contract == INSTANCE Receiver WITH frames <- sent

\* The fields of httpReceiver implement the interface the session relies on.
ImplementsReceiver == Contract!Spec

\* The goroutine of newHTTPReceiver does its work and no more: when the client
\* has gone the receiver ends, and when the receiver has ended, however that
\* came about, the goroutine does.  (A v2 receiver without one never learns that
\* its client has gone: it ends only at its limit or by close.)
WaiterExits ==
    ((state = "closed" \/ ctxDone) /\ waiter # "none") ~> (state = "closed" /\ waiter = "exit")

=============================================================================
