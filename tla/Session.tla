------------------------------- MODULE Session -------------------------------
(***************************************************************************)
(* One server-side SockJS session (v3/sockjs/session.go) with everything   *)
(* that runs concurrently on it:                                           *)
(*                                                                         *)
(*   - the HTTP requests that carry a receiver (xhr, xhr_streaming,        *)
(*     eventsource, htmlfile, jsonp), one request handler goroutine each;  *)
(*   - per attached receiver, the watcher goroutine that attachReceiver    *)
(*     starts, which detaches the receiver when it ends;                   *)
(*   - per receiver, the goroutine of newHTTPReceiver that turns the end   *)
(*     of the request's context into an interruption;                      *)
(*   - the application's goroutines, which call Send and Close;            *)
(*   - the runtime timer s.timer and the goroutines its expiry starts.     *)
(*                                                                         *)
(* Everything the session does happens under s.mux.  A critical section    *)
(* that calls the receiver is split at every such call, because a receiver *)
(* has a lock of its own and may be interrupted in between: `mux' is the   *)
(* program counter of the goroutine that holds s.mux, `holder' its name.   *)
(*                                                                         *)
(* Data is abstracted: the k-th message handed to Send is the number k, a  *)
(* frame is its kind, a close frame is its status code (0 is the empty     *)
(* close frame of a session that was never given one), and a frame's size  *)
(* is the number of messages in it, or 1.                                  *)
(*                                                                         *)
(* A definition named Wrong_X is a plausible bug in X.  Nothing uses it;   *)
(* it serves to show that a property would notice that bug.                *)
(***************************************************************************)
EXTENDS Integers, Sequences

CONSTANTS
    Requests,       \* the HTTP requests that bring a receiver
    Apps,           \* the application goroutines that use the session
    CloseCodes,     \* the status codes the application closes with
    ResponseLimit,  \* Options.ResponseLimit, in frame-size units
    HeartbeatsOn,   \* HeartbeatDelay > 0
    MaxSends,       \* bound: how many messages the application sends
    None            \* no receiver; nobody holds the lock

Timer == "timer"    \* the goroutines that expired timers start

ASSUME SessionAssumption ==
    /\ Requests \cap Apps = {}
    /\ Timer \notin Requests \cup Apps
    /\ None \notin Requests \cup Apps \cup {Timer}
    /\ CloseCodes \subseteq Nat \ {0}
    /\ ResponseLimit \in Nat
    /\ HeartbeatsOn \in BOOLEAN
    /\ MaxSends \in Nat

SessionOpening == 0
SessionActive  == 1
SessionClosing == 2
SessionClosed  == 3

VARIABLES
    \* type session
    state,          \* SessionState
    recv,           \* the attached receiver, or None
    sendBuffer,     \* messages to be sent to the client
    closeFrame,     \* status code of the close frame, 0 when empty
    closeCh,        \* how many times closeCh was closed (a second is a panic)
    recvClosed,     \* recvBuffer.close() was called
    cancelled,      \* the session's context is cancelled
    registered,     \* the handler's session map still holds the session
    mux,            \* where the holder of s.mux is, or "free"
    holder,         \* the goroutine that holds s.mux across steps
    \* timers
    timer,          \* what *s.timer will call: "close", "heartbeat", or "off"
    orphans,        \* armed timers s.timer no longer refers to
    callbacks,      \* goroutines of expired timers, by how far they are
    \* goroutines
    handler,        \* request handlers
    watcher,        \* the goroutines attachReceiver starts
    app,            \* application goroutines
    started,        \* startHandlerOnce is done
    \* type httpReceiver, one per request
    rstate,         \* its state and which of its two channels is closed
    limit,          \* maxResponseSize
    size,           \* currentResponseSize
    wire,           \* kinds of the frames written to the response
    broken,         \* the client's connection is gone, writes fail
    \* history
    nSent,          \* number of messages put into sendBuffer so far
    delivered,      \* messages written to some response, in order
    closeCodes      \* codes of the close frames the session wrote

sessVars   == <<state, recv, sendBuffer>>
endVars    == <<closeFrame, closeCh, recvClosed, cancelled, registered>>
lockVars   == <<mux, holder>>
timerVars  == <<timer, orphans, callbacks>>
threadVars == <<handler, watcher, app, started>>
recvVars   == <<rstate, limit, size, wire, broken>>
histVars   == <<nSent, delivered, closeCodes>>
vars == <<sessVars, endVars, lockVars, timerVars, threadVars, recvVars, histVars>>

-----------------------------------------------------------------------------
\* Frames: "o" open, "a" data, "h" heartbeat, "c" the session's close frame,
\* "busy" the 2010 close frame of a refused request.
FrameKind     == {"o", "a", "h", "c", "busy"}
MuxPC         == {"free", "send", "attach.open", "attach.bulk", "attach.closeFrame",
                  "attach.close", "closing.frame", "closing.close"}
HandlerPC     == {"idle", "attach", "attached", "serving", "refused", "closing", "returned"}
WatcherPC     == {"none", "waiting", "close", "afterClosing", "exit"}
ReceiverState == {"none", "active", "done", "interrupted"}
TimerKind     == {"close", "heartbeat"}
CallbackPC    == {"heartbeat", "close", "afterClosing"}
Closers       == Apps \cup Requests \cup {Timer}

SessType ==
    /\ state \in SessionOpening..SessionClosed
    /\ recv \in Requests \cup {None}
    /\ sendBuffer \in Seq(Nat)

EndType ==
    /\ closeFrame \in CloseCodes \cup {0}
    /\ closeCh \in Nat
    /\ recvClosed \in BOOLEAN
    /\ cancelled \in BOOLEAN
    /\ registered \in BOOLEAN

LockType ==
    /\ mux \in MuxPC
    /\ holder \in Closers \cup {None}

TimerType ==
    /\ timer \in TimerKind \cup {"off"}
    /\ orphans \in [TimerKind -> Nat]
    /\ callbacks \in [CallbackPC -> Nat]

ThreadType ==
    /\ handler \in [Requests -> HandlerPC]
    /\ watcher \in [Requests -> WatcherPC]
    /\ app \in [Apps -> {"idle", "closing"}]
    /\ started \in BOOLEAN

RecvType ==
    /\ rstate \in [Requests -> ReceiverState]
    /\ limit \in [Requests -> Nat]
    /\ size \in [Requests -> Nat]
    /\ wire \in [Requests -> Seq(FrameKind)]
    /\ broken \in [Requests -> BOOLEAN]

HistType ==
    /\ nSent \in Nat
    /\ delivered \in Seq(Nat)
    /\ closeCodes \subseteq CloseCodes \cup {0}

\* The type invariant, by groups of variables.
TypeOK == SessType /\ EndType /\ LockType /\ TimerType /\ ThreadType /\ RecvType /\ HistType

\* newSession: the session is in the map and its expiry timer runs.
Init ==
    /\ state = SessionOpening
    /\ recv = None
    /\ sendBuffer = <<>>
    /\ closeFrame = 0
    /\ closeCh = 0
    /\ recvClosed = FALSE
    /\ cancelled = FALSE
    /\ registered = TRUE
    /\ mux = "free"
    /\ holder = None
    /\ timer = "close"
    /\ orphans = [k \in TimerKind |-> 0]
    /\ callbacks = [k \in CallbackPC |-> 0]
    /\ handler = [r \in Requests |-> "idle"]
    /\ watcher = [r \in Requests |-> "none"]
    /\ app = [a \in Apps |-> "idle"]
    /\ started = FALSE
    /\ rstate = [r \in Requests |-> "none"]
    /\ limit = [r \in Requests |-> 0]
    /\ size = [r \in Requests |-> 0]
    /\ wire = [r \in Requests |-> <<>>]
    /\ broken = [r \in Requests |-> FALSE]
    /\ nSent = 0
    /\ delivered = <<>>
    /\ closeCodes = {}

-----------------------------------------------------------------------------
(* httpReceiver: each method runs under the receiver's own lock.            *)

Wrong_canSend(r) == rstate[r] # "interrupted"           \* an ended receiver is used
canSend(r)       == rstate[r] = "active"

\* frameWriter.write is reached and succeeds; is reached and fails.
Wrong_Writes(r) == ~broken[r]                           \* closed receivers write, too
Writes(r)     == rstate[r] = "active" /\ ~broken[r]
WriteFails(r) == rstate[r] = "active" /\ broken[r]

LimitReached(r, n) == size[r] + n >= limit[r]

\* A receiver that is no longer active swallows the frame and reports success.
sendFrame(r, kind, n) ==
    /\ wire' = IF Writes(r) THEN [wire EXCEPT ![r] = Append(@, kind)] ELSE wire
    /\ size' = IF Writes(r) THEN [size EXCEPT ![r] = @ + n] ELSE size
    /\ rstate' = IF Writes(r) /\ LimitReached(r, n)
                 THEN [rstate EXCEPT ![r] = "done"] ELSE rstate
    /\ UNCHANGED <<limit, broken>>

\* Nothing is written for an empty list of messages.
sendBulk(r, messages) ==
    IF messages = <<>>
    THEN UNCHANGED <<recvVars, delivered>>
    ELSE /\ sendFrame(r, "a", Len(messages))
         /\ delivered' = IF Writes(r) THEN delivered \o messages ELSE delivered

BulkFails(r) == sendBuffer # <<>> /\ WriteFails(r)

Wrong_closeReceiver(r) == UNCHANGED recvVars            \* close() is forgotten
closeReceiver(r) ==
    /\ rstate' = IF canSend(r) THEN [rstate EXCEPT ![r] = "done"] ELSE rstate
    /\ UNCHANGED <<limit, size, wire, broken>>

\* doneNotify or interruptedNotify is closed.
Wrong_Ended(r) == rstate[r] = "done"                    \* interruptions unnoticed
Ended(r)       == rstate[r] \in {"done", "interrupted"}

\* The session's close frame; its code is recorded.
sendCloseFrame(r) ==
    /\ sendFrame(r, "c", 1)
    /\ closeCodes' = IF Writes(r) THEN closeCodes \cup {closeFrame} ELSE closeCodes
    /\ UNCHANGED <<nSent, delivered>>

\* The environment: the client goes away, and the goroutine of newHTTPReceiver
\* sees the request's context end, because of that or because the handler
\* returned.
Disconnect(r) ==
    /\ rstate[r] = "active"
    /\ ~broken[r]
    /\ broken' = [broken EXCEPT ![r] = TRUE]
    /\ UNCHANGED <<sessVars, endVars, lockVars, timerVars, threadVars, rstate, limit, size,
                   wire, histVars>>

interrupt(r) ==
    /\ rstate[r] = "active"
    /\ broken[r] \/ handler[r] = "returned"
    /\ rstate' = [rstate EXCEPT ![r] = "interrupted"]
    /\ UNCHANGED <<sessVars, endVars, lockVars, timerVars, threadVars, limit, size, wire,
                   broken, histVars>>

-----------------------------------------------------------------------------
(* Request handlers.                                                        *)

\* What every step of a request handler outside attachReceiver leaves alone.
OutsideSession == UNCHANGED <<sessVars, endVars, lockVars, timerVars, watcher, app, histVars>>

HandlerGoes(r, pc) == handler' = [handler EXCEPT ![r] = pc]

\* sessionByRequest finds the session in the map (and waits for s.mux to
\* record the request), newHTTPReceiver makes the receiver.
arrive(r, maxResponse) ==
    /\ handler[r] = "idle"
    /\ registered
    /\ mux = "free"
    /\ HandlerGoes(r, "attach")
    /\ rstate' = [rstate EXCEPT ![r] = "active"]
    /\ limit' = [limit EXCEPT ![r] = maxResponse]
    /\ OutsideSession
    /\ UNCHANGED <<started, size, wire, broken>>

\* A missing or invalid callback is answered before the session is looked up.
badCallback(r) ==
    /\ handler[r] = "idle"
    /\ HandlerGoes(r, "returned")
    /\ OutsideSession
    /\ UNCHANGED <<started, recvVars>>

xhrPoll(r)      == arrive(r, 1)
xhrStreaming(r) == arrive(r, ResponseLimit)
eventSource(r)  == arrive(r, ResponseLimit)
htmlFile(r)     == arrive(r, ResponseLimit) \/ badCallback(r)
jsonp(r)        == arrive(r, 1) \/ badCallback(r)

\* The tail of every one of them after a successful attachReceiver.
startHandlerOnce(r) ==
    /\ handler[r] = "attached"
    /\ HandlerGoes(r, "serving")
    /\ started' = TRUE
    /\ OutsideSession
    /\ UNCHANGED recvVars

awaitReceiver(r) ==
    /\ handler[r] = "serving"
    /\ Ended(r)
    /\ HandlerGoes(r, "returned")
    /\ OutsideSession
    /\ UNCHANGED <<started, recvVars>>

\* ... and after a failed one: the cFrame, and unless that fails, close().
refuse(r) ==
    /\ handler[r] = "refused"
    /\ sendFrame(r, "busy", 1)
    /\ HandlerGoes(r, IF WriteFails(r) THEN "returned" ELSE "closing")
    /\ OutsideSession
    /\ UNCHANGED started

refuseClose(r) ==
    /\ handler[r] = "closing"
    /\ closeReceiver(r)
    /\ HandlerGoes(r, "returned")
    /\ OutsideSession
    /\ UNCHANGED started

-----------------------------------------------------------------------------
(* attachReceiver, run by the request handler.                              *)

Unlock      == mux' = "free" /\ holder' = None
Lock(t, pc) == mux' = pc /\ holder' = t

Wrong_NoneAttached == TRUE                              \* the check is dropped
NoneAttached       == recv = None

\* Where the section goes once the receiver is installed.
AttachPC == CASE state = SessionClosing -> "attach.closeFrame"
              [] state = SessionOpening -> "attach.open"
              [] OTHER                  -> "attach.bulk"

attachRefused(r) ==
    /\ handler[r] = "attach"
    /\ mux = "free"
    /\ ~NoneAttached
    /\ HandlerGoes(r, "refused")
    /\ OutsideSession
    /\ UNCHANGED <<started, recvVars>>

\* Installs the receiver and starts its watcher.
attachReceiver(r) ==
    /\ handler[r] = "attach"
    /\ mux = "free"
    /\ NoneAttached
    /\ recv' = r
    /\ watcher' = [watcher EXCEPT ![r] = "waiting"]
    /\ Lock(r, AttachPC)
    /\ UNCHANGED <<state, sendBuffer, endVars, timerVars, handler, app, started, recvVars,
                   histVars>>

\* attachReceiver returns the receiver's error; the receiver stays installed.
AttachFails ==
    /\ HandlerGoes(holder, "refused")
    /\ Unlock
    /\ UNCHANGED <<sessVars, endVars, timerVars, watcher, app, started, recvVars, histVars>>

attachCloseFrame ==
    /\ mux = "attach.closeFrame"
    /\ \/ WriteFails(holder) /\ AttachFails
       \/ /\ ~WriteFails(holder)
          /\ sendCloseFrame(holder)
          /\ Lock(holder, "attach.close")
          /\ UNCHANGED <<sessVars, endVars, timerVars, threadVars>>

attachClose ==
    /\ mux = "attach.close"
    /\ closeReceiver(holder)
    /\ HandlerGoes(holder, "attached")
    /\ Unlock
    /\ UNCHANGED <<sessVars, endVars, timerVars, watcher, app, started, histVars>>

Wrong_OpenedState == SessionOpening                     \* the session stays opening
OpenedState       == SessionActive

attachOpen ==
    /\ mux = "attach.open"
    /\ \/ WriteFails(holder) /\ AttachFails
       \/ /\ ~WriteFails(holder)
          /\ sendFrame(holder, "o", 1)
          /\ state' = OpenedState
          /\ Lock(holder, "attach.bulk")
          /\ UNCHANGED <<recv, sendBuffer, endVars, timerVars, threadVars, histVars>>

\* Flushes the send buffer and replaces the expiry timer by the heartbeat.
attachBulk ==
    /\ mux = "attach.bulk"
    /\ \/ BulkFails(holder) /\ AttachFails
       \/ /\ ~BulkFails(holder)
          /\ sendBulk(holder, sendBuffer)
          /\ sendBuffer' = <<>>
          /\ timer' = IF HeartbeatsOn THEN "heartbeat" ELSE "off"
          /\ HandlerGoes(holder, "attached")
          /\ Unlock
          /\ UNCHANGED <<state, recv, endVars, orphans, callbacks, watcher, app, started,
                         nSent, closeCodes>>

-----------------------------------------------------------------------------
(* detachReceiver, run by the watcher of a receiver that ended.             *)

Wrong_ExpiryTimer == "off"                              \* not started again
ExpiryTimer       == "close"

\* An interrupted receiver's watcher goes on to close the session.
Wrong_AfterDetach(r) == "exit"                          \* treated like a normal end
AfterDetach(r)       == IF rstate[r] = "interrupted" THEN "close" ELSE "exit"

\* s.timer.Stop(), a new expiry timer, no receiver.
detachReceiver(r) ==
    /\ watcher[r] = "waiting"
    /\ Ended(r)
    /\ mux = "free"
    /\ timer' = ExpiryTimer
    /\ recv' = None
    /\ watcher' = [watcher EXCEPT ![r] = AfterDetach(r)]
    /\ UNCHANGED <<state, sendBuffer, endVars, lockVars, orphans, callbacks, handler, app,
                   started, recvVars, histVars>>

-----------------------------------------------------------------------------
(* The application: sendMessage and Close.  A call that finds the session   *)
(* closing or closed returns ErrSessionNotOpen and changes nothing.         *)

\* handlerFunc runs once the first attachReceiver has succeeded.
Wrong_AppRuns == \E r \in Requests : handler[r] # "idle"   \* from sessionByRequest on
AppRuns       == started

sendMessage(a) ==
    /\ AppRuns
    /\ app[a] = "idle"
    /\ mux = "free"
    /\ state <= SessionActive
    /\ nSent < MaxSends
    /\ nSent' = nSent + 1
    /\ sendBuffer' = Append(sendBuffer, nSent + 1)
    /\ IF recv # None /\ canSend(recv) THEN Lock(a, "send") ELSE UNCHANGED lockVars
    /\ UNCHANGED <<state, recv, endVars, timerVars, threadVars, recvVars, delivered,
                   closeCodes>>

Wrong_Flushed == sendBuffer                             \* not emptied
Flushed       == <<>>

\* On a write error the buffer is kept and the error is returned.
sendMessageBulk ==
    /\ mux = "send"
    /\ \/ BulkFails(recv) /\ UNCHANGED <<recvVars, delivered, sendBuffer>>
       \/ ~BulkFails(recv) /\ sendBulk(recv, sendBuffer) /\ sendBuffer' = Flushed
    /\ Unlock
    /\ UNCHANGED <<state, recv, endVars, timerVars, threadVars, nSent, closeCodes>>

Wrong_MaySetCloseFrame == state < SessionClosed         \* off by one state
MaySetCloseFrame       == state < SessionClosing

\* The first half of Close; the lock is released before closing() takes it.
Close(a, code) ==
    /\ AppRuns
    /\ app[a] = "idle"
    /\ mux = "free"
    /\ MaySetCloseFrame
    /\ closeFrame' = code
    /\ app' = [app EXCEPT ![a] = "closing"]
    /\ UNCHANGED <<sessVars, closeCh, recvClosed, cancelled, registered, lockVars, timerVars,
                   handler, watcher, started, recvVars, histVars>>

-----------------------------------------------------------------------------
(* closing and close, run by Close, by watchers and by expired timers.      *)

TimerExpired == callbacks["close"] > 0

AtClosing(t) == \/ t \in Apps /\ app[t] = "closing"
                \/ t \in Requests /\ watcher[t] = "close"
                \/ t = Timer /\ TimerExpired

\* closing() returns to its caller: Close returns, close() goes on.
ClosingReturns(t) ==
    /\ app' = [a \in Apps |-> IF a = t THEN "idle" ELSE app[a]]
    /\ watcher' = [r \in Requests |-> IF r = t THEN "afterClosing" ELSE watcher[r]]
    /\ callbacks' = IF t = Timer
                    THEN [callbacks EXCEPT !["close"] = @ - 1, !["afterClosing"] = @ + 1]
                    ELSE callbacks
    /\ UNCHANGED <<timer, orphans, handler, started>>

\* The session is already closing: nothing to do.
closingAgain(t) ==
    /\ AtClosing(t)
    /\ mux = "free"
    /\ state >= SessionClosing
    /\ ClosingReturns(t)
    /\ UNCHANGED <<sessVars, endVars, lockVars, recvVars, histVars>>

closeRecvBuffer == recvClosed' = TRUE

closingDetached(t) ==
    /\ AtClosing(t)
    /\ mux = "free"
    /\ state < SessionClosing
    /\ recv = None
    /\ state' = SessionClosing
    /\ closeRecvBuffer
    /\ cancelled' = TRUE
    /\ ClosingReturns(t)
    /\ UNCHANGED <<recv, sendBuffer, closeFrame, closeCh, registered, lockVars, recvVars,
                   histVars>>

closingAttached(t) ==
    /\ AtClosing(t)
    /\ mux = "free"
    /\ state < SessionClosing
    /\ recv # None
    /\ state' = SessionClosing
    /\ closeRecvBuffer
    /\ Lock(t, "closing.frame")
    /\ UNCHANGED <<recv, sendBuffer, closeFrame, closeCh, cancelled, registered, timerVars,
                   threadVars, recvVars, histVars>>

\* The write error is ignored.
closingFrame ==
    /\ mux = "closing.frame"
    /\ sendCloseFrame(recv)
    /\ Lock(holder, "closing.close")
    /\ UNCHANGED <<sessVars, endVars, timerVars, threadVars>>

closingClose ==
    /\ mux = "closing.close"
    /\ closeReceiver(recv)
    /\ cancelled' = TRUE
    /\ ClosingReturns(holder)
    /\ Unlock
    /\ UNCHANGED <<sessVars, closeFrame, closeCh, recvClosed, registered, histVars>>

\* The second critical section of close().
Wrong_NotYetClosed == TRUE                              \* not idempotent
NotYetClosed       == state < SessionClosed

CloseSession ==
    /\ IF NotYetClosed
       THEN /\ state' = SessionClosed
            /\ timer' = "off"
            /\ closeCh' = closeCh + 1
            /\ cancelled' = TRUE
       ELSE UNCHANGED <<state, timer, closeCh, cancelled>>
    /\ UNCHANGED <<recv, sendBuffer, closeFrame, recvClosed, registered, lockVars, orphans,
                   handler, app, started, recvVars, histVars>>

closeByWatcher(r) ==
    /\ watcher[r] = "afterClosing"
    /\ mux = "free"
    /\ watcher' = [watcher EXCEPT ![r] = "exit"]
    /\ CloseSession
    /\ UNCHANGED callbacks

closeByTimer ==
    /\ callbacks["afterClosing"] > 0
    /\ mux = "free"
    /\ callbacks' = [callbacks EXCEPT !["afterClosing"] = @ - 1]
    /\ CloseSession
    /\ UNCHANGED watcher

\* The goroutine of sessionByRequest that waits for closeCh.
unregister ==
    /\ closeCh > 0
    /\ registered
    /\ registered' = FALSE
    /\ UNCHANGED <<sessVars, closeFrame, closeCh, recvClosed, cancelled, lockVars, timerVars,
                   threadVars, recvVars, histVars>>

-----------------------------------------------------------------------------
(* Timers.  An armed timer may expire at any time; Stop has no effect on    *)
(* the goroutine an expired timer has already started.                      *)

timerFires ==
    /\ timer # "off"
    /\ timer' = "off"
    /\ callbacks' = [callbacks EXCEPT ![timer] = @ + 1]
    /\ UNCHANGED <<sessVars, endVars, lockVars, orphans, threadVars, recvVars, histVars>>

orphanFires(k) ==
    /\ orphans[k] > 0
    /\ orphans' = [orphans EXCEPT ![k] = @ - 1]
    /\ callbacks' = [callbacks EXCEPT ![k] = @ + 1]
    /\ UNCHANGED <<sessVars, endVars, lockVars, timer, threadVars, recvVars, histVars>>

Wrong_NextHeartbeat == "off"                            \* not scheduled
NextHeartbeat       == "heartbeat"

\* The new timer replaces s.timer without stopping what it referred to.
heartbeat ==
    /\ callbacks["heartbeat"] > 0
    /\ mux = "free"
    /\ callbacks' = [callbacks EXCEPT !["heartbeat"] = @ - 1]
    /\ IF recv # None
       THEN /\ sendFrame(recv, "h", 1)
            /\ timer' = NextHeartbeat
            /\ orphans' = IF timer = "off" THEN orphans ELSE [orphans EXCEPT ![timer] = @ + 1]
       ELSE UNCHANGED <<recvVars, timer, orphans>>
    /\ UNCHANGED <<sessVars, endVars, lockVars, threadVars, histVars>>

-----------------------------------------------------------------------------
\* The next step of the goroutine inside s.mux.
InMux == \/ attachCloseFrame \/ attachClose \/ attachOpen \/ attachBulk
         \/ sendMessageBulk
         \/ closingFrame \/ closingClose

\* What a request handler does once the request has arrived.
HandlerStep(r) == \/ attachRefused(r) \/ attachReceiver(r)
                  \/ startHandlerOnce(r) \/ awaitReceiver(r)
                  \/ refuse(r) \/ refuseClose(r)

WatcherStep(r) == detachReceiver(r) \/ closeByWatcher(r)

ClosingStep(t) == closingAgain(t) \/ closingDetached(t) \/ closingAttached(t)

\* The client and the application.
Arrival(r) == xhrPoll(r) \/ xhrStreaming(r) \/ eventSource(r) \/ htmlFile(r) \/ jsonp(r)

Application(a) == sendMessage(a) \/ \E code \in CloseCodes : Close(a, code)

Next == \/ InMux
        \/ \E r \in Requests : \/ Arrival(r) \/ Disconnect(r) \/ interrupt(r)
                               \/ HandlerStep(r) \/ WatcherStep(r)
        \/ \E a \in Apps : Application(a)
        \/ \E t \in Closers : ClosingStep(t)
        \/ closeByTimer
        \/ timerFires
        \/ \E k \in TimerKind : orphanFires(k)
        \/ heartbeat
        \/ unregister

\* Goroutines run, armed timers expire; the client and the application owe nothing.
Fairness == /\ WF_vars(InMux)
            /\ \A r \in Requests : /\ WF_vars(HandlerStep(r))
                                   /\ WF_vars(WatcherStep(r))
                                   /\ WF_vars(interrupt(r))
            /\ \A t \in Closers : WF_vars(ClosingStep(t))
            /\ WF_vars(closeByTimer)
            /\ WF_vars(timerFires)
            /\ \A k \in TimerKind : WF_vars(orphanFires(k))
            /\ WF_vars(heartbeat)
            /\ WF_vars(unregister)

Spec == Init /\ [][Next]_vars

FairSpec == Spec /\ Fairness

-----------------------------------------------------------------------------
(* Properties.                                                             *)

Contains(seq, x) == \E i \in 1..Len(seq) : seq[i] = x

\* An interrupted receiver's watcher is on its way to close the session.
Dying == \E r \in Requests : rstate[r] = "interrupted" /\ watcher[r] \in {"waiting", "close"}

\* Every message Send put into the buffer has been written to some response or
\* is still in the buffer, unless the session is closing, or is about to be
\* closed because a receiver was interrupted.  sendFrame swallows frames when
\* the receiver has ended, and sendMessage and attachReceiver empty the buffer
\* after it all the same: only an interruption may cause that.
NoSilentLoss ==
    \/ \A m \in 1..nSent : Contains(delivered, m) \/ Contains(sendBuffer, m)
    \/ state >= SessionClosing
    \/ Dying

Ascending(seq) == \A i, j \in 1..Len(seq) : i < j => seq[i] < seq[j]

\* Messages reach the client in the order they were sent and at most once,
\* across all the receivers of the session, and what is buffered comes later.
InOrder == Ascending(delivered \o sendBuffer)

\* The watcher waiting for a receiver and the attached receiver are the same:
\* no late watcher can detach a receiver that is not its own (detachReceiver
\* does not look at which receiver it drops).
WatcherOwnsReceiver ==
    \A r \in Requests : watcher[r] = "waiting" <=> recv = r

\* A receiver is dropped only after it ended.
NoLiveDetach ==
    [][recv # None /\ recv' # recv => rstate[recv] \in {"done", "interrupted"}]_vars

\* A session that has no receiver and is not closed is always on its way to
\* expire: some timer or goroutine will close it.  (Stop, AfterFunc and late
\* callbacks must not leave it without one.)
ExpiryPending ==
    (recv = None /\ state < SessionClosed) =>
        \/ timer = "close"
        \/ callbacks["close"] + callbacks["afterClosing"] > 0
        \/ \E r \in Requests : watcher[r] \in {"close", "afterClosing"}

\* The attached receiver of an active session always has a heartbeat coming.
HeartbeatPending ==
    \A r \in Requests :
        (/\ HeartbeatsOn
         /\ recv = r
         /\ state = SessionActive
         /\ rstate[r] = "active"
         /\ handler[r] \in {"attached", "serving"}) =>
        (timer = "heartbeat" \/ callbacks["heartbeat"] > 0)

\* closeCh is closed at most once (a second close panics), although close()
\* runs from timers and from watchers at the same time.
CloseChOnce == closeCh <= 1

\* All close frames the session ever writes carry the same code, although
\* calls of Close race with each other and with attaching receivers.
OneCloseFrame == closeCodes \subseteq {closeFrame}

\* The requests whose response carries the open frame.
Opened == {r \in Requests : Contains(wire[r], "o")}

\* The open frame is written at most once, and an active session has written
\* it unless the receiver that should have carried it was interrupted.
OpenFrameOnce ==
    /\ \A r, q \in Opened : r = q
    /\ state = SessionActive => Opened # {} \/ Dying

\* A close frame is the last frame of its response, an open frame the first.
FrameOrder ==
    \A r \in Requests : \A i \in 1..Len(wire[r]) :
        /\ wire[r][i] \in {"c", "busy"} => i = Len(wire[r])
        /\ wire[r][i] = "o" => i = 1

\* A polling response (maxResponseSize 1) carries at most one frame.
OneFramePerPoll == \A r \in Requests : limit[r] = 1 => Len(wire[r]) <= 1

\* Outside the critical section of closing(), a session at or past closing has
\* closed its receive buffer and cancelled its context.
ReleasedWhenClosing ==
    (state >= SessionClosing /\ mux \notin {"closing.frame", "closing.close"}) =>
        (recvClosed /\ cancelled)

\* The receiver of request r, as the module Receiver sees it.
Contract(r) == INSTANCE Receiver WITH
                   Frame  <- FrameKind,
                   status <- IF rstate[r] = "none" THEN "active" ELSE rstate[r],
                   frames <- wire[r]

\* As long as the attached receiver can be written to and nobody is in the middle
\* of it, nothing waits in the buffer: whatever order sendMessage, attachReceiver
\* and detachReceiver came in, a message never sits there until the next request,
\* and closing(), which flushes nothing, cuts off no message of a session that
\* has a working receiver.
FlushedWhileAttached ==
    mux = "free" /\ recv # None /\ Writes(recv) => sendBuffer = <<>>

\* The session as the module Outbox sees it.
Promise == INSTANCE Outbox WITH
               accepted <- nSent,
               pending  <- sendBuffer,
               doomed   <- state >= SessionClosing \/ Dying

\* The session keeps the promise of Outbox: sendMessage, attachReceiver and every
\* receiver together are a queue that loses messages only when the session ends.
ImplementsOutbox == Promise!Spec

\* Each receiver, as the session uses it, keeps the contract of receiver.go: it
\* ends once, in one way, and carries no frame after its end.  (It starts as the
\* contract says, with no frame; every step is one of the contract's.)
ReceiversKeepContract ==
    [][\A r \in Requests : Contract(r)!Next \/ UNCHANGED Contract(r)!rVars]_vars

\* A session that starts closing is closed and removed from the handler.
ClosingCompletes == (state >= SessionClosing) ~> ~registered

\* A session whose client has gone for good is closed and removed.
AbandonedExpires == (<>[](recv = None)) => <>(~registered)

\* A request that lost its receiver returns, whatever the session does.
EndedRequestsReturn ==
    \A r \in Requests :
        rstate[r] \in {"done", "interrupted"} ~> handler[r] = "returned"

\* An interrupted receiver closes the session it is attached to.
InterruptionCloses ==
    \A r \in Requests :
        (recv = r /\ rstate[r] = "interrupted") ~> (state = SessionClosed)

\* session.go:21: "closed session, no activity at all, should be removed from
\* handler completely and not reused".
ClosedIsQuiet == [][state = SessionClosed => (wire' = wire /\ recv' \in {recv, None})]_vars

\* options.go:49-51: HeartbeatDelay "controls how often" a heartbeat is sent:
\* one heartbeat timer at a time.
OneHeartbeatTimer ==
    (IF timer = "heartbeat" THEN 1 ELSE 0) + orphans["heartbeat"] <= 1

=============================================================================
