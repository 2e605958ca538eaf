------------------------------ MODULE Websocket ------------------------------
(***************************************************************************)
(* One websocket connection (v3/sockjs/websocket.go, rawwebsocket.go) with *)
(* the session made for it: the request handler, its reader goroutine, the *)
(* watcher of attachReceiver, an application goroutine, timers.            *)
(*                                                                         *)
(* The session's methods are those of the module Session, seen from a      *)
(* session that has one receiver in its life and is in no table.  Unlike   *)
(* httpReceiver, wsReceiver has no lock: its close() looks at closeCh and  *)
(* then closes it, safe only because every caller holds s.mux.  So close() *)
(* is a step of its own, at the end of the critical section: `closers' are *)
(* the goroutines between the look and the close, and the lock is free     *)
(* when there are none.  No critical section writes more than one frame.   *)
(*                                                                         *)
(* The v2 package (sockjs/websocket.go, rawwebsocket.go; `v2' says which   *)
(* it is) ignores the errors of attachReceiver, sendBulk and accept: the   *)
(* handler and the reader go on, and the buffer is emptied.                *)
(***************************************************************************)
EXTENDS Integers, Sequences

CONSTANT MaxSends   \* bound: how many messages the application sends

ASSUME WebsocketAssumption == MaxSends \in Nat

SessionOpening == 0
SessionActive  == 1
SessionClosing == 2
SessionClosed  == 3

VARIABLES
    v2,             \* the connection is served by the v2 package
    raw,            \* session.raw: rawWebsocket instead of sockjsWebsocket
    heartbeatsOn,   \* HeartbeatDelay > 0
    state,          \* session.state
    recv,           \* session.recv is set
    sendBuffer,     \* session.sendBuffer
    closeCh,        \* how many times session.closeCh was closed
    recvClosed,     \* recvBuffer.close() was called
    timer,          \* what *s.timer will call: "close", "heartbeat", or "off"
    callbacks,      \* goroutines of expired timers, by how far they are
    closers,        \* who is about to close wsReceiver.closeCh
    doneCh,         \* how many times wsReceiver.closeCh was closed
    conn,           \* the server's side of the connection: "open" or "closed"
    writable,       \* writes succeed (no timeout, peer present)
    readable,       \* reads do not fail
    handler,        \* the request handler
    reader,         \* its reader goroutine
    readClose,      \* how many times readCloseCh was closed
    watcher,        \* the goroutine of attachReceiver
    app,            \* the application's goroutine
    nSent,          \* history: messages accepted by Send
    delivered       \* history: messages written, in order

config    == <<v2, raw, heartbeatsOn>>
sessVars  == <<config, state, recv, sendBuffer, closeCh, recvClosed>>
timerVars == <<timer, callbacks>>
connVars  == <<conn, writable, readable>>
readVars  == <<reader, readClose>>
histVars  == <<nSent, delivered>>
vars == <<sessVars, timerVars, closers, doneCh, connVars, handler, readVars, watcher, app,
          histVars>>

Goroutine == {"handler", "app", "timer"}
CallbackPC == {"heartbeat", "close", "afterClosing"}
HandlerPC  == {"attach", "select", "close", "afterClosing", "connClose", "returned", "failed"}

TypeOK ==
    /\ v2 \in BOOLEAN
    /\ raw \in BOOLEAN
    /\ heartbeatsOn \in BOOLEAN
    /\ state \in SessionOpening..SessionClosed
    /\ recv \in BOOLEAN
    /\ sendBuffer \in Seq(Nat)
    /\ closeCh \in Nat
    /\ recvClosed \in BOOLEAN
    /\ timer \in {"close", "heartbeat", "off"}
    /\ callbacks \in [CallbackPC -> Nat]
    /\ closers \subseteq Goroutine
    /\ doneCh \in Nat
    /\ conn \in {"open", "closed"}
    /\ writable \in BOOLEAN
    /\ readable \in BOOLEAN
    /\ handler \in HandlerPC
    /\ reader \in {"none", "read", "push", "exit"}
    /\ readClose \in Nat
    /\ watcher \in {"none", "waiting", "exit"}
    /\ app \in {"none", "idle", "closing"}
    /\ nSent \in Nat
    /\ delivered \in Seq(Nat)

\* Upgrade has succeeded and newSession returned.
Init ==
    /\ v2 \in BOOLEAN
    /\ raw \in BOOLEAN
    /\ heartbeatsOn \in BOOLEAN
    /\ state = SessionOpening
    /\ recv = FALSE
    /\ sendBuffer = <<>>
    /\ closeCh = 0
    /\ recvClosed = FALSE
    /\ timer = "close"
    /\ callbacks = [k \in CallbackPC |-> 0]
    /\ closers = {}
    /\ doneCh = 0
    /\ conn = "open"
    /\ writable = TRUE
    /\ readable = TRUE
    /\ handler = "attach"
    /\ reader = "none"
    /\ readClose = 0
    /\ watcher = "none"
    /\ app = "none"
    /\ nSent = 0
    /\ delivered = <<>>

-----------------------------------------------------------------------------
(* wsReceiver and rawWsReceiver.                                            *)

canSend == doneCh = 0

WriteOK == conn = "open" /\ writable

\* The end of a critical section of t.  If it calls close() of the receiver,
\* as a failed write does, and finds closeCh open, the lock is kept for one
\* more step.
Wrong_Leave(t, closes) == UNCHANGED closers             \* a failed write closes nothing
Leave(t, closes) == closers' = IF closes /\ canSend THEN closers \cup {t} ELSE closers

wsClose(t) ==
    /\ t \in closers
    /\ doneCh' = doneCh + 1
    /\ closers' = closers \ {t}
    /\ UNCHANGED <<sessVars, timerVars, connVars, handler, readVars, watcher, app, histVars>>

Wrong_Free == TRUE                                      \* s.mux is not taken
Free       == closers = {}

-----------------------------------------------------------------------------
(* The request handler.                                                     *)

\* attachReceiver; the new session's buffer is empty, nothing is flushed.
AttachState == IF state = SessionOpening THEN SessionActive ELSE state
Heartbeats  == IF heartbeatsOn THEN "heartbeat" ELSE "off"
AttachWrites == ~raw /\ state \in {SessionOpening, SessionClosing}

\* attachReceiver goes through: the application and the reader start.
Attached(failed) ==
    /\ handler = "attach"
    /\ Free
    /\ recv' = TRUE
    /\ watcher' = "waiting"
    /\ state' = AttachState
    /\ timer' = IF state = SessionClosing THEN timer ELSE Heartbeats
    /\ Leave("handler", failed \/ state = SessionClosing)
    /\ handler' = "select"
    /\ reader' = "read"
    /\ app' = "idle"
    /\ UNCHANGED <<config, sendBuffer, closeCh, recvClosed, callbacks, doneCh, connVars,
                   readClose, histVars>>

attachReceiver == (AttachWrites => WriteOK) /\ Attached(FALSE)

\* It fails: the handler returns and leaves the connection as it is.
attachFails ==
    /\ ~v2
    /\ handler = "attach"
    /\ Free
    /\ AttachWrites /\ ~WriteOK
    /\ recv' = TRUE
    /\ watcher' = "waiting"
    /\ Leave("handler", TRUE)
    /\ handler' = "failed"
    /\ UNCHANGED <<config, state, sendBuffer, closeCh, recvClosed, timerVars, doneCh, connVars,
                   readVars, app, histVars>>

\* v2: the failed write has closed the receiver, nothing else is different.
v2_attachReceiver == v2 /\ AttachWrites /\ ~WriteOK /\ Attached(TRUE)

Wrong_Over == readClose > 0                             \* the receiver's end unnoticed
Over       == readClose > 0 \/ doneCh > 0

\* The select, once attachReceiver has released the lock.
awaitEnd ==
    /\ handler = "select"
    /\ "handler" \notin closers
    /\ Over
    /\ handler' = "close"
    /\ UNCHANGED <<sessVars, timerVars, closers, doneCh, connVars, readVars, watcher, app,
                   histVars>>

connClose ==
    /\ handler = "connClose"
    /\ conn' = "closed"
    /\ handler' = "returned"
    /\ UNCHANGED <<sessVars, timerVars, closers, doneCh, writable, readable, readVars, watcher,
                   app, histVars>>

\* The reader: ReadJSON fails, also on anything but a list of strings, or
\* ReadMessage does; a batch is pushed to the application; accept may fail.
ReadFails == ~readable \/ conn = "closed" \/ ~raw

ReaderExits == reader' = "exit" /\ readClose' = readClose + 1

readError ==
    /\ reader = "read"
    /\ ReadFails
    /\ ReaderExits
    /\ UNCHANGED <<sessVars, timerVars, closers, doneCh, connVars, handler, watcher, app,
                   histVars>>

readMessages ==
    /\ reader = "read"
    /\ readable /\ conn = "open"
    /\ reader' = "push"
    /\ UNCHANGED <<sessVars, timerVars, closers, doneCh, connVars, handler, readClose, watcher,
                   app, histVars>>

accepted ==
    /\ reader = "push"
    /\ ~recvClosed
    /\ reader' = "read"
    /\ UNCHANGED <<sessVars, timerVars, closers, doneCh, connVars, handler, readClose, watcher,
                   app, histVars>>

Wrong_acceptFails == FALSE                              \* push does not see the close
acceptFails       == recvClosed

notAccepted ==
    /\ ~v2
    /\ reader = "push"
    /\ acceptFails
    /\ ReaderExits
    /\ UNCHANGED <<sessVars, timerVars, closers, doneCh, connVars, handler, watcher, app,
                   histVars>>

\* v2 reads on.
v2_notAccepted ==
    /\ v2
    /\ reader = "push"
    /\ acceptFails
    /\ reader' = "read"
    /\ UNCHANGED <<sessVars, timerVars, closers, doneCh, connVars, handler, readClose, watcher,
                   app, histVars>>

\* The watcher; interruptedNotify is nil.
detachReceiver ==
    /\ watcher = "waiting"
    /\ doneCh > 0
    /\ Free
    /\ timer' = "close"
    /\ recv' = FALSE
    /\ watcher' = "exit"
    /\ UNCHANGED <<config, state, sendBuffer, closeCh, recvClosed, callbacks, closers, doneCh,
                   connVars, handler, readVars, app, histVars>>

-----------------------------------------------------------------------------
(* The application, closing, timers.                                        *)

\* The buffer after a failed write; v2 empties it all the same.
v2_Kept            == <<>>
Wrong_Kept(buffer) == <<>>                              \* emptied in spite of the error
Kept(buffer)       == IF v2 THEN v2_Kept ELSE buffer

\* sendBulk: one frame, or one per message on a raw connection, where those
\* before the one that fails are on the wire.
WrittenBeforeError(buffer) ==
    IF raw THEN {SubSeq(buffer, 1, k) : k \in 0 .. Len(buffer) - 1} ELSE {<<>>}

sendMessage ==
    /\ app = "idle"
    /\ Free
    /\ state <= SessionActive
    /\ nSent < MaxSends
    /\ nSent' = nSent + 1
    /\ LET buffer == Append(sendBuffer, nSent + 1)
       IN  IF recv /\ canSend
           THEN IF WriteOK
                THEN /\ delivered' = delivered \o buffer
                     /\ sendBuffer' = <<>>
                     /\ UNCHANGED closers
                ELSE /\ \E part \in WrittenBeforeError(buffer) : delivered' = delivered \o part
                     /\ sendBuffer' = Kept(buffer)
                     /\ Leave("app", TRUE)
           ELSE sendBuffer' = buffer /\ UNCHANGED <<delivered, closers>>
    /\ UNCHANGED <<config, state, recv, closeCh, recvClosed, timerVars, doneCh, connVars,
                   handler, readVars, watcher, app>>

\* The first half of Close.
Close ==
    /\ app = "idle"
    /\ Free
    /\ state < SessionClosing
    /\ app' = "closing"
    /\ UNCHANGED <<sessVars, timerVars, closers, doneCh, connVars, handler, readVars, watcher,
                   histVars>>

Expired == callbacks["close"] > 0

AtClosing(t) == \/ t = "handler" /\ handler = "close"
                \/ t = "app" /\ app = "closing"
                \/ t = "timer" /\ Expired

\* closing, whole: the close frame's write error is ignored.
closing(t) ==
    /\ AtClosing(t)
    /\ Free
    /\ IF state < SessionClosing
       THEN state' = SessionClosing /\ recvClosed' = TRUE /\ Leave(t, recv)
       ELSE UNCHANGED <<state, recvClosed, closers>>
    /\ handler' = IF t = "handler" THEN "afterClosing" ELSE handler
    /\ app' = IF t = "app" THEN "idle" ELSE app
    /\ callbacks' = IF t = "timer"
                    THEN [callbacks EXCEPT !["close"] = @ - 1, !["afterClosing"] = @ + 1]
                    ELSE callbacks
    /\ UNCHANGED <<config, recv, sendBuffer, closeCh, timer, doneCh, connVars, readVars, watcher,
                   histVars>>

\* The second critical section of close().
CloseSession ==
    /\ Free
    /\ IF state < SessionClosed
       THEN state' = SessionClosed /\ closeCh' = closeCh + 1 /\ timer' = "off"
       ELSE UNCHANGED <<state, closeCh, timer>>
    /\ UNCHANGED <<config, recv, sendBuffer, recvClosed, closers, doneCh, connVars, readVars,
                   watcher, app, histVars>>

closeByHandler ==
    /\ handler = "afterClosing"
    /\ CloseSession
    /\ handler' = "connClose"
    /\ UNCHANGED callbacks

closeByTimer ==
    /\ callbacks["afterClosing"] > 0
    /\ CloseSession
    /\ callbacks' = [callbacks EXCEPT !["afterClosing"] = @ - 1]
    /\ UNCHANGED handler

timerFires ==
    /\ timer # "off"
    /\ timer' = "off"
    /\ callbacks' = [callbacks EXCEPT ![timer] = @ + 1]
    /\ UNCHANGED <<sessVars, closers, doneCh, connVars, handler, readVars, watcher, app,
                   histVars>>

heartbeat ==
    /\ callbacks["heartbeat"] > 0
    /\ Free
    /\ callbacks' = [callbacks EXCEPT !["heartbeat"] = @ - 1]
    /\ timer' = IF recv THEN "heartbeat" ELSE timer
    /\ Leave("timer", recv /\ ~WriteOK)
    /\ UNCHANGED <<sessVars, doneCh, connVars, handler, readVars, watcher, app, histVars>>

\* The network: a write runs into its deadline; the peer goes away.
writesFail ==
    /\ writable
    /\ writable' = FALSE
    /\ UNCHANGED <<sessVars, timerVars, closers, doneCh, conn, readable, handler, readVars,
                   watcher, app, histVars>>

peerGone ==
    /\ readable
    /\ readable' = FALSE
    /\ writable' = FALSE
    /\ UNCHANGED <<sessVars, timerVars, closers, doneCh, conn, handler, readVars, watcher, app,
                   histVars>>

Attach      == attachReceiver \/ attachFails \/ v2_attachReceiver
HandlerStep == Attach \/ awaitEnd \/ closing("handler") \/ closeByHandler \/ connClose
ReaderStep  == readMessages \/ readError \/ notAccepted \/ v2_notAccepted
TimerStep   == closing("timer") \/ closeByTimer \/ timerFires \/ heartbeat

Next == \/ HandlerStep \/ ReaderStep \/ TimerStep \/ detachReceiver
        \/ \E t \in Goroutine : wsClose(t)
        \/ accepted \/ sendMessage \/ Close \/ closing("app")
        \/ writesFail \/ peerGone

Spec == Init /\ [][Next]_vars

\* The library's goroutines run and armed timers expire.  A read that can only
\* fail does; the application need not take messages, send or close.
FairSpec ==
    /\ Spec
    /\ WF_vars(HandlerStep)
    /\ WF_vars(detachReceiver)
    /\ \A t \in Goroutine : WF_vars(wsClose(t))
    /\ WF_vars(closing("app"))
    /\ WF_vars(closing("timer"))
    /\ WF_vars(closeByTimer)
    /\ WF_vars(timerFires)
    /\ WF_vars(heartbeat)
    /\ WF_vars(notAccepted \/ v2_notAccepted)
    /\ WF_vars(readError /\ (~readable \/ conn = "closed"))

-----------------------------------------------------------------------------
\* No channel is closed twice (a second close panics): not wsReceiver.closeCh,
\* whose close() is unsynchronised, not session.closeCh, not readCloseCh.
ChannelsClosedOnce == doneCh <= 1 /\ closeCh <= 1 /\ readClose <= 1

\* The session as the module Outbox sees it; what v3 did not write it keeps.
Promise == INSTANCE Outbox WITH
               accepted <- nSent,
               pending  <- sendBuffer,
               doomed   <- v2 /\ ~WriteOK

\* A websocket session keeps the promise of Outbox: messages are written in order
\* and once, although rawWsReceiver.sendBulk may fail after some messages of the
\* buffer and the session then keeps or drops all of them: there is never more
\* than one.  v3 loses nothing, v2 only what it could not write.
ImplementsOutbox == Promise!Spec

\* When the peer is gone, or attachReceiver failed, the session ends, even if the
\* application neither reads nor writes: heartbeats find out, or the expiry timer
\* when attachReceiver failed.
GonePeerEndsSession ==
    heartbeatsOn => ((~readable \/ handler = "failed") ~> state = SessionClosed)

\* Close ends the connection, whatever the reader and the peer do.  (It takes
\* the application to do it: a session whose expiry timer fires before
\* attachReceiver is attached to all the same, and its connection stays open.)
CloseEndsConnection == (app = "closing") ~> (conn = "closed")

\* Neither the reader nor the watcher outlives the connection.  The watcher needs
\* heartbeats for it, or a session that has not expired before attachReceiver: a
\* closed session is attached to all the same, close() does nothing to it any more,
\* and without heartbeats nobody closes its receiver.
NotAttachedClosed == [](handler = "attach" => state # SessionClosed)

GoroutinesEnd ==
    /\ (conn = "closed") ~> (reader = "exit")
    /\ heartbeatsOn \/ NotAttachedClosed => ((conn = "closed") ~> (watcher = "exit"))

=============================================================================
