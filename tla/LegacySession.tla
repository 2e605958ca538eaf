---------------------------- MODULE LegacySession ----------------------------
(***************************************************************************)
(* One session of the v2 package (sockjs/session.go) with everything that  *)
(* runs concurrently on it.  It is the ancestor of v3/sockjs/session.go,   *)
(* and what is the same line for line is taken from the module Session.    *)
(* What differs:                                                           *)
(*                                                                         *)
(*   - sessionByRequest starts the application as soon as it has made the  *)
(*     session, before any receiver is attached;                           *)
(*   - the receiver's methods return no error: a write that failed counts  *)
(*     like one that succeeded, attachReceiver cannot fail half way, and   *)
(*     the buffer is emptied whatever happened;                            *)
(*   - newHTTPReceiver waits for http.CloseNotifier, if there is one;      *)
(*   - sessionByRequest does not wait for the session's lock, and there is *)
(*     no context: `cancelled', which some of Session's actions set, has   *)
(*     no counterpart here and nothing reads it.                           *)
(***************************************************************************)
EXTENDS Session, FiniteSets

CONSTANTS
    MaxBroken,      \* bound: how many connections break
    MaxLate         \* bound: how many callbacks of expired timers are due at a time

ASSUME LegacyAssumption == MaxBroken \in Nat /\ MaxLate \in Nat

VARIABLE early      \* history: messages accepted before the session was opened

v2_vars == <<vars, early>>

\* newSession
v2_newSession == Init /\ early = 0

-----------------------------------------------------------------------------
(* httpReceiver                                                             *)

\* A failed write is ignored; what it says it has written is counted.
v2_sendFrame(r, kind, n) ==
    \/ ~WriteFails(r) /\ sendFrame(r, kind, n)
    \/ /\ WriteFails(r)
       /\ \E k \in 0..n :
            /\ size' = [size EXCEPT ![r] = @ + k]
            /\ rstate' = IF LimitReached(r, k) THEN [rstate EXCEPT ![r] = "done"] ELSE rstate
       /\ UNCHANGED <<limit, wire, broken>>

v2_sendBulk(r, messages) ==
    IF messages = <<>>
    THEN UNCHANGED <<recvVars, delivered>>
    ELSE /\ v2_sendFrame(r, "a", Len(messages))
         /\ delivered' = IF Writes(r) THEN delivered \o messages ELSE delivered

v2_sendCloseFrame(r) ==
    /\ v2_sendFrame(r, "c", 1)
    /\ closeCodes' = IF Writes(r) THEN closeCodes \cup {closeFrame} ELSE closeCodes
    /\ UNCHANGED <<nSent, delivered>>

v2_closeReceiver(r) == closeReceiver(r)

v2_Disconnect(r) == Disconnect(r) /\ Cardinality({q \in Requests : broken[q]}) < MaxBroken

\* The close notification of the connection.
v2_interrupt(r) == broken[r] /\ interrupt(r)

-----------------------------------------------------------------------------
(* Request handlers: the same five, without errors to handle.               *)

\* sessionByRequest finds the session, newHTTPReceiver makes the receiver.
v2_arrive(r, maxResponse) ==
    /\ handler[r] = "idle"
    /\ registered
    /\ HandlerGoes(r, "attach")
    /\ rstate' = [rstate EXCEPT ![r] = "active"]
    /\ limit' = [limit EXCEPT ![r] = maxResponse]
    /\ OutsideSession
    /\ UNCHANGED <<started, size, wire, broken>>

v2_xhrPoll(r)      == v2_arrive(r, 1)
v2_xhrStreaming(r) == v2_arrive(r, ResponseLimit)
v2_eventSource(r)  == v2_arrive(r, ResponseLimit)
v2_htmlFile(r)     == v2_arrive(r, ResponseLimit) \/ badCallback(r)
v2_jsonp(r)        == v2_arrive(r, 1) \/ badCallback(r)

v2_Arrival(r) == \/ v2_xhrPoll(r) \/ v2_xhrStreaming(r) \/ v2_eventSource(r)
                 \/ v2_htmlFile(r) \/ v2_jsonp(r)

\* sessionByRequest: the goroutine of handlerFunc, started with the session.
v2_handlerFunc ==
    /\ ~started
    /\ started' = TRUE
    /\ UNCHANGED <<sessVars, endVars, lockVars, timerVars, handler, watcher, app, recvVars,
                   histVars>>

v2_awaitReceiver(r) == awaitReceiver(r)

v2_refuse(r) ==
    /\ handler[r] = "refused"
    /\ v2_sendFrame(r, "busy", 1)
    /\ HandlerGoes(r, "closing")
    /\ OutsideSession
    /\ UNCHANGED started

v2_refuseClose(r) == refuseClose(r)

-----------------------------------------------------------------------------
(* attachReceiver                                                           *)

v2_attachReceiver(r) == attachRefused(r) \/ attachReceiver(r)

v2_attachCloseFrame ==
    /\ mux = "attach.closeFrame"
    /\ v2_sendCloseFrame(holder)
    /\ Lock(holder, "attach.close")
    /\ UNCHANGED <<sessVars, endVars, timerVars, threadVars>>

v2_attachClose ==
    /\ mux = "attach.close"
    /\ v2_closeReceiver(holder)
    /\ HandlerGoes(holder, "serving")
    /\ Unlock
    /\ UNCHANGED <<sessVars, endVars, timerVars, watcher, app, started, histVars>>

v2_attachOpen ==
    /\ mux = "attach.open"
    /\ v2_sendFrame(holder, "o", 1)
    /\ state' = SessionActive
    /\ Lock(holder, "attach.bulk")
    /\ UNCHANGED <<recv, sendBuffer, endVars, timerVars, threadVars, histVars>>

v2_attachBulk ==
    /\ mux = "attach.bulk"
    /\ v2_sendBulk(holder, sendBuffer)
    /\ sendBuffer' = <<>>
    /\ timer' = IF HeartbeatsOn THEN "heartbeat" ELSE "off"
    /\ HandlerGoes(holder, "serving")
    /\ Unlock
    /\ UNCHANGED <<state, recv, endVars, orphans, callbacks, watcher, app, started, nSent,
                   closeCodes>>

v2_detachReceiver(r) == detachReceiver(r)

-----------------------------------------------------------------------------
(* The application, closing and timers.                                     *)

v2_sendMessage(a) ==
    /\ sendMessage(a)
    /\ early' = IF state = SessionOpening THEN nSent + 1 ELSE early

\* The buffer is emptied, whether the write succeeded or not.
v2_sendMessageBulk ==
    /\ mux = "send"
    /\ v2_sendBulk(recv, sendBuffer)
    /\ sendBuffer' = <<>>
    /\ Unlock
    /\ UNCHANGED <<state, recv, endVars, timerVars, threadVars, nSent, closeCodes>>

v2_Close(a, code) == Close(a, code)

v2_closing(t) == closingAgain(t) \/ closingDetached(t) \/ closingAttached(t)

v2_closingFrame ==
    /\ mux = "closing.frame"
    /\ v2_sendCloseFrame(recv)
    /\ Lock(holder, "closing.close")
    /\ UNCHANGED <<sessVars, endVars, timerVars, threadVars>>

v2_closingClose == closingClose

v2_close == closeByTimer \/ \E r \in Requests : closeByWatcher(r)

MayFire == callbacks["heartbeat"] + callbacks["close"] + callbacks["afterClosing"] < MaxLate

v2_timerFires     == MayFire /\ timerFires
v2_orphanFires(k) == MayFire /\ orphanFires(k)

v2_heartbeat ==
    /\ callbacks["heartbeat"] > 0
    /\ mux = "free"
    /\ callbacks' = [callbacks EXCEPT !["heartbeat"] = @ - 1]
    /\ IF recv # None
       THEN /\ v2_sendFrame(recv, "h", 1)
            /\ timer' = "heartbeat"
            /\ orphans' = IF timer = "off" THEN orphans ELSE [orphans EXCEPT ![timer] = @ + 1]
       ELSE UNCHANGED <<recvVars, timer, orphans>>
    /\ UNCHANGED <<sessVars, endVars, lockVars, threadVars, histVars>>

v2_unregister == unregister

-----------------------------------------------------------------------------
v2_InMux == \/ v2_attachCloseFrame \/ v2_attachClose \/ v2_attachOpen \/ v2_attachBulk
            \/ v2_sendMessageBulk
            \/ v2_closingFrame \/ v2_closingClose

v2_Request(r) == \/ v2_Arrival(r) \/ v2_Disconnect(r) \/ v2_interrupt(r)
                 \/ v2_attachReceiver(r) \/ v2_awaitReceiver(r)
                 \/ v2_refuse(r) \/ v2_refuseClose(r)
                 \/ v2_detachReceiver(r)

v2_Next ==
    \/ \E a \in Apps : v2_sendMessage(a)
    \/ /\ \/ v2_InMux
          \/ \E r \in Requests : v2_Request(r)
          \/ v2_handlerFunc
          \/ \E a \in Apps, code \in CloseCodes : v2_Close(a, code)
          \/ \E t \in Closers : v2_closing(t)
          \/ v2_close
          \/ v2_timerFires
          \/ \E k \in TimerKind : v2_orphanFires(k)
          \/ v2_heartbeat
          \/ v2_unregister
       /\ UNCHANGED early

v2_Spec == v2_newSession /\ [][v2_Next]_v2_vars

-----------------------------------------------------------------------------
Lost == {m \in 1..nSent : ~Contains(delivered, m) /\ ~Contains(sendBuffer, m)}

\* A v2 session that is open loses a message for one of two reasons: a connection
\* broke (the failed write is ignored), or the message was sent before the first
\* receiver was attached and that receiver ended with the open frame.  Every later
\* message, over working connections, is delivered or waits for the next receiver.
LossHasCause ==
    \/ Lost \subseteq 1..early
    \/ \E r \in Requests : broken[r]
    \/ state >= SessionClosing

=============================================================================
