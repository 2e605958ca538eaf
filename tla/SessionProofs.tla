---------------------------- MODULE SessionProofs ----------------------------
(***************************************************************************)
(* The session's safety properties hold for any number of requests and     *)
(* application goroutines and any number of messages: IInv holds initially *)
(* and every step keeps it, shown conjunct by conjunct, one step per       *)
(* action; the actions that touch nothing a conjunct reads share a step.   *)
(*                                                                         *)
(* First the types: every step keeps them.  Only the return of an expired  *)
(* timer's closing() needs more than types: LockInv says that the          *)
(* goroutine inside closing() is one that was counted.                     *)
(***************************************************************************)
EXTENDS SessionInvariant, TLAPS

USE SessionAssumption DEF SessionOpening, SessionActive, SessionClosing, SessionClosed
USE DEF sessVars, endVars, lockVars, timerVars, threadVars, recvVars, histVars, HandlerGoes,
        Lock, Unlock, OutsideSession

-----------------------------------------------------------------------------
(* Types.                                                                  *)

\* httpReceiver.sendFrame keeps the types of the receiver's fields.
LEMMA SendFrameType ==
  ASSUME RecvType, NEW r, NEW kind \in FrameKind, NEW n \in Nat, sendFrame(r, kind, n)
  PROVE  RecvType'
  <1>1. wire' \in [Requests -> Seq(FrameKind)]
    <2>1. \A q \in Requests : Append(wire[q], kind) \in Seq(FrameKind)
      BY DEF RecvType
    <2> QED
      BY <2>1 DEF RecvType, sendFrame
  <1>2. size' \in [Requests -> Nat]
    <2>1. \A q \in Requests : size[q] + n \in Nat
      BY DEF RecvType
    <2> QED
      BY <2>1 DEF RecvType, sendFrame
  <1>3. rstate' \in [Requests -> ReceiverState]
    BY DEF RecvType, sendFrame, ReceiverState
  <1> QED
    BY <1>1, <1>2, <1>3 DEF RecvType, sendFrame

\* sendBulk also extends the messages delivered.
LEMMA SendBulkType ==
  ASSUME RecvType, NEW r, NEW messages \in Seq(Nat), delivered \in Seq(Nat),
         sendBulk(r, messages)
  PROVE  RecvType' /\ delivered' \in Seq(Nat)
  <1>1. CASE messages = <<>>
    BY <1>1 DEF RecvType, sendBulk
  <1>2. CASE messages # <<>>
    <2>1. sendFrame(r, "a", Len(messages)) /\ "a" \in FrameKind /\ Len(messages) \in Nat
      BY <1>2 DEF sendBulk, FrameKind
    <2>2. RecvType'
      BY <2>1, SendFrameType
    <2>3. delivered \o messages \in Seq(Nat)
      OBVIOUS
    <2>4. delivered' \in Seq(Nat)
      BY <1>2, <2>3 DEF sendBulk
    <2> QED
      BY <2>2, <2>4
  <1> QED
    BY <1>1, <1>2

\* httpReceiver.close.
LEMMA CloseReceiverType ==
  ASSUME RecvType, NEW r, closeReceiver(r)
  PROVE  RecvType'
  BY DEF RecvType, closeReceiver, ReceiverState

\* The return of closing() to its caller.
LEMMA ClosingReturnsType ==
  ASSUME TimerType, ThreadType, NEW t, t = Timer => callbacks["close"] > 0, ClosingReturns(t)
  PROVE  TimerType' /\ ThreadType'
  <1>1. TimerType'
    BY DEF TimerType, ClosingReturns, CallbackPC
  <1>2. ThreadType'
    BY DEF ThreadType, ClosingReturns, WatcherPC
  <1> QED
    BY <1>1, <1>2

\* The second half of close().
LEMMA CloseSessionType ==
  ASSUME SessType, EndType, CloseSession
  PROVE  SessType' /\ EndType' /\ (TimerType => timer' \in TimerKind \cup {"off"})
  <1>1. CASE NotYetClosed
    BY <1>1 DEF SessType, EndType, TimerType, CloseSession
  <1>2. CASE ~NotYetClosed
    BY <1>2 DEF SessType, EndType, TimerType, CloseSession
  <1> QED
    BY <1>1, <1>2

\* A new request and its receiver.
LEMMA ArriveType ==
  ASSUME TypeOK, NEW r \in Requests, NEW m \in Nat, arrive(r, m)
  PROVE  RecvType' /\ ThreadType'
  <1>1. RecvType'
    BY DEF TypeOK, RecvType, arrive, ReceiverState
  <1>2. ThreadType'
    BY DEF TypeOK, ThreadType, arrive, HandlerPC
  <1> QED
    BY <1>1, <1>2

-----------------------------------------------------------------------------
\* newSession makes a session of the right types.
LEMMA InitType == Init => TypeOK
  <1> SUFFICES ASSUME Init PROVE TypeOK
    OBVIOUS
  <1>1. SessType
    BY DEF Init, SessType
  <1>2. EndType
    BY DEF Init, EndType
  <1>3. LockType
    BY DEF Init, LockType, MuxPC, Closers
  <1>4. TimerType
    BY DEF Init, TimerType, TimerKind, CallbackPC
  <1>5. ThreadType
    BY DEF Init, ThreadType, HandlerPC, WatcherPC
  <1>6. RecvType
    BY DEF Init, RecvType, ReceiverState, FrameKind
  <1>7. HistType
    BY DEF Init, HistType
  <1> QED
    BY <1>1, <1>2, <1>3, <1>4, <1>5, <1>6, <1>7 DEF TypeOK

\* Every step keeps them.
LEMMA TypeStep ==
  ASSUME TypeOK, LockInv, Next
  PROVE  TypeOK'
  <1> USE DEF TypeOK
  <1>1. ASSUME attachCloseFrame PROVE TypeOK'
    <2>1. RecvType'
      <3>1. sendFrame(holder, "c", 1) \/ UNCHANGED recvVars
        BY <1>1 DEF attachCloseFrame, AttachFails, sendCloseFrame
      <3> QED
        BY <3>1, SendFrameType DEF RecvType, FrameKind
    <2>2. LockType'
      BY <1>1 DEF attachCloseFrame, AttachFails, LockType, MuxPC, Closers
    <2>3. ThreadType'
      BY <1>1 DEF attachCloseFrame, AttachFails, WriteFails, ThreadType, HandlerPC,
         WatcherPC, LockType
    <2>4. HistType'
      BY <1>1 DEF attachCloseFrame, AttachFails, sendCloseFrame, HistType, EndType
    <2>5. SessType' /\ EndType' /\ TimerType'
      BY <1>1 DEF attachCloseFrame, AttachFails, SessType, EndType, TimerType
    <2> QED
      BY <2>1, <2>2, <2>3, <2>4, <2>5
  <1>2. ASSUME attachClose PROVE TypeOK'
    <2>1. RecvType'
      BY <1>2, CloseReceiverType DEF attachClose
    <2>2. LockType'
      BY <1>2 DEF attachClose, LockType, MuxPC, Closers
    <2>3. ThreadType'
      BY <1>2 DEF attachClose, ThreadType, HandlerPC, WatcherPC, LockType
    <2>4. SessType' /\ EndType' /\ TimerType' /\ HistType'
      BY <1>2 DEF attachClose, SessType, EndType, TimerType, HistType
    <2> QED
      BY <2>1, <2>2, <2>3, <2>4
  <1>3. ASSUME attachOpen PROVE TypeOK'
    <2>1. RecvType'
      <3>1. sendFrame(holder, "o", 1) \/ UNCHANGED recvVars
        BY <1>3 DEF attachOpen, AttachFails
      <3> QED
        BY <3>1, SendFrameType DEF RecvType, FrameKind
    <2>2. SessType'
      BY <1>3 DEF attachOpen, AttachFails, OpenedState, SessType
    <2>3. LockType'
      BY <1>3 DEF attachOpen, AttachFails, LockType, MuxPC, Closers
    <2>4. ThreadType'
      BY <1>3 DEF attachOpen, AttachFails, WriteFails, ThreadType, HandlerPC, WatcherPC,
         LockType
    <2>5. EndType' /\ TimerType' /\ HistType'
      BY <1>3 DEF attachOpen, AttachFails, EndType, TimerType, HistType
    <2> QED
      BY <2>1, <2>2, <2>3, <2>4, <2>5
  <1>4. ASSUME attachBulk PROVE TypeOK'
    <2>1. RecvType' /\ HistType'
      <3>1. sendBulk(holder, sendBuffer) \/ UNCHANGED <<recvVars, delivered>>
        BY <1>4 DEF attachBulk, AttachFails
      <3>2. RecvType' /\ delivered' \in Seq(Nat)
        BY <3>1, SendBulkType DEF SessType, RecvType, HistType
      <3> QED
        BY <1>4, <3>2 DEF attachBulk, AttachFails, HistType
    <2>2. SessType'
      <3>1. sendBuffer' \in {sendBuffer, <<>>} /\ state' = state /\ recv' = recv
        BY <1>4 DEF attachBulk, AttachFails
      <3>2. <<>> \in Seq(Nat)
        OBVIOUS
      <3> QED
        BY <3>1, <3>2 DEF SessType
    <2>3. LockType'
      BY <1>4 DEF attachBulk, AttachFails, LockType, MuxPC, Closers
    <2>4. TimerType'
      BY <1>4 DEF attachBulk, AttachFails, TimerType, TimerKind, CallbackPC
    <2>5. ThreadType'
      BY <1>4 DEF attachBulk, AttachFails, WriteFails, ThreadType, HandlerPC, WatcherPC,
         LockType
    <2>6. EndType'
      BY <1>4 DEF attachBulk, AttachFails, EndType
    <2> QED
      BY <2>1, <2>2, <2>3, <2>4, <2>5, <2>6
  <1>5. ASSUME sendMessageBulk PROVE TypeOK'
    <2>1. RecvType' /\ HistType'
      <3>1. sendBulk(recv, sendBuffer) \/ UNCHANGED <<recvVars, delivered>>
        BY <1>5 DEF sendMessageBulk
      <3>2. RecvType' /\ delivered' \in Seq(Nat)
        BY <3>1, SendBulkType DEF SessType, RecvType, HistType
      <3> QED
        BY <1>5, <3>2 DEF sendMessageBulk, HistType
    <2>2. SessType'
      <3>1. sendBuffer' \in {sendBuffer, <<>>} /\ state' = state /\ recv' = recv
        BY <1>5 DEF sendMessageBulk, Flushed
      <3>2. <<>> \in Seq(Nat)
        OBVIOUS
      <3> QED
        BY <3>1, <3>2 DEF SessType
    <2>3. LockType'
      BY <1>5 DEF sendMessageBulk, LockType, MuxPC, Closers
    <2>4. EndType' /\ TimerType' /\ ThreadType'
      BY <1>5 DEF sendMessageBulk, EndType, TimerType, ThreadType
    <2> QED
      BY <2>1, <2>2, <2>3, <2>4
  <1>6. ASSUME closingFrame PROVE TypeOK'
    <2>1. RecvType'
      <3>1. sendFrame(recv, "c", 1) \/ UNCHANGED recvVars
        BY <1>6 DEF closingFrame, sendCloseFrame
      <3> QED
        BY <3>1, SendFrameType DEF RecvType, FrameKind
    <2>2. LockType'
      BY <1>6 DEF closingFrame, LockType, MuxPC, Closers
    <2>3. HistType'
      BY <1>6 DEF closingFrame, sendCloseFrame, HistType, EndType
    <2>4. SessType' /\ EndType' /\ TimerType' /\ ThreadType'
      BY <1>6 DEF closingFrame, SessType, EndType, TimerType, ThreadType
    <2> QED
      BY <2>1, <2>2, <2>3, <2>4
  <1>7. ASSUME closingClose PROVE TypeOK'
    <2>1. RecvType'
      BY <1>7, CloseReceiverType DEF closingClose
    <2>2. TimerType' /\ ThreadType'
      BY <1>7, ClosingReturnsType DEF closingClose, LockInv, ClosingPCs, AtClosing, TimerExpired
    <2>3. EndType'
      BY <1>7 DEF closingClose, EndType
    <2>4. LockType'
      BY <1>7 DEF closingClose, LockType, MuxPC, Closers
    <2>5. SessType' /\ HistType'
      BY <1>7 DEF closingClose, SessType, HistType
    <2> QED
      BY <2>1, <2>2, <2>3, <2>4, <2>5
  <1>8. ASSUME NEW r \in Requests, Arrival(r) PROVE TypeOK'
    <2>1. ThreadType' /\ RecvType'
      <3>1. ASSUME NEW m \in Nat, arrive(r, m) PROVE ThreadType' /\ RecvType'
        BY <3>1, ArriveType
      <3>2. ASSUME badCallback(r) PROVE ThreadType' /\ RecvType'
        BY <3>2 DEF badCallback, ThreadType, HandlerPC, RecvType
      <3> QED
        BY <1>8, <3>1, <3>2 DEF Arrival, xhrPoll, xhrStreaming, eventSource, htmlFile, jsonp
    <2>2. SessType' /\ EndType' /\ LockType' /\ TimerType' /\ HistType'
      BY <1>8 DEF Arrival, xhrPoll, xhrStreaming, eventSource, htmlFile, jsonp, arrive,
         badCallback, SessType, EndType, LockType, TimerType, HistType
    <2> QED
      BY <2>1, <2>2
  <1>9. ASSUME NEW r \in Requests, Disconnect(r) PROVE TypeOK'
    <2>1. RecvType'
      BY <1>9 DEF Disconnect, RecvType, ReceiverState, FrameKind
    <2>2. SessType' /\ EndType' /\ LockType' /\ TimerType' /\ ThreadType' /\ HistType'
      BY <1>9 DEF Disconnect, SessType, EndType, LockType, TimerType, ThreadType, HistType
    <2> QED
      BY <2>1, <2>2
  <1>10. ASSUME NEW r \in Requests, interrupt(r) PROVE TypeOK'
    <2>1. RecvType'
      BY <1>10 DEF interrupt, RecvType, ReceiverState, FrameKind
    <2>2. SessType' /\ EndType' /\ LockType' /\ TimerType' /\ ThreadType' /\ HistType'
      BY <1>10 DEF interrupt, SessType, EndType, LockType, TimerType, ThreadType, HistType
    <2> QED
      BY <2>1, <2>2
  <1>11. ASSUME NEW r \in Requests, attachRefused(r) PROVE TypeOK'
    <2>1. ThreadType'
      BY <1>11 DEF attachRefused, ThreadType, HandlerPC, WatcherPC
    <2>2. SessType' /\ EndType' /\ LockType' /\ TimerType' /\ RecvType' /\ HistType'
      BY <1>11 DEF attachRefused, SessType, EndType, LockType, TimerType, RecvType, HistType
    <2> QED
      BY <2>1, <2>2
  <1>12. ASSUME NEW r \in Requests, attachReceiver(r) PROVE TypeOK'
    <2>1. SessType'
      BY <1>12 DEF attachReceiver, SessType
    <2>2. LockType'
      BY <1>12 DEF attachReceiver, AttachPC, LockType, MuxPC, Closers
    <2>3. ThreadType'
      BY <1>12 DEF attachReceiver, ThreadType, HandlerPC, WatcherPC
    <2>4. EndType' /\ TimerType' /\ RecvType' /\ HistType'
      BY <1>12 DEF attachReceiver, EndType, TimerType, RecvType, HistType
    <2> QED
      BY <2>1, <2>2, <2>3, <2>4
  <1>13. ASSUME NEW r \in Requests, startHandlerOnce(r) PROVE TypeOK'
    <2>1. ThreadType'
      BY <1>13 DEF startHandlerOnce, ThreadType, HandlerPC, WatcherPC
    <2>2. SessType' /\ EndType' /\ LockType' /\ TimerType' /\ RecvType' /\ HistType'
      BY <1>13 DEF startHandlerOnce, SessType, EndType, LockType, TimerType, RecvType,
         HistType
    <2> QED
      BY <2>1, <2>2
  <1>14. ASSUME NEW r \in Requests, awaitReceiver(r) PROVE TypeOK'
    <2>1. ThreadType'
      BY <1>14 DEF awaitReceiver, ThreadType, HandlerPC, WatcherPC
    <2>2. SessType' /\ EndType' /\ LockType' /\ TimerType' /\ RecvType' /\ HistType'
      BY <1>14 DEF awaitReceiver, SessType, EndType, LockType, TimerType, RecvType, HistType
    <2> QED
      BY <2>1, <2>2
  <1>15. ASSUME NEW r \in Requests, refuse(r) PROVE TypeOK'
    <2>1. RecvType'
      <3>1. sendFrame(r, "busy", 1) \/ UNCHANGED recvVars
        BY <1>15 DEF refuse
      <3> QED
        BY <3>1, SendFrameType DEF RecvType, FrameKind
    <2>2. ThreadType'
      BY <1>15 DEF refuse, WriteFails, ThreadType, HandlerPC, WatcherPC
    <2>3. SessType' /\ EndType' /\ LockType' /\ TimerType' /\ HistType'
      BY <1>15 DEF refuse, SessType, EndType, LockType, TimerType, HistType
    <2> QED
      BY <2>1, <2>2, <2>3
  <1>16. ASSUME NEW r \in Requests, refuseClose(r) PROVE TypeOK'
    <2>1. RecvType'
      BY <1>16, CloseReceiverType DEF refuseClose
    <2>2. ThreadType'
      BY <1>16 DEF refuseClose, ThreadType, HandlerPC, WatcherPC
    <2>3. SessType' /\ EndType' /\ LockType' /\ TimerType' /\ HistType'
      BY <1>16 DEF refuseClose, SessType, EndType, LockType, TimerType, HistType
    <2> QED
      BY <2>1, <2>2, <2>3
  <1>17. ASSUME NEW r \in Requests, detachReceiver(r) PROVE TypeOK'
    <2>1. SessType'
      BY <1>17 DEF detachReceiver, SessType
    <2>2. TimerType'
      BY <1>17 DEF detachReceiver, ExpiryTimer, TimerType, TimerKind, CallbackPC
    <2>3. ThreadType'
      BY <1>17 DEF detachReceiver, AfterDetach, ThreadType, HandlerPC, WatcherPC
    <2>4. EndType' /\ LockType' /\ RecvType' /\ HistType'
      BY <1>17 DEF detachReceiver, EndType, LockType, RecvType, HistType
    <2> QED
      BY <2>1, <2>2, <2>3, <2>4
  <1>18. ASSUME NEW r \in Requests, closeByWatcher(r) PROVE TypeOK'
    <2>1. SessType' /\ EndType'
      BY <1>18, CloseSessionType DEF closeByWatcher
    <2>2. TimerType'
      BY <1>18 DEF closeByWatcher, CloseSession, NotYetClosed, TimerType, TimerKind,
         CallbackPC
    <2>3. ThreadType'
      BY <1>18 DEF closeByWatcher, CloseSession, ThreadType, HandlerPC, WatcherPC
    <2>4. LockType' /\ RecvType' /\ HistType'
      BY <1>18 DEF closeByWatcher, CloseSession, LockType, RecvType, HistType
    <2> QED
      BY <2>1, <2>2, <2>3, <2>4
  <1>19. ASSUME NEW a \in Apps, sendMessage(a) PROVE TypeOK'
    <2>1. SessType' /\ HistType'
      <3>1. nSent + 1 \in Nat /\ Append(sendBuffer, nSent + 1) \in Seq(Nat)
        BY DEF SessType, HistType
      <3> QED
        BY <1>19, <3>1 DEF sendMessage, SessType, HistType
    <2>2. LockType'
      BY <1>19 DEF sendMessage, LockType, MuxPC, Closers
    <2>3. EndType' /\ TimerType' /\ ThreadType' /\ RecvType'
      BY <1>19 DEF sendMessage, EndType, TimerType, ThreadType, RecvType
    <2> QED
      BY <2>1, <2>2, <2>3
  <1>20. ASSUME NEW a \in Apps, NEW code \in CloseCodes, Close(a, code) PROVE TypeOK'
    <2>1. EndType'
      BY <1>20 DEF Close, EndType
    <2>2. ThreadType'
      BY <1>20 DEF Close, ThreadType, HandlerPC, WatcherPC
    <2>3. SessType' /\ LockType' /\ TimerType' /\ RecvType' /\ HistType'
      BY <1>20 DEF Close, SessType, LockType, TimerType, RecvType, HistType
    <2> QED
      BY <2>1, <2>2, <2>3
  <1>21. ASSUME NEW t \in Closers, closingAgain(t) PROVE TypeOK'
    <2>1. TimerType' /\ ThreadType'
      BY <1>21, ClosingReturnsType DEF closingAgain, AtClosing, TimerExpired
    <2>2. SessType' /\ EndType' /\ LockType' /\ RecvType' /\ HistType'
      BY <1>21 DEF closingAgain, SessType, EndType, LockType, RecvType, HistType
    <2> QED
      BY <2>1, <2>2
  <1>22. ASSUME NEW t \in Closers, closingDetached(t) PROVE TypeOK'
    <2>1. TimerType' /\ ThreadType'
      BY <1>22, ClosingReturnsType DEF closingDetached, AtClosing, TimerExpired
    <2>2. SessType'
      BY <1>22 DEF closingDetached, SessType
    <2>3. EndType'
      BY <1>22 DEF closingDetached, closeRecvBuffer, EndType
    <2>4. LockType' /\ RecvType' /\ HistType'
      BY <1>22 DEF closingDetached, LockType, RecvType, HistType
    <2> QED
      BY <2>1, <2>2, <2>3, <2>4
  <1>23. ASSUME NEW t \in Closers, closingAttached(t) PROVE TypeOK'
    <2>1. SessType'
      BY <1>23 DEF closingAttached, SessType
    <2>2. EndType'
      BY <1>23 DEF closingAttached, closeRecvBuffer, EndType
    <2>3. LockType'
      BY <1>23 DEF closingAttached, LockType, MuxPC, Closers
    <2>4. TimerType' /\ ThreadType' /\ RecvType' /\ HistType'
      BY <1>23 DEF closingAttached, TimerType, ThreadType, RecvType, HistType
    <2> QED
      BY <2>1, <2>2, <2>3, <2>4
  <1>24. ASSUME closeByTimer PROVE TypeOK'
    <2>1. SessType' /\ EndType'
      BY <1>24, CloseSessionType DEF closeByTimer
    <2>2. TimerType'
      BY <1>24 DEF closeByTimer, CloseSession, NotYetClosed, TimerType, TimerKind,
         CallbackPC
    <2>3. LockType' /\ ThreadType' /\ RecvType' /\ HistType'
      BY <1>24 DEF closeByTimer, CloseSession, LockType, ThreadType, RecvType, HistType
    <2> QED
      BY <2>1, <2>2, <2>3
  <1>25. ASSUME timerFires PROVE TypeOK'
    <2>1. TimerType'
      BY <1>25 DEF timerFires, TimerType, TimerKind, CallbackPC
    <2>2. SessType' /\ EndType' /\ LockType' /\ ThreadType' /\ RecvType' /\ HistType'
      BY <1>25 DEF timerFires, SessType, EndType, LockType, ThreadType, RecvType, HistType
    <2> QED
      BY <2>1, <2>2
  <1>26. ASSUME NEW k \in TimerKind, orphanFires(k) PROVE TypeOK'
    <2>1. TimerType'
      BY <1>26 DEF orphanFires, TimerType, TimerKind, CallbackPC
    <2>2. SessType' /\ EndType' /\ LockType' /\ ThreadType' /\ RecvType' /\ HistType'
      BY <1>26 DEF orphanFires, SessType, EndType, LockType, ThreadType, RecvType, HistType
    <2> QED
      BY <2>1, <2>2
  <1>27. ASSUME heartbeat PROVE TypeOK'
    <2>1. RecvType'
      <3>1. sendFrame(recv, "h", 1) \/ UNCHANGED recvVars
        BY <1>27 DEF heartbeat
      <3> QED
        BY <3>1, SendFrameType DEF RecvType, FrameKind
    <2>2. TimerType'
      BY <1>27 DEF heartbeat, NextHeartbeat, TimerType, TimerKind, CallbackPC
    <2>3. SessType' /\ EndType' /\ LockType' /\ ThreadType' /\ HistType'
      BY <1>27 DEF heartbeat, SessType, EndType, LockType, ThreadType, HistType
    <2> QED
      BY <2>1, <2>2, <2>3
  <1>28. ASSUME unregister PROVE TypeOK'
    <2>1. EndType'
      BY <1>28 DEF unregister, EndType
    <2>2. SessType' /\ LockType' /\ TimerType' /\ ThreadType' /\ RecvType' /\ HistType'
      BY <1>28 DEF unregister, SessType, LockType, TimerType, ThreadType, RecvType, HistType
    <2> QED
      BY <2>1, <2>2
  <1> QED
    BY <1>1, <1>2, <1>3, <1>4, <1>5, <1>6, <1>7, <1>8, <1>9, <1>10, <1>11, <1>12, <1>13,
       <1>14, <1>15, <1>16, <1>17, <1>18, <1>19, <1>20, <1>21, <1>22, <1>23, <1>24, <1>25,
       <1>26, <1>27, <1>28 DEF Next, InMux, HandlerStep, WatcherStep, ClosingStep,
       Application

-----------------------------------------------------------------------------
(* The lock, the goroutines and the timers.                                *)

\* s.mux: each critical section keeps what the next part of it relies on.
LEMMA LockInvStep ==
  ASSUME TypeOK, LockInv, OpenBeforeSend, Next
  PROVE  LockInv'
  <1> USE DEF TypeOK, SessType, LockType, ThreadType, TimerType, Closers, CallbackPC,
     LockInv, AttachPCs, ClosingPCs, OpenBeforeSend, AtClosing, TimerExpired
  <1>1. ASSUME attachCloseFrame PROVE LockInv'
    BY <1>1 DEF attachCloseFrame, AttachFails, sendCloseFrame, sendFrame, Writes,
       WriteFails, LimitReached
  <1>2. ASSUME attachClose PROVE LockInv'
    BY <1>2 DEF attachClose, closeReceiver, canSend
  <1>3. ASSUME attachOpen PROVE LockInv'
    BY <1>3 DEF attachOpen, AttachFails, sendFrame, Writes, WriteFails, LimitReached,
       OpenedState
  <1>4. ASSUME attachBulk PROVE LockInv'
    BY <1>4 DEF attachBulk, AttachFails, BulkFails, sendBulk, sendFrame, Writes, WriteFails,
       LimitReached
  <1>5. ASSUME sendMessageBulk PROVE LockInv'
    BY <1>5 DEF sendMessageBulk, BulkFails, sendBulk, sendFrame, Writes, WriteFails,
       LimitReached, Flushed
  <1>6. ASSUME closingFrame PROVE LockInv'
    BY <1>6 DEF closingFrame, sendCloseFrame, sendFrame, Writes, WriteFails, LimitReached
  <1>7. ASSUME closingClose PROVE LockInv'
    BY <1>7 DEF closingClose, closeReceiver, canSend, ClosingReturns
  <1>8. ASSUME NEW r \in Requests, Arrival(r) PROVE LockInv'
    BY <1>8 DEF Arrival, xhrPoll, xhrStreaming, eventSource, htmlFile, jsonp, arrive,
       badCallback
  <1>9. ASSUME NEW r \in Requests, attachRefused(r) PROVE LockInv'
    BY <1>9 DEF attachRefused, NoneAttached
  <1>10. ASSUME NEW r \in Requests, attachReceiver(r) PROVE LockInv'
    BY <1>10 DEF attachReceiver, AttachPC, NoneAttached
  <1>11. ASSUME NEW r \in Requests, startHandlerOnce(r) PROVE LockInv'
    BY <1>11 DEF startHandlerOnce
  <1>12. ASSUME NEW r \in Requests, awaitReceiver(r) PROVE LockInv'
    BY <1>12 DEF awaitReceiver, Ended
  <1>13. ASSUME NEW r \in Requests, refuse(r) PROVE LockInv'
    BY <1>13 DEF refuse, sendFrame, Writes, WriteFails, LimitReached
  <1>14. ASSUME NEW r \in Requests, refuseClose(r) PROVE LockInv'
    BY <1>14 DEF refuseClose, closeReceiver, canSend
  <1>15. ASSUME NEW r \in Requests, detachReceiver(r) PROVE LockInv'
    BY <1>15 DEF detachReceiver, ExpiryTimer, AfterDetach, Ended
  <1>16. ASSUME NEW r \in Requests, closeByWatcher(r) PROVE LockInv'
    BY <1>16 DEF closeByWatcher, CloseSession, NotYetClosed
  <1>17. ASSUME NEW a \in Apps, sendMessage(a) PROVE LockInv'
    BY <1>17 DEF sendMessage, AppRuns, canSend
  <1>18. ASSUME NEW a \in Apps, NEW code \in CloseCodes, Close(a, code) PROVE LockInv'
    BY <1>18 DEF Close, AppRuns, MaySetCloseFrame
  <1>19. ASSUME NEW t \in Closers, closingAgain(t) PROVE LockInv'
    BY <1>19 DEF closingAgain, ClosingReturns
  <1>20. ASSUME NEW t \in Closers, closingDetached(t) PROVE LockInv'
    BY <1>20 DEF closingDetached, closeRecvBuffer, ClosingReturns
  <1>21. ASSUME NEW t \in Closers, closingAttached(t) PROVE LockInv'
    BY <1>21 DEF closingAttached, closeRecvBuffer
  <1>22. ASSUME closeByTimer PROVE LockInv'
    BY <1>22 DEF closeByTimer, CloseSession, NotYetClosed
  <1>23. ASSUME timerFires PROVE LockInv'
    BY <1>23 DEF timerFires
  <1>24. ASSUME NEW k \in TimerKind, orphanFires(k) PROVE LockInv'
    BY <1>24 DEF orphanFires
  <1>25. ASSUME heartbeat PROVE LockInv'
    BY <1>25 DEF heartbeat, sendFrame, Writes, WriteFails, LimitReached, NextHeartbeat
  <1>26. ASSUME NEW r \in Requests, Disconnect(r) \/ interrupt(r) PROVE LockInv'
    BY <1>26 DEF Disconnect, interrupt
  <1>27. ASSUME unregister PROVE LockInv'
    BY <1>27 DEF unregister
  <1> QED
    BY <1>1, <1>2, <1>3, <1>4, <1>5, <1>6, <1>7, <1>8, <1>9, <1>10, <1>11, <1>12, <1>13,
       <1>14, <1>15, <1>16, <1>17, <1>18, <1>19, <1>20, <1>21, <1>22, <1>23, <1>24, <1>25,
       <1>26, <1>27 DEF Next, InMux, HandlerStep, WatcherStep, ClosingStep, Application

\* The application starts after the open frame, and sends nothing before.
LEMMA StartInvStep ==
  ASSUME TypeOK, LockInv, StartInv, Next
  PROVE  StartInv'
  <1> USE DEF TypeOK, SessType, LockType, ThreadType, TimerType, Closers, LockInv,
     AttachPCs, ClosingPCs, StartInv
  <1>1. ASSUME attachCloseFrame PROVE StartInv'
    BY <1>1 DEF attachCloseFrame, AttachFails, sendCloseFrame, sendFrame, Writes,
       WriteFails, LimitReached
  <1>2. ASSUME attachClose PROVE StartInv'
    BY <1>2 DEF attachClose, closeReceiver, canSend
  <1>3. ASSUME attachOpen PROVE StartInv'
    BY <1>3 DEF attachOpen, AttachFails, sendFrame, Writes, WriteFails, LimitReached,
       OpenedState
  <1>4. ASSUME attachBulk PROVE StartInv'
    BY <1>4 DEF attachBulk, AttachFails, BulkFails, sendBulk, sendFrame, Writes, WriteFails,
       LimitReached
  <1>5. ASSUME sendMessageBulk PROVE StartInv'
    BY <1>5 DEF sendMessageBulk, BulkFails, sendBulk, sendFrame, Writes, WriteFails,
       LimitReached, Flushed
  <1>6. ASSUME NEW r \in Requests, Arrival(r) PROVE StartInv'
    BY <1>6 DEF Arrival, xhrPoll, xhrStreaming, eventSource, htmlFile, jsonp, arrive,
       badCallback
  <1>7. ASSUME NEW r \in Requests, attachRefused(r) PROVE StartInv'
    BY <1>7 DEF attachRefused, NoneAttached
  <1>8. ASSUME NEW r \in Requests, startHandlerOnce(r) PROVE StartInv'
    BY <1>8 DEF startHandlerOnce
  <1>9. ASSUME NEW r \in Requests, awaitReceiver(r) PROVE StartInv'
    BY <1>9 DEF awaitReceiver, Ended
  <1>10. ASSUME NEW r \in Requests, refuse(r) PROVE StartInv'
    BY <1>10 DEF refuse, sendFrame, Writes, WriteFails, LimitReached
  <1>11. ASSUME NEW r \in Requests, refuseClose(r) PROVE StartInv'
    BY <1>11 DEF refuseClose, closeReceiver, canSend
  <1>12. ASSUME NEW r \in Requests, closeByWatcher(r) PROVE StartInv'
    BY <1>12 DEF closeByWatcher, CloseSession, NotYetClosed
  <1>13. ASSUME NEW a \in Apps, sendMessage(a) PROVE StartInv'
    BY <1>13 DEF sendMessage, AppRuns, canSend
  <1>14. ASSUME NEW t \in Closers, closingDetached(t) PROVE StartInv'
    BY <1>14 DEF closingDetached, closeRecvBuffer, ClosingReturns
  <1>15. ASSUME NEW t \in Closers, closingAttached(t) PROVE StartInv'
    BY <1>15 DEF closingAttached, closeRecvBuffer
  <1>16. ASSUME closeByTimer PROVE StartInv'
    BY <1>16 DEF closeByTimer, CloseSession, NotYetClosed
  <1>17. ASSUME closingFrame \/ closingClose \/ timerFires \/ heartbeat \/ unregister
       PROVE  StartInv'
    BY <1>17 DEF closingFrame, sendCloseFrame, closingClose, ClosingReturns, timerFires,
       heartbeat, unregister
  <1>18. ASSUME NEW r \in Requests, Disconnect(r) \/ interrupt(r) \/ attachReceiver(r) \/
              detachReceiver(r)
       PROVE  StartInv'
    BY <1>18 DEF Disconnect, interrupt, attachReceiver, detachReceiver
  <1>19. ASSUME NEW a \in Apps, NEW code \in CloseCodes, Close(a, code) PROVE StartInv'
    BY <1>19 DEF Close
  <1>20. ASSUME NEW t \in Closers, closingAgain(t) PROVE StartInv'
    BY <1>20 DEF closingAgain, ClosingReturns
  <1>21. ASSUME NEW k \in TimerKind, orphanFires(k) PROVE StartInv'
    BY <1>21 DEF orphanFires
  <1> QED
    BY <1>1, <1>2, <1>3, <1>4, <1>5, <1>6, <1>7, <1>8, <1>9, <1>10, <1>11, <1>12, <1>13,
       <1>14, <1>15, <1>16, <1>17, <1>18, <1>19, <1>20, <1>21 DEF Next, InMux, HandlerStep,
       WatcherStep, ClosingStep, Application

\* Attaching starts the watcher and detaching is its step: nobody else's watcher waits.
LEMMA WatcherOwnsReceiverStep ==
  ASSUME TypeOK, LockInv, WatcherOwnsReceiver, Next
  PROVE  WatcherOwnsReceiver'
  <1> USE DEF TypeOK, SessType, LockType, ThreadType, TimerType, Closers, LockInv,
     AttachPCs, ClosingPCs, AtClosing, WatcherOwnsReceiver
  <1>1. ASSUME closingClose PROVE WatcherOwnsReceiver'
    BY <1>1 DEF closingClose, closeReceiver, canSend, ClosingReturns
  <1>2. ASSUME NEW r \in Requests, attachReceiver(r) PROVE WatcherOwnsReceiver'
    BY <1>2 DEF attachReceiver, AttachPC, NoneAttached
  <1>3. ASSUME NEW r \in Requests, detachReceiver(r) PROVE WatcherOwnsReceiver'
    BY <1>3 DEF detachReceiver, ExpiryTimer, AfterDetach, Ended
  <1>4. ASSUME NEW r \in Requests, closeByWatcher(r) PROVE WatcherOwnsReceiver'
    BY <1>4 DEF closeByWatcher, CloseSession, NotYetClosed
  <1>5. ASSUME NEW t \in Closers, closingAgain(t) PROVE WatcherOwnsReceiver'
    BY <1>5 DEF closingAgain, ClosingReturns
  <1>6. ASSUME NEW t \in Closers, closingDetached(t) PROVE WatcherOwnsReceiver'
    BY <1>6 DEF closingDetached, closeRecvBuffer, ClosingReturns
  <1>7. ASSUME attachCloseFrame \/ attachClose \/ attachOpen \/ attachBulk \/
              sendMessageBulk \/ closingFrame \/ closeByTimer \/ timerFires \/ heartbeat \/
              unregister
       PROVE  WatcherOwnsReceiver'
    BY <1>7 DEF attachCloseFrame, AttachFails, attachClose, attachOpen, attachBulk,
       sendMessageBulk, closingFrame, closeByTimer, CloseSession, timerFires, heartbeat,
       unregister
  <1>8. ASSUME NEW r \in Requests, Arrival(r) \/ Disconnect(r) \/ interrupt(r) \/
              attachRefused(r) \/ startHandlerOnce(r) \/ awaitReceiver(r) \/ refuse(r) \/
              refuseClose(r)
       PROVE  WatcherOwnsReceiver'
    BY <1>8 DEF Arrival, xhrPoll, xhrStreaming, eventSource, htmlFile, jsonp, arrive,
       badCallback, Disconnect, interrupt, attachRefused, startHandlerOnce, awaitReceiver,
       refuse, refuseClose
  <1>9. ASSUME NEW a \in Apps, sendMessage(a) PROVE WatcherOwnsReceiver'
    BY <1>9 DEF sendMessage
  <1>10. ASSUME NEW a \in Apps, NEW code \in CloseCodes, Close(a, code)
       PROVE  WatcherOwnsReceiver'
    BY <1>10 DEF Close
  <1>11. ASSUME NEW t \in Closers, closingAttached(t) PROVE WatcherOwnsReceiver'
    BY <1>11 DEF closingAttached
  <1>12. ASSUME NEW k \in TimerKind, orphanFires(k) PROVE WatcherOwnsReceiver'
    BY <1>12 DEF orphanFires
  <1> QED
    BY <1>1, <1>2, <1>3, <1>4, <1>5, <1>6, <1>7, <1>8, <1>9, <1>10, <1>11, <1>12 DEF Next,
       InMux, HandlerStep, WatcherStep, ClosingStep, Application

\* close() closes closeCh in the step that makes the session closed, after closing().
LEMMA CloseInvStep ==
  ASSUME TypeOK, LockInv, CloseInv, Next
  PROVE  CloseInv'
  <1> USE DEF TypeOK, SessType, LockType, ThreadType, TimerType, Closers, TimerKind,
     CallbackPC, LockInv, AttachPCs, ClosingPCs, AtClosing, TimerExpired, CloseInv
  <1>1. ASSUME attachCloseFrame PROVE CloseInv'
    BY <1>1 DEF attachCloseFrame, AttachFails, sendCloseFrame, sendFrame, Writes,
       WriteFails, LimitReached
  <1>2. ASSUME attachOpen PROVE CloseInv'
    BY <1>2 DEF attachOpen, AttachFails, sendFrame, Writes, WriteFails, LimitReached,
       OpenedState
  <1>3. ASSUME closingFrame PROVE CloseInv'
    BY <1>3 DEF closingFrame, sendCloseFrame, sendFrame, Writes, WriteFails, LimitReached
  <1>4. ASSUME closingClose PROVE CloseInv'
    BY <1>4 DEF closingClose, closeReceiver, canSend, ClosingReturns
  <1>5. ASSUME NEW r \in Requests, attachReceiver(r) PROVE CloseInv'
    BY <1>5 DEF attachReceiver, AttachPC, NoneAttached
  <1>6. ASSUME NEW r \in Requests, detachReceiver(r) PROVE CloseInv'
    BY <1>6 DEF detachReceiver, ExpiryTimer, AfterDetach, Ended
  <1>7. ASSUME NEW r \in Requests, closeByWatcher(r) PROVE CloseInv'
    BY <1>7 DEF closeByWatcher, CloseSession, NotYetClosed
  <1>8. ASSUME NEW t \in Closers, closingAgain(t) PROVE CloseInv'
    BY <1>8 DEF closingAgain, ClosingReturns
  <1>9. ASSUME NEW t \in Closers, closingDetached(t) PROVE CloseInv'
    BY <1>9 DEF closingDetached, closeRecvBuffer, ClosingReturns
  <1>10. ASSUME NEW t \in Closers, closingAttached(t) PROVE CloseInv'
    BY <1>10 DEF closingAttached, closeRecvBuffer
  <1>11. ASSUME closeByTimer PROVE CloseInv'
    BY <1>11 DEF closeByTimer, CloseSession, NotYetClosed
  <1>12. ASSUME timerFires PROVE CloseInv'
    BY <1>12 DEF timerFires
  <1>13. ASSUME NEW k \in TimerKind, orphanFires(k) PROVE CloseInv'
    BY <1>13 DEF orphanFires
  <1>14. ASSUME heartbeat PROVE CloseInv'
    BY <1>14 DEF heartbeat, sendFrame, Writes, WriteFails, LimitReached, NextHeartbeat
  <1>15. ASSUME attachClose \/ attachBulk \/ sendMessageBulk \/ unregister PROVE CloseInv'
    BY <1>15 DEF attachClose, attachBulk, AttachFails, sendMessageBulk, unregister
  <1>16. ASSUME NEW r \in Requests, Arrival(r) \/ Disconnect(r) \/ interrupt(r) \/
              attachRefused(r) \/ startHandlerOnce(r) \/ awaitReceiver(r) \/ refuse(r) \/
              refuseClose(r)
       PROVE  CloseInv'
    BY <1>16 DEF Arrival, xhrPoll, xhrStreaming, eventSource, htmlFile, jsonp, arrive,
       badCallback, Disconnect, interrupt, attachRefused, startHandlerOnce, awaitReceiver,
       refuse, refuseClose
  <1>17. ASSUME NEW a \in Apps, sendMessage(a) PROVE CloseInv'
    BY <1>17 DEF sendMessage
  <1>18. ASSUME NEW a \in Apps, NEW code \in CloseCodes, Close(a, code) PROVE CloseInv'
    BY <1>18 DEF Close
  <1> QED
    BY <1>1, <1>2, <1>3, <1>4, <1>5, <1>6, <1>7, <1>8, <1>9, <1>10, <1>11, <1>12, <1>13,
       <1>14, <1>15, <1>16, <1>17, <1>18 DEF Next, InMux, HandlerStep, WatcherStep,
       ClosingStep, Application

\* closing() releases the readers and the context before it gives the lock up.
LEMMA ReleasedWhenClosingStep ==
  ASSUME TypeOK, LockInv, CloseInv, ReleasedWhenClosing, Next
  PROVE  ReleasedWhenClosing'
  <1> USE DEF TypeOK, SessType, LockType, ThreadType, TimerType, Closers, LockInv,
     AttachPCs, ClosingPCs, CloseInv, ReleasedWhenClosing
  <1>1. ASSUME attachCloseFrame PROVE ReleasedWhenClosing'
    BY <1>1 DEF attachCloseFrame, AttachFails, sendCloseFrame, sendFrame, Writes,
       WriteFails, LimitReached
  <1>2. ASSUME attachClose PROVE ReleasedWhenClosing'
    BY <1>2 DEF attachClose, closeReceiver, canSend
  <1>3. ASSUME attachOpen PROVE ReleasedWhenClosing'
    BY <1>3 DEF attachOpen, AttachFails, sendFrame, Writes, WriteFails, LimitReached,
       OpenedState
  <1>4. ASSUME attachBulk PROVE ReleasedWhenClosing'
    BY <1>4 DEF attachBulk, AttachFails, BulkFails, sendBulk, sendFrame, Writes, WriteFails,
       LimitReached
  <1>5. ASSUME sendMessageBulk PROVE ReleasedWhenClosing'
    BY <1>5 DEF sendMessageBulk, BulkFails, sendBulk, sendFrame, Writes, WriteFails,
       LimitReached, Flushed
  <1>6. ASSUME closingFrame PROVE ReleasedWhenClosing'
    BY <1>6 DEF closingFrame, sendCloseFrame, sendFrame, Writes, WriteFails, LimitReached
  <1>7. ASSUME closingClose PROVE ReleasedWhenClosing'
    BY <1>7 DEF closingClose, closeReceiver, canSend, ClosingReturns
  <1>8. ASSUME NEW r \in Requests, attachReceiver(r) PROVE ReleasedWhenClosing'
    BY <1>8 DEF attachReceiver, AttachPC, NoneAttached
  <1>9. ASSUME NEW r \in Requests, closeByWatcher(r) PROVE ReleasedWhenClosing'
    BY <1>9 DEF closeByWatcher, CloseSession, NotYetClosed
  <1>10. ASSUME NEW a \in Apps, sendMessage(a) PROVE ReleasedWhenClosing'
    BY <1>10 DEF sendMessage, AppRuns, canSend
  <1>11. ASSUME NEW t \in Closers, closingDetached(t) PROVE ReleasedWhenClosing'
    BY <1>11 DEF closingDetached, closeRecvBuffer, ClosingReturns
  <1>12. ASSUME NEW t \in Closers, closingAttached(t) PROVE ReleasedWhenClosing'
    BY <1>12 DEF closingAttached, closeRecvBuffer
  <1>13. ASSUME closeByTimer PROVE ReleasedWhenClosing'
    BY <1>13 DEF closeByTimer, CloseSession, NotYetClosed
  <1>14. ASSUME NEW r \in Requests, Arrival(r) \/ Disconnect(r) \/ interrupt(r) \/
              attachRefused(r) \/ startHandlerOnce(r) \/ awaitReceiver(r) \/ refuse(r) \/
              refuseClose(r) \/ detachReceiver(r)
       PROVE  ReleasedWhenClosing'
    BY <1>14 DEF Arrival, xhrPoll, xhrStreaming, eventSource, htmlFile, jsonp, arrive,
       badCallback, Disconnect, interrupt, attachRefused, startHandlerOnce, awaitReceiver,
       refuse, refuseClose, detachReceiver
  <1>15. ASSUME NEW a \in Apps, NEW code \in CloseCodes, Close(a, code)
       PROVE  ReleasedWhenClosing'
    BY <1>15 DEF Close
  <1>16. ASSUME NEW t \in Closers, closingAgain(t) PROVE ReleasedWhenClosing'
    BY <1>16 DEF closingAgain
  <1>17. ASSUME timerFires \/ heartbeat \/ unregister PROVE ReleasedWhenClosing'
    BY <1>17 DEF timerFires, heartbeat, unregister
  <1>18. ASSUME NEW k \in TimerKind, orphanFires(k) PROVE ReleasedWhenClosing'
    BY <1>18 DEF orphanFires
  <1> QED
    BY <1>1, <1>2, <1>3, <1>4, <1>5, <1>6, <1>7, <1>8, <1>9, <1>10, <1>11, <1>12, <1>13,
       <1>14, <1>15, <1>16, <1>17, <1>18 DEF Next, InMux, HandlerStep, WatcherStep,
       ClosingStep, Application

\* Once a close frame was written the session is closing, and Close sets no other.
LEMMA OneCloseFrameStep ==
  ASSUME TypeOK, CloseInv, OneCloseFrame, Next
  PROVE  OneCloseFrame'
  <1> USE DEF TypeOK, SessType, CloseInv, OneCloseFrame
  <1>1. ASSUME attachCloseFrame PROVE OneCloseFrame'
    BY <1>1 DEF attachCloseFrame, AttachFails, sendCloseFrame, sendFrame, Writes,
       WriteFails, LimitReached
  <1>2. ASSUME closingFrame PROVE OneCloseFrame'
    BY <1>2 DEF closingFrame, sendCloseFrame, sendFrame, Writes, WriteFails, LimitReached
  <1>3. ASSUME NEW a \in Apps, NEW code \in CloseCodes, Close(a, code) PROVE OneCloseFrame'
    BY <1>3 DEF Close, AppRuns, MaySetCloseFrame
  <1>4. ASSUME attachClose \/ attachOpen \/ attachBulk \/ sendMessageBulk \/ closingClose \/
              closeByTimer \/ timerFires \/ heartbeat \/ unregister
       PROVE  OneCloseFrame'
    BY <1>4 DEF attachClose, attachOpen, AttachFails, attachBulk, sendMessageBulk,
       closingClose, closeByTimer, CloseSession, timerFires, heartbeat, unregister
  <1>5. ASSUME NEW r \in Requests, Arrival(r) \/ Disconnect(r) \/ interrupt(r) \/
              attachRefused(r) \/ attachReceiver(r) \/ startHandlerOnce(r) \/ awaitReceiver(r) \/
              refuse(r) \/ refuseClose(r) \/ detachReceiver(r) \/ closeByWatcher(r)
       PROVE  OneCloseFrame'
    BY <1>5 DEF Arrival, xhrPoll, xhrStreaming, eventSource, htmlFile, jsonp, arrive,
       badCallback, Disconnect, interrupt, attachRefused, attachReceiver, startHandlerOnce,
       awaitReceiver, refuse, refuseClose, detachReceiver, closeByWatcher, CloseSession
  <1>6. ASSUME NEW a \in Apps, sendMessage(a) PROVE OneCloseFrame'
    BY <1>6 DEF sendMessage
  <1>7. ASSUME NEW t \in Closers, closingAgain(t) \/ closingDetached(t) \/
              closingAttached(t)
       PROVE  OneCloseFrame'
    BY <1>7 DEF closingAgain, closingDetached, closingAttached
  <1>8. ASSUME NEW k \in TimerKind, orphanFires(k) PROVE OneCloseFrame'
    BY <1>8 DEF orphanFires
  <1> QED
    BY <1>1, <1>2, <1>3, <1>4, <1>5, <1>6, <1>7, <1>8 DEF Next, InMux, HandlerStep,
       WatcherStep, ClosingStep, Application

\* Every step that takes the pending expiry of an idle session leaves another one.
LEMMA ExpiryPendingStep ==
  ASSUME TypeOK, LockInv, ExpiryPending, Next
  PROVE  ExpiryPending'
  <1> USE DEF TypeOK, SessType, LockType, ThreadType, TimerType, Closers, CallbackPC,
     TimerKind, LockInv, AttachPCs, ClosingPCs, AtClosing, TimerExpired, ExpiryPending
  <1>1. ASSUME attachOpen PROVE ExpiryPending'
    BY <1>1 DEF attachOpen, AttachFails, sendFrame, Writes, WriteFails, LimitReached,
       OpenedState
  <1>2. ASSUME attachBulk PROVE ExpiryPending'
    BY <1>2 DEF attachBulk, AttachFails, BulkFails, sendBulk, sendFrame, Writes, WriteFails,
       LimitReached
  <1>3. ASSUME closingClose PROVE ExpiryPending'
    BY <1>3 DEF closingClose, closeReceiver, canSend, ClosingReturns
  <1>4. ASSUME NEW r \in Requests, attachReceiver(r) PROVE ExpiryPending'
    BY <1>4 DEF attachReceiver, AttachPC, NoneAttached
  <1>5. ASSUME NEW r \in Requests, detachReceiver(r) PROVE ExpiryPending'
    BY <1>5 DEF detachReceiver, ExpiryTimer, AfterDetach, Ended
  <1>6. ASSUME NEW r \in Requests, closeByWatcher(r) PROVE ExpiryPending'
    BY <1>6 DEF closeByWatcher, CloseSession, NotYetClosed
  <1>7. ASSUME NEW t \in Closers, closingAgain(t) PROVE ExpiryPending'
    BY <1>7 DEF closingAgain, ClosingReturns
  <1>8. ASSUME NEW t \in Closers, closingDetached(t) PROVE ExpiryPending'
    BY <1>8 DEF closingDetached, closeRecvBuffer, ClosingReturns
  <1>9. ASSUME NEW t \in Closers, closingAttached(t) PROVE ExpiryPending'
    BY <1>9 DEF closingAttached, closeRecvBuffer
  <1>10. ASSUME closeByTimer PROVE ExpiryPending'
    BY <1>10 DEF closeByTimer, CloseSession, NotYetClosed
  <1>11. ASSUME timerFires PROVE ExpiryPending'
    BY <1>11 DEF timerFires
  <1>12. ASSUME NEW k \in TimerKind, orphanFires(k) PROVE ExpiryPending'
    BY <1>12 DEF orphanFires
  <1>13. ASSUME heartbeat PROVE ExpiryPending'
    BY <1>13 DEF heartbeat, sendFrame, Writes, WriteFails, LimitReached, NextHeartbeat
  <1>14. ASSUME attachCloseFrame \/ attachClose \/ sendMessageBulk \/ closingFrame \/
              unregister
       PROVE  ExpiryPending'
    BY <1>14 DEF attachCloseFrame, AttachFails, attachClose, sendMessageBulk, closingFrame,
       unregister
  <1>15. ASSUME NEW r \in Requests, Arrival(r) \/ Disconnect(r) \/ interrupt(r) \/
              attachRefused(r) \/ startHandlerOnce(r) \/ awaitReceiver(r) \/ refuse(r) \/
              refuseClose(r)
       PROVE  ExpiryPending'
    BY <1>15 DEF Arrival, xhrPoll, xhrStreaming, eventSource, htmlFile, jsonp, arrive,
       badCallback, Disconnect, interrupt, attachRefused, startHandlerOnce, awaitReceiver,
       refuse, refuseClose
  <1>16. ASSUME NEW a \in Apps, sendMessage(a) PROVE ExpiryPending'
    BY <1>16 DEF sendMessage
  <1>17. ASSUME NEW a \in Apps, NEW code \in CloseCodes, Close(a, code) PROVE ExpiryPending'
    BY <1>17 DEF Close
  <1> QED
    BY <1>1, <1>2, <1>3, <1>4, <1>5, <1>6, <1>7, <1>8, <1>9, <1>10, <1>11, <1>12, <1>13,
       <1>14, <1>15, <1>16, <1>17 DEF Next, InMux, HandlerStep, WatcherStep, ClosingStep,
       Application

\* The same for the heartbeat of an attached receiver.
LEMMA HeartbeatPendingStep ==
  ASSUME TypeOK, LockInv, HeartbeatPending, Next
  PROVE  HeartbeatPending'
  <1> USE DEF TypeOK, SessType, LockType, ThreadType, TimerType, Closers, RecvType,
     CallbackPC, TimerKind, LockInv, AttachPCs, ClosingPCs, HeartbeatPending
  <1>1. ASSUME attachCloseFrame PROVE HeartbeatPending'
    BY <1>1 DEF attachCloseFrame, AttachFails, sendCloseFrame, sendFrame, Writes,
       WriteFails, LimitReached
  <1>2. ASSUME attachClose PROVE HeartbeatPending'
    BY <1>2 DEF attachClose, closeReceiver, canSend
  <1>3. ASSUME attachOpen PROVE HeartbeatPending'
    BY <1>3 DEF attachOpen, AttachFails, sendFrame, Writes, WriteFails, LimitReached,
       OpenedState
  <1>4. ASSUME attachBulk PROVE HeartbeatPending'
    BY <1>4 DEF attachBulk, AttachFails, BulkFails, sendBulk, sendFrame, Writes, WriteFails,
       LimitReached
  <1>5. ASSUME sendMessageBulk PROVE HeartbeatPending'
    BY <1>5 DEF sendMessageBulk, BulkFails, sendBulk, sendFrame, Writes, WriteFails,
       LimitReached, Flushed
  <1>6. ASSUME closingFrame PROVE HeartbeatPending'
    BY <1>6 DEF closingFrame, sendCloseFrame, sendFrame, Writes, WriteFails, LimitReached
  <1>7. ASSUME closingClose PROVE HeartbeatPending'
    BY <1>7 DEF closingClose, closeReceiver, canSend, ClosingReturns
  <1>8. ASSUME NEW r \in Requests, Arrival(r) PROVE HeartbeatPending'
    BY <1>8 DEF Arrival, xhrPoll, xhrStreaming, eventSource, htmlFile, jsonp, arrive,
       badCallback
  <1>9. ASSUME NEW r \in Requests, interrupt(r) PROVE HeartbeatPending'
    BY <1>9 DEF interrupt
  <1>10. ASSUME NEW r \in Requests, attachRefused(r) PROVE HeartbeatPending'
    BY <1>10 DEF attachRefused, NoneAttached
  <1>11. ASSUME NEW r \in Requests, attachReceiver(r) PROVE HeartbeatPending'
    BY <1>11 DEF attachReceiver, AttachPC, NoneAttached
  <1>12. ASSUME NEW r \in Requests, startHandlerOnce(r) PROVE HeartbeatPending'
    BY <1>12 DEF startHandlerOnce
  <1>13. ASSUME NEW r \in Requests, awaitReceiver(r) PROVE HeartbeatPending'
    BY <1>13 DEF awaitReceiver, Ended
  <1>14. ASSUME NEW r \in Requests, refuse(r) PROVE HeartbeatPending'
    BY <1>14 DEF refuse, sendFrame, Writes, WriteFails, LimitReached
  <1>15. ASSUME NEW r \in Requests, refuseClose(r) PROVE HeartbeatPending'
    BY <1>15 DEF refuseClose, closeReceiver, canSend
  <1>16. ASSUME NEW r \in Requests, detachReceiver(r) PROVE HeartbeatPending'
    BY <1>16 DEF detachReceiver, ExpiryTimer, AfterDetach, Ended
  <1>17. ASSUME NEW r \in Requests, closeByWatcher(r) PROVE HeartbeatPending'
    BY <1>17 DEF closeByWatcher, CloseSession, NotYetClosed
  <1>18. ASSUME NEW t \in Closers, closingAgain(t) PROVE HeartbeatPending'
    BY <1>18 DEF closingAgain, ClosingReturns
  <1>19. ASSUME NEW t \in Closers, closingDetached(t) PROVE HeartbeatPending'
    BY <1>19 DEF closingDetached, closeRecvBuffer, ClosingReturns
  <1>20. ASSUME NEW t \in Closers, closingAttached(t) PROVE HeartbeatPending'
    BY <1>20 DEF closingAttached, closeRecvBuffer
  <1>21. ASSUME closeByTimer PROVE HeartbeatPending'
    BY <1>21 DEF closeByTimer, CloseSession, NotYetClosed
  <1>22. ASSUME timerFires PROVE HeartbeatPending'
    BY <1>22 DEF timerFires
  <1>23. ASSUME NEW k \in TimerKind, orphanFires(k) PROVE HeartbeatPending'
    BY <1>23 DEF orphanFires
  <1>24. ASSUME heartbeat PROVE HeartbeatPending'
    BY <1>24 DEF heartbeat, sendFrame, Writes, WriteFails, LimitReached, NextHeartbeat
  <1>25. ASSUME NEW r \in Requests, Disconnect(r) PROVE HeartbeatPending'
    BY <1>25 DEF Disconnect
  <1>26. ASSUME NEW a \in Apps, sendMessage(a) PROVE HeartbeatPending'
    BY <1>26 DEF sendMessage
  <1>27. ASSUME NEW a \in Apps, NEW code \in CloseCodes, Close(a, code)
       PROVE  HeartbeatPending'
    BY <1>27 DEF Close
  <1>28. ASSUME unregister PROVE HeartbeatPending'
    BY <1>28 DEF unregister
  <1> QED
    BY <1>1, <1>2, <1>3, <1>4, <1>5, <1>6, <1>7, <1>8, <1>9, <1>10, <1>11, <1>12, <1>13,
       <1>14, <1>15, <1>16, <1>17, <1>18, <1>19, <1>20, <1>21, <1>22, <1>23, <1>24, <1>25,
       <1>26, <1>27, <1>28 DEF Next, InMux, HandlerStep, WatcherStep, ClosingStep,
       Application

\* The life of a request around attachReceiver.
LEMMA RequestInvStep ==
  ASSUME TypeOK, LockInv, WatcherOwnsReceiver, RequestInv, Next
  PROVE  RequestInv'
  <1> USE DEF TypeOK, SessType, LockType, ThreadType, TimerType, Closers, RecvType,
     HandlerPC, ReceiverState, LockInv, AttachPCs, ClosingPCs, RequestInv,
     WatcherOwnsReceiver
  <1>1. ASSUME attachCloseFrame PROVE RequestInv'
    BY <1>1 DEF attachCloseFrame, AttachFails, sendCloseFrame, sendFrame, Writes,
       WriteFails, LimitReached
  <1>2. ASSUME attachClose PROVE RequestInv'
    BY <1>2 DEF attachClose, closeReceiver, canSend
  <1>3. ASSUME attachOpen PROVE RequestInv'
    BY <1>3 DEF attachOpen, AttachFails, sendFrame, Writes, WriteFails, LimitReached,
       OpenedState
  <1>4. ASSUME attachBulk PROVE RequestInv'
    BY <1>4 DEF attachBulk, AttachFails, BulkFails, sendBulk, sendFrame, Writes, WriteFails,
       LimitReached
  <1>5. ASSUME sendMessageBulk PROVE RequestInv'
    BY <1>5 DEF sendMessageBulk, BulkFails, sendBulk, sendFrame, Writes, WriteFails,
       LimitReached, Flushed
  <1>6. ASSUME closingFrame PROVE RequestInv'
    BY <1>6 DEF closingFrame, sendCloseFrame, sendFrame, Writes, WriteFails, LimitReached
  <1>7. ASSUME closingClose PROVE RequestInv'
    BY <1>7 DEF closingClose, closeReceiver, canSend, ClosingReturns
  <1>8. ASSUME NEW r \in Requests, Arrival(r) PROVE RequestInv'
    BY <1>8 DEF Arrival, xhrPoll, xhrStreaming, eventSource, htmlFile, jsonp, arrive,
       badCallback
  <1>9. ASSUME NEW r \in Requests, Disconnect(r) PROVE RequestInv'
    BY <1>9 DEF Disconnect
  <1>10. ASSUME NEW r \in Requests, interrupt(r) PROVE RequestInv'
    BY <1>10 DEF interrupt
  <1>11. ASSUME NEW r \in Requests, attachRefused(r) PROVE RequestInv'
    BY <1>11 DEF attachRefused, NoneAttached
  <1>12. ASSUME NEW r \in Requests, attachReceiver(r) PROVE RequestInv'
    BY <1>12 DEF attachReceiver, AttachPC, NoneAttached
  <1>13. ASSUME NEW r \in Requests, startHandlerOnce(r) PROVE RequestInv'
    BY <1>13 DEF startHandlerOnce
  <1>14. ASSUME NEW r \in Requests, awaitReceiver(r) PROVE RequestInv'
    BY <1>14 DEF awaitReceiver, Ended
  <1>15. ASSUME NEW r \in Requests, refuse(r) PROVE RequestInv'
    BY <1>15 DEF refuse, sendFrame, Writes, WriteFails, LimitReached
  <1>16. ASSUME NEW r \in Requests, refuseClose(r) PROVE RequestInv'
    BY <1>16 DEF refuseClose, closeReceiver, canSend
  <1>17. ASSUME NEW r \in Requests, detachReceiver(r) PROVE RequestInv'
    BY <1>17 DEF detachReceiver, ExpiryTimer, AfterDetach, Ended
  <1>18. ASSUME NEW r \in Requests, closeByWatcher(r) PROVE RequestInv'
    BY <1>18 DEF closeByWatcher, CloseSession, NotYetClosed
  <1>19. ASSUME NEW a \in Apps, sendMessage(a) PROVE RequestInv'
    BY <1>19 DEF sendMessage, AppRuns, canSend
  <1>20. ASSUME NEW t \in Closers, closingDetached(t) PROVE RequestInv'
    BY <1>20 DEF closingDetached, closeRecvBuffer, ClosingReturns
  <1>21. ASSUME NEW t \in Closers, closingAttached(t) PROVE RequestInv'
    BY <1>21 DEF closingAttached, closeRecvBuffer
  <1>22. ASSUME closeByTimer PROVE RequestInv'
    BY <1>22 DEF closeByTimer, CloseSession, NotYetClosed
  <1>23. ASSUME heartbeat PROVE RequestInv'
    BY <1>23 DEF heartbeat, sendFrame, Writes, WriteFails, LimitReached, NextHeartbeat
  <1>24. ASSUME NEW a \in Apps, NEW code \in CloseCodes, Close(a, code) PROVE RequestInv'
    BY <1>24 DEF Close
  <1>25. ASSUME NEW t \in Closers, closingAgain(t) PROVE RequestInv'
    BY <1>25 DEF closingAgain, ClosingReturns
  <1>26. ASSUME timerFires \/ unregister PROVE RequestInv'
    BY <1>26 DEF timerFires, unregister
  <1>27. ASSUME NEW k \in TimerKind, orphanFires(k) PROVE RequestInv'
    BY <1>27 DEF orphanFires
  <1> QED
    BY <1>1, <1>2, <1>3, <1>4, <1>5, <1>6, <1>7, <1>8, <1>9, <1>10, <1>11, <1>12, <1>13,
       <1>14, <1>15, <1>16, <1>17, <1>18, <1>19, <1>20, <1>21, <1>22, <1>23, <1>24, <1>25,
       <1>26, <1>27 DEF Next, InMux, HandlerStep, WatcherStep, ClosingStep, Application

\* A receiver that is given messages has not ended normally.
LEMMA BulkInvStep ==
  ASSUME TypeOK, LockInv, StartInv, RequestInv, BulkInv, Next
  PROVE  BulkInv'
  <1> USE DEF TypeOK, SessType, LockType, ThreadType, TimerType, Closers, RecvType,
     ReceiverState, LockInv, AttachPCs, ClosingPCs, StartInv, RequestInv, BulkInv
  <1>1. ASSUME attachCloseFrame PROVE BulkInv'
    BY <1>1 DEF attachCloseFrame, AttachFails, sendCloseFrame, sendFrame, Writes,
       WriteFails, LimitReached
  <1>2. ASSUME attachClose PROVE BulkInv'
    BY <1>2 DEF attachClose, closeReceiver, canSend
  <1>3. ASSUME attachOpen PROVE BulkInv'
    BY <1>3 DEF attachOpen, AttachFails, sendFrame, Writes, WriteFails, LimitReached,
       OpenedState
  <1>4. ASSUME attachBulk PROVE BulkInv'
    BY <1>4 DEF attachBulk, AttachFails, BulkFails, sendBulk, sendFrame, Writes, WriteFails,
       LimitReached
  <1>5. ASSUME sendMessageBulk PROVE BulkInv'
    BY <1>5 DEF sendMessageBulk, BulkFails, sendBulk, sendFrame, Writes, WriteFails,
       LimitReached, Flushed
  <1>6. ASSUME closingFrame PROVE BulkInv'
    BY <1>6 DEF closingFrame, sendCloseFrame, sendFrame, Writes, WriteFails, LimitReached
  <1>7. ASSUME closingClose PROVE BulkInv'
    BY <1>7 DEF closingClose, closeReceiver, canSend, ClosingReturns
  <1>8. ASSUME NEW r \in Requests, Arrival(r) PROVE BulkInv'
    BY <1>8 DEF Arrival, xhrPoll, xhrStreaming, eventSource, htmlFile, jsonp, arrive,
       badCallback
  <1>9. ASSUME NEW r \in Requests, interrupt(r) PROVE BulkInv'
    BY <1>9 DEF interrupt
  <1>10. ASSUME NEW r \in Requests, attachReceiver(r) PROVE BulkInv'
    BY <1>10 DEF attachReceiver, AttachPC, NoneAttached
  <1>11. ASSUME NEW r \in Requests, refuse(r) PROVE BulkInv'
    BY <1>11 DEF refuse, sendFrame, Writes, WriteFails, LimitReached
  <1>12. ASSUME NEW r \in Requests, refuseClose(r) PROVE BulkInv'
    BY <1>12 DEF refuseClose, closeReceiver, canSend
  <1>13. ASSUME NEW r \in Requests, detachReceiver(r) PROVE BulkInv'
    BY <1>13 DEF detachReceiver, ExpiryTimer, AfterDetach, Ended
  <1>14. ASSUME NEW a \in Apps, sendMessage(a) PROVE BulkInv'
    BY <1>14 DEF sendMessage, AppRuns, canSend
  <1>15. ASSUME NEW t \in Closers, closingAttached(t) PROVE BulkInv'
    BY <1>15 DEF closingAttached, closeRecvBuffer
  <1>16. ASSUME heartbeat PROVE BulkInv'
    BY <1>16 DEF heartbeat, sendFrame, Writes, WriteFails, LimitReached, NextHeartbeat
  <1>17. ASSUME NEW r \in Requests, Disconnect(r) \/ attachRefused(r) \/ startHandlerOnce(r)
              \/ awaitReceiver(r) \/ closeByWatcher(r)
       PROVE  BulkInv'
    BY <1>17 DEF Disconnect, attachRefused, startHandlerOnce, awaitReceiver, closeByWatcher,
       CloseSession
  <1>18. ASSUME NEW a \in Apps, NEW code \in CloseCodes, Close(a, code) PROVE BulkInv'
    BY <1>18 DEF Close
  <1>19. ASSUME NEW t \in Closers, closingAgain(t) \/ closingDetached(t) PROVE BulkInv'
    BY <1>19 DEF closingAgain, closingDetached
  <1>20. ASSUME closeByTimer \/ timerFires \/ unregister PROVE BulkInv'
    BY <1>20 DEF closeByTimer, CloseSession, timerFires, unregister
  <1>21. ASSUME NEW k \in TimerKind, orphanFires(k) PROVE BulkInv'
    BY <1>21 DEF orphanFires
  <1> QED
    BY <1>1, <1>2, <1>3, <1>4, <1>5, <1>6, <1>7, <1>8, <1>9, <1>10, <1>11, <1>12, <1>13,
       <1>14, <1>15, <1>16, <1>17, <1>18, <1>19, <1>20, <1>21 DEF Next, InMux, HandlerStep,
       WatcherStep, ClosingStep, Application

-----------------------------------------------------------------------------
(* Sequences.                                                              *)

\* What Append adds.
LEMMA ContainsAppend ==
  ASSUME NEW S, NEW seq \in Seq(S), NEW x \in S, NEW y
  PROVE  Contains(Append(seq, x), y) <=> Contains(seq, y) \/ x = y
  <1>1. /\ Len(Append(seq, x)) = Len(seq) + 1
        /\ \A i \in 1..Len(seq) : Append(seq, x)[i] = seq[i]
        /\ Append(seq, x)[Len(seq) + 1] = x
        /\ Len(seq) \in Nat
    OBVIOUS
  <1> QED
    BY <1>1 DEF Contains

\* The positions of a concatenation.
LEMMA ConcatFacts ==
  ASSUME NEW S, NEW s \in Seq(S), NEW t \in Seq(S)
  PROVE  /\ Len(s \o t) = Len(s) + Len(t)
         /\ \A i \in 1..Len(s) : (s \o t)[i] = s[i]
         /\ \A i \in 1..Len(t) : (s \o t)[Len(s) + i] = t[i]
         /\ s \o t \in Seq(S)
  OBVIOUS

\* What a concatenation contains.
LEMMA ContainsConcat ==
  ASSUME NEW S, NEW s \in Seq(S), NEW t \in Seq(S), NEW y
  PROVE  Contains(s \o t, y) <=> Contains(s, y) \/ Contains(t, y)
  <1>1. Len(s) \in Nat /\ Len(t) \in Nat
    OBVIOUS
  <1>2. ASSUME NEW i \in 1..Len(t), t[i] = y PROVE Contains(s \o t, y)
    <2>1. Len(s) + i \in 1..Len(s \o t) /\ (s \o t)[Len(s) + i] = y
      BY <1>1, <1>2, ConcatFacts
    <2> QED
      BY <2>1 DEF Contains
  <1>3. Contains(s, y) => Contains(s \o t, y)
    BY <1>1, ConcatFacts DEF Contains
  <1>4. ASSUME NEW i \in 1..Len(s \o t), (s \o t)[i] = y PROVE Contains(s, y) \/ Contains(t, y)
    <2>1. CASE i <= Len(s)
      BY <1>1, <1>4, <2>1, ConcatFacts DEF Contains
    <2>2. CASE i > Len(s)
      <3>1. i - Len(s) \in 1..Len(t) /\ t[i - Len(s)] = y
        BY <1>1, <1>4, <2>2, ConcatFacts
      <3> QED
        BY <3>1 DEF Contains
    <2> QED
      BY <1>1, <2>1, <2>2
  <1> QED
    BY <1>2, <1>3, <1>4 DEF Contains

\* Append commutes with concatenation on the left.
LEMMA ConcatAppend ==
  ASSUME NEW S, NEW s \in Seq(S), NEW t \in Seq(S), NEW x \in S
  PROVE  s \o Append(t, x) = Append(s \o t, x)
  OBVIOUS

\* An ascending sequence extended by a larger number.
LEMMA AscendingAppend ==
  ASSUME NEW seq \in Seq(Nat), NEW x \in Nat, \A i \in 1..Len(seq) : seq[i] < x,
         Ascending(seq)
  PROVE  /\ \A i \in 1..Len(Append(seq, x)) : Append(seq, x)[i] <= x
         /\ Ascending(Append(seq, x))
  <1> DEFINE longer == Append(seq, x)
  <1>1. /\ Len(longer) = Len(seq) + 1
        /\ \A i \in 1..Len(seq) : longer[i] = seq[i] /\ seq[i] \in Nat
        /\ longer[Len(seq) + 1] = x
        /\ Len(seq) \in Nat
    OBVIOUS
  <1> HIDE DEF longer
  <1>2. \A i \in 1..Len(longer) : longer[i] <= x
    BY <1>1
  <1>3. ASSUME NEW i \in 1..Len(longer), NEW j \in 1..Len(longer), i < j
        PROVE  longer[i] < longer[j]
    <2>1. i \in 1..Len(seq)
      BY <1>1, <1>3
    <2>2. CASE j \in 1..Len(seq)
      BY <1>1, <1>3, <2>1, <2>2 DEF Ascending
    <2>3. CASE j = Len(seq) + 1
      BY <1>1, <2>1, <2>3
    <2> QED
      BY <1>1, <2>2, <2>3
  <1> QED
    BY <1>2, <1>3 DEF longer, Ascending

-----------------------------------------------------------------------------
(* Frames.                                                                 *)

\* What sendFrame does to the responses: at most one frame more on one of them.
Wrote(r, kind) ==
    /\ \A q \in Requests : q # r => wire'[q] = wire[q] /\ rstate'[q] = rstate[q]
    /\ rstate[r] # "active" => wire'[r] = wire[r] /\ rstate'[r] = rstate[r]
    /\ broken[r] => wire'[r] = wire[r]
    /\ wire'[r] # wire[r] => wire'[r] = Append(wire[r], kind)
    /\ wire'[r] # wire[r] /\ limit[r] = 1 => rstate'[r] # "active"
    /\ \A f : Contains(wire'[r], f) => Contains(wire[r], f) \/ (f = kind /\ Writes(r))
    /\ limit' = limit

\* sendFrame does that, and a response of limit 1 ends with its first frame.
LEMMA SendFrameEffect ==
  ASSUME RecvType, NEW r \in Requests, NEW kind \in FrameKind, NEW n \in Nat \ {0},
         sendFrame(r, kind, n)
  PROVE  Wrote(r, kind)
  <1>1. size[r] \in Nat /\ limit[r] \in Nat /\ wire[r] \in Seq(FrameKind)
    BY DEF RecvType
  <1>2. limit[r] = 1 => LimitReached(r, n)
    BY <1>1 DEF LimitReached
  <1>3. \A f : Contains(Append(wire[r], kind), f) => Contains(wire[r], f) \/ f = kind
    BY <1>1, ContainsAppend
  <1> QED
    BY <1>2, <1>3 DEF RecvType, sendFrame, Writes, Wrote

\* The frames of the responses that are still open.
LEMMA FrameInvStep ==
  ASSUME TypeOK, LockInv, RequestInv, FrameInv, Next
  PROVE  FrameInv'
  <1>1. ASSUME attachCloseFrame PROVE FrameInv'
    BY <1>1 DEF attachCloseFrame, AttachFails, sendCloseFrame, sendFrame, Writes,
       WriteFails, LimitReached, FrameKind, ReceiverState, RecvType, TypeOK, SessType,
       LockType, ThreadType, Closers, LockInv, AttachPCs, ClosingPCs, RequestInv, FrameInv,
       Contains
  <1>2. ASSUME attachClose PROVE FrameInv'
    BY <1>2 DEF attachClose, closeReceiver, canSend, FrameKind, ReceiverState, RecvType,
       TypeOK, SessType, LockType, ThreadType, Closers, LockInv, AttachPCs, ClosingPCs,
       RequestInv, FrameInv, Contains
  <1>3. ASSUME attachOpen PROVE FrameInv'
    BY <1>3 DEF attachOpen, AttachFails, sendFrame, Writes, WriteFails, LimitReached,
       OpenedState, FrameKind, ReceiverState, RecvType, TypeOK, SessType, LockType,
       ThreadType, Closers, LockInv, AttachPCs, ClosingPCs, RequestInv, FrameInv, Contains
  <1>4. ASSUME attachBulk PROVE FrameInv'
    <2>1. holder \in Requests /\ recv = holder
      BY <1>4 DEF attachBulk, LockInv, AttachPCs
    <2>2. CASE UNCHANGED recvVars
      BY <1>4, <2>1, <2>2 DEF attachBulk, AttachFails, LockInv, AttachPCs, TypeOK, ThreadType,
         FrameInv
    <2>3. CASE sendFrame(holder, "a", Len(sendBuffer)) /\ sendBuffer # <<>>
      <3>1. Len(sendBuffer) \in Nat \ {0} /\ "a" \in FrameKind
        BY <2>3 DEF TypeOK, SessType, FrameKind
      <3>2. Wrote(holder, "a")
        BY <2>1, <2>3, <3>1, SendFrameEffect DEF TypeOK
      <3> QED
        BY <1>4, <2>1, <3>2 DEF attachBulk, AttachFails, LockInv, AttachPCs, TypeOK, ThreadType,
           RequestInv, FrameInv, Wrote, Writes
    <2> QED
      BY <1>4, <2>2, <2>3 DEF attachBulk, AttachFails, sendBulk
  <1>5. ASSUME sendMessageBulk PROVE FrameInv'
    <2>1. recv \in Requests
      BY <1>5 DEF sendMessageBulk, LockInv, TypeOK, SessType
    <2>2. CASE UNCHANGED recvVars
      BY <1>5, <2>1, <2>2 DEF sendMessageBulk, FrameInv
    <2>3. CASE sendFrame(recv, "a", Len(sendBuffer)) /\ sendBuffer # <<>>
      <3>1. Len(sendBuffer) \in Nat \ {0} /\ "a" \in FrameKind
        BY <2>3 DEF TypeOK, SessType, FrameKind
      <3>2. Wrote(recv, "a")
        BY <2>1, <2>3, <3>1, SendFrameEffect DEF TypeOK
      <3> QED
        BY <1>5, <2>1, <3>2 DEF sendMessageBulk, FrameInv, Wrote, Writes
    <2> QED
      BY <1>5, <2>2, <2>3 DEF sendMessageBulk, sendBulk
  <1>6. ASSUME closingFrame PROVE FrameInv'
    BY <1>6 DEF closingFrame, sendCloseFrame, sendFrame, Writes, WriteFails, LimitReached,
       FrameKind, ReceiverState, RecvType, TypeOK, SessType, LockType, ThreadType, Closers,
       LockInv, AttachPCs, ClosingPCs, RequestInv, FrameInv, Contains
  <1>7. ASSUME closingClose PROVE FrameInv'
    BY <1>7 DEF closingClose, closeReceiver, canSend, ClosingReturns, FrameKind,
       ReceiverState, RecvType, TypeOK, SessType, LockType, ThreadType, Closers, LockInv,
       AttachPCs, ClosingPCs, RequestInv, FrameInv, Contains
  <1>8. ASSUME NEW r \in Requests, Arrival(r) PROVE FrameInv'
    <2>1. ~Contains(<<>>, "c") /\ ~Contains(<<>>, "busy")
      BY DEF Contains
    <2>2. handler[r] = "idle" => wire[r] = <<>>
      BY DEF RequestInv
    <2> QED
      BY <1>8, <2>1, <2>2 DEF Arrival, xhrPoll, xhrStreaming, eventSource, htmlFile, jsonp,
         arrive, badCallback, TypeOK, SessType, ThreadType, RecvType, LockInv, AttachPCs,
         RequestInv, FrameInv
  <1>9. ASSUME NEW r \in Requests, interrupt(r) PROVE FrameInv'
    BY <1>9 DEF interrupt, FrameKind, ReceiverState, RecvType, TypeOK, SessType, LockType,
       ThreadType, Closers, LockInv, AttachPCs, ClosingPCs, RequestInv, FrameInv, Contains
  <1>10. ASSUME NEW r \in Requests, attachRefused(r) PROVE FrameInv'
    BY <1>10 DEF attachRefused, NoneAttached, FrameKind, ReceiverState, RecvType, TypeOK,
       SessType, LockType, ThreadType, Closers, LockInv, AttachPCs, ClosingPCs, RequestInv,
       FrameInv, Contains
  <1>11. ASSUME NEW r \in Requests, attachReceiver(r) PROVE FrameInv'
    BY <1>11 DEF attachReceiver, AttachPC, NoneAttached, FrameKind, ReceiverState, RecvType,
       TypeOK, SessType, LockType, ThreadType, Closers, LockInv, AttachPCs, ClosingPCs,
       RequestInv, FrameInv, Contains
  <1>12. ASSUME NEW r \in Requests, startHandlerOnce(r) PROVE FrameInv'
    BY <1>12 DEF startHandlerOnce, FrameKind, ReceiverState, RecvType, TypeOK, SessType,
       LockType, ThreadType, Closers, LockInv, AttachPCs, ClosingPCs, RequestInv, FrameInv,
       Contains
  <1>13. ASSUME NEW r \in Requests, awaitReceiver(r) PROVE FrameInv'
    BY <1>13 DEF awaitReceiver, Ended, FrameKind, ReceiverState, RecvType, TypeOK, SessType,
       LockType, ThreadType, Closers, LockInv, AttachPCs, ClosingPCs, RequestInv, FrameInv,
       Contains
  <1>14. ASSUME NEW r \in Requests, refuse(r) PROVE FrameInv'
    <2>1. "busy" \in FrameKind /\ 1 \in Nat \ {0} /\ sendFrame(r, "busy", 1)
      BY <1>14 DEF refuse, FrameKind
    <2>2. Wrote(r, "busy")
      BY <2>1, SendFrameEffect DEF TypeOK
    <2> QED
      BY <1>14, <2>2 DEF refuse, WriteFails, TypeOK, ThreadType, LockInv, AttachPCs, RequestInv,
         FrameInv, Wrote, Writes
  <1>15. ASSUME NEW r \in Requests, refuseClose(r) PROVE FrameInv'
    BY <1>15 DEF refuseClose, closeReceiver, canSend, FrameKind, ReceiverState, RecvType,
       TypeOK, SessType, LockType, ThreadType, Closers, LockInv, AttachPCs, ClosingPCs,
       RequestInv, FrameInv, Contains
  <1>16. ASSUME NEW r \in Requests, detachReceiver(r) PROVE FrameInv'
    BY <1>16 DEF detachReceiver, ExpiryTimer, AfterDetach, Ended, FrameKind, ReceiverState,
       RecvType, TypeOK, SessType, LockType, ThreadType, Closers, LockInv, AttachPCs,
       ClosingPCs, RequestInv, FrameInv, Contains
  <1>17. ASSUME NEW r \in Requests, closeByWatcher(r) PROVE FrameInv'
    BY <1>17 DEF closeByWatcher, CloseSession, NotYetClosed, FrameKind, ReceiverState,
       RecvType, TypeOK, SessType, LockType, ThreadType, Closers, LockInv, AttachPCs,
       ClosingPCs, RequestInv, FrameInv, Contains
  <1>18. ASSUME NEW a \in Apps, sendMessage(a) PROVE FrameInv'
    BY <1>18 DEF sendMessage, AppRuns, canSend, FrameKind, ReceiverState, RecvType, TypeOK,
       SessType, LockType, ThreadType, Closers, LockInv, AttachPCs, ClosingPCs, RequestInv,
       FrameInv, Contains
  <1>19. ASSUME NEW t \in Closers, closingDetached(t) PROVE FrameInv'
    BY <1>19 DEF closingDetached, closeRecvBuffer, ClosingReturns, FrameKind, ReceiverState,
       RecvType, TypeOK, SessType, LockType, ThreadType, Closers, LockInv, AttachPCs,
       ClosingPCs, RequestInv, FrameInv, Contains
  <1>20. ASSUME NEW t \in Closers, closingAttached(t) PROVE FrameInv'
    BY <1>20 DEF closingAttached, closeRecvBuffer, FrameKind, ReceiverState, RecvType,
       TypeOK, SessType, LockType, ThreadType, Closers, LockInv, AttachPCs, ClosingPCs,
       RequestInv, FrameInv, Contains
  <1>21. ASSUME closeByTimer PROVE FrameInv'
    BY <1>21 DEF closeByTimer, CloseSession, NotYetClosed, FrameKind, ReceiverState,
       RecvType, TypeOK, SessType, LockType, ThreadType, Closers, LockInv, AttachPCs,
       ClosingPCs, RequestInv, FrameInv, Contains
  <1>22. ASSUME heartbeat PROVE FrameInv'
    <2>1. CASE recv = None
      BY <1>22, <2>1 DEF heartbeat, FrameInv
    <2>2. CASE recv # None
      <3>1. recv \in Requests /\ "h" \in FrameKind /\ 1 \in Nat \ {0} /\ sendFrame(recv, "h", 1)
        BY <1>22, <2>2 DEF heartbeat, TypeOK, SessType, FrameKind
      <3>2. Wrote(recv, "h")
        BY <3>1, SendFrameEffect DEF TypeOK
      <3> QED
        BY <1>22, <3>1, <3>2 DEF heartbeat, FrameInv, Wrote, Writes
    <2> QED
      BY <2>1, <2>2
  <1>23. ASSUME NEW r \in Requests, Disconnect(r) PROVE FrameInv'
    BY <1>23 DEF Disconnect, FrameKind, ReceiverState, RecvType, TypeOK, SessType, LockType,
       ThreadType, Closers, LockInv, AttachPCs, ClosingPCs, RequestInv, FrameInv, Contains
  <1>24. ASSUME NEW a \in Apps, NEW code \in CloseCodes, Close(a, code) PROVE FrameInv'
    BY <1>24 DEF Close, FrameKind, ReceiverState, RecvType, TypeOK, SessType, LockType,
       ThreadType, Closers, LockInv, AttachPCs, ClosingPCs, RequestInv, FrameInv, Contains
  <1>25. ASSUME NEW t \in Closers, closingAgain(t) PROVE FrameInv'
    BY <1>25 DEF closingAgain, ClosingReturns, FrameKind, ReceiverState, RecvType, TypeOK,
       SessType, LockType, ThreadType, Closers, LockInv, AttachPCs, ClosingPCs, RequestInv,
       FrameInv, Contains
  <1>26. ASSUME timerFires \/ unregister PROVE FrameInv'
    BY <1>26 DEF timerFires, FrameKind, ReceiverState, RecvType, TypeOK, SessType, LockType,
       ThreadType, Closers, LockInv, AttachPCs, ClosingPCs, RequestInv, FrameInv, Contains,
       unregister
  <1>27. ASSUME NEW k \in TimerKind, orphanFires(k) PROVE FrameInv'
    BY <1>27 DEF orphanFires, FrameKind, ReceiverState, RecvType, TypeOK, SessType,
       LockType, ThreadType, Closers, LockInv, AttachPCs, ClosingPCs, RequestInv, FrameInv,
       Contains
  <1> QED
    BY <1>1, <1>2, <1>3, <1>4, <1>5, <1>6, <1>7, <1>8, <1>9, <1>10, <1>11, <1>12, <1>13,
       <1>14, <1>15, <1>16, <1>17, <1>18, <1>19, <1>20, <1>21, <1>22, <1>23, <1>24, <1>25,
       <1>26, <1>27 DEF Next, InMux, HandlerStep, WatcherStep, ClosingStep, Application

\* One step, as seen by one response: nothing, or one frame more, on a receiver
\* that is open and has written no close frame.
FrameAdded(r, kind) ==
    /\ wire'[r] = Append(wire[r], kind)
    /\ limit'[r] = limit[r]
    /\ rstate[r] = "active"
    /\ ~Contains(wire[r], "c")
    /\ ~Contains(wire[r], "busy")
    /\ kind = "o" => mux = "attach.open" /\ recv = r

WriteStep(r) ==
    \/ wire'[r] = wire[r] /\ (limit'[r] = limit[r] \/ wire'[r] = <<>>)
    \/ \E kind \in FrameKind : FrameAdded(r, kind)

\* Every step is a WriteStep of every response.
LEMMA WriteStepStep ==
  ASSUME TypeOK, LockInv, RequestInv, FrameInv, Next, NEW x \in Requests
  PROVE  WriteStep(x)
  <1> USE DEF TypeOK, SessType, RecvType, LockInv, AttachPCs, ClosingPCs, RequestInv,
     FrameInv, FrameKind, WriteStep, FrameAdded
  <1>1. ASSUME attachCloseFrame PROVE WriteStep(x)
    BY <1>1 DEF attachCloseFrame, AttachFails, sendCloseFrame, sendFrame, Writes,
       WriteFails, LimitReached
  <1>2. ASSUME attachOpen PROVE WriteStep(x)
    BY <1>2 DEF attachOpen, AttachFails, sendFrame, Writes, WriteFails, LimitReached,
       OpenedState
  <1>3. ASSUME attachBulk PROVE WriteStep(x)
    BY <1>3 DEF attachBulk, AttachFails, BulkFails, sendBulk, sendFrame, Writes, WriteFails,
       LimitReached
  <1>4. ASSUME sendMessageBulk PROVE WriteStep(x)
    BY <1>4 DEF sendMessageBulk, BulkFails, sendBulk, sendFrame, Writes, WriteFails,
       LimitReached, Flushed
  <1>5. ASSUME closingFrame PROVE WriteStep(x)
    BY <1>5 DEF closingFrame, sendCloseFrame, sendFrame, Writes, WriteFails, LimitReached
  <1>6. ASSUME NEW r \in Requests, Arrival(r) PROVE WriteStep(x)
    BY <1>6 DEF Arrival, xhrPoll, xhrStreaming, eventSource, htmlFile, jsonp, arrive,
       badCallback
  <1>7. ASSUME NEW r \in Requests, refuse(r) PROVE WriteStep(x)
    BY <1>7 DEF refuse, sendFrame, Writes, WriteFails, LimitReached
  <1>8. ASSUME heartbeat PROVE WriteStep(x)
    BY <1>8 DEF heartbeat, sendFrame, Writes, WriteFails, LimitReached, NextHeartbeat
  <1>9. ASSUME attachClose \/ closingClose \/ closeByTimer \/ timerFires \/ unregister
       PROVE  WriteStep(x)
    BY <1>9 DEF attachClose, closeReceiver, closingClose, closeByTimer, CloseSession,
       timerFires, unregister
  <1>10. ASSUME NEW r \in Requests, Disconnect(r) \/ interrupt(r) \/ attachRefused(r) \/
              attachReceiver(r) \/ startHandlerOnce(r) \/ awaitReceiver(r) \/ refuseClose(r) \/
              detachReceiver(r) \/ closeByWatcher(r)
       PROVE  WriteStep(x)
    BY <1>10 DEF Disconnect, interrupt, attachRefused, attachReceiver, startHandlerOnce,
       awaitReceiver, refuseClose, closeReceiver, detachReceiver, closeByWatcher,
       CloseSession
  <1>11. ASSUME NEW a \in Apps, sendMessage(a) PROVE WriteStep(x)
    BY <1>11 DEF sendMessage
  <1>12. ASSUME NEW a \in Apps, NEW code \in CloseCodes, Close(a, code) PROVE WriteStep(x)
    BY <1>12 DEF Close
  <1>13. ASSUME NEW t \in Closers, closingAgain(t) \/ closingDetached(t) \/
              closingAttached(t)
       PROVE  WriteStep(x)
    BY <1>13 DEF closingAgain, closingDetached, closingAttached
  <1>14. ASSUME NEW k \in TimerKind, orphanFires(k) PROVE WriteStep(x)
    BY <1>14 DEF orphanFires
  <1> QED
    BY <1>1, <1>2, <1>3, <1>4, <1>5, <1>6, <1>7, <1>8, <1>9, <1>10, <1>11, <1>12, <1>13,
       <1>14 DEF Next, InMux, HandlerStep, WatcherStep, ClosingStep, Application

\* A close frame is last because nothing is added after it; an open frame is
\* first because it is only written to an empty response.
LEMMA FrameOrderStep ==
  ASSUME TypeOK, FrameInv, FrameOrder, \A r \in Requests : WriteStep(r)
  PROVE  FrameOrder'
  <1> SUFFICES ASSUME NEW r \in Requests, NEW i \in 1..Len(wire'[r])
               PROVE  /\ wire'[r][i] \in {"c", "busy"} => i = Len(wire'[r])
                      /\ wire'[r][i] = "o" => i = 1
    BY DEF FrameOrder
  <1>0. wire[r] \in Seq(FrameKind)
    BY DEF TypeOK, RecvType
  <1>1. CASE wire'[r] = wire[r]
    BY <1>1 DEF FrameOrder
  <1>2. CASE wire'[r] # wire[r]
    <2>1. PICK kind \in FrameKind : FrameAdded(r, kind)
      BY <1>2 DEF WriteStep
    <2>3. /\ Len(wire'[r]) = Len(wire[r]) + 1
          /\ \A j \in 1..Len(wire[r]) : wire'[r][j] = wire[r][j]
          /\ wire'[r][Len(wire[r]) + 1] = kind
          /\ Len(wire[r]) \in Nat
      BY <1>0, <2>1 DEF FrameAdded
    <2>4. kind = "o" => Len(wire[r]) = 0
      BY <2>1 DEF FrameInv, FrameAdded
    <2>5. CASE i = Len(wire[r]) + 1
      BY <2>3, <2>4, <2>5
    <2>6. CASE i \in 1..Len(wire[r])
      BY <2>1, <2>3, <2>6 DEF FrameOrder, Contains, FrameAdded
    <2> QED
      BY <2>3, <2>5, <2>6
  <1> QED
    BY <1>1, <1>2

\* A polling receiver that is still active has written nothing.
LEMMA OneFramePerPollStep ==
  ASSUME TypeOK, FrameInv, OneFramePerPoll, \A r \in Requests : WriteStep(r)
  PROVE  OneFramePerPoll'
  <1> SUFFICES ASSUME NEW r \in Requests, limit'[r] = 1
               PROVE  Len(wire'[r]) <= 1
    BY DEF OneFramePerPoll
  <1>1. WriteStep(r)
    OBVIOUS
  <1>2. CASE wire'[r] = wire[r] /\ (limit'[r] = limit[r] \/ wire'[r] = <<>>)
    BY <1>2 DEF OneFramePerPoll
  <1>3. CASE \E kind \in FrameKind : FrameAdded(r, kind)
    <2>1. PICK kind \in FrameKind : FrameAdded(r, kind)
      BY <1>3
    <2>2. wire[r] = <<>>
      BY <2>1 DEF FrameAdded, FrameInv
    <2> QED
      BY <2>1, <2>2 DEF FrameAdded
  <1> QED
    BY <1>1, <1>2, <1>3 DEF WriteStep

-----------------------------------------------------------------------------
(* Messages.                                                               *)

\* The session is still going to be closed by an interrupted receiver, or is
\* closing.
DyingStays == Dying /\ state' < SessionClosing => Dying'

\* An interruption is not forgotten.
LEMMA DyingStaysStep ==
  ASSUME TypeOK, LockInv, RequestInv, Next
  PROVE  DyingStays
  <1> USE DEF TypeOK, SessType, LockType, ThreadType, RecvType, Closers, LockInv, AttachPCs,
     ClosingPCs, AtClosing, RequestInv, Dying, DyingStays
  <1>1. ASSUME attachCloseFrame PROVE DyingStays
    BY <1>1 DEF attachCloseFrame, AttachFails, sendCloseFrame, sendFrame, Writes,
       WriteFails, LimitReached
  <1>2. ASSUME attachClose PROVE DyingStays
    BY <1>2 DEF attachClose, closeReceiver, canSend
  <1>3. ASSUME attachOpen PROVE DyingStays
    BY <1>3 DEF attachOpen, AttachFails, sendFrame, Writes, WriteFails, LimitReached,
       OpenedState
  <1>4. ASSUME attachBulk PROVE DyingStays
    BY <1>4 DEF attachBulk, AttachFails, BulkFails, sendBulk, sendFrame, Writes, WriteFails,
       LimitReached
  <1>5. ASSUME sendMessageBulk PROVE DyingStays
    BY <1>5 DEF sendMessageBulk, BulkFails, sendBulk, sendFrame, Writes, WriteFails,
       LimitReached, Flushed
  <1>6. ASSUME closingFrame PROVE DyingStays
    BY <1>6 DEF closingFrame, sendCloseFrame, sendFrame, Writes, WriteFails, LimitReached
  <1>7. ASSUME closingClose PROVE DyingStays
    BY <1>7 DEF closingClose, closeReceiver, canSend, ClosingReturns
  <1>8. ASSUME NEW r \in Requests, Arrival(r) PROVE DyingStays
    BY <1>8 DEF Arrival, xhrPoll, xhrStreaming, eventSource, htmlFile, jsonp, arrive,
       badCallback
  <1>9. ASSUME NEW r \in Requests, interrupt(r) PROVE DyingStays
    BY <1>9 DEF interrupt
  <1>10. ASSUME NEW r \in Requests, attachReceiver(r) PROVE DyingStays
    BY <1>10 DEF attachReceiver, AttachPC, NoneAttached
  <1>11. ASSUME NEW r \in Requests, refuse(r) PROVE DyingStays
    BY <1>11 DEF refuse, sendFrame, Writes, WriteFails, LimitReached
  <1>12. ASSUME NEW r \in Requests, refuseClose(r) PROVE DyingStays
    BY <1>12 DEF refuseClose, closeReceiver, canSend
  <1>13. ASSUME NEW r \in Requests, detachReceiver(r) PROVE DyingStays
    BY <1>13 DEF detachReceiver, ExpiryTimer, AfterDetach, Ended
  <1>14. ASSUME NEW r \in Requests, closeByWatcher(r) PROVE DyingStays
    BY <1>14 DEF closeByWatcher, CloseSession, NotYetClosed
  <1>15. ASSUME NEW t \in Closers, closingAgain(t) PROVE DyingStays
    BY <1>15 DEF closingAgain, ClosingReturns
  <1>16. ASSUME NEW t \in Closers, closingDetached(t) PROVE DyingStays
    BY <1>16 DEF closingDetached, closeRecvBuffer, ClosingReturns
  <1>17. ASSUME heartbeat PROVE DyingStays
    BY <1>17 DEF heartbeat, sendFrame, Writes, WriteFails, LimitReached, NextHeartbeat
  <1>18. ASSUME NEW r \in Requests, Disconnect(r) \/ attachRefused(r) \/ startHandlerOnce(r)
              \/ awaitReceiver(r)
       PROVE  DyingStays
    BY <1>18 DEF Disconnect, attachRefused, startHandlerOnce, awaitReceiver
  <1>19. ASSUME NEW a \in Apps, sendMessage(a) PROVE DyingStays
    BY <1>19 DEF sendMessage
  <1>20. ASSUME NEW a \in Apps, NEW code \in CloseCodes, Close(a, code) PROVE DyingStays
    BY <1>20 DEF Close
  <1>21. ASSUME NEW t \in Closers, closingAttached(t) PROVE DyingStays
    BY <1>21 DEF closingAttached
  <1>22. ASSUME closeByTimer \/ timerFires \/ unregister PROVE DyingStays
    BY <1>22 DEF closeByTimer, CloseSession, timerFires, unregister
  <1>23. ASSUME NEW k \in TimerKind, orphanFires(k) PROVE DyingStays
    BY <1>23 DEF orphanFires
  <1> QED
    BY <1>1, <1>2, <1>3, <1>4, <1>5, <1>6, <1>7, <1>8, <1>9, <1>10, <1>11, <1>12, <1>13,
       <1>14, <1>15, <1>16, <1>17, <1>18, <1>19, <1>20, <1>21, <1>22, <1>23 DEF Next, InMux,
       HandlerStep, WatcherStep, ClosingStep, Application

\* A session's state never goes back.
LEMMA StateGrows ==
  ASSUME TypeOK, LockInv, Next
  PROVE  state' \in state..SessionClosed
  <1> USE DEF TypeOK, SessType, LockInv
  <1>1. ASSUME attachOpen PROVE state' \in state..SessionClosed
    BY <1>1 DEF attachOpen, AttachFails, sendFrame, Writes, WriteFails, LimitReached,
       OpenedState
  <1>2. ASSUME NEW r \in Requests, closeByWatcher(r) PROVE state' \in state..SessionClosed
    BY <1>2 DEF closeByWatcher, CloseSession, NotYetClosed
  <1>3. ASSUME NEW t \in Closers, closingDetached(t) PROVE state' \in state..SessionClosed
    BY <1>3 DEF closingDetached, closeRecvBuffer, ClosingReturns
  <1>4. ASSUME NEW t \in Closers, closingAttached(t) PROVE state' \in state..SessionClosed
    BY <1>4 DEF closingAttached, closeRecvBuffer
  <1>5. ASSUME closeByTimer PROVE state' \in state..SessionClosed
    BY <1>5 DEF closeByTimer, CloseSession, NotYetClosed
  <1>6. ASSUME attachCloseFrame \/ attachClose \/ attachBulk \/ sendMessageBulk \/
              closingFrame \/ closingClose \/ timerFires \/ heartbeat \/ unregister
       PROVE  state' \in state..SessionClosed
    BY <1>6 DEF attachCloseFrame, AttachFails, attachClose, attachBulk, sendMessageBulk,
       closingFrame, closingClose, timerFires, heartbeat, unregister
  <1>7. ASSUME NEW r \in Requests, Arrival(r) \/ Disconnect(r) \/ interrupt(r) \/
              attachRefused(r) \/ attachReceiver(r) \/ startHandlerOnce(r) \/ awaitReceiver(r) \/
              refuse(r) \/ refuseClose(r) \/ detachReceiver(r)
       PROVE  state' \in state..SessionClosed
    BY <1>7 DEF Arrival, xhrPoll, xhrStreaming, eventSource, htmlFile, jsonp, arrive,
       badCallback, Disconnect, interrupt, attachRefused, attachReceiver, startHandlerOnce,
       awaitReceiver, refuse, refuseClose, detachReceiver
  <1>8. ASSUME NEW a \in Apps, sendMessage(a) PROVE state' \in state..SessionClosed
    BY <1>8 DEF sendMessage
  <1>9. ASSUME NEW a \in Apps, NEW code \in CloseCodes, Close(a, code)
       PROVE  state' \in state..SessionClosed
    BY <1>9 DEF Close
  <1>10. ASSUME NEW t \in Closers, closingAgain(t) PROVE state' \in state..SessionClosed
    BY <1>10 DEF closingAgain
  <1>11. ASSUME NEW k \in TimerKind, orphanFires(k) PROVE state' \in state..SessionClosed
    BY <1>11 DEF orphanFires
  <1> QED
    BY <1>1, <1>2, <1>3, <1>4, <1>5, <1>6, <1>7, <1>8, <1>9, <1>10, <1>11 DEF Next, InMux,
       HandlerStep, WatcherStep, ClosingStep, Application

\* The open frame is written in the one step that makes the session active.
LEMMA OpenFrameOnceStep ==
  ASSUME TypeOK, LockInv, RequestInv, WatcherOwnsReceiver, BulkInv, FrameInv, OpenFrameOnce,
         Next
  PROVE  OpenFrameOnce'
  <1>1. \A r \in Requests : Contains(wire'[r], "o") =>
            \/ Contains(wire[r], "o")
            \/ mux = "attach.open" /\ recv = r
    <2> SUFFICES ASSUME NEW r \in Requests, Contains(wire'[r], "o"), ~Contains(wire[r], "o")
                 PROVE  mux = "attach.open" /\ recv = r
      OBVIOUS
    <2>1. WriteStep(r) /\ wire'[r] # wire[r]
      BY WriteStepStep
    <2>2. PICK kind \in FrameKind : FrameAdded(r, kind)
      BY <2>1 DEF WriteStep
    <2>3. kind = "o"
      BY <2>2, ContainsAppend DEF TypeOK, RecvType, FrameAdded
    <2> QED
      BY <2>2, <2>3 DEF FrameAdded
  <1>2. mux = "attach.open" => \A r \in Requests : ~Contains(wire[r], "o")
    BY DEF LockInv, FrameInv
  <1>3. ASSUME Opened # {} PROVE Opened' # {}
    <2>1. PICK r \in Requests : Contains(wire[r], "o")
      BY <1>3 DEF Opened
    <2>2. wire'[r] = wire[r] \/ \E kind \in FrameKind : FrameAdded(r, kind)
      BY WriteStepStep DEF WriteStep
    <2>3. ASSUME NEW kind \in FrameKind, FrameAdded(r, kind) PROVE Contains(wire'[r], "o")
      BY <2>1, <2>3, ContainsAppend DEF TypeOK, RecvType, FrameAdded
    <2> QED
      BY <2>1, <2>2, <2>3 DEF Opened
  <1>4. state' = SessionActive => state = SessionActive \/ attachOpen
    BY DEF TypeOK, SessType, Next, InMux, attachCloseFrame, AttachFails, attachClose,
       attachBulk, sendMessageBulk, closingFrame, closingClose, Arrival, xhrPoll, xhrStreaming,
       eventSource, htmlFile, jsonp, arrive, badCallback, Disconnect, interrupt, HandlerStep,
       attachRefused, attachReceiver, startHandlerOnce, awaitReceiver, refuse, refuseClose,
       WatcherStep, detachReceiver, closeByWatcher, CloseSession, Application, sendMessage,
       Close, ClosingStep, closingAgain, closingDetached, closingAttached, closeByTimer,
       timerFires, orphanFires, heartbeat, unregister
  <1>5. ASSUME attachOpen, state' = SessionActive PROVE Opened' # {} \/ Dying'
    <2>1. /\ holder \in Requests /\ recv = holder /\ handler[holder] = "attach"
          /\ ~WriteFails(holder)
      BY <1>5 DEF attachOpen, AttachFails, LockInv, AttachPCs
    <2>2. sendFrame(holder, "o", 1) /\ watcher' = watcher
      BY <1>5, <2>1 DEF attachOpen, AttachFails, LockInv
    <2>3. CASE Writes(holder)
      <3>1. wire[holder] \in Seq(FrameKind) /\ "o" \in FrameKind
        BY <2>1 DEF TypeOK, RecvType, FrameKind
      <3>2. wire'[holder] = Append(wire[holder], "o")
        BY <2>1, <2>2, <2>3 DEF sendFrame, TypeOK, RecvType
      <3>3. Contains(wire'[holder], "o")
        BY <3>1, <3>2, ContainsAppend
      <3> QED
        BY <2>1, <3>3 DEF Opened
    <2>4. CASE ~Writes(holder)
      BY <1>5, <2>1, <2>2, <2>4 DEF attachOpen, sendFrame, Writes, WriteFails, BulkInv,
         RequestInv, TypeOK, RecvType, ReceiverState, WatcherOwnsReceiver, Dying
    <2> QED
      BY <2>3, <2>4
  <1>6. state' = SessionActive => Opened' # {} \/ Dying'
    BY <1>3, <1>4, <1>5, DyingStaysStep DEF DyingStays, OpenFrameOnce
  <1>7. \A r, q \in Opened' : r = q
    BY <1>1, <1>2 DEF OpenFrameOnce, Opened
  <1> QED
    BY <1>6, <1>7 DEF OpenFrameOnce

\* What a step does to the messages: nothing, or one is sent, or the buffer is
\* written, or it is dropped because the receiver was interrupted.
Unsent == UNCHANGED <<nSent, sendBuffer, delivered>>
Queued == /\ nSent' = nSent + 1
          /\ sendBuffer' = Append(sendBuffer, nSent + 1)
          /\ delivered' = delivered
Written == /\ delivered' = delivered \o sendBuffer
           /\ sendBuffer' = <<>>
           /\ nSent' = nSent
Emptied == /\ delivered' = delivered
           /\ sendBuffer' = <<>>
           /\ nSent' = nSent
Dropped == Emptied /\ Dying'

QueueStep == Unsent \/ Queued \/ Written \/ Dropped

\* Every step is one of these.
LEMMA QueueStepStep ==
  ASSUME TypeOK, LockInv, RequestInv, WatcherOwnsReceiver, BulkInv, Next
  PROVE  QueueStep
  <1> USE DEF TypeOK, SessType, LockInv, AttachPCs, QueueStep, Unsent, Queued, Written,
     Emptied, Dropped
  <1>1. ASSUME attachBulk PROVE QueueStep
    <2>1. /\ recv \in Requests /\ recv = holder /\ rstate[recv] \in ReceiverState
          /\ watcher[recv] = "waiting" /\ watcher' = watcher
      BY <1>1 DEF attachBulk, AttachFails, RecvType, WatcherOwnsReceiver
    <2>2. CASE BulkFails(recv)
      BY <1>1, <2>1, <2>2 DEF attachBulk, AttachFails
    <2>3. CASE ~BulkFails(recv) /\ (sendBuffer = <<>> \/ Writes(recv))
      <3>1. delivered' = delivered \o sendBuffer
        BY <1>1, <2>1, <2>3 DEF attachBulk, sendBulk, HistType
      <3> QED
        BY <1>1, <2>1, <2>3, <3>1 DEF attachBulk, Flushed
    <2>4. CASE ~BulkFails(recv) /\ sendBuffer # <<>> /\ ~Writes(recv)
      <3>1. rstate[recv] = "interrupted"
        BY <1>1, <2>1, <2>4 DEF attachBulk, BulkFails, WriteFails, Writes, ReceiverState, BulkInv,
           RequestInv
      <3>2. sendFrame(recv, "a", Len(sendBuffer)) /\ delivered' = delivered
        BY <1>1, <2>1, <2>4 DEF attachBulk, sendBulk
      <3>3. Dying'
        BY <2>1, <2>4, <3>1, <3>2 DEF sendFrame, Dying
      <3> QED
        BY <1>1, <2>1, <2>4, <3>2, <3>3 DEF attachBulk, Flushed
    <2> QED
      BY <2>2, <2>3, <2>4
  <1>2. ASSUME sendMessageBulk PROVE QueueStep
    <2>1. /\ recv \in Requests /\ recv = recv /\ rstate[recv] \in ReceiverState
          /\ watcher[recv] = "waiting" /\ watcher' = watcher
      BY <1>2 DEF sendMessageBulk, AttachFails, RecvType, WatcherOwnsReceiver
    <2>2. CASE BulkFails(recv)
      BY <1>2, <2>1, <2>2 DEF sendMessageBulk, AttachFails
    <2>3. CASE ~BulkFails(recv) /\ (sendBuffer = <<>> \/ Writes(recv))
      <3>1. delivered' = delivered \o sendBuffer
        BY <1>2, <2>1, <2>3 DEF sendMessageBulk, sendBulk, HistType
      <3> QED
        BY <1>2, <2>1, <2>3, <3>1 DEF sendMessageBulk, Flushed
    <2>4. CASE ~BulkFails(recv) /\ sendBuffer # <<>> /\ ~Writes(recv)
      <3>1. rstate[recv] = "interrupted"
        BY <1>2, <2>1, <2>4 DEF sendMessageBulk, BulkFails, WriteFails, Writes, ReceiverState, BulkInv,
           RequestInv
      <3>2. sendFrame(recv, "a", Len(sendBuffer)) /\ delivered' = delivered
        BY <1>2, <2>1, <2>4 DEF sendMessageBulk, sendBulk
      <3>3. Dying'
        BY <2>1, <2>4, <3>1, <3>2 DEF sendFrame, Dying
      <3> QED
        BY <1>2, <2>1, <2>4, <3>2, <3>3 DEF sendMessageBulk, Flushed
    <2> QED
      BY <2>2, <2>3, <2>4
  <1>3. ASSUME NEW a \in Apps, sendMessage(a) PROVE QueueStep
    BY <1>3 DEF sendMessage, AppRuns, canSend
  <1>4. ASSUME attachCloseFrame \/ attachClose \/ attachOpen \/ closingFrame \/ closingClose
              \/ closeByTimer \/ timerFires \/ heartbeat \/ unregister
       PROVE  QueueStep
    BY <1>4 DEF attachCloseFrame, AttachFails, sendCloseFrame, sendFrame, Writes,
       WriteFails, LimitReached, attachClose, closeReceiver, canSend, attachOpen,
       OpenedState, closingFrame, closingClose, ClosingReturns, closeByTimer, CloseSession,
       NotYetClosed, timerFires, heartbeat, NextHeartbeat, unregister
  <1>5. ASSUME NEW r \in Requests, Arrival(r) \/ Disconnect(r) \/ interrupt(r) \/
              attachRefused(r) \/ attachReceiver(r) \/ startHandlerOnce(r) \/ awaitReceiver(r) \/
              refuse(r) \/ refuseClose(r) \/ detachReceiver(r) \/ closeByWatcher(r)
       PROVE  QueueStep
    BY <1>5 DEF Arrival, xhrPoll, xhrStreaming, eventSource, htmlFile, jsonp, arrive,
       badCallback, Disconnect, interrupt, attachRefused, NoneAttached, attachReceiver,
       AttachPC, startHandlerOnce, awaitReceiver, Ended, refuse, sendFrame, Writes,
       WriteFails, LimitReached, refuseClose, closeReceiver, canSend, detachReceiver,
       ExpiryTimer, AfterDetach, closeByWatcher, CloseSession, NotYetClosed
  <1>6. ASSUME NEW a \in Apps, NEW code \in CloseCodes, Close(a, code) PROVE QueueStep
    BY <1>6 DEF Close, AppRuns, MaySetCloseFrame
  <1>7. ASSUME NEW t \in Closers, closingAgain(t) \/ closingDetached(t) \/
              closingAttached(t)
       PROVE  QueueStep
    BY <1>7 DEF closingAgain, ClosingReturns, closingDetached, closeRecvBuffer,
       closingAttached
  <1>8. ASSUME NEW k \in TimerKind, orphanFires(k) PROVE QueueStep
    BY <1>8 DEF orphanFires
  <1> QED
    BY <1>1, <1>2, <1>3, <1>4, <1>5, <1>6, <1>7, <1>8 DEF Next, InMux, HandlerStep,
       WatcherStep, ClosingStep, Application

\* A message leaves the buffer for the wire, or with an interrupted receiver.
LEMMA NoSilentLossStep ==
  ASSUME TypeOK, LockInv, RequestInv, WatcherOwnsReceiver, BulkInv, NoSilentLoss, Next
  PROVE  NoSilentLoss'
  <1> SUFFICES ASSUME ~(state' >= SessionClosing), ~Dying'
               PROVE  \A m \in 1..nSent' : Contains(delivered', m) \/ Contains(sendBuffer', m)
    BY DEF NoSilentLoss
  <1>1. delivered \in Seq(Nat) /\ sendBuffer \in Seq(Nat) /\ nSent \in Nat
    BY DEF TypeOK, SessType, HistType
  <1>2. \A m \in 1..nSent : Contains(delivered, m) \/ Contains(sendBuffer, m)
    BY DyingStaysStep, StateGrows DEF DyingStays, NoSilentLoss, TypeOK, SessType
  <1>3. CASE Unsent
    BY <1>2, <1>3 DEF Unsent
  <1>4. CASE Queued
    BY <1>1, <1>2, <1>4, ContainsAppend DEF Queued
  <1>5. CASE Written
    BY <1>1, <1>2, <1>5, ContainsConcat DEF Written
  <1> QED
    BY <1>3, <1>4, <1>5, QueueStepStep DEF QueueStep, Dropped

\* New messages are larger than all others and go to the end.
LEMMA InOrderStep ==
  ASSUME TypeOK, SentInv, InOrder, Unsent \/ Queued \/ Written \/ Emptied
  PROVE  SentInv' /\ InOrder'
  <1> DEFINE all == delivered \o sendBuffer
  <1>1. /\ delivered \in Seq(Nat) /\ sendBuffer \in Seq(Nat) /\ nSent \in Nat
        /\ all \in Seq(Nat) /\ Len(all) \in Nat
    BY ConcatFacts DEF TypeOK, SessType, HistType
  <1>2. CASE Unsent
    BY <1>2 DEF Unsent, SentInv, InOrder
  <1>3. CASE Queued
    <2>1. all' = Append(all, nSent + 1)
      BY <1>1, <1>3, ConcatAppend DEF Queued
    <2>2. \A i \in 1..Len(all) : all[i] < nSent + 1
      BY <1>1 DEF SentInv
    <2>3. Ascending(all) /\ nSent + 1 \in Nat
      BY <1>1 DEF InOrder
    <2> HIDE DEF all
    <2>4. /\ \A i \in 1..Len(Append(all, nSent + 1)) : Append(all, nSent + 1)[i] <= nSent + 1
          /\ Ascending(Append(all, nSent + 1))
      BY <1>1, <2>2, <2>3, AscendingAppend
    <2> QED
      BY <1>3, <2>1, <2>4 DEF Queued, SentInv, InOrder, all
  <1>4. CASE Written
    <2>1. all' = all
      BY <1>1, <1>4 DEF Written
    <2> QED
      BY <1>4, <2>1 DEF Written, SentInv, InOrder
  <1>5. CASE Emptied
    <2>1. all' = delivered
      BY <1>1, <1>5 DEF Emptied
    <2>2. Len(delivered) <= Len(all) /\ \A i \in 1..Len(delivered) : delivered[i] = all[i]
      BY <1>1, ConcatFacts
    <2> HIDE DEF all
    <2>3. \A i \in 1..Len(delivered) : i \in 1..Len(all)
      BY <1>1, <2>2
    <2> QED
      BY <1>5, <2>1, <2>2, <2>3 DEF Emptied, SentInv, InOrder, Ascending, all
  <1> QED
    BY <1>2, <1>3, <1>4, <1>5

-----------------------------------------------------------------------------
(* The receivers.                                                          *)

\* One step, as seen by one receiver: nothing, it begins, it ends in one of the two
\* ways, or it carries one frame more and may end with it.
ReceiverStep(r) ==
    \/ /\ wire'[r] = wire[r]
       /\ \/ rstate'[r] = rstate[r]
          \/ rstate[r] = "none" /\ rstate'[r] = "active"
          \/ rstate[r] = "active" /\ rstate'[r] \in {"done", "interrupted"}
    \/ /\ rstate[r] = "active" /\ rstate'[r] \in {"active", "done"}
       /\ \E kind \in FrameKind : wire'[r] = Append(wire[r], kind)

\* Every step is a ReceiverStep of every receiver.
LEMMA ReceiverStepStep ==
  ASSUME TypeOK, LockInv, RequestInv, Next, NEW x \in Requests
  PROVE  ReceiverStep(x)
  <1> USE DEF TypeOK, SessType, RecvType, LockInv, AttachPCs, ClosingPCs, FrameKind,
     ReceiverStep, sendFrame, Writes, WriteFails, closeReceiver, canSend
  <1>1. ASSUME attachCloseFrame PROVE ReceiverStep(x)
    BY <1>1 DEF attachCloseFrame, AttachFails, sendCloseFrame
  <1>2. ASSUME attachOpen PROVE ReceiverStep(x)
    BY <1>2 DEF attachOpen, AttachFails
  <1>3. ASSUME attachBulk PROVE ReceiverStep(x)
    BY <1>3 DEF attachBulk, AttachFails, BulkFails, sendBulk
  <1>4. ASSUME sendMessageBulk PROVE ReceiverStep(x)
    BY <1>4 DEF sendMessageBulk, BulkFails, sendBulk
  <1>5. ASSUME closingFrame PROVE ReceiverStep(x)
    BY <1>5 DEF closingFrame, sendCloseFrame
  <1>6. ASSUME attachClose PROVE ReceiverStep(x)
    BY <1>6 DEF attachClose
  <1>7. ASSUME closingClose PROVE ReceiverStep(x)
    BY <1>7 DEF closingClose
  <1>8. ASSUME NEW r \in Requests, Arrival(r) PROVE ReceiverStep(x)
    BY <1>8 DEF Arrival, xhrPoll, xhrStreaming, eventSource, htmlFile, jsonp, arrive,
       badCallback, RequestInv
  <1>9. ASSUME NEW r \in Requests, refuse(r) PROVE ReceiverStep(x)
    BY <1>9 DEF refuse
  <1>10. ASSUME NEW r \in Requests, refuseClose(r) PROVE ReceiverStep(x)
    BY <1>10 DEF refuseClose
  <1>11. ASSUME NEW r \in Requests, interrupt(r) PROVE ReceiverStep(x)
    BY <1>11 DEF interrupt
  <1>12. ASSUME heartbeat PROVE ReceiverStep(x)
    BY <1>12 DEF heartbeat
  <1>13. ASSUME closeByTimer \/ timerFires \/ unregister PROVE ReceiverStep(x)
    BY <1>13 DEF closeByTimer, CloseSession, timerFires, unregister
  <1>14. ASSUME NEW r \in Requests, Disconnect(r) \/ attachRefused(r) \/ attachReceiver(r) \/
              startHandlerOnce(r) \/ awaitReceiver(r) \/ detachReceiver(r) \/ closeByWatcher(r)
         PROVE  ReceiverStep(x)
    BY <1>14 DEF Disconnect, attachRefused, attachReceiver, startHandlerOnce, awaitReceiver,
       detachReceiver, closeByWatcher, CloseSession
  <1>15. ASSUME NEW a \in Apps, sendMessage(a) PROVE ReceiverStep(x)
    BY <1>15 DEF sendMessage
  <1>16. ASSUME NEW a \in Apps, NEW code \in CloseCodes, Close(a, code) PROVE ReceiverStep(x)
    BY <1>16 DEF Close
  <1>17. ASSUME NEW t \in Closers, closingAgain(t) \/ closingDetached(t) \/ closingAttached(t)
         PROVE  ReceiverStep(x)
    BY <1>17 DEF closingAgain, closingDetached, closingAttached
  <1>18. ASSUME NEW k \in TimerKind, orphanFires(k) PROVE ReceiverStep(x)
    BY <1>18 DEF orphanFires
  <1> QED
    BY <1>1, <1>2, <1>3, <1>4, <1>5, <1>6, <1>7, <1>8, <1>9, <1>10, <1>11, <1>12, <1>13,
       <1>14, <1>15, <1>16, <1>17, <1>18
    DEF Next, InMux, HandlerStep, WatcherStep, ClosingStep, Application

\* A ReceiverStep is a step of the contract, or invisible in it.
LEMMA ContractStep ==
  ASSUME NEW r \in Requests, ReceiverStep(r)
  PROVE  Contract(r)!Next \/ UNCHANGED Contract(r)!rVars
  BY DEF ReceiverStep, Contract!Next, Contract!rVars, Contract!Send, Contract!Finish,
     Contract!Interrupt

-----------------------------------------------------------------------------
(* The inductive invariant.                                                *)

\* It holds of a new session.
LEMMA InitIInv == Init => IInv
  <1> SUFFICES ASSUME Init PROVE IInv
    OBVIOUS
  <1>1. TypeOK
    BY InitType
  <1>2. LockInv /\ CloseInv /\ RequestInv /\ StartInv /\ BulkInv
    BY DEF Init, LockInv, AttachPCs, ClosingPCs, CloseInv, CallbackPC, RequestInv, StartInv,
       BulkInv
  <1>3. WatcherOwnsReceiver /\ ReleasedWhenClosing /\ OneCloseFrame
    BY DEF Init, WatcherOwnsReceiver, ReleasedWhenClosing, OneCloseFrame
  <1>4. ExpiryPending /\ HeartbeatPending
    BY DEF Init, ExpiryPending, HeartbeatPending
  <1>5. FrameInv /\ FrameOrder /\ OneFramePerPoll /\ OpenFrameOnce
    BY DEF Init, FrameInv, FrameOrder, OneFramePerPoll, OpenFrameOnce, Opened, Contains
  <1>6. SentInv /\ NoSilentLoss /\ InOrder
    BY DEF Init, SentInv, NoSilentLoss, InOrder, Ascending
  <1> QED
    BY <1>1, <1>2, <1>3, <1>4, <1>5, <1>6 DEF IInv

\* Every step keeps it.
LEMMA NextIInv ==
  ASSUME IInv, Next
  PROVE  IInv'
  <1> USE DEF IInv
  <1>0. OpenBeforeSend /\ \A r \in Requests : WriteStep(r)
    BY WriteStepStep DEF OpenBeforeSend, StartInv
  <1>1. TypeOK' /\ LockInv' /\ CloseInv' /\ StartInv'
    BY <1>0, TypeStep, LockInvStep, CloseInvStep, StartInvStep
  <1>2. RequestInv' /\ BulkInv' /\ FrameInv' /\ WatcherOwnsReceiver'
    BY RequestInvStep, BulkInvStep, FrameInvStep, WatcherOwnsReceiverStep
  <1>3. ReleasedWhenClosing' /\ OneCloseFrame' /\ ExpiryPending' /\ HeartbeatPending'
    BY ReleasedWhenClosingStep, OneCloseFrameStep, ExpiryPendingStep, HeartbeatPendingStep
  <1>4. FrameOrder' /\ OneFramePerPoll' /\ OpenFrameOnce'
    BY <1>0, FrameOrderStep, OneFramePerPollStep, OpenFrameOnceStep
  <1>5. SentInv' /\ NoSilentLoss' /\ InOrder'
    BY QueueStepStep, InOrderStep, NoSilentLossStep DEF QueueStep, Dropped
  <1> QED
    BY <1>1, <1>2, <1>3, <1>4, <1>5

\* A stuttering step keeps it.
LEMMA StutterIInv ==
  ASSUME IInv, UNCHANGED vars
  PROVE  IInv'
  <1> USE DEF vars
  <1>1. TypeOK'
    BY DEF IInv, TypeOK, SessType, EndType, LockType, TimerType, ThreadType, RecvType,
       HistType
  <1>2. LockInv' /\ CloseInv' /\ RequestInv' /\ StartInv' /\ BulkInv'
    BY DEF IInv, LockInv, AtClosing, TimerExpired, CloseInv, RequestInv, StartInv, BulkInv
  <1>3. WatcherOwnsReceiver' /\ ReleasedWhenClosing' /\ OneCloseFrame'
    BY DEF IInv, WatcherOwnsReceiver, ReleasedWhenClosing, OneCloseFrame
  <1>4. ExpiryPending' /\ HeartbeatPending'
    BY DEF IInv, ExpiryPending, HeartbeatPending
  <1>5. FrameInv' /\ FrameOrder' /\ OneFramePerPoll' /\ OpenFrameOnce'
    BY DEF IInv, FrameInv, FrameOrder, OneFramePerPoll, OpenFrameOnce, Opened, Dying
  <1>6. SentInv' /\ NoSilentLoss' /\ InOrder'
    BY DEF IInv, SentInv, NoSilentLoss, InOrder, Dying
  <1> QED
    BY <1>1, <1>2, <1>3, <1>4, <1>5, <1>6 DEF IInv

\* The inductive invariant holds in every reachable state of the session.
THEOREM Invariance == Spec => []IInv
  <1>1. IInv /\ [Next]_vars => IInv'
    BY NextIInv, StutterIInv
  <1> QED
    BY <1>1, InitIInv, PTL DEF Spec

\* Every variable of a session keeps its type, whatever runs on it.
THEOREM TypeCorrect == Spec => []TypeOK
  <1>1. IInv => TypeOK
    BY DEF IInv
  <1> QED
    BY <1>1, Invariance, PTL

\* sendMessage and attachReceiver empty the send buffer only after the messages
\* were written, unless a receiver was interrupted and the session is being closed.
THEOREM NoLoss == Spec => []NoSilentLoss
  <1>1. IInv => NoSilentLoss
    BY DEF IInv
  <1> QED
    BY <1>1, Invariance, PTL

\* Messages are delivered in the order of their Send, each at most once.
THEOREM Ordered == Spec => []InOrder
  <1>1. IInv => InOrder
    BY DEF IInv
  <1> QED
    BY <1>1, Invariance, PTL

\* detachReceiver is only ever called for the receiver that is attached.
THEOREM OwnReceiver == Spec => []WatcherOwnsReceiver
  <1>1. IInv => WatcherOwnsReceiver
    BY DEF IInv
  <1> QED
    BY <1>1, Invariance, PTL

\* A session without a receiver that is not closed has a timer or a goroutine that
\* will close it.
THEOREM AlwaysExpires == Spec => []ExpiryPending
  <1>1. IInv => ExpiryPending
    BY DEF IInv
  <1> QED
    BY <1>1, Invariance, PTL

\* An attached, active receiver has a heartbeat scheduled.
THEOREM AlwaysBeats == Spec => []HeartbeatPending
  <1>1. IInv => HeartbeatPending
    BY DEF IInv
  <1> QED
    BY <1>1, Invariance, PTL

\* close() closes closeCh at most once.
THEOREM CloseOnce == Spec => []CloseChOnce
  <1>1. IInv => CloseChOnce
    BY DEF IInv, CloseInv, CloseChOnce
  <1> QED
    BY <1>1, Invariance, PTL

\* All close frames of a session carry the same code.
THEOREM SameCloseFrame == Spec => []OneCloseFrame
  <1>1. IInv => OneCloseFrame
    BY DEF IInv
  <1> QED
    BY <1>1, Invariance, PTL

\* A closing session has closed its receive buffer and cancelled its context.
THEOREM Released == Spec => []ReleasedWhenClosing
  <1>1. IInv => ReleasedWhenClosing
    BY DEF IInv
  <1> QED
    BY <1>1, Invariance, PTL

\* attachReceiver writes the open frame once, and a session is active only with it.
THEOREM OpenOnce == Spec => []OpenFrameOnce
  <1>1. IInv => OpenFrameOnce
    BY DEF IInv
  <1> QED
    BY <1>1, Invariance, PTL

\* Open frames come first and close frames last in a response.
THEOREM FramesInOrder == Spec => []FrameOrder
  <1>1. IInv => FrameOrder
    BY DEF IInv
  <1> QED
    BY <1>1, Invariance, PTL

\* A polling response carries at most one frame.
THEOREM PollsAreShort == Spec => []OneFramePerPoll
  <1>1. IInv => OneFramePerPoll
    BY DEF IInv
  <1> QED
    BY <1>1, Invariance, PTL

\* detachReceiver drops a receiver only after it ended.
THEOREM LiveStays == Spec => NoLiveDetach
  <1>1. ASSUME IInv, Next, recv # None, recv' # recv
        PROVE  rstate[recv] \in {"done", "interrupted"}
    <2>1. PICK r \in Requests : attachReceiver(r) \/ detachReceiver(r)
      BY <1>1 DEF Next, InMux, attachCloseFrame, AttachFails, attachClose, attachOpen,
         attachBulk, sendMessageBulk, closingFrame, closingClose, Arrival, xhrPoll,
         xhrStreaming, eventSource, htmlFile, jsonp, arrive, badCallback, Disconnect,
         interrupt, HandlerStep, attachRefused, startHandlerOnce, awaitReceiver, refuse,
         refuseClose, WatcherStep, closeByWatcher, CloseSession, Application, sendMessage,
         Close, ClosingStep, closingAgain, closingDetached, closingAttached, closeByTimer,
         timerFires, orphanFires, heartbeat, unregister
    <2> QED
      BY <1>1, <2>1 DEF attachReceiver, NoneAttached, detachReceiver, Ended, IInv,
         WatcherOwnsReceiver
  <1>2. IInv /\ [Next]_vars =>
            [recv # None /\ recv' # recv => rstate[recv] \in {"done", "interrupted"}]_vars
    BY <1>1 DEF vars
  <1> QED
    BY <1>2, Invariance, PTL DEF Spec, NoLiveDetach

=============================================================================
