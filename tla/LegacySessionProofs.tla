------------------------- MODULE LegacySessionProofs -------------------------
(***************************************************************************)
(* The safety properties of the v2 session for any number of requests,     *)
(* application goroutines and messages.  Most steps of v2 are steps of v3, *)
(* and for those the lemmas of SessionProofs are used again; what v2 does  *)
(* of its own is a failed write that nobody notices, a request handler     *)
(* that does not wait for the application to start, and the application    *)
(* that starts first.                                                      *)
(***************************************************************************)
EXTENDS LegacySession, SessionProofs

USE SessionAssumption DEF SessionOpening, SessionActive, SessionClosing, SessionClosed
USE DEF sessVars, endVars, lockVars, timerVars, threadVars, recvVars, histVars, HandlerGoes,
        Lock, Unlock, OutsideSession

-----------------------------------------------------------------------------
(* The inductive invariant.                                                *)

\* attachReceiver fails only before it installs the receiver.
RefusedInv == \A r \in Requests : handler[r] \in {"refused", "closing"} => recv # r

\* attachReceiver leaves no receiver attached to a session it has not opened.
OpenInv == state = SessionOpening /\ recv # None => mux = "attach.open"

\* `early' is what was sent before the session was opened.
EarlyInv ==
    /\ early \in 0..nSent
    /\ state = SessionOpening => early = nSent

\* As long as no connection broke: nothing is interrupted, and the receiver that is
\* about to take messages can write them, unless it is the first one and ended with
\* the open frame; then all messages are early.
Intact == \A r \in Requests : ~broken[r]

IntactInv ==
    Intact => /\ \A r \in Requests : rstate[r] # "interrupted"
              /\ mux = "attach.open" => rstate[holder] = "active"
              /\ mux = "send" => rstate[recv] = "active"
              /\ mux = "attach.bulk" => rstate[holder] = "active" \/ early = nSent

\* What v2 has in common with v3.
SharedInv ==
    /\ TypeOK
    /\ LockInv /\ CloseInv /\ RequestInv /\ FrameInv
    /\ WatcherOwnsReceiver
    /\ OneCloseFrame
    /\ ExpiryPending /\ HeartbeatPending
    /\ FrameOrder /\ OneFramePerPoll
    /\ SentInv /\ InOrder

v2_IInv ==
    /\ SharedInv
    /\ RefusedInv /\ OpenInv
    /\ EarlyInv /\ IntactInv
    /\ LossHasCause

-----------------------------------------------------------------------------
(* The steps v2 does not share with v3.                                    *)

\* A write that failed: nothing is on the wire, but the receiver may have ended.
FailedWrite(r) ==
    /\ WriteFails(r)
    /\ \E k \in Nat : size' = [size EXCEPT ![r] = @ + k]
    /\ rstate' = rstate \/ rstate' = [rstate EXCEPT ![r] = "done"]
    /\ UNCHANGED <<limit, wire, broken>>

FailedRefuse(r) ==
    /\ handler[r] = "refused"
    /\ FailedWrite(r)
    /\ HandlerGoes(r, "closing")
    /\ OutsideSession
    /\ UNCHANGED started

FailedCloseFrame ==
    /\ mux = "attach.closeFrame"
    /\ FailedWrite(holder)
    /\ Lock(holder, "attach.close")
    /\ UNCHANGED <<sessVars, endVars, timerVars, threadVars, histVars>>

FailedOpen ==
    /\ mux = "attach.open"
    /\ FailedWrite(holder)
    /\ state' = SessionActive
    /\ Lock(holder, "attach.bulk")
    /\ UNCHANGED <<recv, sendBuffer, endVars, timerVars, threadVars, histVars>>

FailedSend ==
    /\ mux = "send"
    /\ FailedWrite(recv)
    /\ sendBuffer' = <<>>
    /\ Unlock
    /\ UNCHANGED <<state, recv, endVars, timerVars, threadVars, histVars>>

FailedClosing ==
    /\ mux = "closing.frame"
    /\ FailedWrite(recv)
    /\ Lock(holder, "closing.close")
    /\ UNCHANGED <<sessVars, endVars, timerVars, threadVars, histVars>>

FailedHeartbeat ==
    /\ callbacks["heartbeat"] > 0
    /\ mux = "free"
    /\ recv # None
    /\ FailedWrite(recv)
    /\ callbacks' = [callbacks EXCEPT !["heartbeat"] = @ - 1]
    /\ timer' = "heartbeat"
    /\ orphans' = IF timer = "off" THEN orphans ELSE [orphans EXCEPT ![timer] = @ + 1]
    /\ UNCHANGED <<sessVars, endVars, lockVars, threadVars, histVars>>

OwnStep ==
    \/ \E r \in Requests : \/ FailedRefuse(r)
                           \/ \E m \in Nat : v2_arrive(r, m)
    \/ FailedCloseFrame \/ FailedOpen \/ FailedSend \/ FailedClosing \/ FailedHeartbeat
    \/ v2_attachClose \/ v2_attachBulk
    \/ v2_handlerFunc

\* sendFrame of v2 is that of v3, or fails.
LEMMA SendFrameCases ==
  ASSUME NEW r, NEW kind, NEW n \in Nat, v2_sendFrame(r, kind, n)
  PROVE  (~WriteFails(r) /\ sendFrame(r, kind, n)) \/ FailedWrite(r)
  BY DEF v2_sendFrame, FailedWrite

\* So is every step.
LEMMA OwnOrShared ==
  ASSUME TypeOK, LockInv, v2_Next
  PROVE  Next \/ OwnStep
  <1> USE DEF OwnStep
  <1>1. ASSUME v2_attachCloseFrame PROVE attachCloseFrame \/ FailedCloseFrame
    <2>1. CASE ~WriteFails(holder) /\ sendFrame(holder, "c", 1)
      BY <1>1, <2>1 DEF v2_attachCloseFrame, v2_sendCloseFrame, attachCloseFrame,
         sendCloseFrame
    <2>2. CASE FailedWrite(holder)
      BY <1>1, <2>2 DEF v2_attachCloseFrame, v2_sendCloseFrame, FailedCloseFrame, FailedWrite,
         Writes, WriteFails
    <2> QED
      BY <1>1, <2>1, <2>2, SendFrameCases DEF v2_attachCloseFrame, v2_sendCloseFrame
  <1>2. ASSUME v2_attachOpen PROVE attachOpen \/ FailedOpen
    <2>1. CASE ~WriteFails(holder) /\ sendFrame(holder, "o", 1)
      BY <1>2, <2>1 DEF v2_attachOpen, attachOpen, OpenedState
    <2>2. CASE FailedWrite(holder)
      BY <1>2, <2>2 DEF v2_attachOpen, FailedOpen
    <2> QED
      BY <1>2, <2>1, <2>2, SendFrameCases DEF v2_attachOpen
  <1>3. ASSUME v2_sendMessageBulk PROVE sendMessageBulk \/ FailedSend
    <2>1. CASE sendBuffer = <<>>
      BY <1>3, <2>1 DEF v2_sendMessageBulk, v2_sendBulk, sendMessageBulk, sendBulk, BulkFails,
         Flushed
    <2>2. CASE sendBuffer # <<>> /\ ~WriteFails(recv) /\ sendFrame(recv, "a", Len(sendBuffer))
      BY <1>3, <2>2 DEF v2_sendMessageBulk, v2_sendBulk, sendMessageBulk, sendBulk, BulkFails,
         Flushed
    <2>3. CASE sendBuffer # <<>> /\ FailedWrite(recv)
      BY <1>3, <2>3 DEF v2_sendMessageBulk, v2_sendBulk, FailedSend, FailedWrite, Writes,
         WriteFails
    <2>4. Len(sendBuffer) \in Nat
      BY DEF TypeOK, SessType
    <2> QED
      BY <1>3, <2>1, <2>2, <2>3, <2>4, SendFrameCases DEF v2_sendMessageBulk, v2_sendBulk
  <1>4. ASSUME v2_closingFrame PROVE closingFrame \/ FailedClosing
    <2>1. CASE ~WriteFails(recv) /\ sendFrame(recv, "c", 1)
      BY <1>4, <2>1 DEF v2_closingFrame, v2_sendCloseFrame, closingFrame, sendCloseFrame
    <2>2. CASE FailedWrite(recv)
      BY <1>4, <2>2 DEF v2_closingFrame, v2_sendCloseFrame, FailedClosing, FailedWrite, Writes,
         WriteFails
    <2> QED
      BY <1>4, <2>1, <2>2, SendFrameCases DEF v2_closingFrame, v2_sendCloseFrame
  <1>5. ASSUME v2_heartbeat PROVE heartbeat \/ FailedHeartbeat
    <2>1. CASE recv = None
      BY <1>5, <2>1 DEF v2_heartbeat, heartbeat
    <2>2. CASE recv # None /\ sendFrame(recv, "h", 1)
      BY <1>5, <2>2 DEF v2_heartbeat, heartbeat, NextHeartbeat
    <2>3. CASE recv # None /\ FailedWrite(recv)
      BY <1>5, <2>3 DEF v2_heartbeat, FailedHeartbeat
    <2> QED
      BY <1>5, <2>1, <2>2, <2>3, SendFrameCases DEF v2_heartbeat
  <1>6. ASSUME NEW r \in Requests, v2_refuse(r) PROVE refuse(r) \/ FailedRefuse(r)
    <2>1. CASE ~WriteFails(r) /\ sendFrame(r, "busy", 1)
      BY <1>6, <2>1 DEF v2_refuse, refuse
    <2>2. CASE FailedWrite(r)
      BY <1>6, <2>2 DEF v2_refuse, FailedRefuse
    <2> QED
      BY <1>6, <2>1, <2>2, SendFrameCases DEF v2_refuse
  <1>7. ASSUME NEW r \in Requests, v2_Arrival(r)
        PROVE  badCallback(r) \/ \E m \in Nat : v2_arrive(r, m)
    BY <1>7 DEF v2_Arrival, v2_xhrPoll, v2_xhrStreaming, v2_eventSource, v2_htmlFile, v2_jsonp
  <1>8. ASSUME NEW r \in Requests, v2_Request(r) PROVE Next \/ OwnStep
    BY <1>6, <1>7, <1>8 DEF v2_Request, v2_Disconnect, v2_interrupt, v2_attachReceiver,
       v2_awaitReceiver, v2_refuseClose, v2_detachReceiver, Next, HandlerStep, WatcherStep,
       Arrival, jsonp
  <1>9. ASSUME v2_InMux PROVE Next \/ OwnStep
    BY <1>1, <1>2, <1>3, <1>4, <1>9 DEF v2_InMux, v2_closingClose, Next, InMux
  <1> QED
    BY <1>5, <1>8, <1>9 DEF v2_Next, v2_sendMessage, v2_Close, v2_closing, v2_close,
       v2_timerFires, v2_orphanFires, v2_unregister, Next, WatcherStep, Application, ClosingStep

-----------------------------------------------------------------------------
(* What the two versions share is kept by the steps of v2, too.            *)

\* sendBulk of v2 is that of v3, or fails and delivers nothing.
LEMMA SendBulkCases ==
  ASSUME TypeOK, NEW r, v2_sendBulk(r, sendBuffer)
  PROVE  \/ ~BulkFails(r) /\ sendBulk(r, sendBuffer)
         \/ FailedWrite(r) /\ delivered' = delivered
  <1>1. Len(sendBuffer) \in Nat
    BY DEF TypeOK, SessType
  <1>2. CASE sendBuffer = <<>>
    BY <1>2 DEF v2_sendBulk, sendBulk, BulkFails
  <1>3. CASE sendBuffer # <<>>
    BY <1>1, <1>3, SendFrameCases DEF v2_sendBulk, sendBulk, BulkFails, FailedWrite, Writes,
       WriteFails
  <1> QED
    BY <1>2, <1>3

\* A failed write keeps the types of the receiver's fields.
LEMMA FailedWriteType ==
  ASSUME RecvType, NEW r, FailedWrite(r)
  PROVE  RecvType'
  <1>1. size' \in [Requests -> Nat]
    <2>1. PICK k \in Nat : size' = [size EXCEPT ![r] = @ + k]
      BY DEF FailedWrite
    <2>2. \A q \in Requests : size[q] + k \in Nat
      BY DEF RecvType
    <2> QED
      BY <2>1, <2>2 DEF RecvType
  <1> QED
    BY <1>1 DEF RecvType, FailedWrite, ReceiverState

\* The steps of v2's own keep the types of all variables.
LEMMA OwnType ==
  ASSUME TypeOK, LockInv, OwnStep
  PROVE  TypeOK'
  <1> USE DEF TypeOK
  <1>1. ASSUME NEW r \in Requests, FailedRefuse(r) PROVE TypeOK'
    <2>1. RecvType'
      BY <1>1, FailedWriteType DEF FailedRefuse
    <2> QED
      BY <1>1, <2>1 DEF FailedRefuse, SessType, EndType, LockType, TimerType, ThreadType,
         HandlerPC, HistType
  <1>2. ASSUME NEW r \in Requests, NEW m \in Nat, v2_arrive(r, m) PROVE TypeOK'
    <2>1. RecvType'
      BY <1>2 DEF v2_arrive, RecvType, ReceiverState
    <2> QED
      BY <1>2, <2>1 DEF v2_arrive, SessType, EndType, LockType, TimerType, ThreadType,
         HandlerPC, HistType
  <1>3. ASSUME FailedCloseFrame \/ FailedOpen \/ FailedSend \/ FailedClosing PROVE TypeOK'
    <2>1. RecvType'
      BY <1>3, FailedWriteType DEF FailedCloseFrame, FailedOpen, FailedSend, FailedClosing
    <2>2. SessType'
      <3>1. sendBuffer' = sendBuffer \/ sendBuffer' = <<>>
        BY <1>3 DEF FailedCloseFrame, FailedOpen, FailedSend, FailedClosing
      <3>2. recv' = recv /\ (state' = state \/ state' = SessionActive)
        BY <1>3 DEF FailedCloseFrame, FailedOpen, FailedSend, FailedClosing
      <3>3. sendBuffer' \in Seq(Nat)
        <4>1. CASE sendBuffer' = sendBuffer
          BY <4>1 DEF SessType
        <4>2. CASE sendBuffer' = <<>>
          BY <4>2
        <4> QED
          BY <3>1, <4>1, <4>2
      <3>4. state' \in SessionOpening..SessionClosed
        BY <3>2 DEF SessType
      <3> QED
        BY <3>2, <3>3, <3>4 DEF SessType
    <2>3. LockType'
      BY <1>3 DEF FailedCloseFrame, FailedOpen, FailedSend, FailedClosing, LockType, MuxPC
    <2> QED
      BY <1>3, <2>1, <2>2, <2>3 DEF FailedCloseFrame, FailedOpen, FailedSend, FailedClosing, EndType,
         TimerType, ThreadType, HistType
  <1>4. ASSUME FailedHeartbeat PROVE TypeOK'
    <2>1. RecvType'
      BY <1>4, FailedWriteType DEF FailedHeartbeat
    <2>2. TimerType'
      BY <1>4 DEF FailedHeartbeat, TimerType, TimerKind, CallbackPC
    <2> QED
      BY <1>4, <2>1, <2>2 DEF FailedHeartbeat, SessType, EndType, LockType, ThreadType, HistType
  <1>5. ASSUME v2_attachClose PROVE TypeOK'
    <2>1. RecvType'
      BY <1>5, CloseReceiverType DEF v2_attachClose, v2_closeReceiver
    <2> QED
      BY <1>5, <2>1 DEF v2_attachClose, SessType, EndType, LockType, MuxPC, TimerType,
         ThreadType, HandlerPC, HistType
  <1>6. ASSUME v2_attachBulk PROVE TypeOK'
    <2>1. RecvType' /\ delivered' \in Seq(Nat)
      BY <1>6, SendBulkCases, SendBulkType, FailedWriteType DEF v2_attachBulk, SessType, HistType
    <2>2. SessType'
      BY <1>6 DEF v2_attachBulk, SessType
    <2> QED
      BY <1>6, <2>1, <2>2 DEF v2_attachBulk, EndType, LockType, MuxPC, TimerType, TimerKind,
         ThreadType, HandlerPC, HistType
  <1>7. ASSUME v2_handlerFunc PROVE TypeOK'
    BY <1>7 DEF v2_handlerFunc, SessType, EndType, LockType, TimerType, ThreadType, RecvType,
       HistType
  <1> QED
    BY <1>1, <1>2, <1>3, <1>4, <1>5, <1>6, <1>7 DEF OwnStep

\* The lock and the goroutines: v2's steps go through a critical section as v3's do.
LEMMA OwnLock ==
  ASSUME TypeOK, LockInv, CloseInv, WatcherOwnsReceiver, OneCloseFrame, ExpiryPending, OwnStep
  PROVE  /\ LockInv' /\ CloseInv'
         /\ WatcherOwnsReceiver' /\ OneCloseFrame' /\ ExpiryPending'
  <1> USE DEF TypeOK, SessType, LockType, ThreadType, TimerType, LockInv, AttachPCs, ClosingPCs,
     AtClosing, TimerExpired
  <1>1. ASSUME NEW r \in Requests, FailedRefuse(r) \/ \E m \in Nat : v2_arrive(r, m)
        PROVE  LockInv'
    BY <1>1 DEF FailedRefuse, v2_arrive
  <1>2. ASSUME FailedCloseFrame \/ FailedOpen \/ FailedSend \/ FailedClosing \/ v2_handlerFunc
        PROVE  LockInv'
    BY <1>2 DEF FailedCloseFrame, FailedOpen, FailedSend, FailedClosing, v2_handlerFunc
  <1>3. ASSUME FailedHeartbeat PROVE LockInv'
    BY <1>3 DEF FailedHeartbeat, CallbackPC
  <1>4. ASSUME v2_attachClose \/ v2_attachBulk PROVE LockInv'
    BY <1>4 DEF v2_attachClose, v2_attachBulk
  <1>5. /\ UNCHANGED <<recv, watcher, closeFrame, closeCh, closeCodes>>
        /\ state' = state \/ FailedOpen
        /\ \A k \in {"close", "afterClosing"} : callbacks'[k] = callbacks[k]
        /\ timer' = timer \/ recv # None
    BY DEF OwnStep, FailedRefuse, v2_arrive, FailedCloseFrame, FailedOpen, FailedSend,
       FailedClosing, FailedHeartbeat, CallbackPC, v2_attachClose, v2_attachBulk, v2_handlerFunc
  <1>6. state' = state \/ (state = SessionOpening /\ state' = SessionActive /\ recv # None)
    BY <1>5 DEF FailedOpen
  <1>7. CloseInv' /\ WatcherOwnsReceiver' /\ OneCloseFrame'
    BY <1>5, <1>6 DEF CloseInv, WatcherOwnsReceiver, OneCloseFrame
  <1>8. ExpiryPending'
    BY <1>5, <1>6 DEF ExpiryPending
  <1> QED
    BY <1>1, <1>2, <1>3, <1>4, <1>7, <1>8 DEF OwnStep

\* The heartbeat: attachReceiver starts it, and a heartbeat that could not be written
\* starts the next one like any other.
LEMMA OwnHeartbeat ==
  ASSUME TypeOK, LockInv, HeartbeatPending, OwnStep
  PROVE  HeartbeatPending'
  <1> USE DEF TypeOK, SessType, ThreadType, TimerType, RecvType, CallbackPC, LockInv, AttachPCs,
     ClosingPCs, HeartbeatPending, FailedWrite, WriteFails
  <1>1. ASSUME NEW r \in Requests, FailedRefuse(r) PROVE HeartbeatPending'
    BY <1>1 DEF FailedRefuse
  <1>2. ASSUME NEW r \in Requests, NEW m \in Nat, v2_arrive(r, m) PROVE HeartbeatPending'
    BY <1>2 DEF v2_arrive
  <1>3. ASSUME FailedCloseFrame \/ FailedOpen \/ FailedSend \/ FailedClosing
        PROVE  HeartbeatPending'
    BY <1>3 DEF FailedCloseFrame, FailedOpen, FailedSend, FailedClosing
  <1>4. ASSUME FailedHeartbeat PROVE HeartbeatPending'
    BY <1>4 DEF FailedHeartbeat
  <1>5. ASSUME v2_attachClose \/ v2_attachBulk PROVE HeartbeatPending'
    BY <1>5 DEF v2_attachClose, v2_attachBulk
  <1>6. ASSUME v2_handlerFunc PROVE HeartbeatPending'
    BY <1>6 DEF v2_handlerFunc
  <1> QED
    BY <1>1, <1>2, <1>3, <1>4, <1>5, <1>6 DEF OwnStep

\* Requests and receivers.
LEMMA OwnRequest ==
  ASSUME TypeOK, LockInv, RequestInv, RefusedInv, OwnStep
  PROVE  RequestInv'
  <1> USE DEF TypeOK, SessType, LockType, ThreadType, RecvType, HandlerPC, ReceiverState, LockInv,
     AttachPCs, ClosingPCs, RequestInv, WriteFails, FailedWrite
  <1>1. ASSUME NEW r \in Requests, FailedRefuse(r) PROVE RequestInv'
    BY <1>1 DEF FailedRefuse, RefusedInv
  <1>2. ASSUME NEW r \in Requests, NEW m \in Nat, v2_arrive(r, m) PROVE RequestInv'
    BY <1>2 DEF v2_arrive
  <1>3. ASSUME FailedCloseFrame PROVE RequestInv'
    BY <1>3 DEF FailedCloseFrame
  <1>4. ASSUME FailedOpen PROVE RequestInv'
    BY <1>4 DEF FailedOpen
  <1>5. ASSUME FailedSend PROVE RequestInv'
    BY <1>5 DEF FailedSend, RefusedInv
  <1>6. ASSUME FailedClosing PROVE RequestInv'
    BY <1>6 DEF FailedClosing, RefusedInv
  <1>7. ASSUME FailedHeartbeat PROVE RequestInv'
    BY <1>7 DEF FailedHeartbeat, RefusedInv
  <1>8. ASSUME v2_attachClose PROVE RequestInv'
    BY <1>8 DEF v2_attachClose, v2_closeReceiver, closeReceiver, canSend
  <1>9. ASSUME v2_attachBulk PROVE RequestInv'
    <2>1. /\ holder \in Requests /\ recv = holder /\ handler[holder] = "attach"
          /\ rstate[holder] # "none"
      BY <1>9 DEF v2_attachBulk
    <2>2. /\ \A q \in Requests : q # holder => rstate'[q] = rstate[q] /\ wire'[q] = wire[q]
          /\ rstate'[holder] # "none"
      <3>1. CASE FailedWrite(holder)
        BY <2>1, <3>1
      <3>2. CASE sendBulk(holder, sendBuffer)
        BY <2>1, <3>2 DEF sendBulk, sendFrame
      <3> QED
        BY <1>9, <3>1, <3>2, SendBulkCases DEF v2_attachBulk
    <2> QED
      BY <1>9, <2>1, <2>2 DEF v2_attachBulk
  <1>10. ASSUME v2_handlerFunc PROVE RequestInv'
    BY <1>10 DEF v2_handlerFunc
  <1> QED
    BY <1>1, <1>2, <1>3, <1>4, <1>5, <1>6, <1>7, <1>8, <1>9, <1>10 DEF OwnStep

\* Frames: a failed write adds none.
LEMMA OwnFrames ==
  ASSUME TypeOK, LockInv, RequestInv, FrameInv, OwnStep
  PROVE  FrameInv' /\ \A x \in Requests : WriteStep(x)
  <1> USE DEF TypeOK, SessType, LockType, ThreadType, RecvType, LockInv, AttachPCs, ClosingPCs,
     RequestInv, FrameInv, WriteStep
  <1>1. ASSUME NEW r \in Requests, FailedRefuse(r)
        PROVE  FrameInv' /\ \A x \in Requests : WriteStep(x)
    BY <1>1 DEF FailedRefuse, FailedWrite, WriteFails
  <1>2. ASSUME NEW r \in Requests, NEW m \in Nat, v2_arrive(r, m)
        PROVE  FrameInv' /\ \A x \in Requests : WriteStep(x)
    <2>1. wire[r] = <<>>
      BY <1>2 DEF v2_arrive
    <2>2. ~Contains(wire[r], "c") /\ ~Contains(wire[r], "busy")
      BY <2>1 DEF Contains
    <2> QED
      BY <1>2, <2>1, <2>2 DEF v2_arrive
  <1>3. ASSUME FailedCloseFrame \/ FailedOpen \/ FailedSend \/ FailedClosing
        PROVE  FrameInv' /\ \A x \in Requests : WriteStep(x)
    BY <1>3 DEF FailedCloseFrame, FailedOpen, FailedSend, FailedClosing, FailedWrite, WriteFails
  <1>4. ASSUME FailedHeartbeat \/ v2_handlerFunc
        PROVE  FrameInv' /\ \A x \in Requests : WriteStep(x)
    BY <1>4 DEF FailedHeartbeat, v2_handlerFunc, FailedWrite, WriteFails
  <1>5. ASSUME v2_attachClose
        PROVE  FrameInv' /\ \A x \in Requests : WriteStep(x)
    BY <1>5 DEF v2_attachClose, v2_closeReceiver, closeReceiver, canSend
  <1>6. ASSUME v2_attachBulk
        PROVE  FrameInv' /\ \A x \in Requests : WriteStep(x)
    <2>1. holder \in Requests /\ recv = holder
      BY <1>6 DEF v2_attachBulk
    <2>2. CASE UNCHANGED recvVars
      BY <1>6, <2>1, <2>2 DEF v2_attachBulk
    <2>3. CASE FailedWrite(holder)
      BY <1>6, <2>1, <2>3 DEF v2_attachBulk, FailedWrite, WriteFails
    <2>4. CASE sendFrame(holder, "a", Len(sendBuffer)) /\ sendBuffer # <<>>
      <3>1. Len(sendBuffer) \in Nat \ {0} /\ "a" \in FrameKind
        BY <2>4 DEF FrameKind
      <3>2. Wrote(holder, "a")
        BY <2>1, <2>4, <3>1, SendFrameEffect
      <3>3. FrameInv'
        <4> HIDE DEF SessType, LockType, RecvType, ClosingPCs, WriteStep
        <4> QED
          BY <1>6, <2>1, <3>2 DEF v2_attachBulk, Wrote, Writes
      <3>4. ASSUME NEW x \in Requests PROVE WriteStep(x)
        BY <1>6, <2>1, <3>1, <3>2 DEF v2_attachBulk, Wrote, FrameAdded
      <3> QED
        BY <3>3, <3>4
    <2> QED
      BY <1>6, <2>2, <2>3, <2>4, SendBulkCases DEF v2_attachBulk, sendBulk
  <1> QED
    BY <1>1, <1>2, <1>3, <1>4, <1>5, <1>6 DEF OwnStep

\* The shared part, put together.
LEMMA SharedStep ==
  ASSUME SharedInv, RefusedInv, OpenInv, v2_Next
  PROVE  /\ TypeOK' /\ LockInv' /\ CloseInv' /\ RequestInv' /\ FrameInv'
         /\ WatcherOwnsReceiver' /\ OneCloseFrame' /\ ExpiryPending' /\ HeartbeatPending'
         /\ FrameOrder' /\ OneFramePerPoll'
         /\ state' \in state..SessionClosed
  <1> USE DEF SharedInv
  <1>1. ASSUME Next
        PROVE  /\ TypeOK' /\ LockInv' /\ CloseInv' /\ RequestInv' /\ FrameInv'
               /\ WatcherOwnsReceiver' /\ OneCloseFrame'
               /\ ExpiryPending' /\ HeartbeatPending'
               /\ state' \in state..SessionClosed
               /\ \A x \in Requests : WriteStep(x)
    <2>1. OpenBeforeSend
      BY DEF OpenInv, OpenBeforeSend, TypeOK, SessType
    <2>2. TypeOK' /\ LockInv' /\ CloseInv' /\ RequestInv' /\ FrameInv'
      BY <1>1, <2>1, TypeStep, LockInvStep, CloseInvStep, RequestInvStep, FrameInvStep
    <2>3. WatcherOwnsReceiver' /\ OneCloseFrame' /\ ExpiryPending' /\ HeartbeatPending'
      BY <1>1, WatcherOwnsReceiverStep, OneCloseFrameStep, ExpiryPendingStep,
         HeartbeatPendingStep
    <2> QED
      BY <1>1, <2>2, <2>3, StateGrows, WriteStepStep
  <1>2. ASSUME OwnStep
        PROVE  /\ TypeOK' /\ LockInv' /\ CloseInv' /\ RequestInv' /\ FrameInv'
               /\ WatcherOwnsReceiver' /\ OneCloseFrame'
               /\ ExpiryPending' /\ HeartbeatPending'
               /\ state' \in state..SessionClosed
               /\ \A x \in Requests : WriteStep(x)
    <2>1. state' \in state..SessionClosed
      BY <1>2 DEF OwnStep, FailedRefuse, v2_arrive, FailedCloseFrame, FailedOpen, FailedSend,
         FailedClosing, FailedHeartbeat, v2_attachClose, v2_attachBulk, v2_handlerFunc, TypeOK,
         SessType, LockInv
    <2> QED
      BY <1>2, <2>1, OwnType, OwnLock, OwnHeartbeat, OwnRequest, OwnFrames
  <1>3. Next \/ OwnStep
    BY OwnOrShared
  <1>4. FrameOrder' /\ OneFramePerPoll'
    BY <1>1, <1>2, <1>3, FrameOrderStep, OneFramePerPollStep
  <1> QED
    BY <1>1, <1>2, <1>3, <1>4

-----------------------------------------------------------------------------
(* What is true of v2 alone.                                               *)

\* A receiver's method may end the receiver and does not change its connection.
Touched(r) ==
    /\ broken' = broken
    /\ rstate' = rstate \/ rstate' = [rstate EXCEPT ![r] = "done"]

\* sendFrame, sendBulk and close are such methods.
LEMMA TouchedBy ==
  ASSUME TypeOK, NEW r,
         \/ \E kind \in FrameKind : v2_sendFrame(r, kind, 1)
         \/ v2_sendBulk(r, sendBuffer)
         \/ closeReceiver(r)
  PROVE  Touched(r)
  <1>1. ASSUME NEW kind \in FrameKind, v2_sendFrame(r, kind, 1) PROVE Touched(r)
    BY <1>1, SendFrameCases DEF sendFrame, FailedWrite, Touched
  <1>2. ASSUME v2_sendBulk(r, sendBuffer) PROVE Touched(r)
    BY <1>2, SendBulkCases DEF sendBulk, sendFrame, FailedWrite, Touched
  <1>3. ASSUME closeReceiver(r) PROVE Touched(r)
    BY <1>3 DEF closeReceiver, Touched
  <1> QED
    BY <1>1, <1>2, <1>3

\* attachReceiver refuses before it installs, and opens what it is attached to.
LEMMA AttachStep ==
  ASSUME TypeOK, LockInv, RequestInv, RefusedInv, OpenInv, v2_Next
  PROVE  RefusedInv' /\ OpenInv'
  <1> USE DEF TypeOK, SessType, ThreadType, HandlerPC, LockInv, AttachPCs, ClosingPCs, RefusedInv,
     OpenInv
  <1>1. ASSUME v2_attachCloseFrame \/ v2_attachClose \/ v2_attachOpen \/ v2_attachBulk
        PROVE  RefusedInv' /\ OpenInv'
    BY <1>1 DEF v2_attachCloseFrame, v2_attachClose, v2_attachOpen, v2_attachBulk
  <1>2. ASSUME v2_sendMessageBulk \/ v2_closingFrame \/ v2_closingClose
        PROVE  RefusedInv' /\ OpenInv'
    BY <1>2 DEF v2_sendMessageBulk, v2_closingFrame, v2_closingClose, closingClose,
       ClosingReturns
  <1>3. ASSUME NEW r \in Requests, v2_Arrival(r) PROVE RefusedInv' /\ OpenInv'
    BY <1>3 DEF v2_Arrival, v2_xhrPoll, v2_xhrStreaming, v2_eventSource, v2_htmlFile, v2_jsonp,
       v2_arrive, badCallback
  <1>4. ASSUME NEW r \in Requests, v2_attachReceiver(r) PROVE RefusedInv' /\ OpenInv'
    BY <1>4 DEF v2_attachReceiver, attachRefused, attachReceiver, AttachPC, NoneAttached,
       RequestInv
  <1>5. ASSUME NEW r \in Requests, v2_refuse(r) \/ v2_refuseClose(r) \/ v2_awaitReceiver(r)
        PROVE  RefusedInv' /\ OpenInv'
    BY <1>5 DEF v2_refuse, v2_refuseClose, refuseClose, v2_awaitReceiver, awaitReceiver
  <1>6. ASSUME NEW r \in Requests, v2_Disconnect(r) \/ v2_interrupt(r) \/ v2_detachReceiver(r)
        PROVE  RefusedInv' /\ OpenInv'
    BY <1>6 DEF v2_Disconnect, Disconnect, v2_interrupt, interrupt, v2_detachReceiver,
       detachReceiver
  <1>7. ASSUME v2_handlerFunc \/ v2_close PROVE RefusedInv' /\ OpenInv'
    BY <1>7 DEF v2_handlerFunc, v2_close, closeByTimer, closeByWatcher, CloseSession
  <1>8. ASSUME NEW a \in Apps, v2_sendMessage(a) \/ \E code \in CloseCodes : v2_Close(a, code)
        PROVE  RefusedInv' /\ OpenInv'
    BY <1>8 DEF v2_sendMessage, sendMessage, v2_Close, Close
  <1>9. ASSUME NEW t \in Closers, v2_closing(t) PROVE RefusedInv' /\ OpenInv'
    BY <1>9 DEF v2_closing, closingAgain, closingDetached, closingAttached, ClosingReturns
  <1>10. ASSUME v2_timerFires \/ v2_heartbeat \/ v2_unregister PROVE RefusedInv' /\ OpenInv'
    BY <1>10 DEF v2_timerFires, timerFires, v2_heartbeat, v2_unregister, unregister
  <1>11. ASSUME NEW k \in TimerKind, v2_orphanFires(k) PROVE RefusedInv' /\ OpenInv'
    BY <1>11 DEF v2_orphanFires, orphanFires
  <1> QED
    BY <1>1, <1>2, <1>3, <1>4, <1>5, <1>6, <1>7, <1>8, <1>9, <1>10, <1>11 DEF v2_Next, v2_InMux,
       v2_Request

\* What a step of v2 does to the messages.  The buffer is emptied without being
\* written when the receiver cannot write.
v2_Dropped == /\ Emptied
              /\ mux \in {"send", "attach.bulk"}
              /\ recv \in Requests
              /\ ~Writes(recv)

v2_QueueStep ==
    \/ Queued /\ early' = IF state = SessionOpening THEN nSent + 1 ELSE early
    \/ (Unsent \/ Written \/ v2_Dropped) /\ early' = early

\* Every step of v2 is one of these.
LEMMA v2_QueueStepStep ==
  ASSUME TypeOK, LockInv, v2_Next
  PROVE  v2_QueueStep
  <1> USE DEF TypeOK, SessType, LockInv, AttachPCs, v2_QueueStep, Unsent, Queued, Written,
     Emptied, v2_Dropped
  <1>1. ASSUME v2_attachBulk, early' = early PROVE v2_QueueStep
    <2>1. recv \in Requests /\ recv = holder
      BY <1>1 DEF v2_attachBulk
    <2>2. CASE sendBuffer = <<>> \/ Writes(recv)
      <3>1. delivered' = delivered \o sendBuffer
        BY <1>1, <2>1, <2>2 DEF v2_attachBulk, v2_sendBulk, HistType
      <3> QED
        BY <1>1, <3>1 DEF v2_attachBulk
    <2>3. CASE sendBuffer # <<>> /\ ~Writes(recv)
      BY <1>1, <2>1, <2>3 DEF v2_attachBulk, v2_sendBulk
    <2> QED
      BY <2>2, <2>3
  <1>2. ASSUME v2_sendMessageBulk, early' = early PROVE v2_QueueStep
    <2>1. recv \in Requests
      BY <1>2 DEF v2_sendMessageBulk
    <2>2. CASE sendBuffer = <<>> \/ Writes(recv)
      <3>1. delivered' = delivered \o sendBuffer
        BY <1>2, <2>1, <2>2 DEF v2_sendMessageBulk, v2_sendBulk, HistType
      <3> QED
        BY <1>2, <3>1 DEF v2_sendMessageBulk
    <2>3. CASE sendBuffer # <<>> /\ ~Writes(recv)
      BY <1>2, <2>1, <2>3 DEF v2_sendMessageBulk, v2_sendBulk
    <2> QED
      BY <2>2, <2>3
  <1>3. ASSUME NEW a \in Apps, v2_sendMessage(a) PROVE v2_QueueStep
    BY <1>3 DEF v2_sendMessage, sendMessage
  <1>4. ASSUME v2_attachCloseFrame \/ v2_attachClose \/ v2_attachOpen \/ v2_closingFrame \/
               v2_closingClose \/ v2_handlerFunc \/ v2_close \/ v2_timerFires \/
               v2_heartbeat \/ v2_unregister
        PROVE  Unsent
    BY <1>4 DEF v2_attachCloseFrame, v2_sendCloseFrame, v2_attachClose, v2_attachOpen,
       v2_closingFrame, v2_closingClose, closingClose, v2_handlerFunc, v2_close, closeByTimer,
       closeByWatcher, CloseSession, v2_timerFires, timerFires, v2_heartbeat, v2_unregister,
       unregister
  <1>5. ASSUME NEW r \in Requests, v2_Request(r) PROVE Unsent
    BY <1>5 DEF v2_Request, v2_Arrival, v2_xhrPoll, v2_xhrStreaming, v2_eventSource, v2_htmlFile,
       v2_jsonp, v2_arrive, badCallback, v2_Disconnect, Disconnect, v2_interrupt, interrupt,
       v2_attachReceiver, attachRefused, attachReceiver, v2_awaitReceiver, awaitReceiver,
       v2_refuse, v2_refuseClose, refuseClose, v2_detachReceiver, detachReceiver
  <1>6. ASSUME NEW a \in Apps, NEW code \in CloseCodes, v2_Close(a, code) PROVE Unsent
    BY <1>6 DEF v2_Close, Close
  <1>7. ASSUME NEW t \in Closers, v2_closing(t) PROVE Unsent
    BY <1>7 DEF v2_closing, closingAgain, closingDetached, closingAttached
  <1>8. ASSUME NEW k \in TimerKind, v2_orphanFires(k) PROVE Unsent
    BY <1>8 DEF v2_orphanFires, orphanFires
  <1> HIDE DEF Unsent, Queued, Written, v2_Dropped
  <1> QED
    BY <1>1, <1>2, <1>3, <1>4, <1>5, <1>6, <1>7, <1>8 DEF v2_Next, v2_InMux

\* `early' does not move once the session is open.
LEMMA EarlyStep ==
  ASSUME TypeOK, EarlyInv, v2_QueueStep, state' \in state..SessionClosed
  PROVE  EarlyInv'
  BY DEF TypeOK, SessType, HistType, EarlyInv, v2_QueueStep, Unsent, Queued, Written, Emptied,
     v2_Dropped

\* Without a broken connection the receiver that takes messages can write them.
LEMMA IntactStep ==
  ASSUME TypeOK, LockInv, RequestInv, RefusedInv, EarlyInv, IntactInv, v2_Next
  PROVE  IntactInv' /\ (Intact' => Intact)
  <1> USE DEF TypeOK, SessType, LockType, ThreadType, RecvType, HandlerPC, ReceiverState, LockInv,
     AttachPCs, ClosingPCs, Intact, IntactInv
  <1>1. ASSUME v2_attachCloseFrame \/ v2_closingFrame, early' = early
        PROVE  IntactInv' /\ (Intact' => Intact)
    <2>1. Touched(recv)
      BY <1>1, TouchedBy DEF v2_attachCloseFrame, v2_closingFrame, v2_sendCloseFrame, FrameKind
    <2> QED
      BY <1>1, <2>1 DEF v2_attachCloseFrame, v2_closingFrame, Touched
  <1>2. ASSUME v2_attachClose \/ v2_attachBulk \/ v2_sendMessageBulk, early' = early
        PROVE  IntactInv' /\ (Intact' => Intact)
    <2>1. Touched(recv)
      BY <1>2, TouchedBy DEF v2_attachClose, v2_closeReceiver, v2_attachBulk, v2_sendMessageBulk
    <2> QED
      BY <1>2, <2>1 DEF v2_attachClose, v2_attachBulk, v2_sendMessageBulk, Touched
  <1>3. ASSUME v2_attachOpen, early' = early PROVE IntactInv' /\ (Intact' => Intact)
    <2>1. Touched(recv)
      BY <1>3, TouchedBy DEF v2_attachOpen, FrameKind
    <2> QED
      BY <1>3, <2>1 DEF v2_attachOpen, Touched, EarlyInv
  <1>4. ASSUME v2_closingClose, early' = early PROVE IntactInv' /\ (Intact' => Intact)
    BY <1>4 DEF v2_closingClose, closingClose, closeReceiver
  <1>5. ASSUME NEW r \in Requests, v2_Arrival(r), early' = early
        PROVE  IntactInv' /\ (Intact' => Intact)
    BY <1>5 DEF v2_Arrival, v2_xhrPoll, v2_xhrStreaming, v2_eventSource, v2_htmlFile, v2_jsonp,
       v2_arrive, badCallback
  <1>6. ASSUME NEW r \in Requests, v2_Disconnect(r) \/ v2_interrupt(r), early' = early
        PROVE  IntactInv' /\ (Intact' => Intact)
    BY <1>6 DEF v2_Disconnect, Disconnect, v2_interrupt, interrupt
  <1>7. ASSUME NEW r \in Requests, v2_attachReceiver(r), early' = early
        PROVE  IntactInv' /\ (Intact' => Intact)
    BY <1>7 DEF v2_attachReceiver, attachRefused, attachReceiver, AttachPC, NoneAttached,
       RequestInv
  <1>8. ASSUME NEW r \in Requests, v2_refuse(r) \/ v2_refuseClose(r), early' = early
        PROVE  IntactInv' /\ (Intact' => Intact)
    <2>1. Touched(r) /\ recv # r /\ (mux \in AttachPCs => holder # r)
      BY <1>8, TouchedBy DEF v2_refuse, v2_refuseClose, refuseClose, FrameKind, RefusedInv
    <2> QED
      BY <1>8, <2>1 DEF v2_refuse, v2_refuseClose, refuseClose, Touched
  <1>9. ASSUME NEW r \in Requests, v2_awaitReceiver(r) \/ v2_detachReceiver(r), early' = early
        PROVE  IntactInv' /\ (Intact' => Intact)
    BY <1>9 DEF v2_awaitReceiver, awaitReceiver, v2_detachReceiver, detachReceiver
  <1>10. ASSUME v2_handlerFunc \/ v2_close \/ v2_timerFires \/ v2_unregister, early' = early
        PROVE  IntactInv' /\ (Intact' => Intact)
    BY <1>10 DEF v2_handlerFunc, v2_close, closeByTimer, closeByWatcher, CloseSession,
       v2_timerFires, timerFires, v2_unregister, unregister
  <1>11. ASSUME NEW a \in Apps, v2_sendMessage(a) PROVE IntactInv' /\ (Intact' => Intact)
    BY <1>11 DEF v2_sendMessage, sendMessage, canSend
  <1>12. ASSUME NEW a \in Apps, NEW code \in CloseCodes, v2_Close(a, code), early' = early
        PROVE  IntactInv' /\ (Intact' => Intact)
    BY <1>12 DEF v2_Close, Close
  <1>13. ASSUME NEW t \in Closers, v2_closing(t), early' = early
        PROVE  IntactInv' /\ (Intact' => Intact)
    BY <1>13 DEF v2_closing, closingAgain, closingDetached, closingAttached
  <1>14. ASSUME NEW k \in TimerKind, v2_orphanFires(k), early' = early
        PROVE  IntactInv' /\ (Intact' => Intact)
    BY <1>14 DEF v2_orphanFires, orphanFires
  <1>15. ASSUME v2_heartbeat, early' = early PROVE IntactInv' /\ (Intact' => Intact)
    <2>1. recv # None => Touched(recv)
      BY <1>15, TouchedBy DEF v2_heartbeat, FrameKind
    <2> QED
      BY <1>15, <2>1 DEF v2_heartbeat, Touched
  <1> HIDE DEF IntactInv, Intact
  <1> QED
    BY <1>1, <1>2, <1>3, <1>4, <1>5, <1>6, <1>7, <1>8, <1>9, <1>10, <1>11, <1>12, <1>13, <1>14,
       <1>15 DEF v2_Next, v2_InMux, v2_Request

\* A message is lost with a broken connection, or with the open frame of a poll.
LEMMA LossStep ==
  ASSUME TypeOK, LockInv, EarlyInv, IntactInv, LossHasCause, v2_QueueStep, Intact' => Intact,
         state' \in state..SessionClosed
  PROVE  LossHasCause'
  <1> SUFFICES ASSUME Intact', state' < SessionClosing
               PROVE  Lost' \subseteq 1..early'
    BY DEF Intact, LossHasCause, TypeOK, SessType
  <1>1. delivered \in Seq(Nat) /\ sendBuffer \in Seq(Nat) /\ nSent \in Nat /\ early \in 0..nSent
    BY DEF TypeOK, SessType, HistType, EarlyInv
  <1>2. Lost \subseteq 1..early /\ Intact
    BY DEF Intact, LossHasCause, TypeOK, SessType
  <1>3. CASE Unsent /\ early' = early
    BY <1>2, <1>3 DEF Unsent, Lost
  <1>4. CASE Queued /\ early' = IF state = SessionOpening THEN nSent + 1 ELSE early
    <2>1. \A m : Contains(sendBuffer', m) <=> Contains(sendBuffer, m) \/ m = nSent + 1
      BY <1>1, <1>4, ContainsAppend DEF Queued
    <2>2. Lost' \subseteq Lost
      BY <1>1, <1>4, <2>1 DEF Queued, Lost
    <2>3. early <= early' /\ early' \in Nat
      BY <1>1, <1>4
    <2> QED
      BY <1>1, <1>2, <2>2, <2>3
  <1>5. CASE Written /\ early' = early
    <2>1. \A m : Contains(delivered', m) <=> Contains(delivered, m) \/ Contains(sendBuffer, m)
      BY <1>1, <1>5, ContainsConcat DEF Written
    <2>2. Lost' \subseteq Lost
      BY <1>5, <2>1 DEF Written, Lost
    <2> QED
      BY <1>2, <1>5, <2>2
  <1>6. CASE v2_Dropped /\ early' = early
    <2>1. rstate[recv] # "active"
      BY <1>2, <1>6 DEF v2_Dropped, Writes, Intact
    <2>2. early = nSent
      BY <1>2, <1>6, <2>1 DEF v2_Dropped, IntactInv, LockInv, AttachPCs
    <2> QED
      BY <1>6, <2>2 DEF v2_Dropped, Emptied, Lost
  <1> QED
    BY <1>3, <1>4, <1>5, <1>6 DEF v2_QueueStep

-----------------------------------------------------------------------------
(* The theorems.                                                           *)

\* The inductive invariant holds of a new v2 session.
LEMMA v2_InitIInv == v2_newSession => v2_IInv
  <1> SUFFICES ASSUME v2_newSession PROVE v2_IInv
    OBVIOUS
  <1>1. Init /\ early = 0
    BY DEF v2_newSession
  <1>2. SharedInv
    BY <1>1, InitIInv DEF IInv, SharedInv
  <1>3. RefusedInv /\ OpenInv /\ EarlyInv /\ IntactInv
    BY <1>1 DEF Init, RefusedInv, OpenInv, EarlyInv, IntactInv
  <1>4. LossHasCause
    BY <1>1 DEF Init, LossHasCause, Lost
  <1> QED
    BY <1>2, <1>3, <1>4 DEF v2_IInv

\* Every step of v2 keeps it.
LEMMA v2_NextIInv ==
  ASSUME v2_IInv, v2_Next
  PROVE  v2_IInv'
  <1> USE DEF v2_IInv
  <1>1. /\ TypeOK' /\ LockInv' /\ CloseInv' /\ RequestInv' /\ FrameInv'
        /\ WatcherOwnsReceiver' /\ OneCloseFrame' /\ ExpiryPending' /\ HeartbeatPending'
        /\ FrameOrder' /\ OneFramePerPoll'
        /\ state' \in state..SessionClosed
    BY SharedStep
  <1>2. RefusedInv' /\ OpenInv'
    BY AttachStep DEF SharedInv
  <1>3. v2_QueueStep
    BY v2_QueueStepStep DEF SharedInv
  <1>4. SentInv' /\ InOrder'
    BY <1>3, InOrderStep DEF v2_QueueStep, v2_Dropped, SharedInv
  <1>5. EarlyInv'
    BY <1>1, <1>3, EarlyStep DEF SharedInv
  <1>6. IntactInv' /\ (Intact' => Intact)
    BY IntactStep DEF SharedInv
  <1>7. LossHasCause'
    BY <1>1, <1>3, <1>6, LossStep DEF SharedInv
  <1> QED
    BY <1>1, <1>2, <1>4, <1>5, <1>6, <1>7 DEF SharedInv

\* A stuttering step keeps it.
LEMMA v2_StutterIInv ==
  ASSUME v2_IInv, UNCHANGED v2_vars
  PROVE  v2_IInv'
  <1> USE DEF v2_vars, vars
  <1>1. TypeOK'
    BY DEF v2_IInv, SharedInv, TypeOK, SessType, EndType, LockType, TimerType, ThreadType,
       RecvType, HistType
  <1>2. LockInv' /\ CloseInv' /\ RequestInv' /\ FrameInv'
    BY DEF v2_IInv, SharedInv, LockInv, AtClosing, TimerExpired, CloseInv, RequestInv, FrameInv
  <1>3. /\ WatcherOwnsReceiver' /\ OneCloseFrame' /\ ExpiryPending' /\ HeartbeatPending'
        /\ FrameOrder' /\ OneFramePerPoll'
    BY DEF v2_IInv, SharedInv, WatcherOwnsReceiver, OneCloseFrame, ExpiryPending,
       HeartbeatPending, FrameOrder, OneFramePerPoll
  <1>4. SentInv' /\ InOrder'
    BY DEF v2_IInv, SharedInv, SentInv, InOrder
  <1>5. RefusedInv' /\ OpenInv' /\ EarlyInv' /\ IntactInv' /\ LossHasCause'
    BY DEF v2_IInv, RefusedInv, OpenInv, EarlyInv, IntactInv, Intact, LossHasCause, Lost
  <1> QED
    BY <1>1, <1>2, <1>3, <1>4, <1>5 DEF v2_IInv, SharedInv

\* The inductive invariant holds in every reachable state of the v2 session.
THEOREM v2_Invariance == v2_Spec => []v2_IInv
  <1>1. v2_IInv /\ [v2_Next]_v2_vars => v2_IInv'
    BY v2_NextIInv, v2_StutterIInv
  <1> QED
    BY <1>1, v2_InitIInv, PTL DEF v2_Spec

\* LossHasCause: the v2 session empties its send buffer whatever became of the write,
\* yet while it is open and no connection broke, only messages sent before the first
\* receiver was attached can be lost.
THEOREM v2_Loss == v2_Spec => []LossHasCause
  <1>1. v2_IInv => LossHasCause
    BY DEF v2_IInv
  <1> QED
    BY <1>1, v2_Invariance, PTL

\* InOrder: what does arrive is in the order of Send and comes once, although the
\* application sends before the session is opened.
THEOREM v2_Ordered == v2_Spec => []InOrder
  <1>1. v2_IInv => InOrder
    BY DEF v2_IInv, SharedInv
  <1> QED
    BY <1>1, v2_Invariance, PTL

\* ExpiryPending: a v2 session without a receiver that is not closed has a timer or a
\* goroutine that will close it.
THEOREM v2_AlwaysExpires == v2_Spec => []ExpiryPending
  <1>1. v2_IInv => ExpiryPending
    BY DEF v2_IInv, SharedInv
  <1> QED
    BY <1>1, v2_Invariance, PTL

\* HeartbeatPending: an attached, active receiver of v2 has a heartbeat scheduled, also
\* after heartbeats that could not be written.
THEOREM v2_AlwaysBeats == v2_Spec => []HeartbeatPending
  <1>1. v2_IInv => HeartbeatPending
    BY DEF v2_IInv, SharedInv
  <1> QED
    BY <1>1, v2_Invariance, PTL

\* OneCloseFrame: all close frames of a v2 session carry the same code.
THEOREM v2_SameCloseFrame == v2_Spec => []OneCloseFrame
  <1>1. v2_IInv => OneCloseFrame
    BY DEF v2_IInv, SharedInv
  <1> QED
    BY <1>1, v2_Invariance, PTL

\* FrameOrder: open frames come first and close frames last in a response of v2, too,
\* although attachReceiver goes on after a write that failed.
THEOREM v2_FramesInOrder == v2_Spec => []FrameOrder
  <1>1. v2_IInv => FrameOrder
    BY DEF v2_IInv, SharedInv
  <1> QED
    BY <1>1, v2_Invariance, PTL

\* CloseChOnce: close() of v2 closes closeCh at most once.
THEOREM v2_CloseOnce == v2_Spec => []CloseChOnce
  <1>1. v2_IInv => CloseChOnce
    BY DEF v2_IInv, SharedInv, CloseInv, CloseChOnce
  <1> QED
    BY <1>1, v2_Invariance, PTL

\* NoLiveDetach: detachReceiver of v2 drops a receiver only after it ended, although it
\* does not look at which one it drops.
THEOREM v2_LiveStays == v2_Spec => [][recv # None /\ recv' # recv =>
                                          rstate[recv] \in {"done", "interrupted"}]_v2_vars
  <1>1. ASSUME v2_IInv, v2_Next, recv # None, recv' # recv
        PROVE  rstate[recv] \in {"done", "interrupted"}
    <2>1. recv' = recv \/ \E r \in Requests : attachReceiver(r) \/ detachReceiver(r)
      <3>1. CASE OwnStep
        BY <3>1 DEF OwnStep, FailedRefuse, v2_arrive, FailedCloseFrame, FailedOpen, FailedSend,
           FailedClosing, FailedHeartbeat, v2_attachClose, v2_attachBulk, v2_handlerFunc
      <3>2. CASE Next
        BY <3>2 DEF Next, InMux, attachCloseFrame, AttachFails, attachClose, attachOpen,
           attachBulk, sendMessageBulk, closingFrame, closingClose, Arrival, xhrPoll,
           xhrStreaming, eventSource, htmlFile, jsonp, arrive, badCallback, Disconnect,
           interrupt, HandlerStep, attachRefused, startHandlerOnce, awaitReceiver, refuse,
           refuseClose, WatcherStep, closeByWatcher, CloseSession, Application, sendMessage,
           Close, ClosingStep, closingAgain, closingDetached, closingAttached, closeByTimer,
           timerFires, orphanFires, heartbeat, unregister
      <3> QED
        BY <1>1, <3>1, <3>2, OwnOrShared DEF v2_IInv, SharedInv
    <2> QED
      BY <1>1, <2>1 DEF attachReceiver, NoneAttached, detachReceiver, Ended, v2_IInv, SharedInv,
         WatcherOwnsReceiver
  <1>2. v2_IInv /\ [v2_Next]_v2_vars =>
            [recv # None /\ recv' # recv => rstate[recv] \in {"done", "interrupted"}]_v2_vars
    BY <1>1 DEF v2_vars, vars
  <1> QED
    BY <1>2, v2_Invariance, PTL DEF v2_Spec

-----------------------------------------------------------------------------
(* The receivers.                                                          *)

\* To the client a failed write is no frame: the receiver goes on, or ends.
LEMMA OwnReceiverStep ==
  ASSUME TypeOK, LockInv, RequestInv, OwnStep, NEW x \in Requests
  PROVE  ReceiverStep(x)
  <1> USE DEF TypeOK, SessType, LockType, RecvType, LockInv, AttachPCs, ClosingPCs, FrameKind,
     ReceiverStep
  <1>1. ASSUME NEW r, FailedWrite(r) PROVE ReceiverStep(x)
    BY <1>1 DEF FailedWrite, WriteFails
  <1>2. ASSUME NEW r \in Requests, NEW m \in Nat, v2_arrive(r, m) PROVE ReceiverStep(x)
    BY <1>2 DEF v2_arrive, RequestInv
  <1>3. ASSUME v2_attachClose PROVE ReceiverStep(x)
    BY <1>3 DEF v2_attachClose, v2_closeReceiver, closeReceiver, canSend
  <1>4. ASSUME v2_attachBulk PROVE ReceiverStep(x)
    <2>1. CASE sendBulk(holder, sendBuffer)
      BY <2>1 DEF sendBulk, sendFrame, Writes
    <2> QED
      BY <1>1, <1>4, <2>1, SendBulkCases DEF v2_attachBulk
  <1>5. ASSUME v2_handlerFunc PROVE ReceiverStep(x)
    BY <1>5 DEF v2_handlerFunc
  <1> QED
    BY <1>1, <1>2, <1>3, <1>4, <1>5 DEF OwnStep, FailedRefuse, FailedCloseFrame, FailedOpen,
       FailedSend, FailedClosing, FailedHeartbeat

\* ReceiversKeepContract: the receivers of v2, whose errors nobody sees, end once, in one
\* way, and carry no frame after their end, too.
THEOREM v2_ContractKept == v2_Spec => ReceiversKeepContract
  <1>1. ASSUME v2_IInv, v2_Next
        PROVE  \A r \in Requests : Contract(r)!Next \/ UNCHANGED Contract(r)!rVars
    <2>1. Next \/ OwnStep
      BY <1>1, OwnOrShared DEF v2_IInv, SharedInv
    <2>2. \A r \in Requests : ReceiverStep(r)
      BY <1>1, <2>1, ReceiverStepStep, OwnReceiverStep DEF v2_IInv, SharedInv
    <2> QED
      BY <2>2, ContractStep
  <1>2. v2_IInv /\ [v2_Next]_v2_vars =>
            [\A r \in Requests : Contract(r)!Next \/ UNCHANGED Contract(r)!rVars]_vars
    BY <1>1 DEF v2_vars
  <1> QED
    BY <1>2, v2_Invariance, PTL DEF v2_Spec, ReceiversKeepContract

=============================================================================
