-------------------------- MODULE SessionRefinement --------------------------
(***************************************************************************)
(* The session implements the abstract queue Outbox, its receivers keep    *)
(* the contract of the interface receiver, and nothing waits in the send   *)
(* buffer while a receiver could take it: for any number of requests,      *)
(* application goroutines and messages.                                    *)
(***************************************************************************)
EXTENDS SessionProofs

USE SessionAssumption DEF SessionOpening, SessionActive, SessionClosing, SessionClosed
USE DEF sessVars, endVars, lockVars, timerVars, threadVars, recvVars, histVars, HandlerGoes,
        Lock, Unlock, OutsideSession

-----------------------------------------------------------------------------
(* The queue.                                                              *)

Doomed == state >= SessionClosing \/ Dying

\* A session that is closing, or about to be closed by an interrupted receiver,
\* does not recover.
LEMMA DoomedStays ==
  ASSUME IInv, Next, Doomed
  PROVE  Doomed'
  <1>1. state' \in state..SessionClosed /\ DyingStays
    BY DyingStaysStep, StateGrows DEF IInv
  <1>2. state \in 0..3
    BY DEF IInv, TypeOK, SessType
  <1> QED
    BY <1>1, <1>2 DEF Doomed, DyingStays

\* Only sendMessage and the flushes of sendMessage and attachReceiver touch the queue.
LEMMA QueueActions ==
  ASSUME Next, ~Unsent
  PROVE  attachBulk \/ sendMessageBulk \/ \E a \in Apps : sendMessage(a)
  BY DEF Next, InMux, attachCloseFrame, AttachFails, sendCloseFrame, sendFrame, attachClose,
     attachOpen, closingFrame, closingClose, Arrival, xhrPoll, xhrStreaming, eventSource,
     htmlFile, jsonp, arrive, badCallback, Disconnect, interrupt, HandlerStep, attachRefused,
     attachReceiver, startHandlerOnce, awaitReceiver, refuse, refuseClose, WatcherStep,
     detachReceiver, closeByWatcher, CloseSession, Application, Close, ClosingStep,
     closingAgain, closingDetached, closingAttached, closeByTimer, timerFires, orphanFires,
     heartbeat, unregister, Unsent

\* Those steps interrupt no receiver and leave the state alone, so that they change
\* nothing about how the session is going to end.
LEMMA QueueKeepsDoomed ==
  ASSUME IInv, Next, ~Unsent
  PROVE  Doomed' = Doomed
  <1>1. /\ state' = state /\ watcher' = watcher
        /\ \A r \in Requests : rstate'[r] = "interrupted" <=> rstate[r] = "interrupted"
    <2> USE DEF IInv, TypeOK, SessType, RecvType, LockInv, AttachPCs
    <2>1. CASE attachBulk
      BY <2>1 DEF attachBulk, AttachFails, sendBulk, sendFrame, Writes
    <2>2. CASE sendMessageBulk
      BY <2>2 DEF sendMessageBulk, sendBulk, sendFrame, Writes
    <2>3. ASSUME NEW a \in Apps, sendMessage(a)
          PROVE  UNCHANGED <<state, watcher, rstate>>
      BY <2>3 DEF sendMessage
    <2> QED
      BY <2>1, <2>2, <2>3, QueueActions
  <1>2. Dying' <=> Dying
    BY <1>1 DEF Dying
  <1> QED
    BY <1>1, <1>2 DEF Doomed

\* The parts of a queue that are handed over and kept.
LEMMA HandFacts ==
  ASSUME NEW q \in Seq(Nat), NEW d \in Seq(Nat)
  PROVE  /\ Len(q) \in 0..Len(q) /\ 0 \in 0..Len(q)
         /\ SubSeq(q, 1, Len(q)) = q /\ SubSeq(q, Len(q) + 1, Len(q)) = <<>>
         /\ d \o SubSeq(q, 1, 0) = d /\ SubSeq(q, 0 + 1, Len(q)) = q
  OBVIOUS

\* sendMessage puts a message into the queue, a flush hands all of it over, or loses
\* it with a receiver that was interrupted; every other step may doom the session.
LEMMA OutboxStep ==
  ASSUME IInv, Next
  PROVE  Promise!Next \/ UNCHANGED Promise!oVars
  <1>0. sendBuffer \in Seq(Nat) /\ delivered \in Seq(Nat) /\ nSent \in Nat
    BY DEF IInv, TypeOK, SessType, HistType
  <1>1. CASE Unsent
    <2>1. Doomed' = TRUE \/ Doomed' = Doomed
      BY DoomedStays DEF Doomed
    <2> QED
      BY <1>1, <2>1 DEF Unsent, Doomed, Promise!Next, Promise!Doom, Promise!oVars
  <1>2. CASE ~Unsent
    <2>1. Doomed' = Doomed
      BY <1>2, QueueKeepsDoomed
    <2>2. QueueStep
      BY QueueStepStep DEF IInv
    <2>3. CASE Queued
      <3> DEFINE q == Append(sendBuffer, nSent + 1)
      <3>1. q \in Seq(Nat)
        BY <1>0
      <3>2. sendBuffer' = q /\ delivered' = delivered /\ nSent' = nSent + 1
        BY <2>3 DEF Queued
      <3> HIDE DEF q
      <3>3. \E k \in 0..Len(q) : /\ delivered' = delivered \o SubSeq(q, 1, k)
                                 /\ sendBuffer' = SubSeq(q, k + 1, Len(q))
        BY <1>0, <3>1, <3>2, HandFacts
      <3>4. Promise!Accept
        BY <2>1, <3>2, <3>3 DEF q, Doomed, Promise!Accept, Promise!Hand
      <3> QED
        BY <3>4 DEF Promise!Next
    <2>4. CASE Written
      <3>1. \E k \in 0..Len(sendBuffer) :
                /\ delivered' = delivered \o SubSeq(sendBuffer, 1, k)
                /\ sendBuffer' = SubSeq(sendBuffer, k + 1, Len(sendBuffer))
        BY <1>0, <2>4, HandFacts DEF Written
      <3>2. Promise!Deliver
        BY <2>1, <2>4, <3>1 DEF Written, Doomed, Promise!Deliver, Promise!Hand
      <3> QED
        BY <3>2 DEF Promise!Next
    <2>5. CASE Dropped
      <3>1. Doomed
        BY <2>1, <2>5 DEF Emptied, Dropped, Doomed
      <3>2. Promise!Deliver
        BY <2>1, <2>5, <3>1 DEF Emptied, Dropped, Doomed, Promise!Deliver, Promise!Hand
      <3> QED
        BY <3>2 DEF Promise!Next
    <2> QED
      BY <1>2, <2>2, <2>3, <2>4, <2>5 DEF QueueStep
  <1> QED
    BY <1>1, <1>2

\* ImplementsOutbox: sendMessage, attachReceiver and every receiver together are a
\* queue, first in, first out, that loses messages only when the session ends.
THEOREM Refinement == Spec => ImplementsOutbox
  <1>1. Init => Promise!Init
    <2> SUFFICES ASSUME Init
                 PROVE  Promise!Init
      OBVIOUS
    <2>1. (state >= SessionClosing \/ Dying) = FALSE
      BY DEF Init, Dying
    <2> QED
      BY <2>1 DEF Init, Promise!Init
  <1>2. IInv /\ [Next]_vars => [Promise!Next]_(Promise!oVars)
    <2>1. ASSUME UNCHANGED vars
          PROVE  UNCHANGED Promise!oVars
      <3>1. Doomed' = Doomed
        BY <2>1 DEF vars, Doomed, Dying
      <3> QED
        BY <2>1, <3>1 DEF vars, Doomed, Promise!oVars
    <2> QED
      BY <2>1, OutboxStep
  <1> QED
    BY <1>1, <1>2, Invariance, PTL DEF Spec, ImplementsOutbox, Promise!Spec

-----------------------------------------------------------------------------
(* Nothing waits while a receiver can be written to.                       *)

\* Every critical section that lets go of the lock has flushed the buffer, or found
\* that the attached receiver cannot be written to any more.
LEMMA FlushedStep ==
  ASSUME IInv, FlushedWhileAttached, Next
  PROVE  FlushedWhileAttached'
  <1> USE DEF IInv, TypeOK, SessType, LockType, RecvType, LockInv, AttachPCs, ClosingPCs,
     FlushedWhileAttached, Writes
  <1>1. ASSUME attachCloseFrame PROVE FlushedWhileAttached'
    BY <1>1 DEF attachCloseFrame, AttachFails, sendCloseFrame, sendFrame, WriteFails
  <1>2. ASSUME attachClose PROVE FlushedWhileAttached'
    BY <1>2 DEF attachClose, closeReceiver, canSend
  <1>3. ASSUME attachOpen PROVE FlushedWhileAttached'
    BY <1>3 DEF attachOpen, AttachFails, sendFrame, WriteFails
  <1>4. ASSUME attachBulk PROVE FlushedWhileAttached'
    BY <1>4 DEF attachBulk, AttachFails, BulkFails, WriteFails
  <1>5. ASSUME sendMessageBulk PROVE FlushedWhileAttached'
    BY <1>5 DEF sendMessageBulk, BulkFails, WriteFails, Flushed
  <1>6. ASSUME closingFrame PROVE FlushedWhileAttached'
    BY <1>6 DEF closingFrame
  <1>7. ASSUME closingClose PROVE FlushedWhileAttached'
    BY <1>7 DEF closingClose, closeReceiver, canSend
  <1>8. ASSUME NEW r \in Requests, Arrival(r) PROVE FlushedWhileAttached'
    BY <1>8 DEF Arrival, xhrPoll, xhrStreaming, eventSource, htmlFile, jsonp, arrive,
       badCallback, RequestInv
  <1>9. ASSUME NEW r \in Requests, Disconnect(r) \/ interrupt(r) PROVE FlushedWhileAttached'
    BY <1>9 DEF Disconnect, interrupt
  <1>10. ASSUME NEW r \in Requests, attachReceiver(r) PROVE FlushedWhileAttached'
    BY <1>10 DEF attachReceiver, AttachPC
  <1>11. ASSUME NEW r \in Requests, attachRefused(r) \/ startHandlerOnce(r) \/ awaitReceiver(r)
         PROVE  FlushedWhileAttached'
    BY <1>11 DEF attachRefused, startHandlerOnce, awaitReceiver
  <1>12. ASSUME NEW r \in Requests, refuse(r) PROVE FlushedWhileAttached'
    BY <1>12 DEF refuse, sendFrame
  <1>13. ASSUME NEW r \in Requests, refuseClose(r) PROVE FlushedWhileAttached'
    BY <1>13 DEF refuseClose, closeReceiver
  <1>14. ASSUME NEW r \in Requests, detachReceiver(r) PROVE FlushedWhileAttached'
    BY <1>14 DEF detachReceiver
  <1>15. ASSUME NEW r \in Requests, closeByWatcher(r) PROVE FlushedWhileAttached'
    BY <1>15 DEF closeByWatcher, CloseSession
  <1>16. ASSUME NEW a \in Apps, sendMessage(a) PROVE FlushedWhileAttached'
    BY <1>16 DEF sendMessage, canSend
  <1>17. ASSUME NEW a \in Apps, NEW code \in CloseCodes, Close(a, code)
         PROVE  FlushedWhileAttached'
    BY <1>17 DEF Close
  <1>18. ASSUME NEW t \in Closers, closingAgain(t) \/ closingDetached(t) \/ closingAttached(t)
         PROVE  FlushedWhileAttached'
    BY <1>18 DEF closingAgain, closingDetached, closingAttached
  <1>19. ASSUME closeByTimer \/ timerFires \/ unregister PROVE FlushedWhileAttached'
    BY <1>19 DEF closeByTimer, CloseSession, timerFires, unregister
  <1>20. ASSUME NEW k \in TimerKind, orphanFires(k) PROVE FlushedWhileAttached'
    BY <1>20 DEF orphanFires
  <1>21. ASSUME heartbeat PROVE FlushedWhileAttached'
    BY <1>21 DEF heartbeat, sendFrame
  <1> QED
    BY <1>1, <1>2, <1>3, <1>4, <1>5, <1>6, <1>7, <1>8, <1>9, <1>10, <1>11, <1>12, <1>13,
       <1>14, <1>15, <1>16, <1>17, <1>18, <1>19, <1>20, <1>21
    DEF Next, InMux, HandlerStep, WatcherStep, ClosingStep, Application

\* FlushedWhileAttached: sendMessage, attachReceiver, detachReceiver and closing()
\* never leave a message in the buffer of a session whose receiver works.
THEOREM NothingWaits == Spec => []FlushedWhileAttached
  <1>1. Init => FlushedWhileAttached
    BY DEF Init, FlushedWhileAttached
  <1>2. ASSUME UNCHANGED vars, FlushedWhileAttached
        PROVE  FlushedWhileAttached'
    BY <1>2 DEF vars, FlushedWhileAttached, Writes
  <1> QED
    BY <1>1, <1>2, FlushedStep, Invariance, PTL DEF Spec

-----------------------------------------------------------------------------
(* The receivers.                                                          *)

\* ReceiversKeepContract: every receiver, under all the calls of attachReceiver,
\* sendMessage, heartbeat and closing() and under interruptions, ends once, in one
\* way, and carries no frame after its end.
THEOREM ContractKept == Spec => ReceiversKeepContract
  <1>1. IInv /\ [Next]_vars =>
            [\A r \in Requests : Contract(r)!Next \/ UNCHANGED Contract(r)!rVars]_vars
    BY ReceiverStepStep, ContractStep DEF IInv
  <1> QED
    BY <1>1, Invariance, PTL DEF Spec, ReceiversKeepContract

=============================================================================
