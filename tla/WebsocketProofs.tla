--------------------------- MODULE WebsocketProofs ---------------------------
(***************************************************************************)
(* Proofs about a websocket connection and its session, framed or raw, v3  *)
(* or v2, for any number of messages: no channel is closed twice although  *)
(* the receiver has no lock, and the session implements the queue Outbox   *)
(* although a raw write may fail in the middle of the buffer.              *)
(***************************************************************************)
EXTENDS Websocket, TLAPS

\* At most one goroutine is between the look at wsReceiver.closeCh and its close,
\* and only while the channel is open.
CloserInv ==
    /\ doneCh <= 1
    /\ closers # {} => doneCh = 0
    /\ \A t, u \in closers : t = u

\* closeCh is closed by the step that makes the session closed, readCloseCh by the
\* end of the reader, which starts when attachReceiver has gone through.
ChannelInv ==
    /\ closeCh = (IF state = SessionClosed THEN 1 ELSE 0)
    /\ readClose = (IF reader = "exit" THEN 1 ELSE 0)
    /\ handler = "attach" => reader = "none"

\* The application runs once there is a receiver.  Messages wait only after that
\* receiver has ended or is about to: nothing is ever added to a buffer that is to
\* be written.
BufferInv ==
    /\ app # "none" => recv \/ doneCh > 0
    /\ sendBuffer # <<>> => doneCh > 0 \/ closers # {}

IInv == TypeOK /\ CloserInv /\ ChannelInv /\ BufferInv

USE WebsocketAssumption DEF SessionOpening, SessionActive, SessionClosing, SessionClosed
USE DEF config, sessVars, timerVars, connVars, readVars, histVars, vars, Goroutine, CallbackPC, HandlerPC

-----------------------------------------------------------------------------
\* The parts of a sequence that sendBulk writes and keeps.
LEMMA SubSeqFacts ==
    ASSUME NEW q \in Seq(Nat)
    PROVE  /\ SubSeq(q, 1, Len(q)) = q
           /\ SubSeq(q, Len(q) + 1, Len(q)) = <<>>
           /\ SubSeq(q, 1, 0) = <<>>
           /\ SubSeq(q, 0 + 1, Len(q)) = q
           /\ q \o <<>> = q
           /\ Len(q) \in Nat
  OBVIOUS

\* What a critical section that begins with the lock free leaves behind: at most
\* itself as a closer, and that only while the channel is open.
LEMMA LeaveKeeps ==
    ASSUME TypeOK, CloserInv, Free, NEW t \in Goroutine, NEW closes, Leave(t, closes),
           doneCh' = doneCh
    PROVE  CloserInv' /\ closers' \subseteq Goroutine
  BY DEF TypeOK, CloserInv, Free, Leave, canSend

\* A message is sent over a connection that works, over one that does not, or none.
LEMMA SendCases ==
    ASSUME IInv, sendMessage
    PROVE  LET buffer == Append(sendBuffer, nSent + 1)
           IN  \/ delivered' = delivered \o buffer /\ sendBuffer' = <<>> /\ closers' = closers
               \/ /\ doneCh > 0 /\ closers' = closers
                  /\ delivered' = delivered /\ sendBuffer' = buffer
               \/ /\ ~WriteOK /\ delivered' = delivered /\ closers' = {"app"} /\ doneCh = 0
                  /\ sendBuffer' = IF v2 THEN <<>> ELSE buffer
  <1> DEFINE buffer == Append(sendBuffer, nSent + 1)
  <1> USE DEF IInv
  <1>1. buffer \in Seq(Nat) /\ delivered \in Seq(Nat) /\ delivered \o <<>> = delivered
    BY DEF TypeOK
  <1>2. CASE recv /\ canSend /\ ~WriteOK
    <2>1. sendBuffer = <<>> /\ doneCh = 0 /\ closers = {}
      BY <1>2 DEF BufferInv, sendMessage, Free, canSend, TypeOK
    <2>2. Len(buffer) = 1
      BY <2>1 DEF TypeOK
    <2>3. PICK part \in WrittenBeforeError(buffer) : delivered' = delivered \o part
      BY <1>2 DEF sendMessage
    <2>4. part = <<>>
      <3>1. CASE raw
        <4>1. PICK k \in 0 .. Len(buffer) - 1 : part = SubSeq(buffer, 1, k)
          BY <3>1 DEF WrittenBeforeError
        <4>2. k = 0
          BY <2>2
        <4> QED
          BY <4>1, <4>2, <1>1, SubSeqFacts
      <3>2. CASE ~raw
        BY <3>2 DEF WrittenBeforeError
      <3> QED
        BY <3>1, <3>2
    <2>5. /\ sendBuffer' = IF v2 THEN <<>> ELSE buffer
          /\ closers' = {"app"}
      BY <1>2, <2>1 DEF sendMessage, Kept, v2_Kept, Leave, canSend
    <2> QED
      BY <1>1, <1>2, <2>1, <2>3, <2>4, <2>5
  <1>3. CASE recv /\ canSend /\ WriteOK
    BY <1>3 DEF sendMessage
  <1>4. CASE ~(recv /\ canSend)
    <2>1. doneCh > 0
      BY <1>4 DEF sendMessage, BufferInv, TypeOK, canSend
    <2>2. delivered' = delivered /\ sendBuffer' = buffer /\ closers' = closers
      BY <1>4 DEF sendMessage
    <2> QED
      BY <2>1, <2>2
  <1> QED
    BY <1>2, <1>3, <1>4

-----------------------------------------------------------------------------
\* The invariant holds when the connection was upgraded.
LEMMA InitIInv == Init => IInv
  <1> SUFFICES ASSUME Init
               PROVE  IInv
    OBVIOUS
  <1> USE DEF Init
  <1>1. TypeOK
    <2>1. /\ v2 \in BOOLEAN /\ raw \in BOOLEAN /\ heartbeatsOn \in BOOLEAN
          /\ recv \in BOOLEAN /\ recvClosed \in BOOLEAN
          /\ writable \in BOOLEAN /\ readable \in BOOLEAN
      BY Zenon
    <2> QED
      BY <2>1 DEF TypeOK
  <1>2. CloserInv /\ ChannelInv /\ BufferInv
    BY DEF CloserInv, ChannelInv, BufferInv
  <1> QED
    BY <1>1, <1>2 DEF IInv

\* Every step of the handler, the reader, the watcher, the application, the timers
\* and the network keeps it.
LEMMA NextIInv == IInv /\ [Next]_vars => IInv'
  <1> SUFFICES ASSUME IInv, [Next]_vars
               PROVE  IInv'
    OBVIOUS
  <1> USE DEF IInv
  <1>1. ASSUME NEW failed \in BOOLEAN, Attached(failed)
        PROVE  IInv'
    <2> USE <1>1 DEF Attached
    <2>1. CloserInv' /\ closers' \subseteq Goroutine
      BY LeaveKeeps
    <2>2. recv' \in BOOLEAN /\ state' \in 0..3 /\ timer' \in {"close", "heartbeat", "off"}
      BY DEF TypeOK, AttachState, Heartbeats
    <2>3. TypeOK'
      BY <2>1, <2>2 DEF TypeOK
    <2>4. ChannelInv'
      BY DEF TypeOK, ChannelInv, AttachState
    <2>5. BufferInv'
      BY DEF TypeOK, BufferInv, Free, Leave
    <2> QED
      BY <2>1, <2>3, <2>4, <2>5
  <1>2. CASE attachFails
    <2> USE <1>2 DEF attachFails
    <2>1. CloserInv' /\ closers' \subseteq Goroutine
      BY LeaveKeeps
    <2>2. TypeOK'
      BY <2>1 DEF TypeOK
    <2>3. ChannelInv' /\ BufferInv'
      BY DEF TypeOK, ChannelInv, BufferInv, Free, Leave
    <2> QED
      BY <2>1, <2>2, <2>3
  <1>3. CASE awaitEnd
    BY <1>3 DEF awaitEnd, TypeOK, CloserInv, ChannelInv, BufferInv
  <1>4. CASE connClose
    BY <1>4 DEF connClose, TypeOK, CloserInv, ChannelInv, BufferInv
  <1>5. CASE readError \/ readMessages \/ accepted \/ notAccepted \/ v2_notAccepted
    <2> USE <1>5 DEF readError, readMessages, accepted, notAccepted, v2_notAccepted, ReaderExits
    <2>1. /\ UNCHANGED <<sessVars, timerVars, closers, doneCh, connVars, handler, watcher, app,
                         histVars>>
          /\ reader' \in {"read", "push", "exit"} /\ readClose' \in Nat
      BY DEF TypeOK
    <2>2. TypeOK'
      BY <2>1 DEF TypeOK
    <2>3. CloserInv' /\ BufferInv'
      BY <2>1 DEF CloserInv, BufferInv
    <2>4. ChannelInv'
      BY DEF TypeOK, ChannelInv
    <2> QED
      BY <2>2, <2>3, <2>4
  <1>6. CASE detachReceiver
    <2> USE <1>6 DEF detachReceiver
    <2>1. TypeOK'
      <3>1. recv' \in BOOLEAN
        BY Zenon
      <3> QED
        BY <3>1 DEF TypeOK
    <2>2. CloserInv' /\ ChannelInv' /\ BufferInv'
      BY DEF CloserInv, ChannelInv, BufferInv
    <2> QED
      BY <2>1, <2>2
  <1>7. CASE sendMessage
    <2> DEFINE buffer == Append(sendBuffer, nSent + 1)
    <2>1. /\ UNCHANGED <<config, state, recv, closeCh, recvClosed, timerVars, doneCh, connVars,
                         handler, readVars, watcher, app>>
          /\ closers = {} /\ nSent' = nSent + 1
      BY <1>7 DEF sendMessage, Free
    <2>2. buffer \in Seq(Nat) /\ delivered \o buffer \in Seq(Nat)
      BY DEF TypeOK
    <2>3. /\ delivered' \in {delivered, delivered \o buffer}
          /\ sendBuffer' \in {<<>>, buffer}
          /\ closers' = {} \/ (closers' = {"app"} /\ doneCh = 0)
          /\ sendBuffer' # <<>> => doneCh > 0 \/ closers' # {}
      BY <1>7, <2>1, SendCases
    <2> HIDE DEF buffer
    <2>4. sendBuffer' \in Seq(Nat) /\ delivered' \in Seq(Nat) /\ nSent' \in Nat
      <3>1. <<>> \in Seq(Nat) /\ delivered \in Seq(Nat) /\ nSent' \in Nat
        BY <2>1 DEF TypeOK
      <3> QED
        BY <2>2, <2>3, <3>1, Zenon
    <2>5. TypeOK'
      BY <2>1, <2>3, <2>4 DEF TypeOK
    <2>6. CloserInv' /\ BufferInv'
      BY <2>1, <2>3 DEF CloserInv, BufferInv
    <2>7. ChannelInv'
      BY <2>1 DEF ChannelInv
    <2> QED
      BY <2>5, <2>6, <2>7
  <1>8. CASE Close
    BY <1>8 DEF Close, TypeOK, CloserInv, ChannelInv, BufferInv
  <1>9. ASSUME NEW t \in Goroutine, closing(t)
        PROVE  IInv'
    <2> USE <1>9 DEF closing
    <2>1. CloserInv' /\ closers' \subseteq Goroutine
      BY LeaveKeeps DEF TypeOK, CloserInv
    <2>2. /\ state' \in 0..3 /\ recvClosed' \in BOOLEAN
          /\ handler' \in HandlerPC /\ app' \in {"none", "idle", "closing"}
      <3>1. state' \in 0..3
        BY DEF TypeOK
      <3>2. recvClosed' \in BOOLEAN
        BY Zenon DEF TypeOK
      <3>3. handler' \in HandlerPC /\ app' \in {"none", "idle", "closing"}
        BY DEF TypeOK
      <3> QED
        BY <3>1, <3>2, <3>3
    <2>3. callbacks' \in [CallbackPC -> Nat]
      BY DEF TypeOK, AtClosing, Expired
    <2>4. TypeOK'
      BY <2>1, <2>2, <2>3 DEF TypeOK
    <2>5. ChannelInv' /\ BufferInv'
      BY DEF TypeOK, ChannelInv, BufferInv, Free, AtClosing
    <2> QED
      BY <2>1, <2>4, <2>5
  <1>10. CASE closeByHandler \/ closeByTimer
    <2> USE <1>10 DEF closeByHandler, closeByTimer, CloseSession
    <2>1. TypeOK'
      <3>1. /\ state' \in 0..3 /\ closeCh' \in Nat /\ handler' \in HandlerPC
            /\ timer' \in {"close", "heartbeat", "off"}
        BY DEF TypeOK
      <3>2. callbacks' \in [CallbackPC -> Nat]
        BY DEF TypeOK
      <3>3. UNCHANGED <<config, recv, sendBuffer, recvClosed, closers, doneCh, connVars, readVars,
                        watcher, app, histVars>>
        OBVIOUS
      <3> QED
        BY <3>1, <3>2, <3>3 DEF TypeOK
    <2>2. CloserInv' /\ BufferInv'
      BY DEF CloserInv, BufferInv
    <2>3. ChannelInv'
      BY DEF TypeOK, ChannelInv
    <2> QED
      BY <2>1, <2>2, <2>3
  <1>11. CASE timerFires
    <2> USE <1>11 DEF timerFires
    <2>1. TypeOK'
      BY DEF TypeOK
    <2>2. CloserInv' /\ ChannelInv' /\ BufferInv'
      BY DEF CloserInv, ChannelInv, BufferInv
    <2> QED
      BY <2>1, <2>2
  <1>12. CASE heartbeat
    <2> USE <1>12 DEF heartbeat
    <2>1. CloserInv' /\ closers' \subseteq Goroutine
      BY LeaveKeeps
    <2>2. TypeOK'
      BY <2>1 DEF TypeOK
    <2>3. ChannelInv' /\ BufferInv'
      BY DEF TypeOK, ChannelInv, BufferInv, Free
    <2> QED
      BY <2>1, <2>2, <2>3
  <1>13. ASSUME NEW t \in Goroutine, wsClose(t)
         PROVE  IInv'
    <2> USE <1>13 DEF wsClose
    <2>1. doneCh = 0 /\ doneCh' = 1 /\ closers' = {}
      BY DEF TypeOK, CloserInv
    <2>2. TypeOK'
      BY <2>1 DEF TypeOK
    <2>3. CloserInv'
      <3>1. doneCh' <= 1
        BY <2>1
      <3> QED
        BY <2>1, <3>1, Zenon DEF CloserInv
    <2>4. ChannelInv' /\ BufferInv'
      BY <2>1 DEF ChannelInv, BufferInv
    <2> QED
      BY <2>2, <2>3, <2>4
  <1>14. CASE writesFail \/ peerGone \/ UNCHANGED vars
    <2>1. /\ UNCHANGED <<sessVars, timerVars, closers, doneCh, conn, handler, readVars, watcher,
                         app, histVars>>
          /\ writable' \in BOOLEAN /\ readable' \in BOOLEAN
      BY <1>14 DEF writesFail, peerGone, TypeOK
    <2>2. TypeOK'
      BY <2>1 DEF TypeOK
    <2>3. CloserInv' /\ ChannelInv' /\ BufferInv'
      BY <2>1 DEF CloserInv, ChannelInv, BufferInv
    <2> QED
      BY <2>2, <2>3
  <1> QED
    BY <1>1, <1>2, <1>3, <1>4, <1>5, <1>6, <1>7, <1>8, <1>9, <1>10, <1>11, <1>12, <1>13, <1>14
    DEF Next, HandlerStep, Attach, attachReceiver, v2_attachReceiver, ReaderStep, TimerStep

\* The connection and its session keep the invariant in every behaviour.
THEOREM Invariance == Spec => []IInv
  BY InitIInv, NextIInv, PTL DEF Spec

\* ChannelsClosedOnce: wsReceiver.closeCh, session.closeCh and readCloseCh are each
\* closed at most once, although close() of the receiver takes no lock.
THEOREM ClosedOnce == Spec => []ChannelsClosedOnce
  <1>1. IInv => ChannelsClosedOnce
    BY DEF IInv, CloserInv, ChannelInv, ChannelsClosedOnce
  <1> QED
    BY Invariance, <1>1, PTL

-----------------------------------------------------------------------------
\* sendMessage takes a message and hands over the buffer, or keeps it.
LEMMA SendRefines ==
    ASSUME IInv, sendMessage
    PROVE  Promise!Accept
  <1> DEFINE q == Append(sendBuffer, nSent + 1)
  <1>1. q \in Seq(Nat) /\ delivered \in Seq(Nat)
    BY DEF IInv, TypeOK
  <1>2. nSent' = nSent + 1 /\ UNCHANGED <<v2, conn, writable>>
    BY DEF sendMessage
  <1>3. (v2 /\ ~WriteOK)' = (v2 /\ ~WriteOK)
    BY <1>2, Zenon DEF WriteOK
  <1>4. \/ delivered' = delivered \o q /\ sendBuffer' = <<>>
        \/ delivered' = delivered /\ sendBuffer' = q
        \/ (v2 /\ ~WriteOK) /\ delivered' = delivered /\ sendBuffer' = <<>>
    BY SendCases
  <1> HIDE DEF q
  <1>5. \/ \E k \in 0..Len(q) : /\ delivered' = delivered \o SubSeq(q, 1, k)
                                /\ sendBuffer' = SubSeq(q, k + 1, Len(q))
        \/ (v2 /\ ~WriteOK) /\ delivered' = delivered /\ sendBuffer' = <<>>
    <2>1. CASE delivered' = delivered \o q /\ sendBuffer' = <<>>
      <3>1. /\ Len(q) \in 0..Len(q)
            /\ delivered' = delivered \o SubSeq(q, 1, Len(q))
            /\ sendBuffer' = SubSeq(q, Len(q) + 1, Len(q))
        BY <1>1, <2>1, SubSeqFacts
      <3> QED
        BY <3>1
    <2>2. CASE delivered' = delivered /\ sendBuffer' = q
      <3>1. /\ 0 \in 0..Len(q)
            /\ delivered' = delivered \o SubSeq(q, 1, 0)
            /\ sendBuffer' = SubSeq(q, 0 + 1, Len(q))
        BY <1>1, <2>2, SubSeqFacts
      <3> QED
        BY <3>1
    <2> QED
      BY <1>4, <2>1, <2>2
  <1> QED
    BY <1>2, <1>3, <1>5 DEF q, Promise!Accept, Promise!Hand

\* Every other step leaves the queue alone; a v2 connection whose writes begin to
\* fail is doomed from then on.
LEMMA OtherRefines ==
    ASSUME IInv, [Next]_vars, ~sendMessage
    PROVE  Promise!Doom \/ UNCHANGED Promise!oVars
  <1> USE DEF Promise!oVars
  <1>1. UNCHANGED <<nSent, sendBuffer, delivered, v2>>
    BY DEF Next, HandlerStep, Attach, attachReceiver, v2_attachReceiver, attachFails, Attached,
           awaitEnd, closing, closeByHandler, CloseSession, connClose, ReaderStep, readMessages,
           readError, notAccepted, v2_notAccepted, TimerStep, closeByTimer, timerFires,
           heartbeat, detachReceiver, wsClose, accepted, Close, writesFail, peerGone
  <1>2. (conn' = conn /\ writable' = writable) \/ ~WriteOK'
    BY DEF Next, HandlerStep, Attach, attachReceiver, v2_attachReceiver, attachFails, Attached,
           awaitEnd, closing, closeByHandler, CloseSession, connClose, ReaderStep, readMessages,
           readError, notAccepted, v2_notAccepted, TimerStep, closeByTimer, timerFires,
           heartbeat, detachReceiver, wsClose, accepted, Close, writesFail, peerGone, WriteOK
  <1>3. CASE conn' = conn /\ writable' = writable
    <2>1. (v2 /\ ~WriteOK)' = (v2 /\ ~WriteOK)
      BY <1>1, <1>3, Zenon DEF WriteOK
    <2> QED
      BY <1>1, <2>1
  <1>4. CASE ~WriteOK' /\ v2
    <2>1. (v2 /\ ~WriteOK)' = TRUE
      BY <1>1, <1>4, Zenon
    <2> QED
      BY <1>1, <2>1 DEF Promise!Doom
  <1>5. CASE ~v2
    <2>1. (v2 /\ ~WriteOK)' = (v2 /\ ~WriteOK)
      BY <1>1, <1>5, Zenon
    <2> QED
      BY <1>1, <2>1
  <1> QED
    BY <1>2, <1>3, <1>4, <1>5

\* ImplementsOutbox: messages given to sendMessage are written in order and once;
\* v3 keeps what a failed write did not take, v2 drops it, and nothing else is lost.
THEOREM Refinement == Spec => ImplementsOutbox
  <1>1. Init => Promise!Init
    <2> SUFFICES ASSUME Init
                 PROVE  Promise!Init
      OBVIOUS
    <2>1. (v2 /\ ~WriteOK) = FALSE
      BY Zenon DEF Init, WriteOK
    <2> QED
      BY <2>1 DEF Init, Promise!Init
  <1>2. IInv /\ [Next]_vars => [Promise!Next]_(Promise!oVars)
    BY SendRefines, OtherRefines DEF Promise!Next
  <1> QED
    BY <1>1, <1>2, Invariance, PTL DEF Spec, ImplementsOutbox, Promise!Spec

=============================================================================
