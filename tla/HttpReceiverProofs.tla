-------------------------- MODULE HttpReceiverProofs --------------------------
(***************************************************************************)
(* Proofs about the HTTP receiver, for every width of the counter, every   *)
(* limit and every length of a frame: it ends once, it ends at its limit,  *)
(* and it implements the contract of the interface receiver.               *)
(***************************************************************************)
EXTENDS HttpReceiver, TLAPS

\* As long as a response with room for one more frame below the modulus is open,
\* the uint32 counter has not wrapped, and it is below the limit as soon as
\* something was counted.
CounterInv ==
    (maxResponseSize + MaxFrame <= Modulus /\ state = "active") =>
        /\ currentResponseSize = total
        /\ total >= maxResponseSize => total = 0 /\ sent = <<>>

IInv == TypeOK /\ EndsOnce /\ CounterInv

USE HttpReceiverAssumption DEF chanVars, sizeVars, envVars, vars, Frame

-----------------------------------------------------------------------------
\* A uint32 addition stays in the range of uint32, and below 2^32 it is exact.
LEMMA Uint32 ==
    ASSUME NEW m \in Nat \ {0}, NEW a \in Nat
    PROVE  /\ a % m \in 0 .. m - 1
           /\ a < m => a % m = a
  OBVIOUS

\* Counting n bytes keeps the fields in their types, and if that ends the
\* receiver, doneCh is closed once more.
LEMMA CountEffect ==
    ASSUME TypeOK, NEW n \in Nat, Count(n)
    PROVE  /\ total' = total + n
           /\ currentResponseSize' = Add(n)
           /\ Add(n) \in 0 .. Modulus - 1
           /\ \/ state' = state /\ doneCh' = doneCh /\ ~(Add(n) >= maxResponseSize)
              \/ state' = "closed" /\ doneCh' = doneCh + 1
  <1>1. currentResponseSize + n \in Nat
    BY DEF TypeOK
  <1>2. Add(n) \in 0 .. Modulus - 1
    BY <1>1, Uint32 DEF Add
  <1> QED
    BY <1>2 DEF Count, LimitReached

\* An addition that the limit leaves room for does not wrap.
LEMMA AddExact ==
    ASSUME TypeOK, CounterInv, NEW n \in 0..MaxFrame,
           maxResponseSize + MaxFrame <= Modulus, state = "active",
           total < maxResponseSize
    PROVE  Add(n) = total + n
  <1>1. currentResponseSize = total /\ total \in Nat
    BY DEF TypeOK, CounterInv
  <1>2. maxResponseSize \in Nat
    BY DEF TypeOK
  <1>3. total + n \in Nat /\ total + n < Modulus
    BY <1>1, <1>2
  <1> QED
    BY <1>1, <1>3, Uint32 DEF Add

\* Counting keeps the counter exact.
LEMMA CountCounter ==
    ASSUME TypeOK, CounterInv, NEW n \in 0..MaxFrame, Count(n), state = "active",
           maxResponseSize' = maxResponseSize
    PROVE  CounterInv'
  <1> SUFFICES ASSUME maxResponseSize + MaxFrame <= Modulus, state' = "active"
               PROVE  currentResponseSize' = total' /\ ~(total' >= maxResponseSize)
    BY DEF CounterInv
  <1>1. /\ total' = total + n
        /\ currentResponseSize' = Add(n)
        /\ ~(Add(n) >= maxResponseSize)
        /\ Add(n) \in Nat
    BY CountEffect
  <1>2. maxResponseSize \in Nat /\ total \in Nat
    BY DEF TypeOK
  <1>3. total < maxResponseSize
    BY <1>1, <1>2 DEF CounterInv
  <1>4. Add(n) = total + n
    BY <1>3, AddExact
  <1> QED
    BY <1>1, <1>2, <1>4

-----------------------------------------------------------------------------
\* The invariant holds when newHTTPReceiver returns.
LEMMA InitIInv == Init => IInv
  <1> SUFFICES ASSUME Init
               PROVE  IInv
    OBVIOUS
  <1>1. Fresh /\ v2 \in BOOLEAN /\ waiter \in {"none", "select"}
    BY DEF Init, newHTTPReceiver, v2_newHTTPReceiver
  <1>2. TypeOK
    <2>1. ctxDone \in BOOLEAN /\ writable \in BOOLEAN
      BY <1>1, Zenon DEF Fresh
    <2>2. currentResponseSize \in 0 .. Modulus - 1 /\ sent \in Seq(1..MaxFrame)
      BY <1>1 DEF Fresh
    <2> QED
      BY <1>1, <2>1, <2>2 DEF Fresh, TypeOK
  <1>3. EndsOnce /\ CounterInv
    BY <1>1 DEF Fresh, EndsOnce, CounterInv
  <1> QED
    BY <1>2, <1>3 DEF IInv

\* Every step of the receiver, its goroutine, the session and the server keeps it.
LEMMA NextIInv == IInv /\ [Next]_vars => IInv'
  <1> SUFFICES ASSUME IInv, [Next]_vars
               PROVE  IInv'
    OBVIOUS
  <1> USE DEF IInv
  <1>1. ASSUME NEW n \in Frame, sendFrame(n)
        PROVE  IInv'
    <2>1. n \in 0..MaxFrame /\ n \in Nat /\ Count(n) /\ state = "active"
      BY <1>1 DEF sendFrame, MayWrite
    <2>2. TypeOK'
      BY <1>1, <2>1, CountEffect DEF TypeOK, sendFrame
    <2>3. EndsOnce'
      BY <1>1, <2>1, CountEffect DEF TypeOK, EndsOnce, sendFrame
    <2>4. CounterInv'
      BY <1>1, <2>1, CountCounter DEF sendFrame
    <2> QED
      BY <2>2, <2>3, <2>4
  <1>2. ASSUME NEW n \in Frame, v2_sendFrame(n)
        PROVE  IInv'
    <2>1. PICK k \in 0..n : Count(k)
      BY <1>2 DEF v2_sendFrame
    <2>2. k \in 0..MaxFrame /\ k \in Nat /\ state = "active"
      BY <1>2 DEF v2_sendFrame
    <2>3. TypeOK'
      BY <1>2, <2>1, <2>2, CountEffect DEF TypeOK, v2_sendFrame
    <2>4. EndsOnce'
      BY <1>2, <2>1, <2>2, CountEffect DEF TypeOK, EndsOnce, v2_sendFrame
    <2>5. CounterInv'
      BY <1>2, <2>1, <2>2, CountCounter DEF v2_sendFrame
    <2> QED
      BY <2>3, <2>4, <2>5
  <1>3. CASE close
    BY <1>3 DEF close, TypeOK, EndsOnce, CounterInv
  <1>4. CASE Waiter
    BY <1>4 DEF Waiter, waitContext, waitDone, interrupt, StillActive, TypeOK, EndsOnce, CounterInv
  <1>5. CASE endContext
    BY <1>5 DEF endContext, TypeOK, EndsOnce, CounterInv
  <1>6. CASE breakWriter
    BY <1>6 DEF breakWriter, TypeOK, EndsOnce, CounterInv
  <1>7. CASE UNCHANGED vars
    BY <1>7 DEF TypeOK, EndsOnce, CounterInv
  <1> QED
    BY <1>1, <1>2, <1>3, <1>4, <1>5, <1>6, <1>7 DEF Next

\* The receiver keeps its types, ends once and counts exactly below the modulus.
THEOREM Invariance == Spec => []IInv
  BY InitIInv, NextIInv, PTL DEF Spec

\* EndsOnce: exactly one of doneCh and interruptCh is closed, once, whatever order
\* sendFrame, close() and the goroutine of newHTTPReceiver come in.
THEOREM ClosedOnce == Spec => []EndsOnce
  <1>1. IInv => EndsOnce
    BY DEF IInv
  <1> QED
    BY Invariance, <1>1, PTL

\* EndsAtLimit: an open response is below its limit, however the bytes add up in
\* the uint32 counter of sendFrame, if the limit leaves room for one frame.
THEOREM EndsInTime == Spec => []EndsAtLimit
  <1>1. IInv => EndsAtLimit
    BY DEF IInv, TypeOK, CounterInv, EndsAtLimit
  <1> QED
    BY Invariance, <1>1, PTL

-----------------------------------------------------------------------------
\* A step of the receiver is one of the contract, or invisible to the session.
LEMMA RefineNext == IInv /\ [Next]_vars => [Contract!Next]_(Contract!rVars)
  <1> SUFFICES ASSUME IInv, [Next]_vars
               PROVE  Contract!Next \/ UNCHANGED Contract!rVars
    OBVIOUS
  <1> USE DEF IInv, Contract!rVars
  <1>0. /\ doneCh \in Nat /\ interruptCh \in Nat
        /\ state = "active" <=> status = "active"
        /\ state = "active" => doneCh = 0 /\ interruptCh = 0
    BY DEF TypeOK, EndsOnce, status
  <1>1. ASSUME NEW n \in Frame, sendFrame(n)
        PROVE  Contract!Next
    <2>1. Count(n) /\ state = "active" /\ sent' = Append(sent, n)
      BY <1>1 DEF sendFrame, MayWrite
    <2>2. status' \in {"active", "done"}
      BY <1>0, <1>1, <2>1, CountEffect DEF status, sendFrame
    <2>3. Contract!Send(n)
      BY <1>0, <2>1, <2>2 DEF Contract!Send
    <2> QED
      BY <2>3 DEF Contract!Next
  <1>2. ASSUME NEW n \in Frame, v2_sendFrame(n)
        PROVE  Contract!Next \/ UNCHANGED Contract!rVars
    <2>1. PICK k \in 0..n : Count(k)
      BY <1>2 DEF v2_sendFrame
    <2>2. state = "active" /\ sent' = sent /\ interruptCh' = interruptCh
      BY <1>2 DEF v2_sendFrame
    <2>3. status' \in {"active", "done"}
      BY <1>0, <2>1, <2>2, CountEffect DEF status
    <2> QED
      BY <1>0, <2>2, <2>3 DEF Contract!Next, Contract!Finish
  <1>3. CASE close
    BY <1>0, <1>3 DEF close, status, Contract!Next, Contract!Finish
  <1>4. CASE Waiter
    <2>1. CASE waitContext \/ waitDone
      BY <2>1 DEF waitContext, waitDone, status
    <2>2. CASE interrupt
      BY <1>0, <2>2 DEF interrupt, StillActive, status, Contract!Next, Contract!Interrupt
    <2> QED
      BY <1>4, <2>1, <2>2 DEF Waiter
  <1>5. CASE endContext \/ breakWriter \/ UNCHANGED vars
    BY <1>5 DEF endContext, breakWriter, status
  <1> QED
    BY <1>1, <1>2, <1>3, <1>4, <1>5 DEF Next

\* ImplementsReceiver: the fields of httpReceiver, with its limit, its close() and
\* the goroutine of newHTTPReceiver, keep the contract of the interface receiver.
THEOREM Refinement == Spec => ImplementsReceiver
  <1>1. Init => Contract!Init
    BY DEF Init, newHTTPReceiver, v2_newHTTPReceiver, Fresh, status, Contract!Init
  <1> QED
    BY <1>1, Invariance, RefineNext, PTL DEF Spec, ImplementsReceiver, Contract!Spec

=============================================================================
