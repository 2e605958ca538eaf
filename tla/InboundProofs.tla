---------------------------- MODULE InboundProofs ----------------------------
(***************************************************************************)
(* Proofs about the way from the client to the application, for any        *)
(* senders and readers and batches of any length: batches arrive in order  *)
(* and without gaps, responses are true, no goroutine is parked while its  *)
(* partner is, and in v3 no request that pushes holds the table's lock.    *)
(***************************************************************************)
EXTENDS Inbound, TLAPS

Pushing(p) == send[p] \in {"select", "parked"}

\* Where a request is tells how much of its batch was received and whether it has
\* answered; the answer says the same.
SendInv ==
    \A p \in Senders :
        /\ send[p] \in {"idle", "lookup"} => next[p] = 1
        /\ send[p] = "idle" => batch[p] = 0
        /\ Pushing(p) => next[p] <= batch[p]
        /\ send[p] = "answered" <=> answer[p] # "none"
        /\ answer[p] = "ok" => next[p] = batch[p] + 1 \/ (v2 /\ closed)
        /\ answer[p] = "notOpen" => closed /\ next[p] <= batch[p]
        /\ answer[p] \in {"badForm", "payloadExpected", "brokenJson", "notFound"} =>
               next[p] = 1

\* The requests that push are the ones that hold sessionsMux in v2, so that there
\* is one of them at most; in v3 nobody keeps it.
PushHoldsTable == \A p \in Senders : mutex = p <=> v2 /\ Pushing(p)

\* Nobody is parked for nothing: a parked push and a parked pop never coexist, and
\* when the buffer is closed nobody is parked.
NoMissedPartner ==
    \A p \in Senders, q \in Readers :
        /\ send[p] = "parked" => read[q] # "parked" /\ ~closed
        /\ read[q] = "parked" => ~closed

IInv == TypeOK /\ SendInv /\ PushHoldsTable /\ NoMissedPartner /\ BatchPrefix

USE InboundAssumption DEF sendVars, readVars, vars, SendPC, ReadPC, Answer

-----------------------------------------------------------------------------
\* The sequence 1, ..., n, and what the next message makes of it.
LEMMA PrefixFacts ==
    ASSUME NEW n \in Nat
    PROVE  /\ [i \in 1..n |-> i] \in Seq(Nat)
           /\ Len([i \in 1..n |-> i]) = n
           /\ Append([i \in 1..n |-> i], n + 1) = [i \in 1 .. n + 1 |-> i]
           /\ [i \in 1..0 |-> i] = <<>>
  OBVIOUS

\* The invariant holds before the first request.
LEMMA InitIInv == Init => IInv
  <1> SUFFICES ASSUME Init
               PROVE  IInv
    OBVIOUS
  <1> USE DEF Init
  <1>1. TypeOK
    <2>1. closed \in BOOLEAN /\ registered \in BOOLEAN /\ v2 \in BOOLEAN
      BY Zenon
    <2>2. ctxDone \in [Readers -> BOOLEAN]
      BY Zenon
    <2> QED
      BY <2>1, <2>2 DEF TypeOK
  <1>2. SendInv /\ PushHoldsTable /\ NoMissedPartner
    BY DEF SendInv, PushHoldsTable, NoMissedPartner, Pushing
  <1>3. BatchPrefix
    <2> SUFFICES ASSUME NEW p \in Senders
                 PROVE  received[p] = [i \in 1 .. next[p] - 1 |-> i]
      BY Zenon DEF BatchPrefix
    <2>1. received[p] = <<>> /\ next[p] - 1 = 0
      OBVIOUS
    <2>2. [i \in 1..0 |-> i] = <<>>
      BY PrefixFacts
    <2> QED
      BY <2>1, <2>2, Zenon
  <1> QED
    BY <1>1, <1>2, <1>3 DEF IInv

-----------------------------------------------------------------------------
\* A body is decoded, or refused at once: nothing is received.
LEMMA DecodeStep ==
    ASSUME IInv, NEW p \in Senders, NEW transport, NEW payload, NEW n \in 0..MaxBatch,
           decode(p, transport, payload, n)
    PROVE  IInv'
  <1> USE DEF IInv, decode
  <1>1. CASE payload \in Tolerated(transport)
    <2>1. TypeOK'
      BY <1>1 DEF TypeOK
    <2>2. SendInv'
      BY <1>1 DEF TypeOK, SendInv, Pushing
    <2>3. PushHoldsTable' /\ NoMissedPartner' /\ BatchPrefix'
      BY <1>1 DEF TypeOK, PushHoldsTable, NoMissedPartner, BatchPrefix, Pushing
    <2> QED
      BY <2>1, <2>2, <2>3
  <1>2. CASE payload \notin Tolerated(transport)
    <2>1. PICK a \in {"badForm", "payloadExpected", "brokenJson"} : Responds(p, a)
      BY <1>2 DEF Rejection
    <2>2. TypeOK'
      BY <1>2, <2>1 DEF TypeOK, Responds
    <2>3. SendInv'
      BY <1>2, <2>1 DEF TypeOK, SendInv, Pushing, Responds
    <2>4. PushHoldsTable' /\ NoMissedPartner' /\ BatchPrefix'
      BY <1>2, <2>1 DEF TypeOK, PushHoldsTable, NoMissedPartner, BatchPrefix, Pushing, Responds
    <2> QED
      BY <2>2, <2>3, <2>4
  <1> QED
    BY <1>1, <1>2

\* The session is looked up; the lock is kept in v2 only.
LEMMA LookupStep ==
    ASSUME IInv, NEW p \in Senders, Lookups(p)
    PROVE  IInv'
  <1> DEFINE holder == IF v2 THEN p ELSE None
  <1>0. Lookup(p, holder)
    BY DEF Lookups, lookup, v2_lookup
  <1> HIDE DEF holder
  <1> USE DEF IInv, Lookup
  <1>1. CASE Responds(p, "notFound")
    <2>1. TypeOK'
      BY <1>0, <1>1 DEF TypeOK, Responds
    <2>2. SendInv'
      BY <1>0, <1>1 DEF TypeOK, SendInv, Pushing, Responds
    <2>3. PushHoldsTable' /\ NoMissedPartner' /\ BatchPrefix'
      BY <1>0, <1>1 DEF TypeOK, PushHoldsTable, NoMissedPartner, BatchPrefix, Pushing, Responds
    <2> QED
      BY <2>1, <2>2, <2>3
  <1>2. CASE Responds(p, "ok") /\ batch[p] = 0
    <2>1. TypeOK'
      BY <1>0, <1>2 DEF TypeOK, Responds
    <2>2. SendInv'
      BY <1>0, <1>2 DEF TypeOK, SendInv, Pushing, Responds
    <2>3. PushHoldsTable' /\ NoMissedPartner' /\ BatchPrefix'
      BY <1>0, <1>2 DEF TypeOK, PushHoldsTable, NoMissedPartner, BatchPrefix, Pushing, Responds
    <2> QED
      BY <2>1, <2>2, <2>3
  <1>3. CASE /\ batch[p] # 0
             /\ send' = [send EXCEPT ![p] = "select"]
             /\ mutex' = holder
             /\ UNCHANGED answer
    <2>1. holder = (IF v2 THEN p ELSE None) /\ mutex = None
      BY <1>0 DEF holder
    <2>2. TypeOK'
      BY <1>0, <1>3, <2>1 DEF TypeOK
    <2>3. SendInv'
      BY <1>0, <1>3 DEF TypeOK, SendInv, Pushing
    <2>4. PushHoldsTable'
      BY <1>0, <1>3, <2>1 DEF TypeOK, PushHoldsTable, Pushing
    <2>5. NoMissedPartner' /\ BatchPrefix'
      BY <1>0, <1>3 DEF TypeOK, NoMissedPartner, BatchPrefix
    <2> QED
      BY <2>2, <2>3, <2>4, <2>5
  <1> QED
    BY <1>0, <1>1, <1>2, <1>3

\* popCh carries the next message of a push to a pop.
LEMMA HandoverStep ==
    ASSUME IInv, NEW p \in Senders, NEW q \in Readers, Pushing(p), Handover(p, q)
    PROVE  IInv'
  <1> USE DEF IInv, Handover, Advance, Last
  <1>1. next[p] <= batch[p] /\ batch[p] \in Nat /\ next[p] \in Nat \ {0}
    BY DEF TypeOK, SendInv
  <1>2. /\ send' = [send EXCEPT ![p] = send'[p]]
        /\ answer' = [answer EXCEPT ![p] = answer'[p]]
        /\ \/ /\ next[p] = batch[p] /\ send'[p] = "answered" /\ answer'[p] = "ok"
              /\ mutex' = IF mutex = p THEN None ELSE mutex
           \/ /\ next[p] < batch[p] /\ send'[p] = "select" /\ answer'[p] = answer[p]
              /\ mutex' = mutex
    BY <1>1 DEF TypeOK, Responds
  <1>3. TypeOK'
    <2>1. received' \in [Senders -> Seq(Nat)]
      BY <1>1 DEF TypeOK
    <2>2. next' \in [Senders -> 1 .. MaxBatch + 1]
      BY <1>1 DEF TypeOK
    <2>3. send' \in [Senders -> SendPC] /\ answer' \in [Senders -> Answer]
      <3>1. send'[p] \in SendPC /\ answer'[p] \in Answer
        BY <1>2 DEF TypeOK
      <3> QED
        BY <1>2, <3>1, Zenon DEF TypeOK
    <2> QED
      BY <1>2, <2>1, <2>2, <2>3 DEF TypeOK
  <1>4. SendInv'
    BY <1>1, <1>2 DEF TypeOK, SendInv, Pushing
  <1>5. PushHoldsTable'
    BY <1>2 DEF TypeOK, PushHoldsTable, Pushing
  <1>6. NoMissedPartner'
    BY <1>2 DEF TypeOK, NoMissedPartner
  <1>7. BatchPrefix'
    <2>1. received[p] = [i \in 1 .. next[p] - 1 |-> i] /\ next[p] - 1 \in Nat
      <3>1. received[p] = [i \in 1 .. next[p] - 1 |-> i]
        BY Zenon DEF BatchPrefix
      <3> QED
        BY <3>1, <1>1
    <2>2. Append([i \in 1 .. next[p] - 1 |-> i], (next[p] - 1) + 1) = [i \in 1 .. (next[p] - 1) + 1 |-> i]
      BY <2>1, PrefixFacts
    <2>3. (next[p] - 1) + 1 = next[p] /\ next'[p] - 1 = next[p]
      BY <1>1 DEF TypeOK
    <2>4. received'[p] = [i \in 1 .. next'[p] - 1 |-> i]
      BY <2>1, <2>2, <2>3 DEF TypeOK
    <2> QED
      BY <2>4 DEF TypeOK, BatchPrefix
  <1> QED
    BY <1>3, <1>4, <1>5, <1>6, <1>7

\* The other steps of push.
LEMMA PushStep ==
    ASSUME IInv, NEW p \in Senders, pushClosed(p) \/ pushParks(p)
    PROVE  IInv'
  <1> USE DEF IInv
  <1>1. CASE pushClosed(p)
    <2>1. PICK a \in {"ok", "notOpen"} : Responds(p, a) /\ (a = "ok" => v2)
      BY <1>1 DEF pushClosed, Refused, v2_Refused
    <2>2. TypeOK'
      BY <1>1, <2>1 DEF pushClosed, TypeOK, Responds
    <2>3. SendInv'
      BY <1>1, <2>1 DEF pushClosed, TypeOK, SendInv, Pushing, Responds
    <2>4. PushHoldsTable' /\ NoMissedPartner' /\ BatchPrefix'
      BY <1>1, <2>1 DEF pushClosed, TypeOK, PushHoldsTable, NoMissedPartner, BatchPrefix, Pushing, Responds
    <2> QED
      BY <2>2, <2>3, <2>4
  <1>2. CASE pushParks(p)
    <2>1. TypeOK'
      BY <1>2 DEF pushParks, TypeOK
    <2>2. SendInv'
      BY <1>2 DEF pushParks, TypeOK, SendInv, Pushing
    <2>3. PushHoldsTable' /\ NoMissedPartner' /\ BatchPrefix'
      BY <1>2 DEF pushParks, TypeOK, PushHoldsTable, NoMissedPartner, BatchPrefix, Pushing
    <2> QED
      BY <2>1, <2>2, <2>3
  <1> QED
    BY <1>1, <1>2

\* The steps of a reader that change no request.
LEMMA ReaderStep ==
    ASSUME IInv, NEW q \in Readers,
           \/ Recv(q) \/ cancelCtx(q) \/ popClosed(q) \/ popCancelled(q) \/ popParks(q)
    PROVE  IInv'
  <1> USE DEF IInv, Recv, cancelCtx, popClosed, popCancelled, popParks, PopReturns
  <1>1. /\ UNCHANGED <<v2, closed, registered, sendVars, received>>
        /\ read' = [read EXCEPT ![q] = read'[q]]
        /\ read'[q] \in {"idle", "select", "parked"}
        /\ read'[q] = "parked" => ~closed /\ \A p \in Senders : send[p] # "parked"
    BY DEF TypeOK
  <1>2. ctxDone' \in [Readers -> BOOLEAN]
    BY DEF TypeOK
  <1>3. TypeOK'
    BY <1>1, <1>2 DEF TypeOK
  <1>4. SendInv' /\ PushHoldsTable' /\ BatchPrefix'
    BY <1>1 DEF SendInv, PushHoldsTable, BatchPrefix, Pushing
  <1>5. NoMissedPartner'
    BY <1>1 DEF TypeOK, NoMissedPartner
  <1> QED
    BY <1>3, <1>4, <1>5

\* close() wakes everybody: what was parked in push has not received its batch.
LEMMA CloseStep ==
    ASSUME IInv, close
    PROVE  IInv'
  <1> USE DEF IInv, close
  <1>1. /\ Woken(send) = {p \in Senders : send[p] = "parked"}
        /\ Woken(read) = {q \in Readers : read[q] = "parked"}
    BY DEF Woken, TypeOK
  <1>2. Refused \in {"ok", "notOpen"} /\ (Refused = "ok" => v2)
    BY DEF Refused, v2_Refused
  <1>3. closed' /\ v2' = v2 /\ next' = next /\ batch' = batch
    OBVIOUS
  <1>4. TypeOK'
    BY <1>1, <1>2 DEF TypeOK, MutexAfterClose
  <1>5. SendInv'
    BY <1>1, <1>2, <1>3 DEF TypeOK, SendInv, Pushing
  <1>6. PushHoldsTable'
    BY <1>1, <1>3 DEF TypeOK, PushHoldsTable, Pushing, MutexAfterClose
  <1>7. NoMissedPartner' /\ BatchPrefix'
    BY <1>1, <1>3 DEF TypeOK, NoMissedPartner, BatchPrefix
  <1> QED
    BY <1>4, <1>5, <1>6, <1>7

\* Every step of a request, a reader or the session keeps the invariant.
LEMMA NextIInv == IInv /\ [Next]_vars => IInv'
  <1> SUFFICES ASSUME IInv, [Next]_vars
               PROVE  IInv'
    OBVIOUS
  <1>1. ASSUME NEW p \in Senders,
               xhrSend(p) \/ jsonpSend(p) \/ v2_xhrSend(p) \/ v2_jsonpSend(p)
        PROVE  IInv'
    BY <1>1, DecodeStep DEF xhrSend, jsonpSend, v2_xhrSend, v2_jsonpSend
  <1>2. ASSUME NEW p \in Senders, Lookups(p)
        PROVE  IInv'
    BY <1>2, LookupStep
  <1>3. ASSUME NEW p \in Senders, NEW q \in Readers, pushHandover(p, q) \/ popHandover(p, q)
        PROVE  IInv'
    BY <1>3, HandoverStep DEF pushHandover, popHandover, Pushing
  <1>4. ASSUME NEW p \in Senders, pushClosed(p) \/ pushParks(p)
        PROVE  IInv'
    BY <1>4, PushStep
  <1>5. ASSUME NEW q \in Readers,
               \/ Recv(q) \/ cancelCtx(q) \/ popClosed(q) \/ popCancelled(q) \/ popParks(q)
        PROVE  IInv'
    BY <1>5, ReaderStep
  <1>6. CASE close
    BY <1>6, CloseStep
  <1>7. CASE unregister
    <2>1. TypeOK'
      BY <1>7 DEF IInv, unregister, TypeOK
    <2>2. SendInv' /\ PushHoldsTable' /\ NoMissedPartner' /\ BatchPrefix'
      BY <1>7 DEF IInv, unregister, SendInv, PushHoldsTable, NoMissedPartner, BatchPrefix, Pushing
    <2> QED
      BY <2>1, <2>2 DEF IInv
  <1>8. CASE UNCHANGED vars
    <2>1. TypeOK'
      BY <1>8 DEF IInv, TypeOK
    <2>2. SendInv' /\ PushHoldsTable' /\ NoMissedPartner' /\ BatchPrefix'
      BY <1>8 DEF IInv, SendInv, PushHoldsTable, NoMissedPartner, BatchPrefix, Pushing
    <2> QED
      BY <2>1, <2>2 DEF IInv
  <1> QED
    BY <1>1, <1>2, <1>3, <1>4, <1>5, <1>6, <1>7, <1>8 DEF Next, Push, Pop

-----------------------------------------------------------------------------
\* The endpoints, the buffer and its readers keep the invariant in every behaviour.
THEOREM Invariance == Spec => []IInv
  BY InitIInv, NextIInv, PTL DEF Spec

\* BatchPrefix: the application gets every batch message by message, in order,
\* without gaps or duplicates, up to where push is.
THEOREM InSequence == Spec => []BatchPrefix
  <1>1. IInv => BatchPrefix
    BY DEF IInv
  <1> QED
    BY Invariance, <1>1, PTL

\* AnswerIsTrue: what xhrSend and jsonpSend respond is what happened to the batch.
THEOREM TrueAnswers == Spec => []AnswerIsTrue
  <1>1. ASSUME IInv
        PROVE  AnswerIsTrue
    <2> USE <1>1 DEF IInv
    <2>1. ASSUME NEW p \in Senders
          PROVE  /\ Len(received[p]) = next[p] - 1
                 /\ next[p] = 1 => received[p] = <<>>
      <3>1. next[p] - 1 \in Nat /\ received[p] = [i \in 1 .. next[p] - 1 |-> i]
        BY DEF TypeOK, BatchPrefix
      <3> QED
        BY <3>1, PrefixFacts
    <2>2. \A p \in Senders : next[p] \in Nat /\ batch[p] \in Nat
      BY DEF TypeOK
    <2>3. ASSUME NEW p \in Senders
          PROVE  /\ answer[p] = "ok" => Len(received[p]) = batch[p] \/ (v2 /\ closed)
                 /\ answer[p] = "notOpen" => closed /\ Len(received[p]) < batch[p]
                 /\ answer[p] \in {"badForm", "payloadExpected", "brokenJson", "notFound"} =>
                        received[p] = <<>>
      BY <2>1, <2>2 DEF SendInv
    <2> QED
      BY <2>3, Zenon DEF AnswerIsTrue
  <1> QED
    BY Invariance, <1>1, PTL

\* NoMissedPartner: the selects of push and pop never leave both sides parked, and
\* close() leaves nobody parked.
THEOREM NobodyMissed == Spec => []NoMissedPartner
  <1>1. IInv => NoMissedPartner
    BY DEF IInv
  <1> QED
    BY Invariance, <1>1, PTL

\* PushHoldsTable: a request that pushes holds sessionsMux in v2 and does not in v3.
THEOREM TableLock == Spec => []PushHoldsTable
  <1>1. IInv => PushHoldsTable
    BY DEF IInv
  <1> QED
    BY Invariance, <1>1, PTL

=============================================================================
