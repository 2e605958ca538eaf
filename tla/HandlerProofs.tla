---------------------------- MODULE HandlerProofs ----------------------------
(***************************************************************************)
(* Proofs about the table of sessions, for any requests and ids and any    *)
(* number of sessions: live sessions are found, a reaper removes no other  *)
(* session than its own, and what a request was given stays in the table   *)
(* as long as it holds the table's lock.                                   *)
(***************************************************************************)
EXTENDS Handler, TLAPS

\* A session is made with its id and its reaper, and the reaper runs after close().
SessionInv ==
    \A n \in Sessions :
        /\ n <= created => id[n] \in IDs /\ reaper[n] # "none"
        /\ n > created => reaper[n] = "none"
        /\ reaper[n] \in {"delete", "exit"} => n \in closed

\* What the table holds under an id is a session that was made for this id.
TableInv == \A i \in IDs : sessions[i] # 0 => id[sessions[i]] = i

\* The holder of sessionsMux is the request between two steps of sessionByRequest
\* or, in v2, of xhrSend and jsonpSend.
HolderInv == \A r \in Requests : sessionsMux = r <=> pc[r] \in {"setRequest", "push"}

\* A request that holds the table's lock has a session that is still in the table:
\* nobody else can remove or replace it before the request lets go.
FoundStaysInTable ==
    \A r \in Requests :
        pc[r] \in {"setRequest", "push"} => sessions[id[found[r]]] = found[r]

IInv == /\ TypeOK /\ SessionInv /\ TableInv /\ HolderInv /\ FoundStaysInTable
        /\ ReaperOwnsEntry

USE HandlerAssumption DEF tableVars, sessionVars, threadVars, vars, Sessions

-----------------------------------------------------------------------------
\* The invariant holds when NewHandler returns.
LEMMA InitIInv == Init => IInv
  <1> SUFFICES ASSUME Init
               PROVE  IInv
    OBVIOUS
  <1> USE DEF Init
  <1>1. TypeOK
    BY DEF TypeOK
  <1>2. SessionInv /\ TableInv /\ HolderInv /\ FoundStaysInTable /\ ReaperOwnsEntry
    BY DEF SessionInv, TableInv, HolderInv, FoundStaysInTable, ReaperOwnsEntry
  <1> QED
    BY <1>1, <1>2 DEF IInv

\* A request that finds a session under an id keeps the invariant, with or without
\* the lock in its hands afterwards.
LEMMA FindStep ==
    ASSUME IInv, NEW r \in Requests, NEW i \in IDs,
           NEW where \in {"setRequest", "push", "has"},
           Locks(r, IF where = "has" THEN None ELSE r), FindSession(r, i, where)
    PROVE  IInv'
  <1> USE DEF IInv, Locks, FindSession, RequestGets, exists
  <1>1. sessions[i] \in 1..created
    BY DEF TypeOK
  <1>2. TypeOK'
    BY <1>1 DEF TypeOK
  <1>3. SessionInv' /\ TableInv' /\ ReaperOwnsEntry'
    BY DEF SessionInv, TableInv, ReaperOwnsEntry
  <1>4. HolderInv'
    BY DEF TypeOK, HolderInv
  <1>5. FoundStaysInTable'
    BY <1>1 DEF TypeOK, TableInv, HolderInv, FoundStaysInTable
  <1> QED
    BY <1>2, <1>3, <1>4, <1>5

\* So does one that makes a session: no reaper of a former session with this id is
\* still to run, because the id is not in the table.
LEMMA MakeStep ==
    ASSUME IInv, NEW r \in Requests, NEW i \in IDs, NEW where \in {"setRequest", "has"},
           Locks(r, IF where = "has" THEN None ELSE r), NewSession(r, i, where)
    PROVE  IInv'
  <1> USE DEF IInv, Locks, NewSession, RequestGets, exists
  <1> DEFINE n == created + 1
  <1>1. n \in Sessions /\ created' = n /\ sessions[i] = 0
    BY DEF TypeOK
  <1>2. TypeOK'
    BY <1>1 DEF TypeOK
  <1>3. SessionInv'
    BY <1>1 DEF TypeOK, SessionInv
  <1>4. TableInv'
    BY <1>1 DEF TypeOK, TableInv
  <1>5. HolderInv'
    BY DEF TypeOK, HolderInv
  <1>6. FoundStaysInTable'
    BY <1>1 DEF TypeOK, HolderInv, FoundStaysInTable
  <1>7. ReaperOwnsEntry'
    BY <1>1 DEF TypeOK, SessionInv, ReaperOwnsEntry
  <1> QED
    BY <1>2, <1>3, <1>4, <1>5, <1>6, <1>7

\* Every step of a request, of a session or of its reaper keeps the invariant.
LEMMA NextIInv == IInv /\ [Next]_vars => IInv'
  <1> SUFFICES ASSUME IInv, [Next]_vars
               PROVE  IInv'
    OBVIOUS
  <1>1. ASSUME NEW r \in Requests, NEW i \in IDs,
               \/ sessionExists(r, i) \/ lookup(r, i) \/ v2_lookup(r, i)
               \/ newSession(r, i) \/ v2_sessionByRequest(r, i)
        PROVE  IInv'
    BY <1>1, FindStep, MakeStep DEF sessionExists, newSession, lookup, v2_sessionByRequest, v2_lookup
  <1>2. ASSUME NEW r \in Requests, setCurrentRequest(r)
        PROVE  IInv'
    <2> USE <1>2 DEF IInv, setCurrentRequest, Unlocked
    <2>1. TypeOK'
      BY DEF TypeOK
    <2>2. SessionInv' /\ TableInv' /\ ReaperOwnsEntry'
      BY DEF SessionInv, TableInv, ReaperOwnsEntry
    <2>3. HolderInv' /\ FoundStaysInTable'
      BY DEF TypeOK, HolderInv, FoundStaysInTable
    <2> QED
      BY <2>1, <2>2, <2>3
  <1>3. ASSUME NEW r \in Requests, v2_accepted(r)
        PROVE  IInv'
    <2> USE <1>3 DEF IInv, v2_accepted
    <2>1. TypeOK'
      BY DEF TypeOK
    <2>2. SessionInv' /\ TableInv' /\ ReaperOwnsEntry'
      BY DEF SessionInv, TableInv, ReaperOwnsEntry
    <2>3. HolderInv' /\ FoundStaysInTable'
      BY DEF TypeOK, HolderInv, FoundStaysInTable
    <2> QED
      BY <2>1, <2>2, <2>3
  <1>4. ASSUME NEW r \in Requests, return(r)
        PROVE  IInv'
    <2> USE <1>4 DEF IInv, return, RequestGets
    <2>1. TypeOK'
      BY DEF TypeOK
    <2>2. SessionInv' /\ TableInv' /\ ReaperOwnsEntry'
      BY DEF SessionInv, TableInv, ReaperOwnsEntry
    <2>3. HolderInv' /\ FoundStaysInTable'
      BY DEF TypeOK, HolderInv, FoundStaysInTable
    <2> QED
      BY <2>1, <2>2, <2>3
  <1>5. ASSUME NEW n \in Sessions, lock(n) \/ unlock(n) \/ close(n)
        PROVE  IInv'
    <2> USE <1>5 DEF IInv, lock, unlock, close
    <2>1. TypeOK'
      BY DEF TypeOK
    <2>2. SessionInv' /\ TableInv' /\ HolderInv' /\ FoundStaysInTable' /\ ReaperOwnsEntry'
      BY DEF SessionInv, TableInv, HolderInv, FoundStaysInTable, ReaperOwnsEntry
    <2> QED
      BY <2>1, <2>2
  <1>6. ASSUME NEW n \in Sessions, reaperWakes(n)
        PROVE  IInv'
    <2> USE <1>6 DEF IInv, reaperWakes, Done
    <2>1. TypeOK'
      BY DEF TypeOK
    <2>2. SessionInv'
      BY DEF TypeOK, SessionInv
    <2>3. TableInv' /\ HolderInv' /\ FoundStaysInTable' /\ ReaperOwnsEntry'
      BY DEF TypeOK, TableInv, HolderInv, FoundStaysInTable, ReaperOwnsEntry
    <2> QED
      BY <2>1, <2>2, <2>3
  <1>7. ASSUME NEW n \in Sessions, reaperDeletes(n)
        PROVE  IInv'
    <2> USE <1>7 DEF IInv, reaperDeletes, delete
    <2>1. n <= created /\ id[n] \in IDs /\ sessions[id[n]] = n /\ n \in 1..created
      BY DEF TypeOK, SessionInv, ReaperOwnsEntry
    <2>2. TypeOK'
      BY <2>1 DEF TypeOK
    <2>3. SessionInv' /\ TableInv'
      BY <2>1 DEF TypeOK, SessionInv, TableInv
    <2>4. HolderInv' /\ FoundStaysInTable'
      BY DEF TypeOK, HolderInv, FoundStaysInTable
    <2>5. ReaperOwnsEntry'
      BY <2>1 DEF TypeOK, ReaperOwnsEntry
    <2> QED
      BY <2>2, <2>3, <2>4, <2>5
  <1>8. CASE UNCHANGED vars
    <2> USE <1>8 DEF IInv
    <2>1. TypeOK'
      BY DEF TypeOK
    <2>2. SessionInv' /\ TableInv' /\ HolderInv' /\ FoundStaysInTable' /\ ReaperOwnsEntry'
      BY DEF SessionInv, TableInv, HolderInv, FoundStaysInTable, ReaperOwnsEntry
    <2> QED
      BY <2>1, <2>2
  <1> QED
    BY <1>1, <1>2, <1>3, <1>4, <1>5, <1>6, <1>7, <1>8 DEF Next, Reaper

-----------------------------------------------------------------------------
\* The table, its lock and the reapers keep the invariant in every behaviour.
THEOREM Invariance == Spec => []IInv
  BY InitIInv, NextIInv, PTL DEF Spec

\* ReaperOwnsEntry: until its reaper has run, a session is what its id stands for:
\* the reaper of sessionByRequest deletes by id and still removes its own session.
THEOREM OwnEntry == Spec => []ReaperOwnsEntry
  <1>1. IInv => ReaperOwnsEntry
    BY DEF IInv
  <1> QED
    BY Invariance, <1>1, PTL

\* LiveIsFound: sessionByRequest, xhrSend and jsonpSend find every session that is
\* not closed under its id, also when an earlier session had that id.
THEOREM LiveFound == Spec => []LiveIsFound
  <1>1. IInv => LiveIsFound
    BY DEF IInv, TypeOK, SessionInv, ReaperOwnsEntry, LiveIsFound
  <1> QED
    BY Invariance, <1>1, PTL

\* FoundStaysInTable: between the lookup and setCurrentRequest (v2: accept) the
\* session of the request is not removed or replaced.
THEOREM FoundStays == Spec => []FoundStaysInTable
  <1>1. IInv => FoundStaysInTable
    BY DEF IInv
  <1> QED
    BY Invariance, <1>1, PTL

=============================================================================
