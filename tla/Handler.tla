------------------------------- MODULE Handler -------------------------------
(***************************************************************************)
(* The handler's table of sessions (v3/sockjs/handler.go): sessionByRequest *)
(* finds or creates the session a request names, a goroutine per session   *)
(* (here: its reaper) removes it once its closeCh is closed, xhrSend and   *)
(* jsonpSend look sessions up.                                             *)
(*                                                                         *)
(* sessionByRequest holds sessionsMux while it waits for the session's own *)
(* lock, which goroutines of the session hold during writes to the client. *)
(* In the v2 package (sockjs/handler.go; `v2' says which it is) it does    *)
(* not, but there xhrSend and jsonpSend hold sessionsMux until the         *)
(* application has taken their messages or the session is closed.          *)
(*                                                                         *)
(* Sessions are numbered in the order of their creation; 0 is no session.  *)
(* Of a session only its lock, its end and its current request matter here: *)
(* the module Session has the rest.                                        *)
(***************************************************************************)
EXTENDS Integers

CONSTANTS
    Requests,       \* request handler goroutines
    IDs,            \* session ids that requests name
    MaxSessions,    \* bound: sessions ever created
    None            \* nobody; no id

ASSUME HandlerAssumption ==
    /\ None \notin Requests \cup IDs
    /\ MaxSessions \in Nat

VARIABLES
    v2,             \* the handler is the one of the v2 package
    sessions,       \* Handler.sessions: id -> session, 0 when absent
    sessionsMux,    \* the request that holds sessionsMux, or None
    created,        \* number of sessions made so far
    id,             \* session.id
    req,            \* session.req
    closed,         \* the sessions whose closeCh is closed
    busy,           \* the sessions whose lock some goroutine of theirs holds
    reaper,         \* the goroutines of sessionByRequest
    pc,             \* where each request is
    found           \* the session it was given

tableVars   == <<v2, sessions, sessionsMux>>
sessionVars == <<created, id, req, closed, busy>>
threadVars  == <<reaper, pc, found>>
vars        == <<tableVars, sessionVars, threadVars>>

Sessions == 1..MaxSessions

TypeOK ==
    /\ v2 \in BOOLEAN
    /\ sessions \in [IDs -> 0..created]
    /\ sessionsMux \in Requests \cup {None}
    /\ created \in 0..MaxSessions
    /\ id \in [Sessions -> IDs \cup {None}]
    /\ req \in [Sessions -> Requests \cup {None}]
    /\ closed \subseteq 1..created
    /\ busy \subseteq 1..created
    /\ reaper \in [Sessions -> {"none", "waiting", "delete", "exit"}]
    /\ pc \in [Requests -> {"idle", "setRequest", "push", "has"}]
    /\ found \in [Requests -> 0..created]
    /\ \A r \in Requests : found[r] = 0 <=> pc[r] = "idle"

\* NewHandler
Init ==
    /\ v2 \in BOOLEAN
    /\ sessions = [i \in IDs |-> 0]
    /\ sessionsMux = None
    /\ created = 0
    /\ id = [n \in Sessions |-> None]
    /\ req = [n \in Sessions |-> None]
    /\ closed = {}
    /\ busy = {}
    /\ reaper = [n \in Sessions |-> "none"]
    /\ pc = [r \in Requests |-> "idle"]
    /\ found = [r \in Requests |-> 0]

-----------------------------------------------------------------------------
Wrong_exists(i) == sessions[i] # 0 /\ sessions[i] \notin closed   \* closed ones are replaced
exists(i)       == sessions[i] # 0

RequestGets(r, n, where) ==
    /\ found' = [found EXCEPT ![r] = n]
    /\ pc' = [pc EXCEPT ![r] = where]

\* A session is made, with a reaper, and the request is at `where'.
NewSession(r, i, where) ==
    /\ ~exists(i)
    /\ created < MaxSessions
    /\ LET n == created + 1
       IN  /\ created' = n
           /\ id' = [id EXCEPT ![n] = i]
           /\ req' = [req EXCEPT ![n] = r]
           /\ reaper' = [reaper EXCEPT ![n] = "waiting"]
           /\ sessions' = [sessions EXCEPT ![i] = n]
           /\ RequestGets(r, n, where)
    /\ UNCHANGED <<closed, busy>>

FindSession(r, i, where) ==
    /\ exists(i)
    /\ RequestGets(r, sessions[i], where)
    /\ UNCHANGED <<sessions, sessionVars, reaper>>

\* A request takes sessionsMux, and keeps it for its next step if it is the holder.
Locks(r, holder) ==
    /\ pc[r] = "idle"
    /\ sessionsMux = None
    /\ sessionsMux' = holder
    /\ UNCHANGED v2

\* sessionByRequest up to setCurrentRequest: the session is in the table ...
sessionExists(r, i) == ~v2 /\ Locks(r, r) /\ FindSession(r, i, "setRequest")

\* ... or it is made.
newSession(r, i) == ~v2 /\ Locks(r, r) /\ NewSession(r, i, "setRequest")

Wrong_Unlocked == sessionsMux                           \* the deferred Unlock is missing
Unlocked       == None

\* sessionByRequest's last step, under both locks.
setCurrentRequest(r) ==
    /\ pc[r] = "setRequest"
    /\ found[r] \notin busy
    /\ req' = [req EXCEPT ![found[r]] = r]
    /\ pc' = [pc EXCEPT ![r] = "has"]
    /\ sessionsMux' = Unlocked
    /\ UNCHANGED <<v2, sessions, created, id, closed, busy, reaper, found>>

\* The lookup of xhrSend and jsonpSend; they answer 404 if there is none.
lookup(r, i) == ~v2 /\ Locks(r, None) /\ FindSession(r, i, "has")

\* The session keeps the request that made it.
v2_sessionByRequest(r, i) ==
    v2 /\ Locks(r, None) /\ (FindSession(r, i, "has") \/ NewSession(r, i, "has"))

\* xhrSend and jsonpSend call accept with sessionsMux held ...
v2_lookup(r, i) == v2 /\ Locks(r, r) /\ FindSession(r, i, "push")

\* ... until the messages are taken or the session's buffer is closed.
v2_accepted(r) ==
    /\ pc[r] = "push"
    /\ pc' = [pc EXCEPT ![r] = "has"]
    /\ sessionsMux' = None
    /\ UNCHANGED <<v2, sessions, sessionVars, reaper, found>>

\* The request is over.
return(r) ==
    /\ pc[r] = "has"
    /\ RequestGets(r, 0, "idle")
    /\ UNCHANGED <<tableVars, sessionVars, reaper>>

-----------------------------------------------------------------------------
(* The sessions' own goroutines.                                            *)

\* A goroutine takes the session's lock and keeps it while it writes.
lock(n) ==
    /\ n \in 1..created
    /\ n \notin busy
    /\ busy' = busy \cup {n}
    /\ UNCHANGED <<tableVars, created, id, req, closed, threadVars>>

unlock(n) ==
    /\ n \in busy
    /\ busy' = busy \ {n}
    /\ UNCHANGED <<tableVars, created, id, req, closed, threadVars>>

\* close() closes closeCh.
close(n) ==
    /\ n \in 1..created
    /\ n \notin closed \cup busy
    /\ closed' = closed \cup {n}
    /\ UNCHANGED <<tableVars, created, id, req, busy, threadVars>>

Done(n) == n \in closed

reaperWakes(n) ==
    /\ reaper[n] = "waiting"
    /\ Done(n)
    /\ reaper' = [reaper EXCEPT ![n] = "delete"]
    /\ UNCHANGED <<tableVars, sessionVars, pc, found>>

Wrong_delete(n) == UNCHANGED sessions                   \* the entry stays
delete(n)       == sessions' = [sessions EXCEPT ![id[n]] = 0]

reaperDeletes(n) ==
    /\ reaper[n] = "delete"
    /\ sessionsMux = None
    /\ delete(n)
    /\ reaper' = [reaper EXCEPT ![n] = "exit"]
    /\ UNCHANGED <<v2, sessionsMux, sessionVars, pc, found>>

Reaper(n) == reaperWakes(n) \/ reaperDeletes(n)

Next ==
    \/ \E r \in Requests : \/ \E i \in IDs : \/ sessionExists(r, i)
                                            \/ newSession(r, i)
                                            \/ lookup(r, i)
                                            \/ v2_sessionByRequest(r, i)
                                            \/ v2_lookup(r, i)
                           \/ setCurrentRequest(r)
                           \/ v2_accepted(r)
                           \/ return(r)
    \/ \E n \in Sessions : lock(n) \/ unlock(n) \/ close(n) \/ Reaper(n)

Spec == Init /\ [][Next]_vars

\* Writes end, and a goroutine waiting for a sync.Mutex is not passed over for
\* ever by others that take it again and again.  A push to a closed session ends;
\* the applications of the others need not read.
FairSpec ==
    /\ Spec
    /\ \A n \in Sessions : WF_vars(unlock(n)) /\ SF_vars(Reaper(n))
    /\ \A r \in Requests : /\ SF_vars(setCurrentRequest(r))
                           /\ WF_vars(v2_accepted(r) /\ found[r] \in closed)

-----------------------------------------------------------------------------
\* Until its reaper has run, a session is what its id stands for in the table:
\* a reaper, however late, removes its own session and never a successor with
\* the same id (delete does not look at what it removes).
ReaperOwnsEntry ==
    \A n \in 1..created : reaper[n] \in {"waiting", "delete"} => sessions[id[n]] = n

\* A session that is not closed can be found: all requests with its id, polls
\* and sends, meet in the same session, also when the id had a session before
\* whose reaper is late.
LiveIsFound == \A n \in 1..created : n \notin closed => sessions[id[n]] = n

\* Closed sessions leave the table, in v2 as long as no push to another session
\* keeps its lock for ever.
ClosedIsRemoved ==
    (v2 => []<>(sessionsMux = None)) =>
        \A n \in Sessions : (n \in closed) ~> (\A i \in IDs : sessions[i] # n)

\* A request that holds the table's lock gets its session and releases it, as
\* long as writes end: otherwise one slow client stalls all sessions.  In v2 one
\* application that does not read does so until its session is closed, and then
\* the lock is released.
LookupReturns ==
    \A r \in Requests :
        (sessionsMux = r /\ (v2 => found[r] \in closed)) ~> (sessionsMux # r)

=============================================================================
