--------------------------- MODULE SessionInvariant ---------------------------
(***************************************************************************)
(* The inductive invariant of the session: what has to be known about the  *)
(* lock, the goroutines and the receivers to see that every step keeps the *)
(* properties of the module Session.                                       *)
(***************************************************************************)
EXTENDS Session

AttachPCs  == {"attach.closeFrame", "attach.close", "attach.open", "attach.bulk"}
ClosingPCs == {"closing.frame", "closing.close"}

\* Who holds s.mux, and what the section it is in has established: nobody else
\* can attach, detach or change the state meanwhile.
LockInv ==
    /\ mux = "free" <=> holder = None
    /\ mux \in AttachPCs => /\ holder \in Requests
                            /\ recv = holder
                            /\ handler[holder] = "attach"
    /\ mux = "send" => recv # None /\ state = SessionActive
    /\ mux \in ClosingPCs => /\ recv # None
                             /\ state = SessionClosing
                             /\ recvClosed
                             /\ AtClosing(holder)
    /\ mux \in {"attach.closeFrame", "attach.close"} => state = SessionClosing
    /\ mux = "attach.open" => state = SessionOpening
    /\ mux = "attach.bulk" => state \in {SessionActive, SessionClosed}

\* close() has closeCh closed exactly when the session is closed, and reaches
\* its second half only after closing().
CloseInv ==
    /\ closeCh = (IF state = SessionClosed THEN 1 ELSE 0)
    /\ callbacks["afterClosing"] > 0 => state >= SessionClosing
    /\ \A r \in Requests : watcher[r] = "afterClosing" => state >= SessionClosing
    /\ closeCodes # {} => state >= SessionClosing

\* The life of a request before its receiver is attached, and when that fails:
\* only an interruption ends such a receiver, and if it stays installed after a
\* failed write it will never write again.
RequestInv ==
    \A r \in Requests :
        /\ handler[r] = "idle" => rstate[r] = "none" /\ recv # r
        /\ rstate[r] = "none" => wire[r] = <<>>
        /\ handler[r] # "idle" /\ rstate[r] = "none" => handler[r] = "returned" /\ recv # r
        /\ handler[r] = "attach" /\ recv # r =>
               rstate[r] \in {"active", "interrupted"} /\ wire[r] = <<>>
        /\ handler[r] = "attach" /\ recv = r => holder = r /\ mux \in AttachPCs
        /\ handler[r] = "refused" /\ recv = r =>
               broken[r] /\ (rstate[r] = "done" => state >= SessionClosing)
        /\ handler[r] = "closing" /\ recv = r =>
               rstate[r] # "active" /\ (rstate[r] = "done" => state >= SessionClosing)

\* The application starts after the open frame.
StartInv ==
    /\ started => state >= SessionActive
    /\ \A r \in Requests : handler[r] \in {"attached", "serving"} => state >= SessionActive
    /\ state = SessionOpening => nSent = 0 /\ sendBuffer = <<>>

\* Where the application can find a receiver attached, the session was opened.
OpenBeforeSend == started /\ mux = "free" /\ recv # None => state >= SessionActive

\* A receiver about to take the open frame or the buffer's messages has not ended
\* normally.
BulkInv ==
    /\ mux = "attach.open" => rstate[holder] # "done"
    /\ mux = "send" => rstate[recv] # "done"
    /\ mux = "attach.bulk" => rstate[holder] # "done" \/ sendBuffer = <<>>

\* Only messages that were sent are buffered or delivered.
SentInv ==
    \A i \in 1..Len(delivered \o sendBuffer) : (delivered \o sendBuffer)[i] <= nSent

\* What is known of the frames of a response that is still open.
FrameInv ==
    \A r \in Requests :
        /\ rstate[r] = "active" /\ limit[r] = 1 => wire[r] = <<>>
        /\ rstate[r] = "active" /\ Contains(wire[r], "c") =>
               recv = r /\ mux \in {"attach.close", "closing.close"}
        /\ rstate[r] = "active" /\ Contains(wire[r], "busy") =>
               recv # r /\ handler[r] = "closing"
        /\ Contains(wire[r], "o") => state # SessionOpening
        /\ recv = r /\ mux \in {"attach.closeFrame", "attach.open"} => wire[r] = <<>>

\* The inductive invariant: the properties of the session and what they rest on.
IInv ==
    /\ TypeOK
    /\ LockInv /\ CloseInv /\ RequestInv /\ StartInv /\ BulkInv /\ SentInv /\ FrameInv
    /\ WatcherOwnsReceiver
    /\ ReleasedWhenClosing /\ OneCloseFrame
    /\ ExpiryPending /\ HeartbeatPending
    /\ FrameOrder /\ OneFramePerPoll /\ OpenFrameOnce
    /\ NoSilentLoss /\ InOrder

=============================================================================
