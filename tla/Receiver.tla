------------------------------- MODULE Receiver -------------------------------
(***************************************************************************)
(* What the session may rely on about a receiver: the contract written in  *)
(* the comments of the interface receiver (v3/sockjs/receiver.go).  A      *)
(* receiver carries frames to the client until it ends, once, in one of    *)
(* two ways, and notifies that end through exactly one of two channels.    *)
(***************************************************************************)
EXTENDS Sequences

CONSTANT Frame

VARIABLES
    status,     \* "active", or which of the two channels was closed
    frames      \* what the client was sent, in order

rVars == <<status, frames>>

Init == status = "active" /\ frames = <<>>

\* sendBulk, sendFrame: the receiver may end with the frame it sends.
Send(frame) ==
    /\ status = "active"
    /\ frames' = Append(frames, frame)
    /\ status' \in {"active", "done"}

\* close; a write error that ends the receiver.
Finish == status = "active" /\ status' = "done" /\ UNCHANGED frames

\* The connection drops.
Interrupt == status = "active" /\ status' = "interrupted" /\ UNCHANGED frames

Next == (\E frame \in Frame : Send(frame)) \/ Finish \/ Interrupt

Spec == Init /\ [][Next]_rVars
=============================================================================
