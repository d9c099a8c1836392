------------------------------ MODULE Channels ------------------------------
(***************************************************************************)
(* Buffered channels of the Go runtime, as the monitor uses them.  A       *)
(* receive takes the oldest value, also from a closed channel; a receive   *)
(* from a closed and empty channel reports the end; a send on a closed     *)
(* channel panics, also one that was already waiting for room.             *)
(***************************************************************************)
EXTENDS Naturals, Sequences

NewChan == [buf |-> <<>>, open |-> TRUE]

Chan(S) == [buf : Seq(S), open : BOOLEAN]

\* A send of a value completes without waiting.
CanSend(ch, cap) == ch.open /\ Len(ch.buf) < cap

Sent(ch, x) == [ch EXCEPT !.buf = Append(@, x)]

CanReceive(ch) == ch.buf # <<>>

Received(ch) == [ch EXCEPT !.buf = Tail(@)]

\* A receive reports the end of the channel (ok is false).
AtEnd(ch) == ~ch.open /\ ch.buf = <<>>

Closed(ch) == [ch EXCEPT !.open = FALSE]
=============================================================================
