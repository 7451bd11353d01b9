----------------------------- MODULE EchoStream -----------------------------
(***************************************************************************)
(* What a stream driver promises its user when no rule edits the text:     *)
(* every item of the input comes out once, in input order; a FLUSH line    *)
(* hands back everything read so far before the next line is read; and at  *)
(* the end of the input nothing is held back.                              *)
(***************************************************************************)
EXTENDS Integers, Sequences

VARIABLES
  received,  \* items read: they are numbered 1..received
  emitted,   \* items written, in order
  flushing,  \* a FLUSH, or the end of the input, is being served
  closed     \* the stream is over

echo == <<received, emitted, flushing, closed>>

Upto(n) == [i \in 1..n |-> i]

Init ==
  /\ received = 0
  /\ emitted = <<>>
  /\ flushing = FALSE
  /\ closed = FALSE

\* A line is read only while no flush is being served.
Receive ==
  /\ ~flushing
  /\ received' = received + 1
  /\ emitted' \in {emitted, Upto(received')}
  /\ flushing' \in BOOLEAN
  /\ UNCHANGED closed

\* Some of the items held back are written, oldest first.
Emit ==
  /\ \E n \in Len(emitted) .. received : emitted' = Upto(n)
  /\ UNCHANGED <<received, flushing, closed>>

\* The flush is over: nothing is held back any more.
Flushed ==
  /\ flushing
  /\ flushing' = FALSE
  /\ emitted' = Upto(received)
  /\ UNCHANGED <<received, closed>>

EndOfInput ==
  /\ ~flushing
  /\ flushing' = TRUE
  /\ UNCHANGED <<received, emitted, closed>>

Close ==
  /\ flushing
  /\ emitted = Upto(received)
  /\ closed' = TRUE
  /\ UNCHANGED <<received, emitted, flushing>>

Next == ~closed /\ (Receive \/ Emit \/ Flushed \/ EndOfInput \/ Close)

Spec == Init /\ [][Next]_echo
=============================================================================
