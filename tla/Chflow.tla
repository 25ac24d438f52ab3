------------------------------- MODULE Chflow -------------------------------
(***************************************************************************)
(* Bounded Go channels as the service uses them through pkg/x/chflow: a    *)
(* channel is the sequence of its buffered values, with a capacity and a   *)
(* closed flag kept beside it.  Receive and Send are selects over          *)
(* ctx.Done() and the channel operation; when both are ready Go picks one  *)
(* at random, so the two outcomes are separate predicates and a caller     *)
(* offers every outcome whose predicate holds.                             *)
(***************************************************************************)
EXTENDS Naturals, Sequences

\* A receive that yields a value: also from a closed or cancelled channel,
\* as long as something is buffered.
Receives(ch) == ch # <<>>

\* A receive that reports ok = FALSE: the context is done, or the channel is
\* closed and drained.
ReceiveEnds(ch, closed, ctxDone) == ctxDone \/ (closed /\ ch = <<>>)

\* The select of Send may choose `ch <- data`.
Sends(ch, cap, closed) == ~closed /\ Len(ch) < cap

\* The select of Send may choose ctx.Done().
SendEnds(ctxDone) == ctxDone

\* On a closed channel `ch <- data` is always ready, and choosing it panics.
SendPanics(closed) == closed
=============================================================================
