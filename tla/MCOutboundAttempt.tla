-------------------------- MODULE MCOutboundAttempt --------------------------
(***************************************************************************)
(* An hour of two time units.                                              *)
(***************************************************************************)
EXTENDS OutboundAttempt, TLC

SmallRetryAfter == {NoRetryAfter, Seconds(5), Date(4)}
GoroutineSymmetry == Permutations(Goroutine)

=============================================================================
