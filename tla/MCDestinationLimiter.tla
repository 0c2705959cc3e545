------------------------ MODULE MCDestinationLimiter ------------------------
(***************************************************************************)
(* Small instance of DestinationLimiter for TLC: three versions of one     *)
(* destination, each stricter than the one before in both limits; signals  *)
(* bring them in any order.                                                *)
(***************************************************************************)
EXTENDS DestinationLimiter, TLC

MCVersion == {[maxConcurrency |-> 3, interval |-> 0],
              [maxConcurrency |-> 2, interval |-> 1],
              [maxConcurrency |-> 1, interval |-> 2]}

CallerSymmetry == Permutations(Caller)
=============================================================================
