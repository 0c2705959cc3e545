----------------------------- MODULE MCNotifier -----------------------------
(***************************************************************************)
(* Small instances of Notifier for TLC.                                    *)
(***************************************************************************)
EXTENDS Notifier, TLC

PipelineSymmetry == Permutations(Process) \cup Permutations(Goroutine)
=============================================================================
