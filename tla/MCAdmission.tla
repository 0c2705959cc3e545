----------------------------- MODULE MCAdmission -----------------------------
(***************************************************************************)
(* Model values of Admission that are alike.                               *)
(***************************************************************************)
EXTENDS Admission, TLC

AdmissionSymmetry ==
  Permutations(Request) \cup Permutations(Key) \cup Permutations(Content)

=============================================================================
