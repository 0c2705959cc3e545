-------------------------- MODULE MCDeliveryStore --------------------------
(***************************************************************************)
(* Small instances of DeliveryStore for TLC.                               *)
(***************************************************************************)
EXTENDS DeliveryStoreLifecycle, TLC

\* UUIDs are only compared for equality, and so are delivery ids and keys.
TokenSymmetry == Permutations(Token) \cup Permutations(BatchToken)
AllSymmetry == TokenSymmetry \cup Permutations(Delivery) \cup Permutations(Key)
=============================================================================
