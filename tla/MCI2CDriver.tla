---------------------------- MODULE MCI2CDriver ----------------------------
(* Instances of I2CDriver for TLC. *)
EXTENDS I2CDriver, TLC

\* The clients are alike.
Alike == Permutations(Client)
=============================================================================
