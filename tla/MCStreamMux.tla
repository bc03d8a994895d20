---------------------------- MODULE MCStreamMux -----------------------------
(* Small instances of StreamMux for TLC. *)
EXTENDS StreamMux, TLC

RequestSymmetry == Permutations(Requests)
=============================================================================
