---------------------------- MODULE MCController ----------------------------
(* Instances of Controller for TLC. *)
EXTENDS Controller, TLC

\* Attempts are interchangeable.
AttemptSymmetry == Permutations(Attempts)
=============================================================================
