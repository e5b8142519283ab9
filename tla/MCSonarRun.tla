------------------------------ MODULE MCSonarRun ------------------------------
(* Small instances of SonarRun.  Handlers, ids and codes are interchangeable. *)
EXTENDS SonarRun, TLC

HandlerSymmetry == Permutations(Handlers)
ImportSymmetry == Permutations(Handlers) \cup Permutations(RunIds) \cup Permutations(Codes)
=============================================================================
