---------------------------- MODULE MCThreadPool ----------------------------
(***************************************************************************)
(* Workers are interchangeable and so are jobs; the symmetry is used by    *)
(* the run that checks safety only.                                        *)
(***************************************************************************)
EXTENDS ThreadPool, TLC

Symmetry == Permutations(Workers) \cup Permutations(Jobs)
=============================================================================
