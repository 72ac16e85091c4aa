----------------------------- MODULE MCTuneFile -----------------------------
(***************************************************************************)
(* Model checking of TuneFile: three processes that may change places and  *)
(* three saves, each of which creates an inode at most.                    *)
(***************************************************************************)
EXTENDS TuneFile, TLC

ProcSymmetry == Permutations(Procs)
=============================================================================
