------------------------ MODULE MCSingleThreadWorker ------------------------
(* SingleThreadWorker on small instances.                                  *)
EXTENDS SingleThreadWorker, TLC

InstSymmetry == Permutations(Insts)
=============================================================================
