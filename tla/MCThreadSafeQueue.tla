------------------------- MODULE MCThreadSafeQueue --------------------------
(* Model values for ThreadSafeQueue; any thread may call any operation.    *)
(* No symmetry: the run checks liveness as well.                           *)
EXTENDS ThreadSafeQueue

CONSTANTS t1, t2, t3

ThreeThreads == {t1, t2, t3}
=============================================================================
