---------------------------- MODULE MCWorkerPool ----------------------------
(* Instances of WorkerPool: the user's template comes before the workers in *)
(* the order of names, or after the only worker.                            *)
EXTENDS WorkerPool, TLC
CONSTANTS i1, i2

OneEach == i1 :> 2 @@ i2 :> 3
BeforeTemplate == i1 :> 1
=============================================================================
