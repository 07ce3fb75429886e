------------------------------ MODULE MCExecutor ------------------------------
(* Small instances of Executor.                                            *)
EXTENDS ExecutorProps
=============================================================================
