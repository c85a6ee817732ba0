------------------------------- MODULE MCIpc -------------------------------
(***************************************************************************)
(* The objects of ipc.c and mempool.c with two or three threads.           *)
(***************************************************************************)
EXTENDS Ipc

CONSTANTS a, b, c   \* threads

\* The first thread is more urgent than the others.
Urgency == [t \in {a, b, c} |-> IF t = a THEN 1 ELSE 2]
=============================================================================
