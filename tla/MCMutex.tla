------------------------------ MODULE MCMutex ------------------------------
(* Small instances of Mutex.                                                *)
EXTENDS Mutex

CONSTANTS hi, mid, lo, idle

MCThreads == {hi, mid, lo, idle}
MCBase == (hi :> 0) @@ (mid :> 1) @@ (lo :> 2) @@ (idle :> 3)

\* Everybody uses the mutexes in every way.
MCCalls == [t \in MCThreads |-> IF t = idle THEN {} ELSE CallNames]

\* Two threads, two mutexes.
MCPair == {hi, lo, idle}
MCPairBase == (hi :> 0) @@ (lo :> 1) @@ (idle :> 2)
MCPairCalls == [t \in MCPair |-> IF t = idle THEN {} ELSE CallNames \ {"delete"}]
=============================================================================
