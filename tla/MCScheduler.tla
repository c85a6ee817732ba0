---------------------------- MODULE MCScheduler ----------------------------
(* Small instances of Scheduler: one per use its callers make of it.        *)
EXTENDS Scheduler

CONSTANTS main, a, b, idle

MCThreads == {main, a, b, idle}

MCPrio == (main :> 1) @@ (a :> 0) @@ (b :> 1) @@ (idle :> 2)
MCSlice == [t \in MCThreads |-> 2]
MCSliceOne == [t \in MCThreads |-> 1]

\* Only the calls the application and the IPC code make.
Everyday == {"yield", "sleep", "block", "timed block", "release", "critical", "exit"}
MCCallsEveryday ==
    (main :> (Everyday \union {"startup", "create"})) @@ (a :> Everyday)
    @@ (b :> Everyday) @@ (idle :> {})
MCTargets == (main :> {a, b}) @@ (a :> {}) @@ (b :> {}) @@ (idle :> {})

\* The main thread manages the others: it suspends, resumes and deletes them
\* and changes priorities.  Nobody it deletes has a timer running.
Managing == {"suspend", "resume", "control", "delete", "startup", "create", "schedule"}
MCCallsManage ==
    (main :> Managing) @@ (a :> {"block"}) @@ (b :> {"release"})
    @@ (idle :> {})

\* The main thread deletes a thread that sleeps.
MCCallsDelete ==
    (main :> {"startup", "delete"}) @@ (a :> {}) @@ (b :> {"sleep"}) @@ (idle :> {})

\* Three busy threads of one priority; one of them locks the scheduler.
MCPrioEqual == [t \in MCThreads |-> IF t = idle THEN 2 ELSE 1]
MCCallsShare ==
    (main :> {"startup"}) @@ (a :> {"critical"}) @@ (b :> {}) @@ (idle :> {})
=============================================================================
