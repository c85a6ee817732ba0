----------------------------- MODULE MCServices -----------------------------
(***************************************************************************)
(* Small instances of the parts of Services.                               *)
(***************************************************************************)
EXTENDS Services, TLC

CONSTANTS adc, p1, p2,   \* timers; the control blocks of objects; interrupt handlers
          small, medium  \* classes of chunks

\* A periodic timer and two that fire once.
AllTimes == (adc :> {2}) @@ (p1 :> {0, 2}) @@ (p2 :> {1, 2})
\* Two chunks in a zone, one on each page.
Both == (small :> 2) @@ (medium :> 2)
Names == {<<"x", "A">>, <<"x", "A", "x">>}
\* A text that fits the buffer of the console and one that does not.
Printing == {<<"x">>, <<"A", "x", "A", "x">>}
Urgencies == (adc :> 1) @@ (p1 :> 2)

\* The state without the deadlines nobody will read: those of timers that are
\* neither linked nor about to be.
Seen == <<part, IF part = "timers"
                THEN [t \in Timers |-> IF pc[t] = "insert" \/ t \in Range(list)
                                          THEN deadline[t] ELSE 0]
                ELSE Unused,
          tick, list, init, active, pc, isr, firing,
          memVars, memheapVars, slabVars, call, held, objectVars, shellVars, consoleVars>>
=============================================================================
