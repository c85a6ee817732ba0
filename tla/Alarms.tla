------------------------------- MODULE Alarms -------------------------------
(***************************************************************************)
(* What the timers promise, in true time: an alarm rings in the first tick *)
(* handler that finds its time over, never earlier, once for each time it  *)
(* was armed, and not when it was cancelled.                               *)
(***************************************************************************)
EXTENDS Naturals

CONSTANTS Timers,
          Longest    \* the longest time an alarm is set to

VARIABLES left,      \* ticks until its time is over
          armed,     \* the alarms that will ring
          ringing    \* the tick handler is at work

vars == <<left, armed, ringing>>

\* The time is noted now; the alarm is armed when the call is done.
Set(t, n) == /\ t \notin armed
             /\ left' = [left EXCEPT ![t] = n]
             /\ UNCHANGED <<armed, ringing>>

Arm(t) == armed' = armed \union {t} /\ UNCHANGED <<left, ringing>>

\* Both at once, in the tick handler.
SetArmed(t, n) == /\ left' = [left EXCEPT ![t] = n]
                  /\ armed' = armed \union {t}
                  /\ UNCHANGED ringing

Cancel(t) == /\ armed' = armed \ {t}
             /\ left' = [left EXCEPT ![t] = 0]
             /\ UNCHANGED ringing

Tick == /\ ~ringing /\ ringing' = TRUE
        /\ left' = [t \in Timers |-> IF left[t] > 0 THEN left[t] - 1 ELSE 0]
        /\ UNCHANGED armed

Ring(t) == /\ ringing /\ t \in armed /\ left[t] = 0
           /\ armed' = armed \ {t}
           /\ UNCHANGED <<left, ringing>>

\* Nobody whose time is over is left for the next tick.
Rest == /\ ringing /\ \A t \in armed : left[t] > 0
        /\ ringing' = FALSE
        /\ UNCHANGED <<left, armed>>

Init == left = [t \in Timers |-> 0] /\ armed = {} /\ ringing = FALSE

Next == \/ \E t \in Timers : \/ Arm(t) \/ Cancel(t) \/ Ring(t)
                             \/ \E n \in 0..Longest : Set(t, n) \/ SetArmed(t, n)
        \/ Tick \/ Rest

Spec == Init /\ [][Next]_vars
=============================================================================
