------------------------------- MODULE Timer -------------------------------
(***************************************************************************)
(* The hard timers of timer.c and the tick that drives them (clock.c).     *)
(*                                                                         *)
(* rt_tick and timeout_tick are 32-bit words that wrap; a deadline is      *)
(* over when the difference is below RT_TICK_MAX / 2.  rt_timer_start      *)
(* unlinks the timer, reads the tick and links it in three sections, and   *)
(* rt_timer_stop reads the flag, unlinks and clears the flag in three; the *)
(* tick handler runs between any two of them, with interrupts off, calling *)
(* timeout functions that start and stop timers themselves.                *)
(*                                                                         *)
(* One thread at a time calls timer functions on a given timer, as the     *)
(* kernel (which does so with interrupts off) and the application do.      *)
(***************************************************************************)
EXTENDS Integers, SequencesExt

CONSTANTS Timers,
          NoTimer,
          Width,     \* 2^32, the number of values of rt_tick_t
          Periodic,  \* the timers made with RT_TIMER_FLAG_PERIODIC
          Times,     \* [Timers -> the values of init_tick they are given]
          MaxStall   \* BOUND: ticks a deadline may be past when it is linked

Half == (Width - 1) \div 2    \* RT_TICK_MAX / 2
Longest == Max(UNION {Times[t] : t \in Timers})

TimerAssumption ==
    /\ Timers # {} /\ NoTimer \notin Timers /\ Periodic \subseteq Timers
    /\ Width \in Nat /\ MaxStall \in Nat
    /\ \A t \in Timers : Times[t] \subseteq 0..Half /\ Times[t] # {}
    /\ \A t \in Periodic : 0 \notin Times[t]
    /\ Longest + MaxStall + 1 < Half

VARIABLES
    tick,      \* rt_tick
    list,      \* rt_timer_list
    deadline,  \* timer->timeout_tick
    init,      \* timer->init_tick
    active,    \* RT_TIMER_FLAG_ACTIVATED
    pc,        \* where a call about the timer is
    isr,       \* where SysTick_Handler is
    firing     \* the timer whose timeout function it calls

vars == <<tick, list, deadline, init, active, pc, isr, firing>>

TypeOK == /\ tick \in 0..Width - 1
          /\ list \in Seq(Timers) /\ IsInjective(list)  \* nobody is linked twice
          /\ deadline \in [Timers -> 0..Width - 1]
          /\ init \in [Timers -> 0..Longest]
          /\ active \in [Timers -> BOOLEAN]
          /\ pc \in [Timers -> {"idle", "compute", "insert", "unlink", "clear", "dead"}]
          /\ isr \in {"none", "check", "callback", "finish"}
          /\ firing \in Timers \union {NoTimer}

-----------------------------------------------------------------------------
\* a - b as the code computes it.
Minus(a, b) == (a - b) % Width

\* Mutation of Due: on the tick of the deadline only.
DueExactly(t) == tick = deadline[t]

\* The comparison of rt_timer_check.
Due(t) == Minus(tick, deadline[t]) < Half

\* _rt_timer_remove
Removed(l, t) ==
    IF t \in Range(l) THEN RemoveAt(l, CHOOSE i \in DOMAIN l : l[i] = t) ELSE l

\* Mutation of Inserted: before the timers of the same deadline.
InsertedBefore(l, d, t) ==
    LET later == {i \in DOMAIN l : Minus(d[l[i]], d[t]) < Half}
    IN  InsertAt(l, IF later = {} THEN Len(l) + 1 ELSE Min(later), t)

\* Another: the ticks are compared as they are.
InsertedPlain(l, d, t) ==
    LET later == {i \in DOMAIN l : d[t] < d[l[i]]}
    IN  InsertAt(l, IF later = {} THEN Len(l) + 1 ELSE Min(later), t)

\* The insertion loop of rt_timer_start: before the first timer with a later
\* deadline, behind those with the same one.
Inserted(l, d, t) ==
    LET later == {i \in DOMAIN l : Minus(d[l[i]], d[t]) \in 1..Half - 1}
    IN  InsertAt(l, IF later = {} THEN Len(l) + 1 ELSE Min(later), t)

At(t, l) == isr = "none" /\ pc[t] = l
Goto(t, l) == pc' = [pc EXCEPT ![t] = l]

-----------------------------------------------------------------------------
(* Calls from threads                                                       *)

\* rt_timer_control(RT_TIMER_CTRL_SET_TIME), of an active timer, too
SetTime(t, n) ==
    /\ At(t, "idle")
    /\ init' = [init EXCEPT ![t] = n]
    /\ UNCHANGED <<tick, list, deadline, active, pc, isr, firing>>

\* rt_timer_start stops the timer, ...
Start(t) ==
    /\ At(t, "idle")
    /\ list' = Removed(list, t)
    /\ active' = [active EXCEPT ![t] = FALSE]
    /\ Goto(t, "compute")
    /\ UNCHANGED <<tick, deadline, init, isr, firing>>

\* ... computes its deadline with interrupts enabled, ...
StartCompute(t) ==
    /\ At(t, "compute")
    /\ deadline' = [deadline EXCEPT ![t] = (tick + init[t]) % Width]
    /\ Goto(t, "insert")
    /\ UNCHANGED <<tick, list, init, active, isr, firing>>

\* ... and links it.
StartInsert(t) ==
    /\ At(t, "insert")
    /\ list' = Inserted(list, deadline, t)
    /\ active' = [active EXCEPT ![t] = TRUE]
    /\ Goto(t, "idle")
    /\ UNCHANGED <<tick, deadline, init, isr, firing>>

\* rt_timer_stop refuses a timer that is not active, ...
Stop(t) ==
    /\ At(t, "idle") /\ active[t]
    /\ Goto(t, "unlink")
    /\ UNCHANGED <<tick, list, deadline, init, active, isr, firing>>

\* ... unlinks it, whatever the tick handler did meanwhile, ...
StopUnlink(t) ==
    /\ At(t, "unlink")
    /\ list' = Removed(list, t)
    /\ Goto(t, "clear")
    /\ UNCHANGED <<tick, deadline, init, active, isr, firing>>

\* ... and clears the flag with interrupts enabled.
StopClear(t) ==
    /\ At(t, "clear")
    /\ active' = [active EXCEPT ![t] = FALSE]
    /\ Goto(t, "idle")
    /\ UNCHANGED <<tick, list, deadline, init, isr, firing>>

\* rt_timer_detach and rt_timer_delete
Detach(t) ==
    /\ At(t, "idle")
    /\ list' = Removed(list, t)
    /\ Goto(t, "dead")
    /\ UNCHANGED <<tick, deadline, init, active, isr, firing>>

\* rt_timer_init and rt_timer_create, on the memory of a deleted timer
Create(t, n) ==
    /\ At(t, "dead")
    /\ active' = [active EXCEPT ![t] = FALSE]
    /\ deadline' = [deadline EXCEPT ![t] = 0]
    /\ init' = [init EXCEPT ![t] = n]
    /\ Goto(t, "idle")
    /\ UNCHANGED <<tick, list, isr, firing>>

-----------------------------------------------------------------------------
(* The tick handler                                                         *)

\* rt_tick_increase.  No thread sits so long between the sections of
\* rt_timer_start that its deadline is past by more than MaxStall.
Tick ==
    /\ isr = "none"
    /\ \A t \in Timers : pc[t] = "insert" => Minus(tick, deadline[t]) # MaxStall
    /\ tick' = (tick + 1) % Width
    /\ isr' = "check"
    /\ UNCHANGED <<list, deadline, init, active, pc, firing>>

\* rt_timer_check takes the first timer that is due off the list ...
Fire ==
    /\ isr = "check" /\ list # <<>> /\ Due(Head(list))
    /\ firing' = Head(list)
    /\ list' = Tail(list)
    /\ isr' = "callback"
    /\ UNCHANGED <<tick, deadline, init, active, pc>>

\* rt_timer_start in one go, with interrupts off
StartNow(t) ==
    /\ deadline' = [deadline EXCEPT ![t] = (tick + init[t]) % Width]
    /\ list' = Inserted(Removed(list, t), deadline', t)
    /\ active' = [active EXCEPT ![t] = TRUE]

\* rt_timer_stop in one go
StopNow(t) ==
    /\ list' = IF active[t] THEN Removed(list, t) ELSE list
    /\ active' = [active EXCEPT ![t] = FALSE]
    /\ UNCHANGED deadline

\* ... and calls its timeout function, which may stop any timer nobody is
\* busy with, itself included, and start any other one (rt_thread_resume and
\* the calls that wait do it to thread timers).
Callback ==
    /\ isr = "callback"
    /\ \/ UNCHANGED <<list, deadline, active>>
       \/ \E t \in Timers : /\ pc[t] = "idle"
                            /\ StopNow(t) \/ (t # firing /\ StartNow(t))
    /\ isr' = "finish"
    /\ UNCHANGED <<tick, init, pc, firing>>

\* Mutation of Finish: a timer that fires once keeps its flag.
FinishFlagged ==
    /\ isr = "finish"
    /\ IF firing \in Periodic /\ active[firing] THEN StartNow(firing)
       ELSE UNCHANGED <<list, deadline, active>>
    /\ isr' = "check" /\ firing' = NoTimer
    /\ UNCHANGED <<tick, init, pc>>

\* A periodic timer that is still active starts again; rt_timer_check goes on.
Finish ==
    /\ isr = "finish"
    /\ IF firing \in Periodic /\ active[firing] THEN StartNow(firing)
       ELSE active' = [active EXCEPT ![firing] = FALSE] /\ UNCHANGED <<list, deadline>>
    /\ isr' = "check" /\ firing' = NoTimer
    /\ UNCHANGED <<tick, init, pc>>

\* Nothing more is due.
Return ==
    /\ isr = "check" /\ ~(list # <<>> /\ Due(Head(list)))
    /\ isr' = "none"
    /\ UNCHANGED <<tick, list, deadline, init, active, pc, firing>>

-----------------------------------------------------------------------------
Init ==
    /\ tick = 0 /\ list = <<>> /\ isr = "none" /\ firing = NoTimer
    /\ deadline = [t \in Timers |-> 0]
    /\ init = [t \in Timers |-> Min(Times[t])]
    /\ active = [t \in Timers |-> FALSE]
    /\ pc = [t \in Timers |-> "idle"]

Next ==
    \/ \E t \in Timers : \/ \E n \in Times[t] : SetTime(t, n) \/ Create(t, n)
                         \/ Start(t) \/ StartCompute(t) \/ StartInsert(t)
                         \/ Stop(t) \/ StopUnlink(t) \/ StopClear(t) \/ Detach(t)
    \/ Tick \/ Fire \/ Callback \/ Finish \/ Return

Spec == Init /\ [][Next]_vars
-----------------------------------------------------------------------------
(* Properties                                                               *)

\* The list is in the order of the deadlines, across the wrap of the tick, and
\* holds no timer twice.
ListOrdered ==
    /\ TypeOK
    /\ \A i, j \in DOMAIN list : i < j => Minus(deadline[list[j]], deadline[list[i]]) < Half

\* "the timer inserted early get called early": among equal deadlines a timer
\* that joins the list is put behind.
DeadlinesInOrder ==
    \A i, j \in DOMAIN list' :
        LET t == list'[i]
            u == list'[j]
        IN  i < j /\ deadline'[t] = deadline'[u] /\ t \notin Range(list)
                => u \notin Range(list)
EqualDeadlinesInOrder == [][DeadlinesInOrder]_vars

\* Outside of the calls about it and of its timeout function, a timer is
\* flagged active exactly when it is linked, so that rt_timer_stop stops it
\* when it has to.
FlagTellsLinked ==
    \A t \in Timers :
        pc[t] = "idle" /\ t # firing => (active[t] <=> t \in Range(list))

\* The timers implement alarms in true time: however the tick wraps and calls
\* and handlers interleave, a timer fires at the first tick at which its time
\* is over, once, and not when it was stopped or started anew.
Ahead(t) == Minus(deadline[t], tick)
Left == [t \in Timers |->
            IF (pc[t] = "insert" \/ t \in Range(list)) /\ Ahead(t) =< Longest
            THEN Ahead(t) ELSE 0]
Clock == INSTANCE Alarms WITH
    left <- Left, armed <- Range(list), ringing <- isr # "none"

ImplementsAlarms == Clock!Spec
=============================================================================
