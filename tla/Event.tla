------------------------------- MODULE Event -------------------------------
(***************************************************************************)
(* An event of ipc.c: rt_event_send, rt_event_recv, rt_event_control and   *)
(* rt_event_delete.                                                        *)
(*                                                                         *)
(* A thread asks for a set of bits: for all of them or for any, and to     *)
(* clear what it receives or not.  Sending walks the suspend list once,    *)
(* from its first waiter to its last, and hands bits out as it goes.       *)
(* Any thread that is not suspended may take the next step; a handler may  *)
(* send at any time.                                                       *)
(***************************************************************************)
EXTENDS Integers, SequencesExt

CONSTANTS Threads,  \* the threads that use the event
          Bits      \* the bits of event->set that are used

EventAssumption == IsFiniteSet(Threads) /\ IsFiniteSet(Bits)

\* RT_EVENT_FLAG_AND or RT_EVENT_FLAG_OR, RT_EVENT_FLAG_CLEAR
Options == [all : BOOLEAN, clear : BOOLEAN]
Phases == {"live", "check", "take", "gone", "wild"}

VARIABLES
    set,      \* event->set
    waiting,  \* the suspend list
    want,     \* thread->event_set of a thread that waits or was woken
    info,     \* its thread->event_info
    armed,    \* the waiters whose thread_timer is active
    err,      \* thread->error of a thread that waits or was woken
    inside,   \* the threads that wait, or were woken and have not returned
    phase     \* how far rt_event_delete is

request == <<want, info>>
vars == <<set, waiting, request, armed, err, inside, phase>>

TypeOK ==
    /\ set \subseteq Bits
    /\ waiting \in Seq(Threads) /\ armed \subseteq Range(waiting)
    /\ want \in [Threads -> SUBSET Bits] /\ info \in [Threads -> Options]
    /\ err \in [Threads -> {"ok", "timeout", "error"}]
    /\ inside \subseteq Threads
    /\ phase \in Phases

-----------------------------------------------------------------------------
Satisfied(s, w, o) == IF o.all THEN w \subseteq s ELSE w \intersect s # {}

\* Nobody calls for an event that is being deleted but handlers; when the
\* deletion has taken the list head for a thread, anything may follow.
Outside(t) == phase = "live" /\ t \notin inside
Usable == phase \in {"live", "check", "take"}

\* rt_event_recv finds what it asks for.  A thread that does not wait, and does
\* not find it, leaves no trace.
Receive(t, w, o) ==
    /\ Outside(t) /\ Satisfied(set, w, o)
    /\ set' = IF o.clear THEN set \ w ELSE set
    /\ UNCHANGED <<waiting, request, armed, err, inside, phase>>

Wait(t, w, o, timed) ==
    /\ Outside(t) /\ ~Satisfied(set, w, o)
    /\ want' = [want EXCEPT ![t] = w]
    /\ info' = [info EXCEPT ![t] = o]
    /\ waiting' = Append(waiting, t)
    /\ armed' = IF timed THEN armed \union {t} ELSE armed
    /\ err' = [err EXCEPT ![t] = "ok"]
    /\ inside' = inside \union {t}
    /\ UNCHANGED <<set, phase>>

\* A thread that waited returns, with the bits in its event_set unless woken
\* with an error.  What it leaves in its fields is not looked at again.
NoOption == [all |-> FALSE, clear |-> FALSE]
Return(t) ==
    /\ t \in inside /\ t \notin Range(waiting) /\ phase # "wild"
    /\ inside' = inside \ {t}
    /\ want' = [want EXCEPT ![t] = {}]
    /\ info' = [info EXCEPT ![t] = NoOption]
    /\ err' = [err EXCEPT ![t] = "ok"]
    /\ UNCHANGED <<set, waiting, armed, phase>>

\* Mutations of Served: the bits are not cleared; a thread that asked for any of
\* its bits is given all it asked for.
ServedKeeps(a, t) ==
    IF ~Satisfied(a.set, a.want[t], info[t]) THEN [a EXCEPT !.left = Append(@, t)]
    ELSE [a EXCEPT !.want[t] = @ \intersect a.set]
ServedAsked(a, t) ==
    IF ~Satisfied(a.set, a.want[t], info[t]) THEN [a EXCEPT !.left = Append(@, t)]
    ELSE [a EXCEPT !.set = IF info[t].clear THEN @ \ a.want[t] ELSE @]

\* One round of the loop in rt_event_send, for waiter t: a has the set, the
\* event_sets and who was left on the suspend list so far.
Served(a, t) ==
    LET got == a.want[t] \intersect a.set IN
    IF ~Satisfied(a.set, a.want[t], info[t]) THEN [a EXCEPT !.left = Append(@, t)]
    ELSE [a EXCEPT !.want[t] = got, !.set = IF info[t].clear THEN @ \ got ELSE @]

\* rt_event_send, by a thread or a handler.
Send(s) ==
    LET start == [set |-> set \union s, want |-> want, left |-> <<>>]
        end == FoldLeft(Served, start, waiting)
    IN  /\ Usable /\ s # {}
        /\ set' = end.set /\ want' = end.want /\ waiting' = end.left
        /\ armed' = armed \intersect Range(end.left)
        /\ UNCHANGED <<info, err, inside, phase>>

\* rt_list_remove, of a waiter
Without(l, t) == RemoveAt(l, CHOOSE i \in DOMAIN l : l[i] = t)

\* rt_thread_timeout
Timeout(t) ==
    /\ t \in armed /\ phase # "wild"
    /\ armed' = armed \ {t}
    /\ waiting' = Without(waiting, t)
    /\ err' = [err EXCEPT ![t] = "timeout"]
    /\ UNCHANGED <<set, request, inside, phase>>

\* rt_event_control(RT_IPC_CMD_RESET): all waiters fail.
Reset ==
    /\ phase = "live"
    /\ waiting' = <<>> /\ armed' = {}
    /\ err' = [t \in Threads |-> IF t \in Range(waiting) THEN "error" ELSE err[t]]
    /\ set' = {}
    /\ UNCHANGED <<request, inside, phase>>

\* rt_event_delete and rt_event_detach.  rt_ipc_list_resume_all looks whether
\* anybody waits with interrupts enabled, and then, with interrupts disabled,
\* wakes the first thread on the list, or what it takes for one.  Who deletes
\* uses the object for nothing else.
DeleteCheck ==
    /\ phase \in {"live", "check"}
    /\ phase' = IF waiting = <<>> THEN "gone" ELSE "take"
    /\ UNCHANGED <<set, waiting, request, armed, err, inside>>

\* Mutation of DeleteTake: one waiter is woken, and that is all.
DeleteTakeOne ==
    /\ phase = "take"
    /\ waiting' = Tail(waiting)
    /\ armed' = armed \ {Head(waiting)}
    /\ err' = [err EXCEPT ![Head(waiting)] = "error"]
    /\ phase' = "gone"
    /\ UNCHANGED <<set, request, inside>>

DeleteTake ==
    /\ phase = "take"
    /\ IF waiting = <<>>
       THEN phase' = "wild" /\ UNCHANGED <<waiting, armed, err>>
       ELSE /\ waiting' = Tail(waiting)
            /\ armed' = armed \ {Head(waiting)}
            /\ err' = [err EXCEPT ![Head(waiting)] = "error"]
            /\ phase' = "check"
    /\ UNCHANGED <<set, request, inside>>

Init ==
    /\ set = {} /\ waiting = <<>> /\ armed = {} /\ inside = {}
    /\ want = [t \in Threads |-> {}]
    /\ info = [t \in Threads |-> NoOption]
    /\ err = [t \in Threads |-> "ok"]
    /\ phase = "live"

Next ==
    \/ \E t \in Threads, w \in (SUBSET Bits) \ {{}}, o \in Options :
          Receive(t, w, o) \/ \E timed \in BOOLEAN : Wait(t, w, o, timed)
    \/ \E t \in Threads : Return(t) \/ Timeout(t)
    \/ \E s \in (SUBSET Bits) \ {{}} : Send(s)
    \/ Reset \/ DeleteCheck \/ DeleteTake

Spec == Init /\ [][Next]_vars
-----------------------------------------------------------------------------
(* Properties                                                               *)

\* No lost wake-up: nobody is suspended on an event whose bits are what it asks
\* for, although waiters before it took some of them and the walk of
\* rt_event_send passes each waiter once.
NobodySatisfied ==
    \A t \in Range(waiting) : ~Satisfied(set, want[t], info[t])

\* A waiter that is woken by rt_event_send has what it asked for: every bit, or
\* some of them and only bits that were set; bits it clears go to no other
\* thread that clears, and are not set any more.
HandedOut ==
    LET woken == {t \in Range(waiting) \ Range(waiting') : err'[t] = "ok"}
    IN  /\ \A t \in woken :
              /\ want'[t] # {} /\ want'[t] \subseteq want[t]
              /\ info[t].all => want'[t] = want[t]
              /\ info[t].clear => want'[t] \intersect set' = {}
        /\ \A t, u \in woken :
              t # u /\ info[t].clear /\ info[u].clear => want'[t] \intersect want'[u] = {}
BitsHandedOut == [][HandedOut]_vars

\* rt_event_delete leaves nobody suspended on what it frees.
NobodyLeft == phase = "gone" => waiting = <<>>
=============================================================================
