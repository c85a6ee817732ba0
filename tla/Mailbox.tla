------------------------------ MODULE Mailbox ------------------------------
(***************************************************************************)
(* A mailbox of ipc.c: rt_mb_send_wait, rt_mb_recv, rt_mb_control and      *)
(* rt_mb_delete, on the ring of words msg_pool.  Senders wait for room on  *)
(* a suspend list of their own, receivers for a mail on the one every IPC  *)
(* object has.                                                             *)
(*                                                                         *)
(* Any thread that is not suspended may take the next step, as in          *)
(* MessageQueue.  A call that does not wait is one interrupt-free section, *)
(* and so is every round of one that does.  What a call still does with a   *)
(* mailbox that was deleted is undefined, and not modelled.                *)
(***************************************************************************)
EXTENDS Integers, SequencesExt

CONSTANTS Threads,  \* the threads that use the mailbox
          Isr,      \* an interrupt handler that does, without waiting
          Size,     \* mb->size
          Values,   \* what is sent
          None      \* no value

Procs == Threads \union {Isr}
Waits == {"no", "timed", "forever"}   \* timeout = 0, > 0, RT_WAITING_FOREVER
Sides == {"send", "recv"}             \* suspend_sender_thread, suspend_thread

MailboxAssumption ==
    /\ Size \in Nat \ {0} /\ IsFiniteSet(Threads)
    /\ Isr \notin Threads /\ None \notin Values

VARIABLES
    pool,                   \* mb->msg_pool
    inOffset, outOffset,    \* mb->in_offset, mb->out_offset
    entry,                  \* mb->entry
    list,                   \* the two suspend lists, by side
    armed,                  \* the waiters whose thread_timer is active
    err,                    \* thread->error of a thread that waits or was woken
    pc,                     \* where a process is in its call
    mode,                   \* the timeout it waits with
    arg,                    \* the value it sends
    got,                    \* the value it received, until its call returns
    phase,                  \* how far rt_mb_delete is
    again                   \* history: who waits, or waited, again since it began

ring == <<pool, inOffset, outOffset, entry>>
waits == <<list, armed, err>>
deletion == <<phase, again>>
vars == <<ring, waits, pc, mode, arg, got, deletion>>

TypeOK ==
    /\ pool \in [0..Size - 1 -> Values \union {None}]
    /\ inOffset \in 0..Size - 1 /\ outOffset \in 0..Size - 1 /\ entry \in 0..Size
    /\ list \in [Sides -> Seq(Threads)]
    /\ armed \subseteq Range(list["send"]) \union Range(list["recv"])
    /\ err \in [Threads -> {"ok", "timeout", "error"}]
    /\ pc \in [Procs -> {"idle", "send", "send_waits", "recv_waits", "return"}]
    /\ mode \in [Threads -> Waits]
    /\ arg \in [Procs -> Values \union {None}]
    /\ got \in [Procs -> Values \union {None}]
    /\ phase \in {"live", "recv", "recv_take", "send", "send_take", "free", "gone", "wild"}
    /\ again \subseteq Threads

-----------------------------------------------------------------------------
Suspended(t) == \E s \in Sides : t \in Range(list[s])
Usable == phase \notin {"gone", "wild"}
Runs(p) == Usable /\ (p # Isr => pc[Isr] = "idle" /\ ~Suspended(p))

\* Nobody calls for a mailbox that is being deleted but handlers.
Calls(p) == phase = "live" \/ p = Isr

Goto(p, l) == pc' = [pc EXCEPT ![p] = l]

\* The labels of who waits on a side, and of a deletion that takes who waits there.
Waiting == [send |-> "send_waits", recv |-> "recv_waits"]
Taking == [send |-> "send_take", recv |-> "recv_take"]

\* The time-out a call of p was made with is forgotten.
Done(p) == mode' = [t \in Threads |-> IF t = p THEN "no" ELSE mode[t]]

\* rt_ipc_list_suspend, the timer, and rt_schedule
Wait(t, s, m) ==
    /\ list' = [list EXCEPT ![s] = Append(@, t)]
    /\ armed' = IF m = "timed" THEN armed \union {t} ELSE armed
    /\ err' = [err EXCEPT ![t] = "ok"]
    /\ mode' = [mode EXCEPT ![t] = m]
    /\ again' = IF phase = "live" THEN again ELSE again \union {t}
    /\ Goto(t, Waiting[s])
    /\ UNCHANGED phase

\* rt_ipc_list_resume, if anybody waits
Wake(s) ==
    /\ list' = IF list[s] = <<>> THEN list ELSE [list EXCEPT ![s] = Tail(@)]
    /\ armed' = IF list[s] = <<>> THEN armed ELSE armed \ {Head(list[s])}
    /\ UNCHANGED err

\* p looks at mb->entry with m left of its timeout: when its call begins (at
\* label first), and again after a wake-up without an error.
Left(w) == IF w = "timed" THEN {"no", "timed"} ELSE {w}
Looks(p, s, first, m) ==
    /\ Runs(p)
    /\ \/ pc[p] = first /\ m \in (IF p = Isr THEN {"no"} ELSE Waits)
          /\ (first = "idle" => Calls(p))
       \/ pc[p] = Waiting[s] /\ err[p] = "ok" /\ m \in Left(mode[p])

-----------------------------------------------------------------------------
(* rt_mb_send_wait                                                          *)

SendCall(p, v) ==
    /\ Runs(p) /\ pc[p] = "idle" /\ Calls(p)
    /\ arg' = [arg EXCEPT ![p] = v]
    /\ Goto(p, "send")
    /\ UNCHANGED <<ring, waits, mode, got, deletion>>

\* -RT_EFULL: the mailbox is full and there is no time (left) to wait.
SendFull(p) ==
    /\ Looks(p, "send", "send", "no") /\ entry = Size
    /\ arg' = [arg EXCEPT ![p] = None]
    /\ Goto(p, "idle") /\ Done(p)
    /\ UNCHANGED <<ring, waits, got, deletion>>

SendWait(t, m) ==
    /\ Looks(t, "send", "send", m) /\ entry = Size /\ m # "no"
    /\ Wait(t, "send", m)
    /\ UNCHANGED <<ring, arg, got>>

Advanced(offset) == IF offset + 1 >= Size THEN 0 ELSE offset + 1

Put(p, m) ==
    /\ Looks(p, "send", "send", m) /\ entry # Size
    /\ pool' = [pool EXCEPT ![inOffset] = arg[p]]
    /\ inOffset' = Advanced(inOffset)
    /\ entry' = entry + 1
    /\ Wake("recv")
    /\ arg' = [arg EXCEPT ![p] = None]
    /\ Goto(p, "idle") /\ Done(p)
    /\ UNCHANGED <<outOffset, got, deletion>>

-----------------------------------------------------------------------------
(* rt_mb_recv                                                               *)

\* -RT_ETIMEOUT: still empty after a wake-up, and the time is over.
RecvEmpty(p) ==
    /\ pc[p] = "recv_waits" /\ Looks(p, "recv", "idle", "no") /\ entry = 0
    /\ Goto(p, "idle") /\ Done(p)
    /\ UNCHANGED <<ring, waits, arg, got, deletion>>

RecvWait(t, m) ==
    /\ Looks(t, "recv", "idle", m) /\ entry = 0 /\ m # "no"
    /\ Wait(t, "recv", m)
    /\ UNCHANGED <<ring, arg, got>>

\* Mutation of Get: no wake-up.
GetQuiet(p, m) ==
    /\ Looks(p, "recv", "idle", m) /\ entry # 0
    /\ got' = [got EXCEPT ![p] = pool[outOffset]]
    /\ outOffset' = Advanced(outOffset)
    /\ entry' = entry - 1
    /\ Goto(p, "return") /\ Done(p)
    /\ UNCHANGED <<pool, inOffset, waits, arg, deletion>>

Get(p, m) ==
    /\ Looks(p, "recv", "idle", m) /\ entry # 0
    /\ got' = [got EXCEPT ![p] = pool[outOffset]]
    /\ outOffset' = Advanced(outOffset)
    /\ entry' = entry - 1
    /\ Wake("send")
    /\ Goto(p, "return") /\ Done(p)
    /\ UNCHANGED <<pool, inOffset, arg, deletion>>

\* The caller has the mail.
GetReturn(p) ==
    /\ Runs(p) /\ pc[p] = "return"
    /\ got' = [got EXCEPT ![p] = None]
    /\ Goto(p, "idle")
    /\ UNCHANGED <<ring, waits, mode, arg, deletion>>

-----------------------------------------------------------------------------
\* A waiter woken by its timer, by rt_mb_control or by rt_mb_delete returns with the error;
\* what it leaves in thread->error is not looked at again.
Fails(t) ==
    /\ Runs(t) /\ pc[t] \in {"send_waits", "recv_waits"} /\ err[t] # "ok"
    /\ arg' = [arg EXCEPT ![t] = None]
    /\ Goto(t, "idle") /\ Done(t)
    /\ err' = [err EXCEPT ![t] = "ok"]
    /\ UNCHANGED <<ring, list, armed, got, deletion>>

\* rt_list_remove, of who is on the list
Without(l, t) == RemoveAt(l, CHOOSE i \in DOMAIN l : l[i] = t)

\* rt_thread_timeout
Timeout(t) ==
    /\ t \in armed /\ Usable
    /\ armed' = armed \ {t}
    /\ list' = [s \in Sides |-> IF t \in Range(list[s]) THEN Without(list[s], t) ELSE list[s]]
    /\ err' = [err EXCEPT ![t] = "timeout"]
    /\ UNCHANGED <<ring, pc, mode, arg, got, deletion>>

\* rt_mb_control(RT_IPC_CMD_RESET): waiting senders and receivers fail.
Reset(t) ==
    /\ Runs(t) /\ pc[t] = "idle" /\ phase = "live"
    /\ list' = [s \in Sides |-> <<>>] /\ armed' = {}
    /\ err' = [u \in Threads |-> IF Suspended(u) THEN "error" ELSE err[u]]
    /\ entry' = 0 /\ inOffset' = 0 /\ outOffset' = 0
    /\ UNCHANGED <<pool, pc, mode, arg, got, deletion>>

\* rt_mb_delete and rt_mb_detach, by a thread that uses the mailbox for nothing
\* else: first the receivers, then the senders.  rt_ipc_list_resume_all looks
\* whether anybody waits with interrupts enabled, and then, with interrupts
\* disabled, wakes the first of the list, or what it takes for one.
DeleteCheck ==
    /\ \/ /\ phase \in {"live", "recv"}
          /\ phase' = IF list["recv"] = <<>> THEN "send" ELSE "recv_take"
       \/ /\ phase = "send"
          /\ phase' = IF list["send"] = <<>> THEN "free" ELSE "send_take"
    /\ UNCHANGED <<ring, waits, pc, mode, arg, got, again>>

DeleteTake(s) ==
    /\ phase = Taking[s]
    /\ IF list[s] = <<>>
       THEN phase' = "wild" /\ UNCHANGED waits
       ELSE /\ list' = [list EXCEPT ![s] = Tail(@)]
            /\ armed' = armed \ {Head(list[s])}
            /\ err' = [err EXCEPT ![Head(list[s])] = "error"]
            /\ phase' = s
    /\ UNCHANGED <<ring, pc, mode, arg, got, again>>

\* The ring and the object are freed.
Delete ==
    /\ phase = "free" /\ phase' = "gone"
    /\ UNCHANGED <<ring, waits, pc, mode, arg, got, again>>

Init ==
    /\ pool = [i \in 0..Size - 1 |-> None]
    /\ inOffset = 0 /\ outOffset = 0 /\ entry = 0
    /\ list = [s \in Sides |-> <<>>] /\ armed = {}
    /\ err = [t \in Threads |-> "ok"]
    /\ pc = [p \in Procs |-> "idle"]
    /\ mode = [t \in Threads |-> "no"]
    /\ arg = [p \in Procs |-> None]
    /\ got = [p \in Procs |-> None]
    /\ phase = "live" /\ again = {}

Next ==
    \/ \E p \in Procs :
          \/ \E v \in Values : SendCall(p, v)
          \/ SendFull(p) \/ RecvEmpty(p) \/ GetReturn(p)
          \/ \E m \in Waits : \/ Put(p, m) \/ Get(p, m)
                              \/ SendWait(p, m) \/ RecvWait(p, m)
    \/ \E t \in Threads : Fails(t) \/ Timeout(t) \/ Reset(t)
    \/ DeleteCheck \/ \E s \in Sides : DeleteTake(s)
    \/ Delete

Spec == Init /\ [][Next]_vars
-----------------------------------------------------------------------------
(* Properties                                                               *)

\* Who was woken without an error and did not look again yet.
Woken(s) == {t \in Threads : pc[t] = Waiting[s] /\ err[t] = "ok" /\ t \notin Range(list[s])}

\* No lost wake-up on either side: while receivers are suspended there are at
\* most as many mails as receivers on their way to one, and while senders are
\* suspended at most as many free words as senders on their way.
NobodyForgotten ==
    /\ list["recv"] # <<>> => entry =< Cardinality(Woken("recv"))
    /\ list["send"] # <<>> => Size - entry =< Cardinality(Woken("send"))

\* Nobody stays suspended on a mailbox that is freed but who had been woken for
\* a mail or a word, came too late for it, and waited again meanwhile.
NobodyLeft == phase = "gone" => \A s \in Sides : Range(list[s]) \subseteq again

\* What the ring holds, first mail first.
Mails == [i \in 1..entry |-> pool[(outOffset + i - 1) % Size]]

\* The mailbox implements a bounded FIFO: the two offsets and the count, kept
\* modulo the size, always delimit the mails sent and not received, in order.
Fifo == INSTANCE Channel WITH
    Capacity <- Size,
    chan <- Mails,
    offer <- arg,
    hand <- got

ImplementsFifo == Fifo!Spec
=============================================================================
