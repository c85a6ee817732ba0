---------------------------- MODULE MessageQueue ----------------------------
(***************************************************************************)
(* A message queue of ipc.c: rt_mq_send, rt_mq_urgent, rt_mq_recv,         *)
(* rt_mq_control and rt_mq_delete, on the node pool rt_mq_create links up. *)
(*                                                                         *)
(* A node belongs to the free list, to the queue, or to the one call that  *)
(* took it off a list and works on it with interrupts enabled; those calls *)
(* are where the interleavings are.  A step is an interrupt-free section   *)
(* or what a call does to its own node between two of them.                *)
(*                                                                         *)
(* Any thread that is not suspended may take the next step: more than the  *)
(* priorities allow.  Of the thread lists only the suspend list of the     *)
(* queue is kept.  An interrupt handler runs its calls to their end.  What  *)
(* a call still does with a queue that was deleted is not modelled.        *)
(***************************************************************************)
EXTENDS Integers, SequencesExt

CONSTANTS Threads,  \* the threads that use the queue
          Isr,      \* an interrupt handler that does
          Nodes,    \* the messages of mq->msg_pool
          Null,     \* RT_NULL
          Values,   \* what is sent
          None      \* no value

Procs == Threads \union {Isr}
Waits == {"no", "timed", "forever"}   \* timeout = 0, > 0, RT_WAITING_FOREVER

MessageQueueAssumption ==
    /\ Isr \notin Threads
    /\ IsFiniteSet(Nodes) /\ Nodes # {} /\ Null \notin Nodes
    /\ None \notin Values

VARIABLES
    next, data,        \* the fields of a node
    head, tail, free,  \* msg_queue_head, msg_queue_tail, msg_queue_free
    entry,             \* mq->entry
    waiting,           \* the suspend list of the queue
    armed,             \* its waiters whose thread_timer is active
    err,               \* thread->error of a thread that waits or was woken
    pc,                \* where a process is in its call
    arg,               \* the value it sends
    mode,              \* the timeout it receives with
    msg,               \* the node it holds
    buf,               \* what rt_mq_recv copied for it
    phase,             \* how far rt_mq_delete is
    again              \* history: who waits, or waited, again since it began

lists == <<head, tail, free, entry>>
waits == <<waiting, armed, err>>
deletion == <<phase, again>>
vars == <<next, data, lists, waits, pc, arg, mode, msg, buf, deletion>>

NodeOrNull == Nodes \union {Null}

TypeOK ==
    /\ next \in [Nodes -> NodeOrNull] /\ data \in [Nodes -> Values \union {None}]
    /\ {head, tail, free} \subseteq NodeOrNull
    /\ entry \in 0..Cardinality(Nodes)
    /\ waiting \in Seq(Threads) /\ armed \subseteq Range(waiting)
    /\ err \in [Threads -> {"ok", "timeout", "error"}]
    /\ pc \in [Procs -> {"idle", "alloc", "fill", "link", "waits", "copy", "put"}]
    /\ arg \in [Procs -> Values \union {None}]
    /\ mode \in [Threads -> Waits]
    /\ msg \in [Procs -> NodeOrNull]
    /\ buf \in [Procs -> Values \union {None}]
    /\ phase \in {"live", "check", "take", "free", "gone", "wild"}
    /\ again \subseteq Threads

-----------------------------------------------------------------------------
\* p executes: it is not suspended, and no handler preempts it.
Usable == phase \notin {"gone", "wild"}
Runs(p) == Usable /\ (p # Isr => pc[Isr] = "idle" /\ p \notin Range(waiting))

\* Nobody calls for a queue that is being deleted but handlers.
Calls(p) == phase = "live" \/ p = Isr

At(p, l) == Runs(p) /\ pc[p] = l
Goto(p, l) == pc' = [pc EXCEPT ![p] = l]

\* The time-out a call of p was made with is forgotten.
Done(p) == mode' = [t \in Threads |-> IF t = p THEN "no" ELSE mode[t]]

\* rt_ipc_list_resume, if anybody waits
WakeFirst ==
    /\ waiting' = IF waiting = <<>> THEN <<>> ELSE Tail(waiting)
    /\ armed' = IF waiting = <<>> THEN armed ELSE armed \ {Head(waiting)}
    /\ UNCHANGED err

-----------------------------------------------------------------------------
(* rt_mq_send and rt_mq_urgent                                              *)

\* The arguments are evaluated, interrupts not yet disabled.
SendCall(p, v) ==
    /\ At(p, "idle") /\ Calls(p)
    /\ arg' = [arg EXCEPT ![p] = v]
    /\ Goto(p, "alloc")
    /\ UNCHANGED <<next, data, lists, waits, mode, msg, buf, deletion>>

\* -RT_EFULL
SendFull(p) ==
    /\ At(p, "alloc") /\ free = Null
    /\ arg' = [arg EXCEPT ![p] = None]
    /\ Goto(p, "idle")
    /\ UNCHANGED <<next, data, lists, waits, mode, msg, buf, deletion>>

\* The first section takes a node off the free list.
Alloc(p) ==
    /\ At(p, "alloc") /\ free # Null
    /\ msg' = [msg EXCEPT ![p] = free]
    /\ free' = next[free]
    /\ Goto(p, "fill")
    /\ UNCHANGED <<next, data, head, tail, entry, waits, arg, mode, buf, deletion>>

\* The message is copied into the node, with interrupts enabled.
Fill(p) ==
    /\ At(p, "fill")
    /\ next' = [next EXCEPT ![msg[p]] = Null]
    /\ data' = [data EXCEPT ![msg[p]] = arg[p]]
    /\ Goto(p, "link")
    /\ UNCHANGED <<lists, waits, arg, mode, msg, buf, deletion>>

Sent(p) ==
    /\ arg' = [arg EXCEPT ![p] = None]
    /\ msg' = [msg EXCEPT ![p] = Null]
    /\ Goto(p, "idle")

\* rt_mq_send and rt_mq_urgent are the same up to the last section, and nothing
\* tells them apart before it: which of the two was called is chosen here.

\* The second section of rt_mq_send, with the wake-up.
LinkLast(p) ==
    /\ At(p, "link")
    /\ next' = IF tail # Null THEN [next EXCEPT ![tail] = msg[p]] ELSE next
    /\ tail' = msg[p]
    /\ head' = IF head = Null THEN msg[p] ELSE head
    /\ entry' = entry + 1
    /\ WakeFirst /\ Sent(p)
    /\ UNCHANGED <<data, free, mode, buf, deletion>>

\* The second section of rt_mq_urgent.
LinkFirst(p) ==
    /\ At(p, "link")
    /\ next' = [next EXCEPT ![msg[p]] = head]
    /\ head' = msg[p]
    /\ tail' = IF tail = Null THEN msg[p] ELSE tail
    /\ entry' = entry + 1
    /\ WakeFirst /\ Sent(p)
    /\ UNCHANGED <<data, free, mode, buf, deletion>>

-----------------------------------------------------------------------------
(* rt_mq_recv                                                               *)

\* p looks at mq->entry with m left of its timeout: at the call, and again
\* after a wake-up without an error, when some of a timed wait is over.
Left(w) == IF w = "timed" THEN {"no", "timed"} ELSE {w}
Looks(p, m) ==
    /\ Runs(p)
    /\ \/ pc[p] = "idle" /\ Calls(p) /\ m \in (IF p = Isr THEN {"no"} ELSE Waits)
       \/ pc[p] = "waits" /\ err[p] = "ok" /\ m \in Left(mode[p])

\* Empty, and no time (left) to wait: -RT_ETIMEOUT.
RecvEmpty(p) ==
    /\ pc[p] = "waits" /\ Looks(p, "no") /\ entry = 0
    /\ Goto(p, "idle") /\ Done(p)
    /\ UNCHANGED <<next, data, lists, waits, arg, msg, buf, deletion>>

RecvWait(p, m) ==
    /\ Looks(p, m) /\ entry = 0 /\ m # "no"
    /\ waiting' = Append(waiting, p)
    /\ armed' = IF m = "timed" THEN armed \union {p} ELSE armed
    /\ err' = [err EXCEPT ![p] = "ok"]
    /\ mode' = [mode EXCEPT ![p] = m]
    /\ again' = IF phase = "live" THEN again ELSE again \union {p}
    /\ Goto(p, "waits")
    /\ UNCHANGED <<next, data, lists, arg, msg, buf, phase>>

\* Woken by its timer, by rt_mq_control or by rt_mq_delete; what that leaves
\* in thread->error is not looked at again.
RecvFails(p) ==
    /\ p # Isr /\ At(p, "waits") /\ err[p] # "ok"
    /\ Goto(p, "idle") /\ Done(p)
    /\ err' = [err EXCEPT ![p] = "ok"]
    /\ UNCHANGED <<next, data, lists, waiting, armed, arg, msg, buf, deletion>>

\* Mutation of Unlink: the tail is left when the last message goes.
UnlinkTailKept(p, m) ==
    /\ Looks(p, m) /\ entry # 0
    /\ msg' = [msg EXCEPT ![p] = head]
    /\ head' = next[head]
    /\ entry' = entry - 1
    /\ Goto(p, "copy") /\ Done(p)
    /\ UNCHANGED <<next, data, tail, free, waits, arg, buf, deletion>>

\* Another: the node is freed before the message is copied out.
UnlinkFrees(p, m) ==
    /\ Looks(p, m) /\ entry # 0
    /\ msg' = [msg EXCEPT ![p] = head]
    /\ head' = next[head]
    /\ tail' = IF tail = head THEN Null ELSE tail
    /\ next' = [next EXCEPT ![head] = free]
    /\ free' = head
    /\ entry' = entry - 1
    /\ Goto(p, "copy") /\ Done(p)
    /\ UNCHANGED <<data, waits, arg, buf, deletion>>

\* The section that takes the first message off the queue.
Unlink(p, m) ==
    /\ Looks(p, m) /\ entry # 0
    /\ msg' = [msg EXCEPT ![p] = head]
    /\ head' = next[head]
    /\ tail' = IF tail = head THEN Null ELSE tail
    /\ entry' = entry - 1
    /\ Goto(p, "copy") /\ Done(p)
    /\ UNCHANGED <<next, data, free, waits, arg, buf, deletion>>

\* The message is copied out, with interrupts enabled ...
Copy(p) ==
    /\ At(p, "copy")
    /\ buf' = [buf EXCEPT ![p] = data[msg[p]]]
    /\ Goto(p, "put")
    /\ UNCHANGED <<next, data, lists, waits, arg, mode, msg, deletion>>

\* ... and the last section frees the node.
PutBack(p) ==
    /\ At(p, "put")
    /\ next' = [next EXCEPT ![msg[p]] = free]
    /\ free' = msg[p]
    /\ msg' = [msg EXCEPT ![p] = Null]
    /\ buf' = [buf EXCEPT ![p] = None]
    /\ Goto(p, "idle")
    /\ UNCHANGED <<data, head, tail, entry, waits, arg, mode, deletion>>

-----------------------------------------------------------------------------
\* rt_list_remove, of a waiter
Without(l, t) == RemoveAt(l, CHOOSE i \in DOMAIN l : l[i] = t)

\* rt_thread_timeout
Timeout(t) ==
    /\ t \in armed /\ Usable
    /\ armed' = armed \ {t}
    /\ waiting' = Without(waiting, t)
    /\ err' = [err EXCEPT ![t] = "timeout"]
    /\ UNCHANGED <<next, data, lists, pc, arg, mode, msg, buf, deletion>>

\* The nodes from n on, in order; one more than there are if they go round.
Chain(n) ==
    LET walk[k \in 0..Cardinality(Nodes) + 1] ==
            [m \in NodeOrNull |->
                IF k = 0 \/ m = Null THEN <<>> ELSE <<m>> \o walk[k - 1][next[m]]]
    IN  walk[Cardinality(Nodes) + 1][n]

\* rt_mq_control(RT_IPC_CMD_RESET): all waiters fail, and the loop pushes one
\* queued node after the other on the free list.
Reset(t) ==
    LET queued == Chain(head) IN
    /\ At(t, "idle") /\ phase = "live"
    /\ waiting' = <<>> /\ armed' = {}
    /\ err' = [u \in Threads |-> IF u \in Range(waiting) THEN "error" ELSE err[u]]
    /\ next' = [n \in Nodes |-> IF n \notin Range(queued) THEN next[n]
                                ELSE LET i == CHOOSE j \in DOMAIN queued : queued[j] = n
                                     IN IF i = 1 THEN free ELSE queued[i - 1]]
    /\ free' = IF queued = <<>> THEN free ELSE Last(queued)
    /\ head' = Null /\ tail' = Null /\ entry' = 0
    /\ UNCHANGED <<data, pc, arg, mode, msg, buf, deletion>>

\* rt_mq_delete and rt_mq_detach, by a thread that uses the queue for nothing
\* else.  rt_ipc_list_resume_all looks whether anybody waits with interrupts
\* enabled, and then, with interrupts disabled, wakes the first of the list, or
\* what it takes for one.
DeleteCheck ==
    /\ phase \in {"live", "check"}
    /\ phase' = IF waiting = <<>> THEN "free" ELSE "take"
    /\ UNCHANGED <<next, data, lists, waits, pc, arg, mode, msg, buf, again>>

DeleteTake ==
    /\ phase = "take"
    /\ IF waiting = <<>>
       THEN phase' = "wild" /\ UNCHANGED waits
       ELSE /\ waiting' = Tail(waiting)
            /\ armed' = armed \ {Head(waiting)}
            /\ err' = [err EXCEPT ![Head(waiting)] = "error"]
            /\ phase' = "check"
    /\ UNCHANGED <<next, data, lists, pc, arg, mode, msg, buf, again>>

\* The nodes and the object are freed.
Delete ==
    /\ phase = "free" /\ phase' = "gone"
    /\ UNCHANGED <<next, data, lists, waits, pc, arg, mode, msg, buf, again>>

-----------------------------------------------------------------------------
\* rt_mq_create pushes the nodes of the pool on the free list one by one.
Init ==
    LET order == SetToSeq(Nodes)
    IN  /\ next = [n \in Nodes |->
                      LET i == CHOOSE j \in DOMAIN order : order[j] = n
                      IN  IF i = 1 THEN Null ELSE order[i - 1]]
        /\ free = Last(order)
        /\ data = [n \in Nodes |-> None]
        /\ head = Null /\ tail = Null /\ entry = 0
        /\ waiting = <<>> /\ armed = {}
        /\ err = [t \in Threads |-> "ok"]
        /\ pc = [p \in Procs |-> "idle"]
        /\ arg = [p \in Procs |-> None]
        /\ mode = [t \in Threads |-> "no"]
        /\ msg = [p \in Procs |-> Null]
        /\ buf = [p \in Procs |-> None]
        /\ phase = "live" /\ again = {}

Send(p) ==
    \/ \E v \in Values : SendCall(p, v)
    \/ SendFull(p) \/ Alloc(p) \/ Fill(p) \/ LinkLast(p) \/ LinkFirst(p)

Recv(p) ==
    \/ RecvEmpty(p) \/ RecvFails(p) \/ Copy(p) \/ PutBack(p)
    \/ \E m \in Waits : RecvWait(p, m) \/ Unlink(p, m)

Next ==
    \/ \E p \in Procs : Send(p) \/ Recv(p)
    \/ \E t \in Threads : Timeout(t) \/ Reset(t)
    \/ DeleteCheck \/ DeleteTake \/ Delete

Spec == Init /\ [][Next]_vars
-----------------------------------------------------------------------------
(* Properties                                                               *)

Queued == Range(Chain(head))
Freed == Range(Chain(free))
HeldBy(p) == IF msg[p] = Null THEN {} ELSE {msg[p]}

\* Every node of the pool is in exactly one place: on the free list, in the
\* queue, or in the hands of one call; head, tail, entry and the links agree.
NodesPartitioned ==
    /\ Queued \intersect Freed = {}
    /\ \A p \in Procs : HeldBy(p) \intersect (Queued \union Freed) = {}
    /\ \A p1, p2 \in Procs : p1 # p2 => HeldBy(p1) \intersect HeldBy(p2) = {}
    /\ Queued \union Freed \union UNION {HeldBy(p) : p \in Procs} = Nodes
    /\ entry = Len(Chain(head))
    /\ IF head = Null THEN tail = Null ELSE tail = Last(Chain(head))

\* No message waits beside a waiting receiver: while somebody is suspended on
\* the queue, there are at most as many messages as receivers that were woken
\* for one and have not looked yet, whoever else takes messages meanwhile.
WaitersServed ==
    waiting # <<>> =>
        entry =< Cardinality({t \in Threads : /\ pc[t] = "waits" /\ err[t] = "ok"
                                              /\ t \notin Range(waiting)})

\* Nobody stays suspended on a queue that is freed but who had been woken for a
\* message, came too late for it, and waited again meanwhile.
NobodyLeft == phase = "gone" => Range(waiting) \subseteq again

\* The queue implements a bounded FIFO: what a receiver is given is what the
\* first sender in line passed, whole, once and in order, although messages
\* are copied in and out with interrupts enabled.
Fifo == INSTANCE Channel WITH
    Capacity <- Cardinality(Nodes),
    chan <- [i \in 1..Len(Chain(head)) |-> data[Chain(head)[i]]],
    offer <- arg,
    hand <- [p \in Procs |-> IF pc[p] = "copy" THEN data[msg[p]] ELSE buf[p]]

ImplementsFifo == Fifo!Spec
=============================================================================
