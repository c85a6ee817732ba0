-------------------------------- MODULE Ipc --------------------------------
(***************************************************************************)
(* The objects threads wait on side by side: a message queue, a mailbox, a *)
(* semaphore, an event and a memory pool, each with threads and handlers   *)
(* that use it in every way.                                               *)
(* One state has one of them, which `part` names; the variables of the     *)
(* others are Unused, those of Semaphore as they were made, and variables  *)
(* the others have in common are shared.                                   *)
(***************************************************************************)
EXTENDS Semaphore

CONSTANTS Peers,        \* the threads that use the queue, the mailbox, the event
          Isr,          \* an interrupt handler that uses the first two
          Size,         \* messages in the queue's pool, words in the mailbox's ring
          Values,       \* what is sent through them
          Bits,         \* of the event
          Blocks,       \* of the memory pool
          MaxPended,    \* BOUND: its suspend_thread_count
          Null, None,   \* no node, no value
          Unused        \* the value of a variable that is not in use

VARIABLES
    part,                                         \* besides those of Semaphore
    next, data, head, tail, free, msg, buf,       \* of MessageQueue
    pool, inOffset, outOffset, list, got,         \* of Mailbox
    entry, pc, arg,                               \* of both
    set, want, info,                              \* of Event
    blockList, freeCount, given, pended,          \* of MemoryPool
    inCall,                                       \* of the last two: inside
    mode, again,                                  \* of all but Event
    suspended,                                    \* of all but Mailbox: waiting
    timed, result, stage                          \* of all: armed, err, phase

queueOnly == <<next, data, head, tail, free, msg, buf>>
boxOnly == <<pool, inOffset, outOffset, list, got>>
channel == <<entry, pc, arg>>
bitsOnly == <<set, want, info>>
blocksOnly == <<blockList, freeCount, given, pended>>
common == <<timed, result, stage>>

Queue == INSTANCE MessageQueue WITH
    Threads <- Peers, Nodes <- 1..Size,
    waiting <- suspended, armed <- timed, err <- result, phase <- stage
Box == INSTANCE Mailbox WITH
    Threads <- Peers, armed <- timed, err <- result, phase <- stage
Flags == INSTANCE Event WITH
    Threads <- Peers,
    inside <- inCall, waiting <- suspended, armed <- timed, err <- result, phase <- stage
Area == INSTANCE MemoryPool WITH
    inside <- inCall, waiting <- suspended, armed <- timed, err <- result, phase <- stage

ASSUME InstancesAssumption ==
    /\ Queue!MessageQueueAssumption /\ Box!MailboxAssumption
    /\ SemaphoreAssumption /\ Flags!EventAssumption
    /\ Area!MemoryPoolAssumption

NoQueue == /\ next = Unused /\ data = Unused /\ head = Unused /\ tail = Unused
           /\ free = Unused /\ msg = Unused /\ buf = Unused
NoBox == /\ pool = Unused /\ inOffset = Unused /\ outOffset = Unused
         /\ list = Unused /\ got = Unused
NoChannel == entry = Unused /\ pc = Unused /\ arg = Unused
NoFlags == set = Unused /\ want = Unused /\ info = Unused
NoBlocks == blockList = Unused /\ freeCount = Unused /\ given = Unused /\ pended = Unused
NoCommon == timed = Unused /\ result = Unused /\ stage = Unused

AllInit ==
    /\ Init
    /\ \/ part = "queue" /\ Queue!Init /\ NoBox /\ NoFlags /\ NoBlocks /\ inCall = Unused
       \/ /\ part = "box" /\ Box!Init /\ NoQueue /\ NoFlags /\ NoBlocks /\ inCall = Unused
          /\ suspended = Unused
       \/ /\ part = "count" /\ NoQueue /\ NoBox /\ NoChannel /\ NoFlags /\ NoBlocks
          /\ inCall = Unused /\ mode = Unused /\ again = Unused /\ suspended = Unused
          /\ NoCommon
       \/ /\ part = "flags" /\ Flags!Init /\ NoQueue /\ NoBox /\ NoChannel /\ NoBlocks
          /\ mode = Unused /\ again = Unused
       \/ part = "pool" /\ Area!Init /\ NoQueue /\ NoBox /\ NoChannel /\ NoFlags

QueueStep == /\ part = "queue" /\ Queue!Next
             /\ UNCHANGED <<part, vars, boxOnly, bitsOnly, blocksOnly, inCall>>
BoxStep == /\ part = "box" /\ Box!Next
           /\ UNCHANGED <<part, vars, queueOnly, bitsOnly, blocksOnly, inCall, suspended>>
CountStep == /\ part = "count" /\ Next
             /\ UNCHANGED <<part, queueOnly, boxOnly, channel, bitsOnly, blocksOnly, inCall,
                           mode, again, suspended, common>>
FlagsStep == /\ part = "flags" /\ Flags!Next
             /\ UNCHANGED <<part, vars, queueOnly, boxOnly, channel, blocksOnly, mode, again>>
PoolStep == /\ part = "pool" /\ Area!Next
            /\ UNCHANGED <<part, vars, queueOnly, boxOnly, channel, bitsOnly>>
AllNext == QueueStep \/ BoxStep \/ CountStep \/ FlagsStep \/ PoolStep

allVars == <<part, vars, queueOnly, boxOnly, channel, bitsOnly, blocksOnly, inCall,
             mode, again, suspended, common>>
AllSpec == AllInit /\ [][AllNext]_allVars
-----------------------------------------------------------------------------
(* The properties of the five modules, each where it applies; the modules   *)
(* say what they mean.  Those of Semaphore hold of its variables in every   *)
(* part.                                                                    *)

\* TypeOK of each module.
AllTyped ==
    CASE part = "queue" -> Queue!TypeOK
      [] part = "box" -> Box!TypeOK
      [] part = "count" -> TypeOK
      [] part = "flags" -> Flags!TypeOK
      [] part = "pool" -> Area!TypeOK

\* The fields have their types, and the nodes of a message queue and the blocks
\* of a pool are partitioned (MessageQueue, MemoryPool).
FieldsAgree ==
    /\ AllTyped
    /\ part = "queue" => Queue!NodesPartitioned
    /\ part = "pool" => Area!BlocksPartitioned

\* Nobody is suspended beside what it waits for: no message, no room and no
\* block is there but what others were woken for (MessageQueue, Mailbox,
\* MemoryPool), and no bits it could receive are set (Event).
NobodyStranded ==
    CASE part = "queue" -> Queue!WaitersServed
      [] part = "box" -> Box!NobodyForgotten
      [] part = "flags" -> Flags!NobodySatisfied
      [] part = "pool" -> Area!NobodyForgotten
      [] OTHER -> TRUE

\* Woken waiters of an event have what they asked for, once (Event).
BitsHandedOut == [][part = "flags" => Flags!HandedOut]_allVars

\* A deletion leaves nobody suspended on what it frees, but in the calls that
\* look again after a wake-up, who looks and waits again while it is under way.
DeletedLeft ==
    CASE part = "queue" -> Queue!NobodyLeft
      [] part = "box" -> Box!NobodyLeft
      [] part = "flags" -> Flags!NobodyLeft
      [] part = "pool" -> Area!NobodyLeft
      [] OTHER -> NobodyLeft

\* "numbers of thread pended on this resource" (rtdef.h:764), of a pool
PendedCounted == part = "pool" => Area!PendedCounted

\* Message queue and mailbox implement the same bounded FIFO.
Contents ==
    CASE part = "queue" -> [i \in 1..Len(Queue!Chain(head)) |-> data[Queue!Chain(head)[i]]]
      [] part = "box" -> [i \in 1..entry |-> pool[(outOffset + i - 1) % Size]]
      [] OTHER -> <<>>
Nothing == [p \in Peers \union {Isr} |-> None]
Offered == IF part \in {"queue", "box"} THEN arg ELSE Nothing
Received ==
    CASE part = "queue" -> [p \in Peers \union {Isr} |->
                               IF pc[p] = "copy" THEN data[msg[p]] ELSE buf[p]]
      [] part = "box" -> got
      [] OTHER -> Nothing
Fifo == INSTANCE Channel WITH
    Procs <- Peers \union {Isr}, Capacity <- Size,
    chan <- Contents, offer <- Offered, hand <- Received
ImplementsFifo == Fifo!Spec
=============================================================================
